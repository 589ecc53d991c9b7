------------------------- MODULE PartyRelationships -------------------------
(***************************************************************************)
(* POST /:id/parties/:party/relationships of server/routes/v1/transfers.ts:*)
(* the path and the relationship definition are checked by statements of   *)
(* their own, and the INSERT runs in a transaction later.  The unique      *)
(* constraint and the two foreign keys decide what the checks could not.   *)
(***************************************************************************)
EXTENDS FiniteSets

CONSTANTS
    Request,    \* requests of staff holding transfers:write, one handler each
    Party,      \* transfer parties of the caller's institution
    Elsewhere,  \* those of them that belong to another matter than the path's
    Code        \* relationship codes

VARIABLES
    definition,  \* party_relationship_definitions: active, inactive or missing
    assigned,    \* party_relationship_assignments, committed
    open,        \* inserted by a transaction that has not committed
    post,        \* the handlers
    offered      \* history: codes that were active while the handler ran

vars == <<definition, assigned, open, post, offered>>

Row == [party: Party, code: Code, by: Request]
Key(r) == <<r.party, r.code>>

Running == {"transfer", "party", "definition", "insert", "commit"}
Answers == {201, 400, 404, 409, 500}

TypeOK ==
    /\ definition \in [Code -> {"active", "inactive", "missing"}]
    /\ assigned \subseteq Row /\ open \subseteq Row
    /\ \A q \in Request : post[q] = [pc |-> "idle"] \/
          post[q] \in [pc: Running, party: Party, code: Code] \cup
                      [pc: {"done"}, party: Party, code: Code, status: Answers]
    /\ offered \in [Request -> SUBSET Code]

Init ==
    /\ definition \in [Code -> {"active", "missing"}]
    /\ assigned = {} /\ open = {}
    /\ post = [q \in Request |-> [pc |-> "idle"]]
    /\ offered = [q \in Request |-> {}]

Busy(q) == post[q].pc \in Running

-----------------------------------------------------------------------------
(* Administration of the definitions; a code in use cannot be removed.      *)

Define(c, to) ==
    /\ definition[c] # to
    /\ to = "missing" => \A r \in assigned \cup open : r.code # c
    /\ definition' = [definition EXCEPT ![c] = to]
    /\ offered' = [q \in Request |-> IF Busy(q) /\ to = "active"
                                     THEN offered[q] \cup {c} ELSE offered[q]]
    /\ UNCHANGED <<assigned, open, post>>

-----------------------------------------------------------------------------
(* The handler.  The role, the ability and the body are checked first.      *)

Begin(q, p, c) ==
    /\ post[q].pc = "idle"
    /\ post' = [post EXCEPT ![q] = [pc |-> "transfer", party |-> p, code |-> c]]
    /\ offered' = [offered EXCEPT ![q] = {d \in Code : definition[d] = "active"}]
    /\ UNCHANGED <<definition, assigned, open>>

At(q, pc) == post[q].pc = pc
Goto(q, pc) == post' = [post EXCEPT ![q].pc = pc]
Answer(q, s) ==
    post' = [post EXCEPT ![q] = [pc |-> "done", party |-> @.party, code |-> @.code,
                                 status |-> s]]

authorizeTransfer(q) ==
    /\ At(q, "transfer")
    /\ Goto(q, "party") \/ Answer(q, 404)
    /\ UNCHANGED <<definition, assigned, open, offered>>

authorizeTransferParty(q) ==
    /\ At(q, "party")
    /\ IF post[q].party \in Elsewhere THEN Answer(q, 404) ELSE Goto(q, "definition")
    /\ UNCHANGED <<definition, assigned, open, offered>>

\* Faulty variant: the foreign key is trusted to refuse unknown codes.
CheckNothing(q) ==
    /\ At(q, "definition") /\ Goto(q, "insert")
    /\ UNCHANGED <<definition, assigned, open, offered>>

CheckDefinition(q) ==
    /\ At(q, "definition")
    /\ IF definition[post[q].code] = "active" THEN Goto(q, "insert") ELSE Answer(q, 400)
    /\ UNCHANGED <<definition, assigned, open, offered>>

New(q) == [party |-> post[q].party, code |-> post[q].code, by |-> q]

\* Faulty variant: no unique constraint.
TakenByNobody(q) == {}

Taken(q) == {r \in assigned \cup open : Key(r) = Key(New(q))}

\* The INSERT waits for an open transaction with the same key; after its
\* commit the key is taken.  A code removed meanwhile violates the foreign key.
Insert(q) ==
    /\ At(q, "insert") /\ Taken(q) \cap open = {}
    /\ \/ /\ definition[post[q].code] = "missing"
          /\ Answer(q, 400) /\ UNCHANGED open
       \/ /\ definition[post[q].code] # "missing" /\ Taken(q) # {}
          /\ Answer(q, 409) /\ UNCHANGED open
       \/ /\ definition[post[q].code] # "missing" /\ Taken(q) = {}
          /\ open' = open \cup {New(q)}
          /\ Goto(q, "commit")
    /\ UNCHANGED <<definition, assigned, offered>>

Commit(q) ==
    /\ At(q, "commit")
    /\ assigned' = assigned \cup {New(q)} /\ open' = open \ {New(q)}
    /\ Answer(q, 201) \/ Answer(q, 500)
    /\ UNCHANGED <<definition, offered>>

\* A statement fails; the transaction, if any, is rolled back.
Fails(q) ==
    /\ Busy(q)
    /\ open' = open \ {New(q)}
    /\ Answer(q, 500)
    /\ UNCHANGED <<definition, assigned, offered>>

Next ==
    \/ \E c \in Code, to \in {"active", "inactive", "missing"} : Define(c, to)
    \/ \E q \in Request :
          \/ \E p \in Party, c \in Code : Begin(q, p, c)
          \/ authorizeTransfer(q) \/ authorizeTransferParty(q) \/ CheckDefinition(q)
          \/ Insert(q) \/ Commit(q) \/ Fails(q)

Spec == Init /\ [][Next]_vars

-----------------------------------------------------------------------------
(* Properties.                                                              *)

\* However requests race with each other and with the administration of the
\* codes: a party has a relationship once and only inside the matter of the
\* path; the code was active at some time while the request that made the row
\* was running; "created" is said by the request whose row stands, "already
\* assigned" only when another's row stands.
AssignmentsExplained ==
    /\ \A r, s \in assigned : Key(r) = Key(s) => r = s
    /\ \A r \in assigned : r.party \notin Elsewhere /\ r.code \in offered[r.by]
    /\ \A q \in Request : At(q, "done") =>
          /\ post[q].status = 201 => New(q) \in assigned
          /\ post[q].status = 409 => \E r \in assigned : Key(r) = Key(New(q)) /\ r.by # q
=============================================================================

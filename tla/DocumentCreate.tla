--------------------------- MODULE DocumentCreate ---------------------------
(***************************************************************************)
(* Creation of the pending document row, idempotent per client_request_id  *)
(* (create_document in python_server/services/matter_document_service.py,  *)
(* the connection pool and with_transaction of python_server/db.py).       *)
(* Each request runs one READ COMMITTED transaction: look the key up,      *)
(* insert, write the audit row, commit; a unique violation is resolved     *)
(* after the rollback, on another connection.  Requests are single-shot: a *)
(* retry is another request with the same key.  A row is named by the      *)
(* request that inserted it.                                               *)
(***************************************************************************)
EXTENDS Naturals, FiniteSets

CONSTANTS
    Request,     \* POST requests, retries included
    NoRequest,   \* no row
    Key,         \* client_request_ids of one institution
    NoKey,       \* a request without client_request_id
    Payload,     \* what create_fingerprint distinguishes
    PoolSize,    \* db_max_connections
    MaxFaults    \* bound: failures the environment inflicts in a behaviour

ASSUME NoneAssumption == NoRequest \notin Request /\ NoKey \notin Key
ASSUME PoolAssumption == PoolSize \in Nat \ {0} /\ MaxFaults \in Nat

VARIABLES
    pc, key, payload,   \* the requests
    committed,   \* rows of transfer_documents, committed
    answer,      \* the response
    told,        \* the row the response carries
    unlogged,    \* history: requests whose audit INSERT failed
    faults

vars == <<pc, key, payload, committed, answer, told, unlogged, faults>>

\* Steps that hold a pooled connection; the audit INSERT has failed in "aborted".
InTransaction == {"lookup", "insert", "log", "commit", "aborted"}
Step   == {"new", "acquire", "resolve", "done"} \cup InTransaction
Answer == {"none", "created", "replay", "conflict", "rejected", "error"}

TypeOK ==
    /\ pc \in [Request -> Step]
    /\ key \in [Request -> Key \cup {NoKey}]
    /\ payload \in [Request -> Payload]
    /\ committed \subseteq Request
    /\ answer \in [Request -> Answer]
    /\ told \in [Request -> Request \cup {NoRequest}]
    /\ unlogged \subseteq Request
    /\ faults \in 0 .. MaxFaults

\* What the requests will carry is chosen here, and counts from Begin on.
Init ==
    /\ pc = [r \in Request |-> "new"]
    /\ key \in [Request -> Key \cup {NoKey}]
    /\ payload \in [Request -> Payload]
    /\ committed = {}
    /\ answer = [r \in Request |-> "none"]
    /\ told = [r \in Request |-> NoRequest]
    /\ unlogged = {}
    /\ faults = 0

-----------------------------------------------------------------------------
Goto(r, step) == pc' = [pc EXCEPT ![r] = step]

Respond(r, outcome, doc) ==
    /\ Goto(r, "done")
    /\ answer' = [answer EXCEPT ![r] = outcome]
    /\ told' = [told EXCEPT ![r] = doc]

Fault == faults < MaxFaults /\ faults' = faults + 1

SameKey(r, s) == key[r] = key[s] /\ key[r] # NoKey

\* The committed row that carries r's key, if any.
Twin(r) == {s \in committed : SameKey(r, s)}

\* Rows inserted by transactions still open.
Inserted == {r \in Request : pc[r] \in {"log", "commit"}}

ConnectionFree == Cardinality({r \in Request : pc[r] \in InTransaction}) < PoolSize

-----------------------------------------------------------------------------
Begin(r) ==
    /\ pc[r] = "new"
    /\ Goto(r, "acquire")
    /\ UNCHANGED <<key, payload, committed, answer, told, unlogged, faults>>

\* A name, catalogue id or requirement key that fails validation.
Reject(r) ==
    /\ pc[r] = "new"
    /\ Respond(r, "rejected", NoRequest)
    /\ UNCHANGED <<key, payload, committed, unlogged, faults>>

\* pool.acquire waits without a limit.
Acquire(r) ==
    /\ pc[r] = "acquire"
    /\ ConnectionFree
    /\ Goto(r, "lookup")
    /\ UNCHANGED <<key, payload, committed, answer, told, unlogged, faults>>

\* _find_document_by_request in the transaction; skipped without a key.
Lookup(r) ==
    /\ pc[r] = "lookup"
    /\ \/ Twin(r) = {} /\ Goto(r, "insert") /\ UNCHANGED <<answer, told>>
       \/ \E s \in Twin(r) : payload[s] = payload[r] /\ Respond(r, "replay", s)
       \/ \E s \in Twin(r) : payload[s] # payload[r] /\ Respond(r, "conflict", NoRequest)
    /\ UNCHANGED <<key, payload, committed, unlogged, faults>>

\* Faulty variant: the lookup alone guards the key (no unique index).
InsertUnguarded(r) ==
    /\ pc[r] = "insert"
    /\ Goto(r, "log")
    /\ UNCHANGED <<key, payload, committed, answer, told, unlogged, faults>>

\* The unique index on (institution, client_request_id) makes the INSERT wait
\* for an open transaction that inserted the key, and fail on a committed one.
Insert(r) ==
    /\ pc[r] = "insert"
    /\ \A s \in Inserted : ~SameKey(r, s)
    /\ Goto(r, IF Twin(r) = {} THEN "log" ELSE "resolve")
    /\ UNCHANGED <<key, payload, committed, answer, told, unlogged, faults>>

\* Faulty variant: the audit row is written on a connection of its own.
LogWriteApart(r) ==
    /\ pc[r] = "log"
    /\ ConnectionFree
    /\ Goto(r, "commit")
    /\ UNCHANGED <<key, payload, committed, answer, told, unlogged, faults>>

\* record_operation on the transaction's own connection.
LogWrite(r) ==
    /\ pc[r] = "log"
    /\ Goto(r, "commit")
    /\ UNCHANGED <<key, payload, committed, answer, told, unlogged, faults>>

\* The audit INSERT fails.  record_operation swallows the exception, but the
\* server has aborted the transaction and dropped its locks.
LogWriteFails(r) ==
    /\ pc[r] = "log"
    /\ Fault
    /\ Goto(r, "aborted")
    /\ unlogged' = unlogged \cup {r}
    /\ UNCHANGED <<key, payload, committed, answer, told>>

\* Faulty variant: the response's message is returned where the outcome belongs.
CommitMessage(r) ==
    /\ pc[r] = "commit"
    /\ committed' = committed \cup {r}
    /\ Respond(r, "OK", r)
    /\ UNCHANGED <<key, payload, unlogged, faults>>

Commit(r) ==
    /\ pc[r] = "commit"
    /\ committed' = committed \cup {r}
    /\ Respond(r, "created", r)
    /\ UNCHANGED <<key, payload, unlogged, faults>>

\* COMMIT of an aborted transaction rolls back and reports no error.
CommitAborted(r) ==
    /\ pc[r] = "aborted"
    /\ Respond(r, "created", r)
    /\ UNCHANGED <<key, payload, committed, unlogged, faults>>

\* Faulty variant: the loser takes whatever row has its key.
ResolveUnchecked(r) ==
    /\ pc[r] = "resolve"
    /\ ConnectionFree
    /\ \E s \in Twin(r) : Respond(r, "replay", s)
    /\ UNCHANGED <<key, payload, committed, unlogged, faults>>

\* After the rollback: the committed row decides, and no row means a conflict.
Resolve(r) ==
    /\ pc[r] = "resolve"
    /\ ConnectionFree
    /\ \/ \E s \in Twin(r) : payload[s] = payload[r] /\ Respond(r, "replay", s)
       \/ /\ \A s \in Twin(r) : payload[s] # payload[r]
          /\ Respond(r, "conflict", NoRequest)
    /\ UNCHANGED <<key, payload, committed, unlogged, faults>>

\* A statement raises, the connection breaks or the process dies: the server
\* rolls the transaction back and the caller learns nothing.
Fails(r) ==
    /\ pc[r] \in InTransaction \cup {"resolve"}
    /\ Fault
    /\ Respond(r, "error", NoRequest)
    /\ UNCHANGED <<key, payload, committed, unlogged>>

\* The COMMIT is done and its response, or the HTTP response, is lost.
ResponseLost(r) ==
    /\ pc[r] = "commit"
    /\ Fault
    /\ committed' = committed \cup {r}
    /\ Respond(r, "error", NoRequest)
    /\ UNCHANGED <<key, payload, unlogged>>

-----------------------------------------------------------------------------
\* What the server does of itself with a request it has received.
Progress(r) ==
    \/ Acquire(r) \/ Lookup(r) \/ Insert(r) \/ LogWrite(r)
    \/ Commit(r) \/ CommitAborted(r) \/ Resolve(r)

Failure(r) == LogWriteFails(r) \/ Fails(r) \/ ResponseLost(r)

Next == \E r \in Request : Begin(r) \/ Reject(r) \/ Progress(r) \/ Failure(r)

Spec == Init /\ [][Next]_vars

\* The event loop and the database serve every request they have accepted.
FairSpec == Spec /\ \A r \in Request : WF_vars(Progress(r))

(***************************************************************************)
(* "Add" in MatterDocumentsSection.tsx: the button is disabled while a     *)
(* request is out, the name is cleared on success and kept on failure, and *)
(* every click draws a client_request_id of its own.                       *)
(***************************************************************************)
handleAddFreeform(r) ==
    /\ Begin(r)
    /\ key[r] # NoKey
    /\ \A s \in Request \ {r} : pc[s] # "new" =>
          /\ ~SameKey(r, s)
          /\ pc[s] = "done"
          /\ payload[s] = payload[r] => answer[s] \in {"error", "rejected"}

BrowserNext ==
    \E r \in Request : handleAddFreeform(r) \/ Reject(r) \/ Progress(r) \/ Failure(r)

BrowserSpec == Init /\ [][BrowserNext]_vars

-----------------------------------------------------------------------------
\* However many requests race on a client_request_id, one row carries it: the
\* duplicate check and the insert are separate statements, and only the index
\* and the wait on an open transaction keep two racing requests apart.
OneRowPerKey == \A r, s \in committed : SameKey(r, s) => r = s

\* A caller is told of a row that is there, for its own payload and key; and of
\* a conflict only if its key is taken by another payload.  Excepted is the
\* request whose audit row failed (see AuditFailureDoesNotRollBack), and no
\* replay ever carries such a row.
TruthfulAnswers ==
    \A r \in Request :
        /\ answer[r] = "created" => r \in committed \cup unlogged
        /\ answer[r] = "replay" =>
              told[r] \in committed /\ SameKey(r, told[r]) /\ payload[told[r]] = payload[r]
        /\ answer[r] = "conflict" =>
              \E s \in committed : SameKey(r, s) /\ payload[s] # payload[r]

\* Every request is answered: no wait on the pool, on an open transaction or on
\* both closes a circle, with as little as one connection.
EveryRequestAnswered ==
    \A r \in Request : pc[r] = "acquire" ~> pc[r] = "done"

\* "the business operation must not roll back because the audit lane failed":
\* the row a creation reported is there.
AuditFailureDoesNotRollBack ==
    \A r \in Request : answer[r] = "created" => told[r] \in committed

\* "a lost response retries to the same row": adding the same document again
\* after a failure leaves one row.
RetryFindsTheRow ==
    \A r, s \in committed : payload[r] = payload[s] => r = s

\* What the two invariants rest on: committed and open rows have distinct keys,
\* a committed row's request is over, and a lost race has a winner.
CreateInv ==
    /\ \A r, s \in committed \cup Inserted : SameKey(r, s) => r = s
    /\ \A r \in committed : pc[r] = "done"
    /\ \A r \in Request : pc[r] = "resolve" => Twin(r) # {}
    /\ \A r \in Request : pc[r] = "aborted" => r \in unlogged
    /\ TruthfulAnswers
=============================================================================

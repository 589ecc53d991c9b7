------------------------ MODULE GoldenRecordSearch --------------------------
(***************************************************************************)
(* A new matter begins with a search of the golden records                 *)
(* (createGoldenRecordSearchSession, GoldenRecordsApi, NewTransfer) and    *)
(* carries what was found through the browser's history to the workflow,   *)
(* where it prefills the buyer (navigationState, StepParties).  Nothing    *)
(* cancels a call: the answer to a search that was edited, left or         *)
(* repeated still arrives, in any order, and history entries outlive the   *)
(* session that wrote them.                                                *)
(***************************************************************************)
EXTENDS Naturals, FiniteSets

CONSTANTS
    Term,        \* search terms other than the blank one
    Type,        \* entity types, "person" among them
    Id,          \* tells apart the records that match one search
    NoRecord,
    MaxVersion,  \* bound: requestVersion of one mounted search
    MaxSession,  \* bound: sessionGeneration
    MaxEntries   \* bound: history entries of the workflow

VARIABLES
    search,      \* GoldenRecordSearchState
    active, version, pending,   \* the closure's active, requestVersion and pending
    calls,       \* searches and retrievals under way
    page,        \* the route that is mounted; NewTransfer in its two steps
    generation,  \* sessionGeneration; somebody is signed in unless page = "login"
    scope,       \* navigationScope, by the generation that drew it; 0 is null
    history,     \* the history entries that carry a record or a search
    here,        \* the entry the workflow was opened with, or NoRecord
    buyer        \* the buyer StepParties prefilled, or NoRecord

guard == <<active, version, pending>>
navigation == <<page, generation, scope, history, here, buyer>>
vars == <<search, guard, calls, navigation>>

Blank  == "blank"
Query  == [term: Term \cup {Blank}, type: Type]
Record == [term: Term, type: Type, id: Id]
Entry  == [record: Record \cup {NoRecord}, type: Type, by: Nat, scope: Nat]

Matching(q) == {r \in Record : r.term = q.term /\ r.type = q.type}
Asked == [term |-> search.term, type |-> search.type]
NewQuery == [term |-> Blank, type |-> "person"]

TypeOK ==
    /\ search \in [term: Term \cup {Blank}, type: Type, searching: BOOLEAN, retrieving: BOOLEAN,
                   result: Record \cup {NoRecord}, target: Record \cup {NoRecord},
                   candidates: SUBSET Record, failed: BOOLEAN]
    /\ active \in BOOLEAN /\ version \in Nat /\ pending \in BOOLEAN
    /\ calls \subseteq [version: Nat, ask: Query, ref: Record \cup {NoRecord}]
    /\ page \in {"login", "elsewhere", "matter", "search", "workflow"}
    /\ generation \in Nat /\ scope \in Nat
    /\ history \subseteq Entry /\ here \in history \cup {NoRecord}
    /\ buyer \in Entry \cup {NoRecord}

\* emptySelection(), with the query q.
Selection(q) ==
    [term |-> q.term, type |-> q.type, searching |-> FALSE, retrieving |-> FALSE,
     result |-> NoRecord, target |-> NoRecord, candidates |-> {}, failed |-> FALSE]

Init ==
    /\ search = Selection(NewQuery)
    /\ active = FALSE /\ version = 0 /\ pending = FALSE /\ calls = {}
    /\ page = "elsewhere" /\ generation = 1 /\ scope = 0
    /\ history = {} /\ here = NoRecord /\ buyer = NoRecord

-----------------------------------------------------------------------------
(* The search.                                                              *)

current(v) == active /\ version = v

resetSearch(q) ==
    /\ version < MaxVersion
    /\ version' = version + 1 /\ pending' = FALSE
    /\ search' = Selection(q)

\* Typing and choosing a type, the same one again too, stay possible while a
\* call runs.
SetQuery(q) ==
    /\ active
    /\ q.term = search.term \/ q.type = search.type
    /\ resetSearch(q)
    /\ UNCHANGED <<active, calls, navigation>>

\* A blank query fails in the client, before any call.
SearchBlank ==
    /\ active /\ ~pending /\ search.term = Blank /\ version < MaxVersion
    /\ version' = version + 1
    /\ search' = [Selection(Asked) EXCEPT !.failed = TRUE]
    /\ UNCHANGED <<active, pending, calls, navigation>>

handleSearch ==
    /\ active /\ ~pending /\ search.term # Blank /\ version < MaxVersion
    /\ version' = version + 1 /\ pending' = TRUE
    /\ search' = [Selection(Asked) EXCEPT !.searching = TRUE]
    /\ calls' = calls \cup {[version |-> version + 1, ask |-> Asked, ref |-> NoRecord]}
    /\ UNCHANGED <<active, navigation>>

\* retrieve(): the selection gives way to the record that is fetched.
retrieve(r, v, others) ==
    /\ pending' = TRUE
    /\ search' = [Selection(Asked) EXCEPT !.retrieving = TRUE, !.target = r]
    /\ calls' = others \cup {[version |-> v, ask |-> Asked, ref |-> r]}

handleSelectCandidate(r) ==
    /\ active /\ ~pending /\ r \in search.candidates /\ version < MaxVersion
    /\ version' = version + 1
    /\ retrieve(r, version + 1, calls)
    /\ UNCHANGED <<active, navigation>>

retryRetrieval ==
    /\ active /\ ~pending /\ search.target # NoRecord /\ search.failed /\ version < MaxVersion
    /\ version' = version + 1
    /\ retrieve(search.target, version + 1, calls)
    /\ UNCHANGED <<active, navigation>>

\* An answer that is no longer current changes nothing.
Dropped(c) ==
    /\ c \in calls /\ ~current(c.version)
    /\ calls' = calls \ {c}
    /\ UNCHANGED <<search, guard, navigation>>

\* One match is fetched in the same request version.
SearchMatches(c, r) ==
    /\ c \in calls /\ current(c.version) /\ c.ref = NoRecord /\ r \in Matching(c.ask)
    /\ retrieve(r, c.version, calls \ {c})
    /\ UNCHANGED <<active, version, navigation>>

Settle(c, selection) ==
    /\ search' = [selection EXCEPT !.searching = FALSE, !.retrieving = FALSE]
    /\ pending' = FALSE
    /\ calls' = calls \ {c}
    /\ UNCHANGED <<active, version, navigation>>

\* Several matches; a list with a record of another type counts as a failure.
SearchIsAmbiguous(c, R) ==
    /\ c \in calls /\ current(c.version) /\ c.ref = NoRecord
    /\ R \subseteq Matching(c.ask) /\ R # {}
    /\ Settle(c, [search EXCEPT !.candidates = R])

\* Not found, refused, malformed, unreachable: the reference stays for a retry.
CallFails(c) ==
    /\ c \in calls /\ current(c.version)
    /\ Settle(c, [search EXCEPT !.failed = TRUE])

\* The id and the type of the answer have been compared with the request's.
RetrieveAnswers(c) ==
    /\ c \in calls /\ current(c.version) /\ c.ref # NoRecord
    /\ Settle(c, [search EXCEPT !.result = c.ref, !.target = NoRecord])

-----------------------------------------------------------------------------
(* The pages.                                                               *)

\* readNavigationState: an entry speaks only under the scope that wrote it.
readNavigationState(e) == scope # 0 /\ e # NoRecord /\ e.scope = scope

\* setActive(false): the search is over, its calls answer to nobody.
Unmount ==
    /\ search' = Selection(NewQuery)
    /\ active' = FALSE /\ version' = 0 /\ pending' = FALSE /\ calls' = {}

OpenNewTransfer ==
    /\ page = "elsewhere" /\ page' = "matter"
    /\ UNCHANGED <<search, guard, calls, generation, scope, history, here, buyer>>

handleContinueToSearch ==
    /\ page = "matter" /\ page' = "search" /\ active' = TRUE
    /\ UNCHANGED <<search, version, pending, calls, generation, scope, history, here, buyer>>

Leave ==
    /\ page \in {"matter", "search", "workflow"} /\ page' = "elsewhere"
    /\ here' = NoRecord /\ buyer' = NoRecord
    /\ Unmount
    /\ UNCHANGED <<generation, scope, history>>

\* bindNavigationState draws a scope once in a session; the buyer is added when
\* the step with the parties is shown and there is none.
ToWorkflow(r) ==
    LET s == IF scope = 0 THEN generation ELSE scope
        e == [record |-> r, type |-> search.type, by |-> generation, scope |-> s]
    IN  /\ page = "search" /\ page' = "workflow"
        /\ Cardinality(history) < MaxEntries
        /\ scope' = s /\ history' = history \cup {e} /\ here' = e /\ buyer' = e
        /\ Unmount
        /\ UNCHANGED generation

handleContinueWithRecord ==
    /\ search.result # NoRecord /\ ~search.searching /\ ~search.retrieving
    /\ ToWorkflow(search.result)

\* Manual capture is offered at any time, also while a search runs.
handleContinueWithoutRecord == ToWorkflow(NoRecord)

\* The browser's back and forward buttons; a buyer who is there stays.
Revisit(e) ==
    /\ page # "login" /\ page' = "workflow"
    /\ e \in history /\ here' = e
    /\ buyer' = IF buyer = NoRecord /\ readNavigationState(e) THEN e ELSE buyer
    /\ Unmount
    /\ UNCHANGED <<generation, scope, history>>

\* The session ends; every guarded page gives way to the login.
clearSession ==
    /\ page # "login" /\ generation < MaxSession /\ page' = "login"
    /\ generation' = generation + 1 /\ scope' = 0
    /\ here' = NoRecord /\ buyer' = NoRecord
    /\ Unmount
    /\ UNCHANGED history

Login ==
    /\ page = "login" /\ generation < MaxSession /\ page' = "elsewhere"
    /\ generation' = generation + 1 /\ scope' = 0
    /\ UNCHANGED <<search, guard, calls, history, here, buyer>>

\* Another principal under a mounted page (setSession), or a reload of the tab:
\* everything below RequireAuth is mounted again, at the same history entry.
Remount ==
    /\ page # "login" /\ generation < MaxSession
    /\ generation' = generation + 1 /\ scope' = 0
    /\ page' = IF page = "search" THEN "matter" ELSE page
    /\ buyer' = NoRecord
    /\ Unmount
    /\ UNCHANGED <<history, here>>

Answer ==
    \E c \in calls : \/ Dropped(c) \/ CallFails(c) \/ RetrieveAnswers(c)
                     \/ \E r \in Record : SearchMatches(c, r)
                     \/ \E R \in SUBSET Record : SearchIsAmbiguous(c, R)

Next ==
    \/ \E q \in Query : SetQuery(q)
    \/ SearchBlank \/ handleSearch \/ retryRetrieval
    \/ \E r \in Record : handleSelectCandidate(r)
    \/ Answer
    \/ OpenNewTransfer \/ handleContinueToSearch \/ Leave
    \/ handleContinueWithRecord \/ handleContinueWithoutRecord
    \/ \E e \in history : Revisit(e)
    \/ clearSession \/ Login \/ Remount

Spec == Init /\ [][Next]_vars

-----------------------------------------------------------------------------
(* Properties.                                                              *)

\* What the page shows and fetches is of the query that stands in its fields,
\* whichever answer came last.
ShownIsAsked ==
    /\ search.candidates \subseteq Matching(Asked)
    /\ {search.result, search.target} \ {NoRecord} \subseteq Matching(Asked)

\* The page is busy exactly while one call of its current request is under way:
\* it never stays busy for an answer it will drop, nor runs two at a time.
BusyIsOneCall ==
    LET mine == {c \in calls : current(c.version)}
    IN  /\ pending <=> mine # {}
        /\ \A c, d \in mine : c = d
        /\ pending <=> search.searching \/ search.retrieving

\* The buyer that appears in the workflow was chosen in the session that shows
\* it, though the history entry that names it outlives sessions.
BuyerOfSession == buyer # NoRecord => buyer.by = generation
=============================================================================

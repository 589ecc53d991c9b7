--------------------------- MODULE TransfersList ----------------------------
(***************************************************************************)
(* The list of transfers (TransfersDashboard, useTransfers.fetchTransfers) *)
(* and the route that answers it.  A click on a filter or on a page starts *)
(* a request beside those under way; the server counts, selects the rows   *)
(* and totals the institution in three statements, while transfers are     *)
(* created, change status or are deleted.                                  *)
(***************************************************************************)
EXTENDS Naturals, FiniteSets

CONSTANTS
    MaxTransfer,   \* bound: transfers of the institution, numbered by age
    Limit,         \* rows of a page (10 in the code)
    MaxRequest,    \* bound: listRequest
    MaxChanges,    \* bound: changes of the institution's transfers
    Unread, NoTotals

VARIABLES
    page,          \* what TransfersDashboard and its useTransfers hold
    listRequest,   \* the ref of useTransfers
    calls,         \* requests under way
    status,        \* transfers.status; "none" of a transfer that is not there
    changes

vars == <<page, listRequest, calls, status, changes>>

Transfer == 1 .. MaxTransfer
Stored == {"draft", "in_progress", "complete"}
Filter == {"all", "in_progress", "complete"}
Pages == 1 .. MaxRequest

\* The rows with the status they were read with.
Rows == UNION {[s -> Stored] : s \in SUBSET Transfer}
Totals == [total: 0 .. MaxTransfer, inProgress: 0 .. MaxTransfer, completed: 0 .. MaxTransfer]
Pagination == [page: Pages, total: 0 .. MaxTransfer]
Call == [request: 1 .. MaxRequest, filter: Filter, page: Pages,
         total: 0 .. MaxTransfer \cup {Unread}, rows: Rows \cup {Unread}, totals: Totals \cup {Unread}]

None == [t \in {} |-> "draft"]

TypeOK ==
    /\ page \in [mounted: BOOLEAN, filter: Filter, page: Pages, transfers: Rows,
                 pagination: Pagination \cup {NoTotals}, statusTotals: Totals \cup {NoTotals},
                 isLoading: BOOLEAN, error: BOOLEAN]
    /\ listRequest \in 0 .. MaxRequest
    /\ calls \subseteq Call
    /\ status \in [Transfer -> Stored \cup {"none"}]
    /\ changes \in 0 .. MaxChanges

-----------------------------------------------------------------------------
(* The page.                                                                *)

\* fetchTransfers clears what the last answer showed, before it asks.
Fetching(filter, p) ==
    /\ listRequest < MaxRequest
    /\ listRequest' = listRequest + 1
    /\ page' = [mounted |-> TRUE, filter |-> filter, page |-> p, transfers |-> None,
                pagination |-> NoTotals, statusTotals |-> NoTotals, isLoading |-> TRUE, error |-> FALSE]
    /\ calls' = calls \cup {[request |-> listRequest + 1, filter |-> filter, page |-> p,
                             total |-> Unread, rows |-> Unread, totals |-> Unread]}
    /\ UNCHANGED <<status, changes>>

\* The mount, whose effect has run.
Init ==
    /\ listRequest = 1
    /\ page = [mounted |-> TRUE, filter |-> "all", page |-> 1, transfers |-> None,
               pagination |-> NoTotals, statusTotals |-> NoTotals, isLoading |-> TRUE, error |-> FALSE]
    /\ calls = {[request |-> 1, filter |-> "all", page |-> 1,
                 total |-> Unread, rows |-> Unread, totals |-> Unread]}
    /\ status \in [Transfer -> {"none", "in_progress", "complete"}]
    /\ changes = 0

\* The effect runs again only when the filter or the page is another one.
selectStatus(f) ==
    /\ page.mounted /\ <<f, 1>> # <<page.filter, page.page>>
    /\ Fetching(f, 1)

totalPages(p) == IF p.total = 0 THEN 1 ELSE (p.total + Limit - 1) \div Limit

\* The buttons stand under a list only.
Paging == page.mounted /\ ~page.isLoading /\ ~page.error /\ page.pagination # NoTotals

PreviousPage == Paging /\ page.page > 1 /\ Fetching(page.filter, page.page - 1)

NextPage == Paging /\ page.page < totalPages(page.pagination) /\ Fetching(page.filter, page.page + 1)

\* Another page of the application: the request counter moves on with it.
Leave ==
    /\ page.mounted /\ listRequest < MaxRequest
    /\ listRequest' = listRequest + 1
    /\ page' = [page EXCEPT !.mounted = FALSE]
    /\ UNCHANGED <<calls, status, changes>>

-----------------------------------------------------------------------------
(* The route: three statements, no transaction.                             *)

Matches(filter, s) == s # "none" /\ filter \in {"all", s}

Selected(filter) == {t \in Transfer : Matches(filter, status[t])}

Count(filter) == Cardinality(Selected(filter))

Total(c) ==
    /\ c \in calls /\ c.total = Unread
    /\ calls' = (calls \ {c}) \cup {[c EXCEPT !.total = Count(c.filter)]}
    /\ UNCHANGED <<page, listRequest, status, changes>>

\* ORDER BY created_at DESC, LIMIT and OFFSET.
Select(c) ==
    LET Rank(t) == Cardinality({u \in Selected(c.filter) : u > t})
        OnPage == {t \in Selected(c.filter) : Rank(t) \div Limit = c.page - 1}
    IN  /\ c \in calls /\ c.total # Unread /\ c.rows = Unread
        /\ calls' = (calls \ {c}) \cup {[c EXCEPT !.rows = [t \in OnPage |-> status[t]]]}
        /\ UNCHANGED <<page, listRequest, status, changes>>

TotalInstitution(c) ==
    /\ c \in calls /\ c.rows # Unread /\ c.totals = Unread
    /\ calls' = (calls \ {c}) \cup
                {[c EXCEPT !.totals = [total |-> Count("all"), inProgress |-> Count("in_progress"),
                                       completed |-> Count("complete")]]}
    /\ UNCHANGED <<page, listRequest, status, changes>>

\* A transfer is created as the newest, changes its status, or is deleted.
Change(t, s) ==
    /\ changes < MaxChanges /\ changes' = changes + 1
    /\ s # status[t]
    /\ status[t] = "none" => \A u \in Transfer : u > t => status[u] = "none"
    /\ status' = [status EXCEPT ![t] = s]
    /\ UNCHANGED <<page, listRequest, calls>>

-----------------------------------------------------------------------------
(* The answer.                                                              *)

\* Faulty variant: every answer to a mounted page is taken.
AnyAnswer(c) == c \in calls

Current(c) == c.request = listRequest

\* An answer that a later request, or the unmount, has overtaken is dropped.
Answer(c) ==
    /\ c \in calls /\ c.totals # Unread
    /\ calls' = calls \ {c}
    /\ page' = IF Current(c)
               THEN [page EXCEPT !.transfers = c.rows, !.isLoading = FALSE, !.error = FALSE,
                                 !.pagination = [page |-> c.page, total |-> c.total],
                                 !.statusTotals = c.totals]
               ELSE page
    /\ UNCHANGED <<listRequest, status, changes>>

\* A refusal, a lost reply, or an answer getTransfers finds malformed.
Fails(c) ==
    /\ c \in calls
    /\ calls' = calls \ {c}
    /\ page' = IF Current(c) THEN [page EXCEPT !.isLoading = FALSE, !.error = TRUE] ELSE page
    /\ UNCHANGED <<listRequest, status, changes>>

Next ==
    \/ \E f \in Filter : selectStatus(f)
    \/ PreviousPage \/ NextPage \/ Leave
    \/ \E c \in calls : Total(c) \/ Select(c) \/ TotalInstitution(c) \/ Answer(c) \/ Fails(c)
    \/ \E t \in Transfer, s \in Stored \cup {"none"} : Change(t, s)

Spec == Init /\ [][Next]_vars

-----------------------------------------------------------------------------
(* Properties.                                                              *)

\* A list on the page is the answer to the filter and the page that its buttons
\* show, in whatever order the requests were answered.
ListIsSelected ==
    page.mounted /\ page.pagination # NoTotals =>
        /\ page.pagination.page = page.page
        /\ \A t \in DOMAIN page.transfers : Matches(page.filter, page.transfers[t])
        /\ Cardinality(DOMAIN page.transfers) <= Limit

\* The page says it is loading exactly as long as its newest request is under
\* way: no older answer ends the wait, and no dropped one leaves it behind.
LoadingIsNewest ==
    page.mounted => (page.isLoading <=> \E c \in calls : Current(c))
=============================================================================

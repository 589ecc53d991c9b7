------------------------- MODULE ProformaStatement --------------------------
(***************************************************************************)
(* The statement of account of a transfer: the tab that loads and edits it *)
(* (TransferAccountsTab), the two routes behind it (accounts.ts) and the   *)
(* tables of migration 017.  A version number is all that tells the tab    *)
(* which answer is the newest; the routes keep each statement in memory    *)
(* and in a row, and write its figures beside it in one transaction whose  *)
(* failure they keep to themselves.  The transfer's own routes write those *)
(* figures as well, and not from a statement.                              *)
(* The routes are quarantined (each answers 503 for now, a CallFails here):*)
(* this is what they do once they are opened.                              *)
(***************************************************************************)
EXTENDS Naturals, FiniteSets

CONSTANTS
    Transfer,
    Content,       \* what a statement says
    Generated,     \* the content of a statement as it is generated
    NoStatement,
    MaxVersion,    \* bound: requestVersion
    MaxCalls,      \* bound: calls under way
    MaxIds,        \* bound: statements generated; no two within one millisecond
    MaxFaults      \* bound: failures of the database, lost replies and restarts

VARIABLES
    tab,           \* what TransferAccountsTab holds, and whether its effect is due
    version,       \* its requestVersion
    calls,         \* its calls under way, and what the server has done for each
    cache,         \* inMemoryTenantStatements of the institution
    rows,          \* proforma_statements, with the start of the transaction that wrote it
    figures,       \* transfer_financials: the statement each column was taken from, if any
    ids,           \* the statements generated so far
    faults

vars == <<tab, version, calls, cache, rows, figures, ids, faults>>
server == <<cache, rows, figures, ids>>

\* The columns a statement writes; a PUT of the transfer may write some of them.
Figure == {"price", "costs"}
Taken(s) == [f \in Figure |-> s]

Statement == [id: 1 .. MaxIds, transfer: Transfer, content: Content]
Row == [statement: Statement, updated: 1 .. MaxVersion]
Stage == {"sent", "generate", "open", "row", "figures", "answered"}
Call == [kind: {"load", "save"}, version: 1 .. MaxVersion, transfer: Transfer,
         statement: Statement \cup {NoStatement}, stage: Stage, awaited: BOOLEAN,
         began: 0 .. MaxVersion]

TypeOK ==
    /\ tab \in [transfer: Transfer, due: BOOLEAN, statement: Statement \cup {NoStatement},
                loadedFor: Transfer \cup {NoStatement}, isLoading: BOOLEAN, isSaving: BOOLEAN,
                savedSuccess: BOOLEAN, error: BOOLEAN]
    /\ version \in 1 .. MaxVersion
    /\ calls \subseteq Call
    /\ cache \in [Transfer -> Statement \cup {NoStatement}]
    /\ rows \subseteq Row /\ \A r, s \in rows : r.statement.id = s.statement.id => r = s
    /\ figures \in [Transfer -> [Figure -> Statement \cup {NoStatement}]]
    /\ ids \in 0 .. MaxIds /\ faults \in 0 .. MaxFaults

LoadOf(t, v) == [kind |-> "load", version |-> v, transfer |-> t, statement |-> NoStatement,
                 stage |-> "sent", awaited |-> TRUE, began |-> 0]

\* A mount, whose effect has run.
Init ==
    /\ \E t \in Transfer :
        /\ tab = [transfer |-> t, due |-> FALSE, statement |-> NoStatement, loadedFor |-> NoStatement,
                  isLoading |-> TRUE, isSaving |-> FALSE, savedSuccess |-> FALSE, error |-> FALSE]
        /\ calls = {LoadOf(t, 1)}
    /\ version = 1
    /\ cache = [t \in Transfer |-> NoStatement] /\ rows = {}
    /\ figures = [t \in Transfer |-> Taken(NoStatement)]
    /\ ids = 0 /\ faults = 0

Room == Cardinality(calls) < MaxCalls /\ version < MaxVersion

-----------------------------------------------------------------------------
(* The tab.                                                                 *)

\* Another transfer, or another price or party of the same: the page is drawn
\* with it before the effect that loads it runs.
Rerender(t) ==
    /\ ~tab.due
    /\ tab' = [tab EXCEPT !.transfer = t, !.due = TRUE]
    /\ UNCHANGED <<version, calls, server, faults>>

\* The clean-up and loadAccounts each raise the version; here they are one step.
loadAccounts ==
    /\ tab.due /\ Room
    /\ version' = version + 1
    /\ tab' = [tab EXCEPT !.due = FALSE, !.statement = NoStatement, !.isLoading = TRUE,
                          !.isSaving = FALSE, !.savedSuccess = FALSE, !.error = FALSE]
    /\ calls' = calls \cup {LoadOf(tab.transfer, version + 1)}
    /\ UNCHANGED <<server, faults>>

\* Faulty variant: what is in the state is drawn for whatever transfer.
DrawnForAny == ~tab.error /\ ~tab.isLoading /\ tab.statement # NoStatement

Drawn == ~tab.error /\ ~tab.isLoading /\ tab.statement # NoStatement /\ tab.loadedFor = tab.transfer

\* The buttons of the tab and of ProformaStatementView send a whole statement,
\* the one on the page with a change; they stay enabled during a save.
handleUpdateStatement(content) ==
    /\ Drawn /\ Room /\ content # tab.statement.content
    /\ version' = version + 1
    /\ tab' = [tab EXCEPT !.isSaving = TRUE, !.savedSuccess = FALSE]
    /\ calls' = calls \cup {[kind |-> "save", version |-> version + 1,
                             transfer |-> tab.statement.transfer,
                             statement |-> [tab.statement EXCEPT !.content = content],
                             stage |-> "sent", awaited |-> TRUE, began |-> 0]}
    /\ UNCHANGED <<server, faults>>

\* 2.5 seconds later.
SavedMessageEnds ==
    /\ tab.savedSuccess
    /\ tab' = [tab EXCEPT !.savedSuccess = FALSE]
    /\ UNCHANGED <<version, calls, server, faults>>

-----------------------------------------------------------------------------
(* GET proforma: the newest row, else the memory, else a new statement.     *)

Put(c, d) == calls' = (calls \ {c}) \cup (IF d.stage = "answered" /\ ~d.awaited THEN {} ELSE {d})

Answer(c, s) == Put(c, [c EXCEPT !.stage = "answered", !.statement = s])

Newest(t) == {r \in rows : /\ r.statement.transfer = t
                           /\ \A s \in rows : s.statement.transfer = t => s.updated <= r.updated}

FindRow(c) ==
    /\ c \in calls /\ c.kind = "load" /\ c.stage = "sent"
    /\ \E r \in Newest(c.transfer) : Answer(c, r.statement)
    /\ UNCHANGED <<tab, version, server, faults>>

\* No row, or the query fails: a warning, and the memory is asked.
FindCached(c) ==
    /\ c \in calls /\ c.kind = "load" /\ c.stage = "sent"
    /\ IF Newest(c.transfer) = {} THEN UNCHANGED faults ELSE faults < MaxFaults /\ faults' = faults + 1
    /\ IF cache[c.transfer] # NoStatement THEN Answer(c, cache[c.transfer])
       ELSE Put(c, [c EXCEPT !.stage = "generate"])
    /\ UNCHANGED <<tab, version, server>>

\* After the transfer, its figures, parties and the firm's settings were read.
Generate(c) ==
    /\ c \in calls /\ c.stage = "generate" /\ ids < MaxIds
    /\ LET s == [id |-> ids + 1, transfer |-> c.transfer, content |-> Generated]
       IN  Answer(c, s) /\ cache' = [cache EXCEPT ![c.transfer] = s]
    /\ ids' = ids + 1
    /\ UNCHANGED <<tab, version, rows, figures, faults>>

-----------------------------------------------------------------------------
(* PUT proforma: the memory first, then one transaction.                    *)

Begun == {c.began : c \in calls} \cup {r.updated : r \in rows}
Clock == CHOOSE n \in 1 .. MaxVersion : n - 1 \in Begun /\ \A b \in Begun : b < n

SaveArrives(c) ==
    /\ c \in calls /\ c.kind = "save" /\ c.stage = "sent"
    /\ cache' = [cache EXCEPT ![c.transfer] = c.statement]
    /\ Put(c, [c EXCEPT !.stage = "open", !.began = Clock])
    /\ UNCHANGED <<tab, version, rows, figures, ids, faults>>

\* The upserts wait for the transaction that has written the same row.
WriteRow(c) ==
    /\ c \in calls /\ c.stage = "open"
    /\ \A d \in calls : d.stage \in {"row", "figures"} => d.statement.id # c.statement.id
    /\ Put(c, [c EXCEPT !.stage = "row"])
    /\ UNCHANGED <<tab, version, server, faults>>

\* Faulty variant: the figures are written on another connection.
WriteFiguresApart(c) ==
    /\ c \in calls /\ c.stage = "row"
    /\ figures' = [figures EXCEPT ![c.transfer] = Taken(c.statement)]
    /\ Put(c, [c EXCEPT !.stage = "figures"])
    /\ UNCHANGED <<tab, version, cache, rows, ids, faults>>

WriteFigures(c) ==
    /\ c \in calls /\ c.stage = "row"
    /\ \A d \in calls : d.stage = "figures" => d.transfer # c.transfer
    /\ Put(c, [c EXCEPT !.stage = "figures"])
    /\ UNCHANGED <<tab, version, server, faults>>

Commit(c) ==
    /\ c \in calls /\ c.stage = "figures"
    /\ rows' = {r \in rows : r.statement.id # c.statement.id}
               \cup {[statement |-> c.statement, updated |-> c.began]}
    /\ figures' = [figures EXCEPT ![c.transfer] = Taken(c.statement)]
    /\ Answer(c, c.statement)
    /\ UNCHANGED <<tab, version, cache, ids, faults>>

\* POST and PUT of a transfer write its figures, all or some, in a transaction
\* that waits for a save that has written them.
OwnFigures(t, given) ==
    /\ \A d \in calls : d.stage = "figures" => d.transfer # t
    /\ figures' = [figures EXCEPT ![t] = [f \in Figure |-> IF f \in given THEN NoStatement ELSE @[f]]]
    /\ UNCHANGED <<tab, version, calls, cache, rows, ids, faults>>

\* The transaction fails and rolls back; the caller is told of success.
RollsBack(c) ==
    /\ c \in calls /\ c.stage \in {"open", "row", "figures"}
    /\ faults < MaxFaults /\ faults' = faults + 1
    /\ Answer(c, c.statement)
    /\ UNCHANGED <<tab, version, server>>

\* The process is replaced: its memory is gone, and with it its open calls.
Restart ==
    /\ faults < MaxFaults /\ faults' = faults + 1
    /\ cache' = [t \in Transfer |-> NoStatement]
    /\ calls' = {c \in calls : c.stage \in {"sent", "answered"}}
    /\ \E c \in calls : c.stage \notin {"sent", "answered"} \/ cache # cache'
    /\ LET lost == {c \in calls : c.awaited /\ c.version = version} \ calls'
       IN  tab' = IF lost = {} THEN tab
                  ELSE [tab EXCEPT !.statement = NoStatement, !.isLoading = FALSE,
                                   !.isSaving = FALSE, !.error = TRUE]
    /\ UNCHANGED <<version, rows, figures, ids>>

-----------------------------------------------------------------------------
(* The answers.                                                             *)

Current(c) == c.version = version

LoadAnswers(c) ==
    /\ c \in calls /\ c.kind = "load" /\ c.stage = "answered"
    /\ calls' = calls \ {c}
    /\ tab' = IF Current(c)
              THEN [tab EXCEPT !.statement = c.statement, !.loadedFor = c.transfer, !.isLoading = FALSE]
              ELSE tab
    /\ UNCHANGED <<version, server, faults>>

SaveAnswers(c) ==
    /\ c \in calls /\ c.kind = "save" /\ c.stage = "answered"
    /\ calls' = calls \ {c}
    /\ tab' = IF Current(c)
              THEN [tab EXCEPT !.statement = c.statement, !.isSaving = FALSE, !.savedSuccess = TRUE]
              ELSE tab
    /\ UNCHANGED <<version, server, faults>>

\* Refused, or the reply is lost while the server goes on.  A failed save takes
\* the statement off the page.
CallFails(c) ==
    /\ c \in calls /\ c.awaited
    /\ faults < MaxFaults /\ faults' = faults + 1
    /\ Put(c, [c EXCEPT !.awaited = FALSE])
    /\ tab' = IF ~Current(c) THEN tab
              ELSE [tab EXCEPT !.error = TRUE, !.isLoading = FALSE, !.isSaving = FALSE,
                               !.statement = NoStatement]
    /\ UNCHANGED <<version, server>>

Next ==
    \/ \E t \in Transfer : Rerender(t) \/ \E given \in SUBSET Figure \ {{}} : OwnFigures(t, given)
    \/ loadAccounts \/ SavedMessageEnds \/ Restart
    \/ \E content \in Content : handleUpdateStatement(content)
    \/ \E c \in calls : \/ FindRow(c) \/ FindCached(c) \/ Generate(c)
                        \/ SaveArrives(c) \/ WriteRow(c) \/ WriteFigures(c) \/ Commit(c) \/ RollsBack(c)
                        \/ LoadAnswers(c) \/ SaveAnswers(c) \/ CallFails(c)

Spec == Init /\ [][Next]_vars

-----------------------------------------------------------------------------
(* Properties.                                                              *)

\* The statement on the page, which the next edit will send back whole, is of
\* the page's transfer, also between the drawing of another transfer and the
\* effect that loads its statement, and whatever answer comes then.
DrawnIsOfTransfer == Drawn => tab.statement.transfer = tab.transfer

\* The tab is busy exactly while its newest call is under way.
BusyIsNewest ==
    LET newest(kind) == \E c \in calls : c.kind = kind /\ c.awaited /\ Current(c)
    IN  (tab.isLoading <=> newest("load")) /\ (tab.isSaving <=> newest("save"))

TakenFrom(t) == {figures[t][f] : f \in Figure} \ {NoStatement}

\* The figures of a transfer that were taken from statements are those of one,
\* which is stored for it, though saves of several statements overlap with each
\* other and with PUTs that replace some figures, fail half-way and are answered as
\* a success when they do.
FiguresOfStatement ==
    \A t \in Transfer : TakenFrom(t) # {} => \E r \in rows : TakenFrom(t) = {r.statement}
=============================================================================

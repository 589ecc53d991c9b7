-------------------------- MODULE LegacyMilestones --------------------------
(***************************************************************************)
(* The milestones of one matter behind the prototype routes                *)
(* (server/routes/milestones.ts).  A PATCH changes one milestone, a PUT    *)
(* several, each in one READ COMMITTED transaction: the row is read        *)
(* without a lock, updated under one, a history row is added, and the      *)
(* progress of the transfer is computed from what the transaction sees of  *)
(* all rows.  Status is one of three classes: open, completed and not      *)
(* required; another field may change instead.                             *)
(*                                                                         *)
(* The table of history rows has no order of its own: the routes that read *)
(* it sort by created_at, newest first, and created_at is when the writing *)
(* transaction began.  `clock' orders begins and commits.                  *)
(***************************************************************************)
EXTENDS FiniteSets, Integers, Sequences

CONSTANTS
    Request,    \* PATCH and PUT requests
    Milestone,  \* milestones of the matter
    Elsewhere,  \* a milestone id of another matter
    MaxFaults   \* bound: transactions that fail

VARIABLES
    row,       \* committed status of each milestone
    history,   \* committed history rows of each milestone
    clock,     \* begins and commits so far
    progress,  \* transfers.progress
    req,       \* requests: items to apply, own writes, locks
    faults

vars == <<row, history, clock, progress, req, faults>>

Status   == {"open", "completed", "not_required"}
Keep     == "keep"      \* an item without a status: only another field changes
Transfer == "transfer"  \* the lock on the row of the transfer

\* A PATCH has one item; a PUT may have more, in the order of its body.  What comes
\* with an id of another matter does not matter.
Item  == (Milestone \X (Status \cup {Keep})) \cup {<<Elsewhere, Keep>>}
Items == {<<i>> : i \in Item} \cup {<<i, j>> : i, j \in Item}

\* What a transaction has written to a row: the status, and the one in its history.
Write == [updated: Status, logged: Status]

\* A history row: new_status, created_at, and when its transaction ended, which
\* is written nowhere.
Entry == [status: Status, began: Nat, ended: Nat]

Fresh == [pc |-> "new", items |-> <<>>, current |-> "open", holds |-> {}, share |-> 0,
          own |-> [m \in Milestone |-> <<>>], began |-> 0]

Handler ==
    [pc: {"new", "read", "update", "progress", "commit", "done", "failed"},
     items: Seq(Item), current: Status, holds: SUBSET (Milestone \cup {Transfer}),
     share: 0..100, own: [Milestone -> Seq(Write)], began: Nat]

TypeOK ==
    /\ row \in [Milestone -> Status]
    /\ history \in [Milestone -> SUBSET Entry]
    /\ clock \in Nat
    /\ progress \in 0..100 /\ faults \in 0..MaxFaults
    /\ req \in [Request -> Handler]

Init ==
    /\ row = [m \in Milestone |-> "open"]
    /\ history = [m \in Milestone |-> {}]
    /\ clock = 0
    /\ progress = 0
    /\ req = [r \in Request |-> Fresh]
    /\ faults = 0

-----------------------------------------------------------------------------

Own(r, m) == req[r].own[m]

\* What a statement of the transaction sees of a row: its own last write, else
\* the committed status.
Sees(r, m) == IF Own(r, m) = <<>> THEN row[m] ELSE Own(r, m)[Len(Own(r, m))].updated

Free(r, lock) == \A q \in Request \ {r} : lock \notin req[q].holds

Go(r, fields) == req' = [req EXCEPT ![r] = fields]
Fail(r)       == Go(r, [Fresh EXCEPT !.pc = "failed"])
tables        == <<row, history, clock, progress>>

\* The matter is resolved before the transaction; it stays.
Begin(r, items) ==
    /\ req[r].pc = "new"
    /\ clock' = clock + 1
    /\ Go(r, [Fresh EXCEPT !.pc = "read", !.items = items, !.began = clock'])
    /\ UNCHANGED <<row, history, progress, faults>>

\* The row before the change, read without a lock.  An id of another matter
\* throws, and everything is rolled back.
ReadCurrent(r) ==
    /\ req[r].pc = "read" /\ req[r].items # <<>>
    /\ LET m == Head(req[r].items)[1]
       IN  IF m = Elsewhere THEN Fail(r)
           ELSE Go(r, [req[r] EXCEPT !.pc = "update", !.current = Sees(r, m)])
    /\ UNCHANGED <<tables, faults>>

\* Faulty variant: the history takes a status that was not sent from the row
\* read before.
NewStatusAsRead(current, status) == current

\* The status for the history, from UPDATE ... RETURNING.
NewStatus(current, status) == status

\* One item: the UPDATE, holding the row until the end, and its history row.
updateSingleMilestone(r) ==
    /\ req[r].pc = "update"
    /\ LET m == Head(req[r].items)[1]
           s == Head(req[r].items)[2]
           updated == IF s = Keep THEN Sees(r, m) ELSE s
           logged == IF s = Keep THEN NewStatus(req[r].current, updated) ELSE s
       IN  /\ Free(r, m)
           /\ Go(r, [req[r] EXCEPT !.pc = "read", !.items = Tail(@), !.holds = @ \cup {m},
                        !.own[m] = Append(@, [updated |-> updated, logged |-> logged])])
    /\ UNCHANGED <<tables, faults>>

Completed(r) == {m \in Milestone : Sees(r, m) = "completed"}
Required(r)  == {m \in Milestone : Sees(r, m) # "not_required"}

\* Math.round of the percentage.
Share(done, all) == (200 * done + all) \div (2 * all)

\* The counts; with nothing required the transfer is left alone.
syncTransferProgressFromMilestones(r) ==
    /\ req[r].pc = "read" /\ req[r].items = <<>>
    /\ Go(r, IF Required(r) = {} THEN [req[r] EXCEPT !.pc = "commit"]
             ELSE [req[r] EXCEPT !.pc = "progress",
                      !.share = Share(Cardinality(Completed(r)), Cardinality(Required(r)))])
    /\ UNCHANGED <<tables, faults>>

\* At 100 the UPDATE sets the status 'completed', which the two-state check of
\* migration 016 refuses: the whole request fails.
StatusAllowed(share) == share # 100

UpdateTransfer(r) ==
    /\ req[r].pc = "progress" /\ Free(r, Transfer)
    /\ IF StatusAllowed(req[r].share)
       THEN Go(r, [req[r] EXCEPT !.pc = "commit", !.holds = @ \cup {Transfer}])
       ELSE Fail(r)
    /\ UNCHANGED <<tables, faults>>

Logged(r, m) == {[status |-> Own(r, m)[k].logged, began |-> req[r].began, ended |-> clock + 1] :
                    k \in DOMAIN Own(r, m)}

Commit(r) ==
    /\ req[r].pc = "commit"
    /\ row' = [m \in Milestone |-> Sees(r, m)]
    /\ history' = [m \in Milestone |-> history[m] \cup Logged(r, m)]
    /\ clock' = clock + 1
    /\ progress' = IF Transfer \in req[r].holds THEN req[r].share ELSE progress
    /\ Go(r, [Fresh EXCEPT !.pc = "done"])
    /\ UNCHANGED faults

\* The lock a request waits for.
Wants(r) ==
    CASE req[r].pc = "update" -> {Head(req[r].items)[1]}
      [] req[r].pc = "progress" -> {Transfer}
      [] OTHER -> {}

\* Two PUTs that list milestones in different orders wait for each other; the
\* database ends one of them.
DeadlockVictim(r) ==
    /\ \E q \in Request \ {r} : Wants(r) \cap req[q].holds # {} /\ Wants(q) \cap req[r].holds # {}
    /\ Fail(r)
    /\ UNCHANGED <<tables, faults>>

\* A statement or the commit fails, or the process dies.
Rollback(r) ==
    /\ req[r].pc \in {"read", "update", "progress", "commit"} /\ faults < MaxFaults
    /\ faults' = faults + 1
    /\ Fail(r)
    /\ UNCHANGED tables

Next == \E r \in Request :
    \/ \E items \in Items : Begin(r, items)
    \/ ReadCurrent(r) \/ updateSingleMilestone(r) \/ syncTransferProgressFromMilestones(r)
    \/ UpdateTransfer(r) \/ Commit(r) \/ DeadlockVictim(r) \/ Rollback(r)

Spec == Init /\ [][Next]_vars

-----------------------------------------------------------------------------
(* Properties.                                                              *)

\* ORDER BY created_at DESC: f stands above e, or may where they share the time
\* of one transaction.
StandsAbove(f, e) == f.began >= e.began

\* The transaction of f ran within that of e.
Within(f, e) == f.began >= e.began /\ f.ended <= e.ended

\* However PATCHes and PUTs interleave and fail, the status of a milestone's row
\* is that of one of its history rows, and nothing stands above that one on the
\* page but the rows of transactions that ran wholly within its own.
HistoryEndsAtRow ==
    \A m \in Milestone : history[m] # {} =>
        \E e \in history[m] : /\ e.status = row[m]
                              /\ \A f \in history[m] : StandsAbove(f, e) => Within(f, e)
=============================================================================

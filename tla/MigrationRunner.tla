-------------------------- MODULE MigrationRunner --------------------------
(***************************************************************************)
(* scripts/migrate.mjs: a runner executes the migration files of its       *)
(* checkout and records each in a ledger, or only records them (baseline). *)
(* A session advisory lock keeps runners apart.  A file is one transaction,*)
(* its ledger row another, so a runner may be lost between them.  A file is*)
(* its place in the order, its content its checksum (0: no such file, or no*)
(* row).  scripts/migrate-preflight.mjs compares the two beforehand.       *)
(***************************************************************************)
EXTENDS Naturals

CONSTANTS
    Runner,        \* processes, one at a time each
    MaxFile,
    MaxContent,
    Checkout,      \* what the directories or artifacts runners are started from hold
    NoRunner,
    MaxStarts,     \* bound
    MaxFaults      \* bound: failing files and lost sessions

VARIABLES
    holder,    \* of the advisory lock: a runner's session
    ledger,    \* transfers_schema_migrations: the checksum of a recorded file
    run,       \* the runners
    starts, faults,
    executed,  \* for the properties: the content last executed of each file, how often
    by         \* for the properties: how a row came into the ledger

vars == <<holder, ledger, run, starts, faults, executed, by>>

File == 1 .. MaxFile
Content == 0 .. MaxContent

\* through: the file up to which to record without executing; 0 to execute.
Process == [pc : {"idle", "started", "locked", "files", "sql", "record", "baseline",
                  "unlock", "aborted", "lost", "orphan"},
            files : [File -> Content], through : 0 .. MaxFile,
            at : 1 .. MaxFile + 1, applied : [File -> Content]]

TypeOK ==
    /\ holder \in Runner \cup {NoRunner}
    /\ ledger \in [File -> Content]
    /\ run \in [Runner -> Process]
    /\ starts \in Nat /\ faults \in Nat
    /\ executed \in [File -> [content : Content, times : Nat]]
    /\ by \in [File -> {"nobody", "run", "baseline"}]

Nothing == [f \in File |-> 0]

Init ==
    /\ holder = NoRunner
    /\ ledger = Nothing
    /\ run = [r \in Runner |-> [pc |-> "idle", files |-> Nothing, through |-> 0, at |-> 1,
                                applied |-> Nothing]]
    /\ starts = 0 /\ faults = 0
    /\ executed = [f \in File |-> [content |-> 0, times |-> 0]]
    /\ by = [f \in File |-> "nobody"]

Goto(r, pc) == run' = [run EXCEPT ![r].pc = pc]

\* An artifact is verified before the connection, and its verified bytes are run.
Start(r, files, through) ==
    /\ run[r].pc = "idle" /\ starts < MaxStarts
    /\ run' = [run EXCEPT ![r] = [pc |-> "started", files |-> files, through |-> through,
                                  at |-> 1, applied |-> Nothing]]
    /\ starts' = starts + 1
    /\ UNCHANGED <<holder, ledger, faults, executed, by>>

\* pg_try_advisory_lock does not wait: the second runner gives up.
acquireMigrationLock(r) ==
    /\ run[r].pc = "started"
    /\ IF holder = NoRunner THEN holder' = r /\ Goto(r, "locked")
       ELSE UNCHANGED holder /\ Goto(r, "idle")
    /\ UNCHANGED <<ledger, starts, faults, executed, by>>

\* After ensureLedger, which leaves the rows alone: the ledger is read once.
getAppliedMigrations(r) ==
    /\ run[r].pc = "locked" /\ run[r].through = 0
    /\ run' = [run EXCEPT ![r].pc = "files", ![r].applied = ledger]
    /\ UNCHANGED <<holder, ledger, starts, faults, executed, by>>

\* A recorded file is skipped, unless it has changed; the end is the end of the run.
runMigrations(r) ==
    /\ run[r].pc = "files"
    /\ LET f == run[r].at IN
        \/ f > MaxFile /\ Goto(r, "unlock")
        \/ f <= MaxFile /\ run[r].files[f] \in {0, run[r].applied[f]}
            /\ run' = [run EXCEPT ![r].at = f + 1]
        \/ f <= MaxFile /\ run[r].files[f] # 0 /\ run[r].applied[f] = 0 /\ Goto(r, "sql")
        \/ f <= MaxFile /\ run[r].files[f] # 0 /\ run[r].applied[f] \notin {0, run[r].files[f]}
            /\ Goto(r, "unlock")
    /\ UNCHANGED <<holder, ledger, starts, faults, executed, by>>

Execute(f, content) == executed' = [executed EXCEPT ![f] = [content |-> content, times |-> @.times + 1]]

\* The file commits: by its own COMMIT, or as one implicit transaction.
Executed(r) ==
    /\ run[r].pc = "sql"
    /\ Execute(run[r].at, run[r].files[run[r].at])
    /\ Goto(r, "record")
    /\ UNCHANGED <<holder, ledger, starts, faults, by>>

\* Inside the BEGIN of the file a failure leaves the session in its transaction.
ExecutionFails(r) ==
    /\ run[r].pc = "sql" /\ faults < MaxFaults
    /\ Goto(r, "aborted") \/ Goto(r, "unlock")
    /\ faults' = faults + 1
    /\ UNCHANGED <<holder, ledger, starts, executed, by>>

\* filename is the primary key.
Record(r) ==
    /\ run[r].pc = "record"
    /\ LET f == run[r].at IN
        IF ledger[f] = 0
        THEN /\ ledger' = [ledger EXCEPT ![f] = run[r].files[f]]
             /\ by' = [by EXCEPT ![f] = "run"]
             /\ run' = [run EXCEPT ![r].pc = "files", ![r].at = f + 1]
        ELSE Goto(r, "unlock") /\ UNCHANGED <<ledger, by>>
    /\ UNCHANGED <<holder, starts, faults, executed>>

\* --baseline-through, of a file that must be there.
Baseline(r) ==
    /\ run[r].pc = "locked" /\ run[r].through # 0
    /\ Goto(r, IF run[r].files[run[r].through] = 0 THEN "unlock" ELSE "baseline")
    /\ UNCHANGED <<holder, ledger, starts, faults, executed, by>>

\* One INSERT per file, ON CONFLICT DO UPDATE.
runBaseline(r) ==
    /\ run[r].pc = "baseline"
    /\ LET f == run[r].at IN
        IF f > run[r].through THEN Goto(r, "unlock") /\ UNCHANGED <<ledger, by>>
        ELSE /\ run' = [run EXCEPT ![r].at = f + 1]
             /\ IF run[r].files[f] = 0 THEN UNCHANGED <<ledger, by>>
                ELSE /\ ledger' = [ledger EXCEPT ![f] = run[r].files[f]]
                     /\ by' = [by EXCEPT ![f] = "baseline"]
    /\ UNCHANGED <<holder, starts, faults, executed>>

\* withMigrationLock, finally: in an aborted transaction even the unlocking fails,
\* and the client is destroyed.
Unlock(r) ==
    /\ \/ run[r].pc = "unlock" /\ holder' = NoRunner /\ Goto(r, "idle")
       \/ run[r].pc = "aborted" /\ UNCHANGED holder /\ Goto(r, "lost")
    /\ UNCHANGED <<ledger, starts, faults, executed, by>>

\* The process dies or its connection breaks; a file being executed goes on.
Lose(r) ==
    /\ run[r].pc \in {"locked", "files", "sql", "record", "baseline", "unlock"}
    /\ faults < MaxFaults /\ faults' = faults + 1
    /\ Goto(r, IF run[r].pc = "sql" THEN "orphan" ELSE "lost")
    /\ UNCHANGED <<holder, ledger, starts, executed, by>>

\* PostgreSQL ends the session, and its lock, once it has noticed, and not before
\* the file has come to its end.
SessionEnds(r) ==
    /\ \/ run[r].pc \in {"lost", "orphan"} /\ UNCHANGED executed
       \/ run[r].pc = "orphan" /\ Execute(run[r].at, run[r].files[run[r].at])
    /\ holder' = NoRunner
    /\ Goto(r, "idle")
    /\ UNCHANGED <<ledger, starts, faults, by>>

Next ==
    \E r \in Runner :
        \/ \E files \in Checkout, through \in 0 .. MaxFile : Start(r, files, through)
        \/ acquireMigrationLock(r) \/ getAppliedMigrations(r) \/ runMigrations(r)
        \/ Executed(r) \/ ExecutionFails(r) \/ Record(r) \/ Baseline(r) \/ runBaseline(r)
        \/ Unlock(r) \/ Lose(r) \/ SessionEnds(r)

Spec == Init /\ [][Next]_vars

-----------------------------------------------------------------------------
(* Properties. *)

Holding == {"locked", "files", "sql", "record", "baseline", "unlock", "aborted", "lost", "orphan"}

\* From its lock to its end a session has database and ledger for itself, the end
\* of a statement nobody waits for included (withMigrationLock, pg_try_advisory_lock).
OneAtATime ==
    \A r, s \in Runner : run[r].pc \in Holding /\ run[s].pc \in Holding => r = s

\* A file that a run recorded was last executed with the content recorded, whoever
\* else ran it, with what content, and was lost (runMigrations: skip, mismatch, row).
LedgerExecuted == \A f \in File : by[f] = "run" => executed[f].content = ledger[f]

\* A run that came to its end leaves every file of its checkout recorded with the
\* content it has there, its own rows and the older ones (runMigrations: mismatch).
CompletedAsCheckout ==
    \A r \in Runner : run[r].pc = "unlock" /\ run[r].through = 0 /\ run[r].at > MaxFile =>
        \A f \in File : run[r].files[f] \in {0, ledger[f]}

\* A file is executed again only after a session that executed it was lost.
AgainAfterLoss == \A f \in File : executed[f].times <= 1 + faults

\* analyzeLedger of the preflight: no violations, given the files and the ledger.
Passes(files, rows) ==
    /\ \A f \in File : rows[f] \in {0, files[f]}
    /\ \A f, g \in File : f < g /\ files[f] # 0 /\ rows[f] = 0 => rows[g] = 0

\* A run from a ledger the preflight passes meets no changed file, and what it
\* executes is what the preflight lists as pending.
PreflightForesees ==
    \A r \in Runner : run[r].pc \in {"files", "sql"} /\ Passes(run[r].files, run[r].applied) =>
        /\ run[r].at <= MaxFile => run[r].applied[run[r].at] \in {0, run[r].files[run[r].at]}
        /\ run[r].pc = "sql" => \A f \in File : f >= run[r].at => ledger[f] = 0
=============================================================================

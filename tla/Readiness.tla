----------------------------- MODULE Readiness ------------------------------
(***************************************************************************)
(* A server process from its start to its exit: the validation that decides*)
(* whether it listens (startupConfig, db.ts), the readiness probe that     *)
(* concurrent requests share (singleFlight, checkReadiness, makeProbeQuery)*)
(* and the graceful shutdown (index.ts).  What the probe looks at changes  *)
(* while it looks, and every look may time out.                            *)
(*                                                                         *)
(* Which database the process takes is modelled, not whether it speaks TLS *)
(* to it: that is left to PGSSLMODE and DB_SSL where the string is silent. *)
(***************************************************************************)
EXTENDS Naturals, FiniteSets

CONSTANTS
    Request,
    File,        \* the files of the migration manifest
    Extra,       \* a file the manifest does not list
    NoTable,     \* the ledger table is missing
    NoProbe, NoEnv,
    MaxChanges   \* bound: changes of what the probe looks at

VARIABLES
    env,         \* process.env; NoEnv once everything that reads it has
    using,       \* what the running process took from it
    process,     \* "loading", "listening", "draining", "refused", "exited"
    signals,     \* SIGTERM and SIGINT received
    world,       \* the database, its ledger, the upstream and the manifest file
    manifest,    \* manifestCache: "undefined", "null" or "loaded"
    probe,       \* the probe in flight (singleFlight's inflight), or NoProbe
    reqs,        \* GET /api/health/ready
    changes

vars == <<env, using, process, signals, world, manifest, probe, reqs, changes>>

\* The keys of the connection string in their order of preference, each unset,
\* whitespace, a string that startup refuses, or an acceptable one.
Dsn == {"unset", "blank", "unsafe", "good"}
\* RUN_SPECIALIST_DB_TESTS: off, or on with a SPECIALIST_TEST_DATABASE_URL that is
\* unset, one that resolveDbTls throws on, one that startup would refuse if it
\* looked at it (no password, sslmode=disable), or a good one.
Override == {"off"} \cup Dsn

Env == [production: BOOLEAN, specialist: Override, dsn: [{1, 2} -> Dsn],
        parts: {"placeholder", "good"}, secrets: {"placeholder", "good"}, upstream: {"unset", "http", "loopback", "good"},
        legacy: BOOLEAN]

Facts == {"database", "schema", "upstream"}
Ledger == [File \cup {Extra} -> {"absent", "same", "other"}]
Checks == [database: BOOLEAN, schema: BOOLEAN, upstream: BOOLEAN]
Pending == [answer: {"none", "waiting"}]
Answered == [answer: {"ready", "not-ready"}, held: SUBSET Facts, broken: SUBSET (Facts \cup {"slow", "manifest"})]

TypeOK ==
    /\ env \in Env \cup {NoEnv}
    /\ using \in [production: BOOLEAN, overridden: BOOLEAN, database: Dsn \cup {"placeholder"},
                  upstream: {"unset", "http", "loopback", "good"}]
    /\ signals \in 0 .. 2 /\ changes \in 0 .. MaxChanges
    /\ process \in {"loading", "listening", "draining", "refused", "exited"}
    /\ world \in [database: BOOLEAN, ledger: Ledger \cup {NoTable}, upstream: BOOLEAN, manifest: BOOLEAN]
    /\ manifest \in {"undefined", "null", "loaded"}
    /\ probe = NoProbe \/ probe \in [step: {"ping", "ledger", "upstream"}, checks: Checks,
                                     held: SUBSET Facts, broken: SUBSET (Facts \cup {"slow", "manifest"})]
    /\ DOMAIN reqs = Request /\ \A r \in Request : reqs[r] \in Pending \cup Answered

-----------------------------------------------------------------------------
(* Start.                                                                   *)

\* validateStartupConfig: the first key that is not blank is inspected, and the
\* override of the specialist suite never is.
Inspected(e) ==
    LET set == {k \in {1, 2} : e.dsn[k] \notin {"unset", "blank"}}
    IN  IF set = {} THEN "unset" ELSE e.dsn[IF 1 \in set THEN 1 ELSE 2]

validateStartupConfig(e) ==
    e.production =>
        /\ Inspected(e) = "good" \/ (Inspected(e) = "unset" /\ e.parts = "good")
        /\ e.secrets = "good" /\ e.upstream = "good" /\ ~e.legacy

\* db.ts takes the override, if the suite is opted into, else the first key that
\* is not empty, whitespace included, and its parts, with the development
\* credentials as defaults, when there is none.
Connection(e) ==
    LET set == {k \in {1, 2} : e.dsn[k] # "unset"}
    IN  IF e.specialist # "off" THEN e.specialist
        ELSE IF set = {} THEN e.parts ELSE e.dsn[IF 1 \in set THEN 1 ELSE 2]

\* The module throws when it loads: on an override without a URL, and where
\* resolveDbTls cannot parse the string.
Parses(e) == Connection(e) # "blank" /\ e.specialist # "unset"

Init ==
    /\ env \in {e \in Env : e.production} \cup
               [production: {FALSE}, specialist: {"off", "good"}, dsn: {[k \in {1, 2} |-> "unset"]},
                parts: {"placeholder"}, secrets: {"placeholder"}, upstream: {"unset"}, legacy: {FALSE}]
    /\ using = [production |-> FALSE, overridden |-> FALSE, database |-> "unset", upstream |-> "unset"]
    /\ process = "loading" /\ signals = 0 /\ changes = 0
    /\ world = [database |-> TRUE, ledger |-> [f \in File \cup {Extra} |-> IF f \in File THEN "same" ELSE "absent"],
                upstream |-> TRUE, manifest |-> TRUE]
    /\ manifest = "undefined" /\ probe = NoProbe
    /\ reqs = [r \in Request |-> [answer |-> "none"]]

Start ==
    /\ process = "loading"
    /\ process' = IF Parses(env) /\ validateStartupConfig(env) THEN "listening" ELSE "refused"
    /\ env' = NoEnv
    /\ using' = [production |-> env.production, overridden |-> env.specialist # "off",
                 database |-> Connection(env), upstream |-> env.upstream]
    /\ UNCHANGED <<signals, world, manifest, probe, reqs, changes>>

-----------------------------------------------------------------------------
(* The probe.  held and broken tell what was the case at some moment since  *)
(* it began.                                                                *)

Exact(l) == l # NoTable /\ \A f \in DOMAIN l : l[f] = IF f \in File THEN "same" ELSE "absent"

Holding(w) ==
    {f \in Facts : CASE f = "database" -> w.database
                     [] f = "schema"   -> Exact(w.ledger)
                     [] f = "upstream" -> w.upstream \/ using.upstream = "unset"}

NewProbe == [step |-> "ping", checks |-> [c \in Facts |-> FALSE],
             held |-> Holding(world), broken |-> Facts \ Holding(world)]

Arrive(r) ==
    /\ process = "listening" /\ reqs[r].answer = "none"
    /\ reqs' = [reqs EXCEPT ![r] = [answer |-> "waiting"]]
    /\ probe' = IF probe = NoProbe THEN NewProbe ELSE probe
    /\ UNCHANGED <<env, using, process, signals, world, manifest, changes>>

\* Every request that shares the probe is answered, and nothing is kept.
Settle(p) ==
    /\ probe' = NoProbe
    /\ reqs' = [r \in Request |->
                  IF reqs[r].answer = "waiting"
                  THEN [answer |-> IF \A f \in Facts : p.checks[f] THEN "ready" ELSE "not-ready",
                        held |-> p.held, broken |-> p.broken]
                  ELSE reqs[r]]

\* An upstream that is not configured does not block.
Continue(p) ==
    IF p.step = "upstream" /\ using.upstream = "unset"
    THEN Settle([p EXCEPT !.checks.upstream = TRUE])
    ELSE probe' = p /\ UNCHANGED reqs

\* loadManifest: read once, and a failure to read it is cached as well.
Loaded ==
    IF manifest # "undefined" THEN manifest
    ELSE IF world.manifest THEN "loaded" ELSE "null"

PingAnswers ==
    /\ probe # NoProbe /\ probe.step = "ping"
    /\ IF world.database
       THEN /\ manifest' = Loaded
            /\ Continue([probe EXCEPT !.checks.database = TRUE,
                                      !.step = IF Loaded = "null" THEN "upstream" ELSE "ledger",
                                      !.broken = @ \cup (IF Loaded = "null" THEN {"manifest"} ELSE {})])
       ELSE Settle(probe) /\ UNCHANGED manifest
    /\ UNCHANGED <<env, using, process, signals, world, changes>>

\* Faulty variant: rows of migrations that this build does not know are ignored.
ListedApplied(l) == \A f \in File : l[f] = "same"

\* Every file of the manifest with its digest, and no row beyond them.
SchemaMatches(l) ==
    LET recorded == {f \in DOMAIN l : l[f] # "absent"}
    IN  /\ \A f \in File : l[f] = "same"
        /\ ~(Cardinality(recorded) > Cardinality(File))

LedgerAnswers ==
    /\ probe # NoProbe /\ probe.step = "ledger"
    /\ LET ok == world.database /\ world.ledger # NoTable /\ SchemaMatches(world.ledger)
       IN  Continue([probe EXCEPT !.checks.schema = ok, !.step = "upstream"])
    /\ UNCHANGED <<env, using, process, signals, world, manifest, changes>>

UpstreamAnswers ==
    /\ probe # NoProbe /\ probe.step = "upstream"
    /\ Settle([probe EXCEPT !.checks.upstream = world.upstream])
    /\ UNCHANGED <<env, using, process, signals, world, manifest, changes>>

\* withTimeout and AbortSignal.timeout; the client and its socket are discarded.
TimesOut ==
    /\ probe # NoProbe
    /\ LET p == [probe EXCEPT !.broken = @ \cup {"slow"}]
       IN  IF p.step = "ledger" THEN Continue([p EXCEPT !.step = "upstream"]) ELSE Settle(p)
    /\ UNCHANGED <<env, using, process, signals, world, manifest, changes>>

-----------------------------------------------------------------------------
(* What happens around the process.                                         *)

Change(w) ==
    /\ process = "listening" /\ changes < MaxChanges /\ w # world
    /\ changes' = changes + 1 /\ world' = w
    /\ probe' = IF probe = NoProbe THEN probe
                ELSE [probe EXCEPT !.held = @ \cup Holding(w), !.broken = @ \cup (Facts \ Holding(w))]
    /\ UNCHANGED <<env, using, process, signals, manifest, reqs>>

Changes ==
    \/ Change([world EXCEPT !.database = ~@])
    \/ Change([world EXCEPT !.upstream = ~@])
    \/ Change([world EXCEPT !.manifest = ~@])
    \/ \E l \in Ledger \cup {NoTable} : Change([world EXCEPT !.ledger = l])

\* gracefulShutdown: the listener closes, requests under way are answered.
Signal ==
    /\ process \in {"listening", "draining"} /\ signals < 2
    /\ signals' = signals + 1 /\ process' = "draining"
    /\ UNCHANGED <<env, using, world, manifest, probe, reqs, changes>>

Exit ==
    /\ process = "draining" /\ \A r \in Request : reqs[r].answer # "waiting"
    /\ process' = "exited"
    /\ UNCHANGED <<env, using, signals, world, manifest, probe, reqs, changes>>

Next ==
    \/ Start \/ PingAnswers \/ LedgerAnswers \/ UpstreamAnswers \/ TimesOut
    \/ \E r \in Request : Arrive(r)
    \/ Changes \/ Signal \/ Exit

Spec == Init /\ [][Next]_vars

-----------------------------------------------------------------------------
(* Properties.                                                              *)

\* A process that serves in production connects with what startup inspected,
\* never with development credentials, although the two read the environment
\* by different rules; unless the specialist suite's override is on, of which
\* startup inspects nothing.
ListensAsValidated ==
    process \in {"listening", "draining"} /\ using.production =>
        /\ using.database = "good" \/ (using.overridden /\ using.database = "unsafe")
        /\ using.upstream = "good"

\* What startupConfig.ts says of itself: in production, missing or unsafe
\* configuration stops the process.  The override of db.ts goes past it.
UnsafeStopsProduction ==
    process \in {"listening", "draining"} /\ using.production => using.database # "unsafe"

\* "ready" is only said of a database, a ledger and an upstream each of which
\* was in order at some moment of the probe, and "not-ready" only when one was
\* not, or did not answer in time: no answer is left over from an earlier probe.
AnswersMeanProbe ==
    \A r \in Request :
        /\ reqs[r].answer = "ready" => Facts \subseteq reqs[r].held
        /\ reqs[r].answer = "not-ready" => reqs[r].broken # {}
=============================================================================

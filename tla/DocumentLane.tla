---------------------------- MODULE DocumentLane ----------------------------
(***************************************************************************)
(* The file of one matter document: upload, storage, malware scan, retry   *)
(* (python_server/services/matter_document_service.py).  Handlers are      *)
(* concurrent requests, each served by a FastAPI coroutine in some server  *)
(* process; they share one PostgreSQL row and the document's objects in    *)
(* storage, and nothing else.  A step is what a handler does between two   *)
(* awaits: one SQL statement, one storage call or one scanner call, with   *)
(* the local decisions that follow it.  One document is enough: no         *)
(* statement of the lane reads the file columns of two rows, and storage   *)
(* keys carry the document's id.                                           *)
(***************************************************************************)
EXTENDS Naturals, FiniteSets

CONSTANTS
    Handler,     \* request handlers; each serves one request at a time
    File,        \* file contents, identified by their SHA-256 digest
    NoFile,      \* SQL NULL in sha256 and storage_key
    Attempt,     \* scan attempt identifiers (UUIDs); see Fresh
    NoAttempt,   \* SQL NULL in scan_attempt_id
    MaxFaults    \* bound: failures the environment inflicts in a behaviour

ASSUME NullAssumption == NoFile \notin File /\ NoAttempt \notin Attempt
ASSUME MaxFaultsAssumption == MaxFaults \in Nat

VARIABLES
    \* The row of transfer_documents.
    sha256, storage_key, scan_status, status,
    scan_attempt_id,
    lease,       \* scan_attempt_expires_at: "none" (NULL), "live" or "expired"
    \* Storage: what is at the document's key of each digest.
    object,
    \* The handlers.
    pc,
    data,        \* the content the request carries or asks to rescan
    attempt,     \* the scan attempt the handler believes it owns
    verdict,     \* what the scanner told it
    answer,      \* the outcome it reports
    \* The operation log: storage keys recorded for reconciliation.
    logged,
    \* History, read by properties only.
    lost,        \* contents whose reconciliation record could not be written
    found,       \* every verdict the scanner gave, with the content scanned
    overruns,    \* leases that expired under a handler still at work
    faults       \* failures so far

row      == <<sha256, storage_key, scan_status, status, scan_attempt_id, lease>>
file     == <<sha256, storage_key>>
records  == <<logged, lost>>
counters == <<overruns, faults>>
vars == <<row, object, pc, data, attempt, verdict, answer, records, found, counters>>

ScanStatus == {"not_scanned", "pending", "clean", "infected", "error"}
Final      == {"clean", "infected"}
Outcome    == {"uploaded", "quarantined", "scan_pending", "replay",
               "rejected", "conflict", "unavailable", "error"}
Working    == {"fetch", "scan", "publish", "fail", "release"}
Holding    == {"persist", "resolve", "record"}
Step       == {"idle", "put", "claim", "rescan_claim", "reread"} \cup Holding \cup Working

Content    == File \cup {NoFile}

TypeOK ==
    /\ sha256 \in Content
    /\ storage_key \in Content
    /\ scan_status \in ScanStatus
    /\ status \in {"pending", "uploaded"}
    /\ scan_attempt_id \in Attempt \cup {NoAttempt}
    /\ lease \in {"none", "live", "expired"}
    /\ object \in [File -> {"absent", "intact", "damaged"}]
    /\ pc \in [Handler -> Step]
    /\ data \in [Handler -> Content]
    /\ attempt \in [Handler -> Attempt \cup {NoAttempt}]
    /\ verdict \in [Handler -> Final \cup {"none"}]
    /\ answer \in [Handler -> Outcome \cup {"none"}]
    /\ logged \subseteq Content
    /\ lost \subseteq Content
    /\ found \subseteq Content \X Final
    /\ overruns \in Nat
    /\ faults \in 0 .. MaxFaults

\* create_document has committed the row; no file yet.
Init ==
    /\ sha256 = NoFile
    /\ storage_key = NoFile
    /\ scan_status = "not_scanned"
    /\ status = "pending"
    /\ scan_attempt_id = NoAttempt
    /\ lease = "none"
    /\ object = [f \in File |-> "absent"]
    /\ pc = [h \in Handler |-> "idle"]
    /\ data = [h \in Handler |-> NoFile]
    /\ attempt = [h \in Handler |-> NoAttempt]
    /\ verdict = [h \in Handler |-> "none"]
    /\ answer = [h \in Handler |-> "none"]
    /\ logged = {}
    /\ lost = {}
    /\ found = {}
    /\ overruns = 0
    /\ faults = 0

-----------------------------------------------------------------------------
(* Control of a handler. *)

Goto(h, step) == pc' = [pc EXCEPT ![h] = step]

\* The request is answered; the handler forgets its attempt and verdict.
Finish(h, outcome) ==
    /\ Goto(h, "idle")
    /\ answer' = [answer EXCEPT ![h] = outcome]
    /\ attempt' = [attempt EXCEPT ![h] = NoAttempt]
    /\ verdict' = [verdict EXCEPT ![h] = "none"]

\* A request begins, carrying content f.
Begin(h, f) ==
    /\ pc[h] = "idle"
    /\ data' = [data EXCEPT ![h] = f]

\* Begin, and answer from the row the route has just read.
AnswerAtOnce(h, f, outcome) == Begin(h, f) /\ Finish(h, outcome)

\* Begin, and go on with the work.
GoOn(h, f, step) ==
    /\ Begin(h, f)
    /\ Goto(h, step)
    /\ answer' = [answer EXCEPT ![h] = "none"]
    /\ UNCHANGED <<attempt, verdict>>

Fault == faults < MaxFaults /\ faults' = faults + 1

-----------------------------------------------------------------------------
(* Upload. *)

\* Empty, oversized or unsupported bytes are refused before anything is read
\* into storage.
UploadInvalid(h) ==
    /\ AnswerAtOnce(h, NoFile, "rejected")
    /\ UNCHANGED <<row, object, records, found, counters>>

\* The route reads the row, then the body; every branch below is taken on that
\* snapshot, and only the storage call of Put comes after it.
UploadSnapshot(h, f) ==
    /\ \/ sha256 = NoFile /\ GoOn(h, f, "put")
       \/ sha256 = f /\ scan_status \in {"pending", "error"} /\ GoOn(h, f, "claim")
       \/ sha256 = f /\ scan_status \notin {"pending", "error"} /\ AnswerAtOnce(h, f, "replay")
       \/ sha256 \notin {NoFile, f} /\ AnswerAtOnce(h, f, "conflict")
    /\ UNCHANGED <<row, object, records, found, counters>>

\* Storage creates the object if its key is absent, and never overwrites.
Put(h) ==
    /\ pc[h] = "put"
    /\ object' = [object EXCEPT ![data[h]] = IF @ = "absent" THEN "intact" ELSE @]
    /\ Goto(h, "persist")
    /\ UNCHANGED <<row, data, attempt, verdict, answer, records, found, counters>>

\* Storage reports a failure; a remote store may have kept the object even so,
\* and the log row names the stage but not the key.
PutFails(h) ==
    /\ pc[h] = "put"
    /\ Fault
    /\ \/ UNCHANGED <<object, lost>>
       \/ /\ object[data[h]] = "absent"
          /\ object' = [object EXCEPT ![data[h]] = "intact"]
          /\ lost' = lost \cup {data[h]}
    /\ Finish(h, "error")
    /\ UNCHANGED <<row, data, logged, found, overruns>>

\* Faulty variant: the UPDATE lost its sha256 IS NULL.
PersistUnconditionally(h) ==
    /\ pc[h] = "persist"
    /\ sha256' = data[h]
    /\ storage_key' = data[h]
    /\ scan_status' = "pending"
    /\ status' = "pending"
    /\ Goto(h, "claim")
    /\ UNCHANGED <<scan_attempt_id, lease>>
    /\ UNCHANGED <<object, data, attempt, verdict, answer, records, found, counters>>

\* What the UPDATE does to a row it matches.
AttachFile(f) ==
    /\ sha256 = NoFile
    /\ sha256' = f
    /\ storage_key' = f
    /\ scan_status' = "pending"
    /\ status' = "pending"
    /\ UNCHANGED <<scan_attempt_id, lease>>

\* The conditional UPDATE (sha256 IS NULL) has a single winner.
PersistFileState(h) ==
    /\ pc[h] = "persist"
    /\ \/ AttachFile(data[h]) /\ Goto(h, "claim")
       \/ /\ sha256 # NoFile
          /\ Goto(h, "resolve")
          /\ UNCHANGED row
    /\ UNCHANGED <<object, data, attempt, verdict, answer, records, found, counters>>

\* The UPDATE raises: the row is as it was, or the UPDATE was done and only its
\* reply was lost.  The handler cannot tell, and records the object.
PersistFails(h) ==
    /\ pc[h] = "persist"
    /\ Fault
    /\ UNCHANGED row \/ AttachFile(data[h])
    /\ Goto(h, "record")
    /\ answer' = [answer EXCEPT ![h] = "error"]
    /\ UNCHANGED <<object, data, attempt, verdict, records, found, overruns>>

\* Faulty variant: the loser reports its conflict and forgets its object.
ResolveForgetful(h) ==
    /\ pc[h] = "resolve"
    /\ IF sha256 = data[h] /\ scan_status # "clean"
          THEN Goto(h, "claim") /\ UNCHANGED <<attempt, verdict, answer>>
          ELSE Finish(h, IF sha256 = data[h] THEN "replay" ELSE "conflict")
    /\ UNCHANGED <<row, object, data, records, found, counters>>

\* The loser of the UPDATE reads the winner's row.
Resolve(h) ==
    /\ pc[h] = "resolve"
    /\ \/ sha256 = data[h] /\ scan_status = "clean" /\ Finish(h, "replay")
       \/ /\ sha256 = data[h] /\ scan_status # "clean"
          /\ Goto(h, "claim")
          /\ UNCHANGED <<attempt, verdict, answer>>
       \/ /\ sha256 # data[h]
          /\ Goto(h, "record")
          /\ answer' = [answer EXCEPT ![h] = "conflict"]
          /\ UNCHANGED <<attempt, verdict>>
    /\ UNCHANGED <<row, object, data, records, found, counters>>

\* record_operation writes the orphan's key to the operation log ...
RecordOrphan(h) ==
    /\ pc[h] = "record"
    /\ logged' = logged \cup {data[h]}
    /\ Finish(h, answer[h])
    /\ UNCHANGED <<row, object, data, lost, found, counters>>

\* ... and swallows its own failure: the answer is the same.
RecordOrphanFails(h) ==
    /\ pc[h] = "record"
    /\ Fault
    /\ lost' = lost \cup {data[h]}
    /\ Finish(h, answer[h])
    /\ UNCHANGED <<row, object, data, logged, found, overruns>>

-----------------------------------------------------------------------------
(* Scan ownership. *)

\* A UUID nobody holds: neither the row nor a handler at work.
Fresh == {a \in Attempt : a # scan_attempt_id /\ \A h \in Handler : attempt[h] # a}

\* Faulty variants: the claim ignores a live lease; or waits for its release.
ClaimableWhileOwned == scan_status \notin Final
ClaimableIfReleased == scan_status \notin Final /\ lease = "none"

\* The WHERE clause of the claim.  (Its third case, scan_attempt_id = $2, never
\* applies: the identifier has just been drawn.)
Claimable == scan_status \notin Final /\ lease # "live"

\* The claiming UPDATE: a new owner, a new lease, a scan that is pending.
ClaimScanAttempt(h) ==
    /\ pc[h] \in {"claim", "rescan_claim"}
    /\ Claimable
    /\ \E a \in Fresh :
          /\ scan_attempt_id' = a
          /\ attempt' = [attempt EXCEPT ![h] = a]
    /\ lease' = "live"
    /\ scan_status' = "pending"
    /\ Goto(h, IF pc[h] = "claim" THEN "scan" ELSE "fetch")
    /\ UNCHANGED <<file, status, object, data, verdict, answer, records, found, counters>>

ClaimLost(h) ==
    /\ pc[h] \in {"claim", "rescan_claim"}
    /\ ~Claimable
    /\ Goto(h, "reread")
    /\ UNCHANGED <<row, object, data, attempt, verdict, answer, records, found, counters>>

\* get_document once more, to report what stands.
Reread(h) ==
    /\ pc[h] = "reread"
    /\ Finish(h, IF scan_status \in Final THEN "replay" ELSE "scan_pending")
    /\ UNCHANGED <<row, object, data, records, found, counters>>

\* The columns a handler clears when it gives its attempt up, if it owns it.
Disown == scan_attempt_id' = NoAttempt /\ lease' = "none"

-----------------------------------------------------------------------------
(* Rescan of the stored object. *)

RescanSnapshot(h) ==
    /\ \/ scan_status \in Final /\ AnswerAtOnce(h, sha256, "replay")
       \/ scan_status \notin Final /\ storage_key = NoFile /\ AnswerAtOnce(h, NoFile, "unavailable")
       \/ scan_status \notin Final /\ storage_key # NoFile /\ GoOn(h, sha256, "rescan_claim")
    /\ UNCHANGED <<row, object, records, found, counters>>

\* The stored bytes are read back and their digest compared with the row's.
Fetch(h) ==
    /\ pc[h] = "fetch"
    /\ Goto(h, IF object[data[h]] = "intact" THEN "scan" ELSE "release")
    /\ UNCHANGED <<row, object, data, attempt, verdict, answer, records, found, counters>>

FetchFails(h) ==
    /\ pc[h] = "fetch"
    /\ Fault
    /\ Goto(h, "release")
    /\ UNCHANGED <<row, object, data, attempt, verdict, answer, records, found, overruns>>

\* Faulty variant: the error path returns without giving the attempt up.
ReleaseNothing(h) ==
    /\ pc[h] = "release"
    /\ Finish(h, "error")
    /\ UNCHANGED <<row, object, data, records, found, counters>>

ReleaseScanAttempt(h) ==
    /\ pc[h] = "release"
    /\ IF scan_attempt_id = attempt[h] THEN Disown ELSE UNCHANGED <<scan_attempt_id, lease>>
    /\ Finish(h, "error")
    /\ UNCHANGED <<file, scan_status, status, object, data, records, found, counters>>

-----------------------------------------------------------------------------
(* Scan and publication. *)

ScannerAnswers(h) ==
    /\ pc[h] = "scan"
    /\ \E v \in Final :
          /\ verdict' = [verdict EXCEPT ![h] = v]
          /\ found' = found \cup {<<data[h], v>>}
    /\ Goto(h, "publish")
    /\ UNCHANGED <<row, object, data, attempt, answer, records, counters>>

ScannerUnavailable(h) ==
    /\ pc[h] = "scan"
    /\ Fault
    /\ Goto(h, "fail")
    /\ UNCHANGED <<row, object, data, attempt, verdict, answer, records, found, overruns>>

\* Only the owning attempt may mark the failure, and never over a verdict.
PersistScanError(h) ==
    /\ pc[h] = "fail"
    /\ IF scan_attempt_id = attempt[h] /\ scan_status \notin Final
          THEN scan_status' = "error" /\ Disown
          ELSE UNCHANGED <<scan_status, scan_attempt_id, lease>>
    /\ Goto(h, "reread")
    /\ attempt' = [attempt EXCEPT ![h] = NoAttempt]
    /\ UNCHANGED <<file, status, object, data, verdict, answer, records, found, counters>>

\* Faulty variant: the guard of the time before attempts, by verdict alone.
PublishableByAnyone(h) ==
    \/ verdict[h] = "infected" /\ scan_status # "infected"
    \/ verdict[h] = "clean" /\ scan_status \notin Final

\* The guard of the publishing UPDATE.
Publishable(h) ==
    /\ scan_attempt_id = attempt[h]
    /\ \/ verdict[h] = "infected" /\ scan_status # "infected"
       \/ verdict[h] = "clean" /\ scan_status \notin Final

\* Faulty variant: the outcome is stored where the status belongs.
PersistOutcome(h) ==
    /\ pc[h] = "publish"
    /\ Publishable(h)
    /\ scan_status' = verdict[h]
    /\ status' = IF verdict[h] = "clean" THEN "uploaded" ELSE "quarantined"
    /\ Disown
    /\ Finish(h, status')
    /\ UNCHANGED <<file, object, data, records, found, counters>>

PersistScanResult(h) ==
    /\ pc[h] = "publish"
    /\ Publishable(h)
    /\ scan_status' = verdict[h]
    /\ status' = IF verdict[h] = "clean" THEN "uploaded" ELSE "pending"
    /\ Disown
    /\ Finish(h, IF verdict[h] = "clean" THEN "uploaded" ELSE "quarantined")
    /\ UNCHANGED <<file, object, data, records, found, counters>>

\* The UPDATE finds no row: the verdict is dropped and the stored row reported.
PublishRefused(h) ==
    /\ pc[h] = "publish"
    /\ ~Publishable(h)
    /\ Finish(h, "replay")
    /\ UNCHANGED <<row, object, data, records, found, counters>>

-----------------------------------------------------------------------------
(* The environment. *)

\* The handler's process dies, its client goes away, or a statement raises an
\* exception nothing catches: the row keeps whatever was committed.
Crash(h) ==
    /\ pc[h] # "idle"
    /\ Fault
    /\ lost' = IF pc[h] \in Holding THEN lost \cup {data[h]} ELSE lost
    /\ Finish(h, "none")
    /\ UNCHANGED <<row, object, data, logged, found, overruns>>

Abandoned == \A h \in Handler : attempt[h] # scan_attempt_id

\* SCAN_ATTEMPT_LEASE_SECONDS have passed since the claim, its owner gone ...
LeaseExpires ==
    /\ lease = "live"
    /\ Abandoned
    /\ lease' = "expired"
    /\ UNCHANGED <<file, scan_status, status, scan_attempt_id, object, pc, data,
                   attempt, verdict, answer, records, found, counters>>

\* ... or still at work: nothing bounds a scan by the lease.
LeaseOverruns ==
    /\ lease = "live"
    /\ ~Abandoned
    /\ Fault
    /\ overruns' = overruns + 1
    /\ lease' = "expired"
    /\ UNCHANGED <<file, scan_status, status, scan_attempt_id, object, pc, data,
                   attempt, verdict, answer, records, found>>

\* A stored object rots; the digest check of Fetch is there to notice.
Damage(f) ==
    /\ object[f] = "intact"
    /\ Fault
    /\ object' = [object EXCEPT ![f] = "damaged"]
    /\ UNCHANGED <<row, pc, data, attempt, verdict, answer, records, found, overruns>>

-----------------------------------------------------------------------------
\* What a handler does of itself once it has a request, nothing failing.
Progress(h) ==
    \/ Put(h) \/ PersistFileState(h) \/ Resolve(h) \/ RecordOrphan(h)
    \/ ClaimScanAttempt(h) \/ ClaimLost(h) \/ Reread(h)
    \/ Fetch(h) \/ ReleaseScanAttempt(h)
    \/ ScannerAnswers(h) \/ PersistScanError(h)
    \/ PersistScanResult(h) \/ PublishRefused(h)

Failure(h) ==
    \/ PutFails(h) \/ PersistFails(h) \/ RecordOrphanFails(h)
    \/ FetchFails(h) \/ ScannerUnavailable(h) \/ Crash(h)

Request(h) ==
    \/ UploadInvalid(h)
    \/ \E f \in File : UploadSnapshot(h, f)
    \/ RescanSnapshot(h)

Next ==
    \/ \E h \in Handler : Request(h) \/ Progress(h) \/ Failure(h)
    \/ LeaseExpires
    \/ LeaseOverruns
    \/ \E f \in File : Damage(f)

Spec == Init /\ [][Next]_vars

(***************************************************************************)
(* Handlers run to their end, abandoned leases run out, and somebody keeps *)
(* asking for the scan ("Retry scan" in MatterDocumentsSection; the server *)
(* has no sweep of its own).                                               *)
(***************************************************************************)
FairSpec ==
    /\ Spec
    /\ \A h \in Handler : WF_vars(Progress(h)) /\ SF_vars(RescanSnapshot(h))
    /\ WF_vars(LeaseExpires)

-----------------------------------------------------------------------------
(* Properties. *)

\* The three columns a download link and a download both require.
Downloadable == status = "uploaded" /\ scan_status = "clean" /\ storage_key # NoFile

\* A file can be downloaded only if the scanner called that very content
\* clean: not the content of another upload that raced it, and not a content
\* whose scan an older attempt was running.
ReleasedIsScanned ==
    Downloadable => storage_key = sha256 /\ <<sha256, "clean">> \in found

\* What a handler reported stays true of the row: a file reported uploaded is
\* never quarantined by a later verdict, a caller told that its bytes are in
\* (replay, scan_pending) sent the bytes on record, and a caller told of a
\* conflict did not.
HonestAnswer(h) ==
    pc[h] = "idle" =>
        /\ answer[h] = "uploaded" => scan_status = "clean" /\ sha256 = data[h]
        /\ answer[h] = "quarantined" => scan_status = "infected" /\ sha256 = data[h]
        /\ answer[h] \in {"replay", "scan_pending"} => sha256 = data[h] /\ sha256 # NoFile
        /\ answer[h] = "conflict" => sha256 \notin {NoFile, data[h]}

AnswersHonest == \A h \in Handler : HonestAnswer(h)

\* Concurrent uploads and rescans launch one scan: a second handler is at work
\* on an attempt only if a lease ran out under the first.
NoDuplicateScan ==
    Cardinality({h \in Handler : pc[h] \in Working}) <= overruns + 1

\* An object nobody references is either in the hands of a handler that will
\* still persist or record it, recorded in the operation log for
\* reconciliation, or one of the losses the service documents (its process
\* died, or the log write failed as well).
OrphansAccounted ==
    \A f \in File : object[f] # "absent" =>
        \/ f = storage_key
        \/ f \in logged \cup lost
        \/ \E h \in Handler : data[h] = f /\ pc[h] \in Holding

\* A handler that lives to the end of its attempt does not leave the attempt
\* behind: only a crash makes the next caller wait for the lease to run out.
NoLeaseLeftBehind ==
    [][\A h \in Handler :
          attempt[h] # NoAttempt /\ attempt'[h] = NoAttempt /\ ~Crash(h)
              => scan_attempt_id' # attempt[h]]_vars

\* The row alone: a verdict is on a content the scanner gave it to, an owner
\* exists only while the scan is pending, the lifecycle follows the scan.
RowInv ==
    /\ storage_key = sha256
    /\ sha256 = NoFile <=> scan_status = "not_scanned"
    /\ status = "uploaded" <=> scan_status = "clean"
    /\ scan_attempt_id = NoAttempt <=> lease = "none"
    /\ scan_attempt_id # NoAttempt => scan_status = "pending"
    /\ scan_status \in Final => <<sha256, scan_status>> \in found

\* A handler and the row: past its persist, it works on the content on record.
HandlerInv(h) ==
    /\ attempt[h] # NoAttempt <=> pc[h] \in Working
    /\ pc[h] \in {"put"} \cup Holding => data[h] \in File
    /\ pc[h] = "resolve" => sha256 # NoFile
    /\ pc[h] = "record" =>
          \/ answer[h] = "error"
          \/ answer[h] = "conflict" /\ sha256 \notin {NoFile, data[h]}
    /\ pc[h] \in {"claim", "rescan_claim", "reread"} \cup Working =>
          sha256 = data[h] /\ sha256 # NoFile
    /\ pc[h] = "publish" => verdict[h] \in Final /\ <<data[h], verdict[h]>> \in found

\* What the safety properties rest on; inductive together with TypeOK: the
\* row's and the handlers' consistency, and the two properties that a step
\* keeps only because they held before it.
LaneInv ==
    /\ RowInv
    /\ \A h \in Handler : HandlerInv(h)
    /\ AnswersHonest
    /\ OrphansAccounted

\* The lane implements the promise of DocumentFile: one file, one verdict, and
\* release by a clean verdict only.
Promise == INSTANCE DocumentFile WITH
    file <- sha256,
    verdict <- IF scan_status \in Final THEN scan_status ELSE "undecided",
    released <- IF Downloadable THEN storage_key ELSE NoFile

Implements == Promise!Spec

\* Once the failures are over, every attached file gets its verdict, whichever
\* handlers died or overran their lease on the way; unless the stored object
\* is damaged, which no retry from storage can repair.
EveryFileDecided ==
    \A f \in File : sha256 = f ~> scan_status \in Final \/ object[f] = "damaged"
=============================================================================

----------------------- MODULE MatterDocumentsPanel -------------------------
(***************************************************************************)
(* The documents of a matter on its page (MatterDocumentsSection,          *)
(* matterDocuments): rows and requirements are read again after every      *)
(* operation, operations on different rows run side by side behind one     *)
(* busyKey, the file dialogs share one uploadTarget, and a download spans  *)
(* two requests and the reading of a body, during which the session may    *)
(* change.  What the server does with a file is DocumentLane's matter; here*)
(* its verdicts are final once they are 'clean' or 'infected'.             *)
(***************************************************************************)
EXTENDS Naturals, FiniteSets

CONSTANTS
    Doc,            \* document rows
    Asked,          \* the one that is created when a file is chosen for the requirement
    Requirement, Recalculate,   \* keys beside the rows
    NoRow,
    MaxCalls,       \* bound: calls under way
    MaxSession      \* bound: sessionGeneration

VARIABLES
    row,         \* the status of the rows on the server
    shown,       \* the rows as the section last read them
    busyKey,     \* the operation the section shows as busy, or NoRow
    dialog,      \* the row, or the requirement, whose file dialog is open, or NoRow
    uploadTarget,
    calls,       \* operations under way
    generation,  \* sessionGeneration
    saved        \* for the files that were saved, the sessions of the click and of the save

vars == <<row, shown, busyKey, dialog, uploadTarget, calls, generation, saved>>

\* "pending" stands for 'error' too: both can be scanned again.
Status == {"absent", "empty", "pending", "clean", "infected"}
Target == Doc \cup {Requirement}
Stage == {"create", "upload", "rescan", "recalculate", "refresh", "link", "file", "blob"}
Call == [stage: Stage, key: Target \cup {Recalculate, NoRow}, doc: Doc, picked: Target \cup {NoRow},
         by: 1 .. MaxSession, rows: [Doc -> Status] \cup {NoRow}]

TypeOK ==
    /\ row \in [Doc -> Status] /\ shown \in [Doc -> Status]
    /\ busyKey \in Target \cup {Recalculate, NoRow}
    /\ {dialog, uploadTarget} \subseteq Target \cup {NoRow}
    /\ calls \subseteq Call
    /\ generation \in 1 .. MaxSession
    /\ saved \subseteq [asked: Nat, at: Nat]

\* A mount reads the rows, with nothing busy; its doc is of no account.
RefreshBy(g) == [stage |-> "refresh", key |-> NoRow, doc |-> Asked, picked |-> NoRow,
                 by |-> g, rows |-> NoRow]

Init ==
    /\ row = [d \in Doc |-> IF d = Asked THEN "absent" ELSE "empty"]
    /\ shown = [d \in Doc |-> "absent"]
    /\ busyKey = NoRow /\ dialog = NoRow /\ uploadTarget = NoRow
    /\ generation = 1 /\ calls = {RefreshBy(1)}
    /\ saved = {}

Room == Cardinality(calls) < MaxCalls

\* setBusyKey(key) and the first request of an operation.
Begin(key, d, stage, picked) ==
    /\ Room
    /\ busyKey' = key
    /\ calls' = calls \cup {[stage |-> stage, key |-> key, doc |-> d, picked |-> picked,
                             by |-> generation, rows |-> NoRow]}

-----------------------------------------------------------------------------
(* The user.  An operation blocks the buttons under its own key, no others. *)

PickFile(t) ==
    /\ dialog = NoRow /\ busyKey # t
    /\ uploadTarget' = t /\ dialog' = t
    /\ UNCHANGED <<row, shown, busyKey, calls, generation, saved>>

pickFileForDocument(d) == shown[d] = "empty" /\ PickFile(d)

\* As long as no uploaded document satisfies the requirement.
pickFileForRequirement == shown[Asked] \in {"absent", "empty"} /\ PickFile(Requirement)

\* A cancelled dialog fires no event: the target stays.
CancelDialog ==
    /\ dialog # NoRow /\ dialog' = NoRow
    /\ UNCHANGED <<row, shown, busyKey, uploadTarget, calls, generation, saved>>

handleFileChosen ==
    /\ dialog # NoRow /\ uploadTarget # NoRow
    /\ dialog' = NoRow /\ uploadTarget' = NoRow
    /\ IF uploadTarget = Requirement
       THEN Begin(Requirement, Asked, "create", dialog)
       ELSE Begin(uploadTarget, uploadTarget, "upload", dialog)
    /\ UNCHANGED <<row, shown, generation, saved>>

handleRescan(d) ==
    /\ shown[d] = "pending" /\ busyKey # d
    /\ Begin(d, d, "rescan", NoRow)
    /\ UNCHANGED <<row, shown, dialog, uploadTarget, generation, saved>>

handleRecalculate ==
    /\ busyKey # Recalculate
    /\ Begin(Recalculate, Asked, "recalculate", NoRow)
    /\ UNCHANGED <<row, shown, dialog, uploadTarget, generation, saved>>

downloadable(d) == shown[d] = "clean"

handleDownload(d) ==
    /\ downloadable(d) /\ busyKey # d
    /\ Begin(d, d, "link", NoRow)
    /\ UNCHANGED <<row, shown, dialog, uploadTarget, generation, saved>>

-----------------------------------------------------------------------------
(* The server.                                                              *)

\* The lane's verdict on a stored file; a final one is never replaced.
Verdict(d) ==
    /\ row[d] = "pending"
    /\ \E v \in {"clean", "infected"} : row' = [row EXCEPT ![d] = v]
    /\ UNCHANGED <<shown, busyKey, dialog, uploadTarget, calls, generation, saved>>

\* The upload takes effect whether or not its answer arrives.
Store(c) ==
    /\ c \in calls /\ c.stage = "upload" /\ row[c.doc] = "empty"
    /\ row' = [row EXCEPT ![c.doc] = "pending"]
    /\ UNCHANGED <<shown, busyKey, dialog, uploadTarget, calls, generation, saved>>

ReadRows(c) ==
    /\ c \in calls /\ c.stage = "refresh" /\ c.rows = NoRow
    /\ calls' = (calls \ {c}) \cup {[c EXCEPT !.rows = row]}
    /\ UNCHANGED <<row, shown, busyKey, dialog, uploadTarget, generation, saved>>

-----------------------------------------------------------------------------
(* The answers.                                                             *)

\* Faulty variant: each request of a download asks for the session anew.
AnySession(c) == c.by <= generation

\* apiRequest's assertCurrent, kept in the scope that a download's requests share.
assertDownloadSession(c) == c.by = generation

Next1(c, stage) == calls' = (calls \ {c}) \cup {[c EXCEPT !.stage = stage]}

\* An error, a refusal, or an answer of an ended session: the operation is over.
\* A section of a later session is another one, with a busyKey of its own.
Fails(c) ==
    /\ c \in calls /\ calls' = calls \ {c}
    /\ busyKey' = IF c.by = generation /\ c.key # NoRow THEN NoRow ELSE busyKey
    /\ UNCHANGED <<row, shown, dialog, uploadTarget, generation, saved>>

Created(c) ==
    /\ c \in calls /\ c.stage = "create" /\ c.by = generation /\ row[c.doc] = "absent"
    /\ row' = [row EXCEPT ![c.doc] = "empty"]
    /\ Next1(c, "upload")
    /\ UNCHANGED <<shown, busyKey, dialog, uploadTarget, generation, saved>>

\* The answer of an upload, a rescan or a recalculation: refresh() follows.
Answered(c) ==
    /\ c \in calls /\ c.by = generation
    /\ \/ c.stage = "upload" /\ row[c.doc] # "empty"
       \/ c.stage \in {"rescan", "recalculate"}
    /\ Next1(c, "refresh")
    /\ UNCHANGED <<row, shown, busyKey, dialog, uploadTarget, generation, saved>>

\* Whichever read answers last is shown, and any operation that ends clears the
\* one busyKey.
Refreshed(c) ==
    /\ c \in calls /\ c.stage = "refresh" /\ c.rows # NoRow /\ c.by = generation
    /\ shown' = c.rows
    /\ calls' = calls \ {c}
    /\ busyKey' = IF c.key # NoRow THEN NoRow ELSE busyKey
    /\ UNCHANGED <<row, dialog, uploadTarget, generation, saved>>

\* The link, the headers of the file; released again by the server each time.
LinkAnswers(c) ==
    /\ c \in calls /\ c.stage = "link" /\ assertDownloadSession(c) /\ row[c.doc] = "clean"
    /\ Next1(c, "file")
    /\ UNCHANGED <<row, shown, busyKey, dialog, uploadTarget, generation, saved>>

FileAnswers(c) ==
    /\ c \in calls /\ c.stage = "file" /\ assertDownloadSession(c) /\ row[c.doc] = "clean"
    /\ Next1(c, "blob")
    /\ UNCHANGED <<row, shown, busyKey, dialog, uploadTarget, generation, saved>>

\* The body is read after apiRequest has returned.
BlobRead(c) ==
    /\ c \in calls /\ c.stage = "blob" /\ assertDownloadSession(c)
    /\ saved' = saved \cup {[asked |-> c.by, at |-> generation]}
    /\ calls' = calls \ {c} /\ busyKey' = NoRow
    /\ UNCHANGED <<row, shown, dialog, uploadTarget, generation>>

\* Another login, or the end of the session and a new one: a section mounted
\* anew, while the calls of the former one go on.
SessionChanges ==
    /\ generation < MaxSession /\ Room
    /\ generation' = generation + 1
    /\ shown' = [d \in Doc |-> "absent"] /\ busyKey' = NoRow
    /\ dialog' = NoRow /\ uploadTarget' = NoRow
    /\ calls' = calls \cup {RefreshBy(generation + 1)}
    /\ UNCHANGED <<row, saved>>

Next ==
    \/ pickFileForRequirement \/ CancelDialog \/ handleFileChosen \/ handleRecalculate
    \/ SessionChanges
    \/ \E d \in Doc : pickFileForDocument(d) \/ handleRescan(d) \/ handleDownload(d) \/ Verdict(d)
    \/ \E c \in calls : \/ Store(c) \/ ReadRows(c) \/ Fails(c) \/ Created(c) \/ Answered(c)
                        \/ Refreshed(c) \/ LinkAnswers(c) \/ FileAnswers(c) \/ BlobRead(c)

Spec == Init /\ [][Next]_vars

-----------------------------------------------------------------------------
(* Properties.                                                              *)

\* A file is only saved in the session that asked for it, though two requests
\* and the reading of the body lie between the click and the file.
SavedInItsSession == \A s \in saved : s.at = s.asked

\* A download is only offered for a file that is released, however old the rows
\* on the page are.
OfferedIsReleased == \A d \in Doc : downloadable(d) => row[d] = "clean"

\* The file chosen in a row's dialog goes to that row, whichever dialogs were
\* cancelled before and whatever ran meanwhile.
FileReachesItsRow ==
    \A c \in calls : c.stage = "upload" =>
        c.picked = c.doc \/ (c.picked = Requirement /\ c.doc = Asked)
=============================================================================

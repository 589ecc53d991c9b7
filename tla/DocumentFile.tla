---------------------------- MODULE DocumentFile ----------------------------
(***************************************************************************)
(* What the document lane promises to a reader of one matter document,     *)
(* whatever handlers, retries, leases and failures lie behind it:          *)
(*                                                                         *)
(*   - a document receives at most one file, and never another;            *)
(*   - the malware verdict on that file is given at most once;             *)
(*   - the file is released for download with a clean verdict and in no    *)
(*     other way.                                                          *)
(*                                                                         *)
(* The promise is the one of the service's design rules                    *)
(* (python_server/services/matter_document_service.py, lines 5 to 14).     *)
(* DocumentLane is shown to implement it.                                  *)
(***************************************************************************)

CONSTANTS
    File,     \* the contents a document may receive, by digest
    NoFile    \* no content (SQL NULL)

VARIABLES
    file,     \* the content attached to the document, or NoFile
    verdict,  \* "undecided", "clean" or "infected"
    released  \* the content a download may deliver, or NoFile

vars == <<file, verdict, released>>

TypeOK ==
    /\ file \in File \cup {NoFile}
    /\ verdict \in {"undecided", "clean", "infected"}
    /\ released \in File \cup {NoFile}

Init ==
    /\ file = NoFile
    /\ verdict = "undecided"
    /\ released = NoFile

\* The single upload that wins attaches its content.
Attach(f) ==
    /\ file = NoFile
    /\ file' = f
    /\ UNCHANGED <<verdict, released>>

\* The single verdict; a clean one releases the attached content.
Decide(v) ==
    /\ file # NoFile
    /\ verdict = "undecided"
    /\ verdict' = v
    /\ released' = IF v = "clean" THEN file ELSE NoFile
    /\ UNCHANGED file

Next ==
    \/ \E f \in File : Attach(f)
    \/ \E v \in {"clean", "infected"} : Decide(v)

Spec == Init /\ [][Next]_vars
=============================================================================

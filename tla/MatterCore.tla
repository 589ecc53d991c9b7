----------------------------- MODULE MatterCore -----------------------------
(***************************************************************************)
(* Editing the core fields of a matter: the page (TransferMilestones.tsx), *)
(* the two statements by which the BFF reads a matter, and the FastAPI     *)
(* update that compares the version tokens of two rows under their locks.  *)
(* One field stands for transfers.property_address, one for the title and  *)
(* the firm reference in matters; a value is the number of the edit that   *)
(* typed it, 0 what was there before.                                      *)
(***************************************************************************)
EXTENDS Naturals, FiniteSets

CONSTANTS
    Page,      \* mounted pages, of one or several users
    Matter,    \* transfers with their matters, by id
    MaxEdits,  \* bound: edits typed
    MaxClock,  \* bound: no save starts once as many timestamps were given
    MaxMoves,  \* bound: navigations from one matter to another
    MaxFaults  \* bound: failed reads, failed saves, lost replies

VARIABLES
    row,     \* transfers and matters: values and updated_at of both rows
    clock,   \* the last updated_at given; no two transactions share one
    page,    \* coreDetail, coreDraft, coreConflict and the id in the URL
    load,    \* per page, the loadCoreDetails in flight
    save,    \* per page, the saveCoreDetails in flight
    typed,   \* history: the matter shown when an edit was typed
    moves, faults

vars == <<row, clock, page, load, save, typed, moves, faults>>

Part   == {"transfer", "matter"}
Edit   == 0 .. MaxEdits
Fields == [Part -> Edit]
Tokens == [Part -> Nat]
Detail == [of: Matter, value: Fields, at: Tokens]

NoDetail == <<>>
NoSave   == <<>>
Edited   == DOMAIN typed

Blank == [p \in Part |-> 0]

TypeOK ==
    /\ row \in [Matter -> [value: Fields, at: Tokens]] /\ clock \in Nat
    /\ \A p \in Page :
          /\ page[p].url \in Matter /\ page[p].conflict \in BOOLEAN
          /\ page[p].detail = NoDetail \/ page[p].detail \in Detail
          /\ page[p].draft \in Fields
          /\ \A l \in load[p] : l.of \in Matter /\ l.got \subseteq Part
          /\ save[p] # NoSave => /\ save[p].of \in Matter
                                 /\ save[p].reply \in {"none", "ok", "conflict", "error"}
    /\ typed \in [1 .. Cardinality(Edited) -> Matter] /\ Cardinality(Edited) <= MaxEdits
    /\ moves \in 0 .. MaxMoves /\ faults \in 0 .. MaxFaults

Get(m) == [of |-> m, got |-> {}, value |-> Blank, at |-> Blank]

Init ==
    /\ clock = Cardinality(Matter)
    /\ \E created \in [Matter -> 1 .. clock] :
          /\ \A m, n \in Matter : created[m] = created[n] => m = n
          /\ row = [m \in Matter |-> [value |-> Blank, at |-> [p \in Part |-> created[m]]]]
    /\ \E m \in Matter :
          /\ page = [p \in Page |-> [url |-> m, detail |-> NoDetail, draft |-> Blank,
                                     conflict |-> FALSE]]
          /\ load = [p \in Page |-> {Get(m)}]
    /\ save = [p \in Page |-> NoSave]
    /\ typed = <<>> /\ moves = 0 /\ faults = 0

Fault == faults < MaxFaults /\ faults' = faults + 1

-----------------------------------------------------------------------------
(* Reading.  Nothing cancels a read when the page moves on.                 *)

\* Back and forward change the id of a mounted page; its state stays.
Navigate(p, m) ==
    /\ moves < MaxMoves /\ m # page[p].url
    /\ moves' = moves + 1
    /\ page' = [page EXCEPT ![p].url = m]
    /\ load' = [load EXCEPT ![p] = @ \cup {Get(m)}]
    /\ UNCHANGED <<row, clock, save, typed, faults>>

\* "Reload latest", offered after a conflict; bound: not while a read runs.
Reload(p) ==
    /\ page[p].conflict /\ page[p].detail # NoDetail /\ load[p] = {}
    /\ load' = [load EXCEPT ![p] = @ \cup {Get(page[p].url)}]
    /\ UNCHANGED <<row, clock, page, save, typed, moves, faults>>

\* GET /:id: the row of transfers, then in a statement of its own the matter's.
ReadRow(p, l, part) ==
    /\ l \in load[p] /\ part \notin l.got
    /\ part = "matter" => "transfer" \in l.got
    /\ load' = [load EXCEPT ![p] = (@ \ {l}) \cup
                  {[l EXCEPT !.got = @ \cup {part}, !.value[part] = row[l.of].value[part],
                             !.at[part] = row[l.of].at[part]]}]
    /\ UNCHANGED <<row, clock, page, save, typed, moves, faults>>

Show(p, d, conflict) ==
    page' = [page EXCEPT ![p].detail = d, ![p].draft = d.value, ![p].conflict = conflict]

\* What arrives replaces detail and draft, whichever matter the page is at.
LoadAnswers(p, l) ==
    /\ l \in load[p] /\ l.got = Part
    /\ Show(p, [of |-> l.of, value |-> l.value, at |-> l.at], FALSE)
    /\ load' = [load EXCEPT ![p] = @ \ {l}]
    /\ UNCHANGED <<row, clock, save, typed, moves, faults>>

LoadFails(p, l) ==
    /\ l \in load[p] /\ Fault
    /\ page' = [page EXCEPT ![p].detail = NoDetail]
    /\ load' = [load EXCEPT ![p] = @ \ {l}]
    /\ UNCHANGED <<row, clock, save, typed, moves>>

-----------------------------------------------------------------------------
(* Editing.  The fields stay open while a save runs.                        *)

Type(p, part) ==
    /\ page[p].detail # NoDetail /\ Cardinality(Edited) < MaxEdits
    /\ LET n == Cardinality(Edited) + 1
       IN  /\ page' = [page EXCEPT ![p].draft[part] = n]
           /\ typed' = [e \in 1 .. n |-> IF e = n THEN page[p].detail.of ELSE typed[e]]
    /\ UNCHANGED <<row, clock, load, save, moves, faults>>

\* All fields are sent with the tokens of the detail shown, to the id in the URL.
saveCoreDetails(p) ==
    /\ page[p].detail # NoDetail /\ save[p] = NoSave /\ clock < MaxClock
    /\ save' = [save EXCEPT ![p] = [of |-> page[p].url, at |-> page[p].detail.at,
                                    value |-> page[p].draft, shown |-> page[p].detail.value,
                                    reply |-> "none", detail |-> NoDetail]]
    /\ page' = [page EXCEPT ![p].conflict = FALSE]
    /\ UNCHANGED <<row, clock, load, typed, moves, faults>>

\* Faulty variant: an edit of the matter row alone goes unnoticed.
FreshTransfer(m, at) == row[m].at["transfer"] = at["transfer"]

\* Faulty variant: the last writer wins.
Always(m, at) == TRUE

\* Both locked rows carry the expected updated_at.
Fresh(m, at) == row[m].at = at

\* Comparison and update are one transaction; one timestamp stamps both rows.
update_core_matter_fields(p) ==
    /\ save[p] # NoSave /\ save[p].reply = "none"
    /\ LET s == save[p]
           new == [value |-> s.value, at |-> [part \in Part |-> clock + 1]]
       IN  \/ /\ Fresh(s.of, s.at)
              /\ clock' = clock + 1
              /\ row' = [row EXCEPT ![s.of] = new]
              /\ \/ /\ save' = [save EXCEPT ![p].reply = "ok",
                                  ![p].detail = [of |-> s.of, value |-> new.value, at |-> new.at]]
                    /\ UNCHANGED faults
                 \/ /\ save' = [save EXCEPT ![p].reply = "error"]
                    /\ Fault
           \/ /\ ~Fresh(s.of, s.at)
              /\ save' = [save EXCEPT ![p].reply = "conflict"]
              /\ UNCHANGED <<row, clock, faults>>
    /\ UNCHANGED <<page, load, typed, moves>>

\* Another client of the same route writes one field only, knowing the row.
EditAlone(m, part) ==
    /\ clock < MaxClock /\ Cardinality(Edited) < MaxEdits
    /\ LET n == Cardinality(Edited) + 1
       IN  /\ row' = [row EXCEPT ![m].value[part] = n, ![m].at[part] = clock + 1]
           /\ typed' = [e \in 1 .. n |-> IF e = n THEN m ELSE typed[e]]
    /\ clock' = clock + 1
    /\ UNCHANGED <<page, load, save, moves, faults>>

SaveFails(p) ==
    /\ save[p] # NoSave /\ save[p].reply = "none" /\ Fault
    /\ save' = [save EXCEPT ![p].reply = "error"]
    /\ UNCHANGED <<row, clock, page, load, typed, moves>>

\* The answer replaces detail and draft; a conflict or an error keeps both.
SaveAnswered(p) ==
    /\ save[p] # NoSave /\ save[p].reply # "none"
    /\ \/ save[p].reply = "ok" /\ Show(p, save[p].detail, page[p].conflict)
       \/ /\ save[p].reply # "ok"
          /\ page' = [page EXCEPT ![p].conflict = save[p].reply = "conflict"]
    /\ save' = [save EXCEPT ![p] = NoSave]
    /\ UNCHANGED <<row, clock, load, typed, moves, faults>>

Next ==
    \/ \E p \in Page :
          \/ \E m \in Matter : Navigate(p, m)
          \/ Reload(p) \/ saveCoreDetails(p) \/ update_core_matter_fields(p)
          \/ SaveFails(p) \/ SaveAnswered(p)
          \/ \E l \in load[p] : LoadAnswers(p, l) \/ LoadFails(p, l)
                                \/ \E part \in Part : ReadRow(p, l, part)
          \/ \E part \in Part : Type(p, part)
    \/ \E m \in Matter, part \in Part : EditAlone(m, part)

Spec == Init /\ [][Next]_vars

-----------------------------------------------------------------------------
(* Properties.                                                              *)

\* A save overwrites only what its page showed: although the detail may be
\* torn between two statements, may belong to another matter, and may have
\* been replaced while the save ran, the values it replaces are the values
\* the user saw when clicking.
OverwritesShown ==
    \A p \in Page :
        save[p] # NoSave /\ save[p].reply = "none" /\ row' # row /\ save'[p].reply # "none"
        => save[p].shown = row[save[p].of].value

\* The same of every step.
NoLostUpdate == [][OverwritesShown]_vars

\* An edit typed while one matter was shown is never stored in another, even
\* when the page has moved on and the answer of an earlier read or save puts
\* the former matter's fields back on the page of the next.
EditStaysWithMatter ==
    \A m \in Matter, part \in Part :
        row[m].value[part] # 0 => typed[row[m].value[part]] = m
=============================================================================

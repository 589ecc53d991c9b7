---------------------------- MODULE MatterWizard ----------------------------
(***************************************************************************)
(* The wizard that captures a matter (src/pages/Transfers.tsx and the steps*)
(* under src/components/transfers) against the three idempotent writes of  *)
(* the server: create the matter, attach its property, attach a party.     *)
(* A save is one asynchronous closure over the form at the click; the user *)
(* keeps editing, a reply may be lost and its request served later, the    *)
(* page may be reloaded, and a reopened matter replaces the form when its  *)
(* reads are in.  Roles, the primary contact and the validation of fields on  *)
(* the server are one refusal that the environment may choose.             *)
(***************************************************************************)
EXTENDS Naturals, Sequences, FiniteSets

CONSTANTS
    Card,       \* party cards; each mints its client_request_id when it is added
    Golden,     \* golden records
    Manual,     \* the kind of a person typed in by hand
    Company,    \* the kind of a company typed in by hand: never expressible
    Registry,   \* existing properties that can be linked
    Typed,      \* complete addresses typed in by hand
    Unset,      \* no property chosen, address incomplete
    MaxFaults,  \* bound: failures of the environment and reloads of the page
    MaxEdits    \* bound: changes of what was entered before, further cards included

ASSUME WizardAssumption ==
    /\ Manual \notin Golden /\ Company \notin Golden /\ Manual # Company
    /\ Registry \cap Typed = {} /\ Unset \notin Registry \cup Typed
    /\ (Golden \cup {Manual, Company}) \cap (Registry \cup Typed \cup {Unset}) = {}
    /\ MaxFaults \in Nat /\ MaxEdits \in Nat

VARIABLES
    page,     \* the mount: step, opened matter, availability of saving
    load,     \* the reads of a reopened matter
    form,     \* TransferState, as far as it is saved
    save,     \* the running persistAggregate and what it closed over
    call,     \* the request it awaits (at most one)
    reply,    \* the answer to it
    strays,   \* requests nobody awaits any more, not yet served
    table,    \* transfers, matter_properties, transfer_parties: rows in order
    notice,   \* the form reported as saved, while the notice stands
    faults, edits

vars == <<page, load, form, save, call, reply, strays, table, notice, faults, edits>>

Op   == {"matter", "property", "party"}
Read == {"property", "party"}
Kind == Golden \cup {Manual, Company}
Choice == Registry \cup Typed \cup {Unset}

PartyCard == [card: Card, kind: Kind, text: 0 .. MaxEdits, row: Nat]

\* matter, link and row are 0 until the server has answered with an id; the
\* classification is chosen from details = 1 on; no key is <<>>.
Form == [matter: Nat, details: 0 .. 1 + MaxEdits, parties: SUBSET PartyCard,
         choice: Choice, linkKey: Seq(Nat), link: Nat]

NoCall  == <<>>
NoReply == [kind |-> "none", id |-> 0]

EmptyForm == [matter |-> 0, details |-> 0, parties |-> {}, choice |-> Unset,
              linkKey |-> <<>>, link |-> 0]

Idle == [pc |-> "idle", submit |-> FALSE, form |-> EmptyForm, matter |-> 0,
         left |-> {}, failed |-> FALSE]

\* opened is the transferId the page was entered with, 0 for a new matter.
Mounted(n, m) ==
    [mount |-> n, opened |-> m, step |-> "property", persistence |-> "checking",
     hydrated |-> FALSE]

Loading(m) ==
    [asked |-> IF m = 0 THEN {} ELSE Read, failed |-> {}, upto |-> [r \in Read |-> 0]]

TypeOK ==
    /\ page \in [mount: 1 .. 1 + MaxFaults, opened: Nat,
                 step: {"property", "parties", "review", "left"},
                 persistence: {"checking", "ready", "unavailable"}, hydrated: BOOLEAN]
    /\ load \in [asked: SUBSET Read, failed: SUBSET Read, upto: [Read -> Nat]]
    /\ form \in Form
    /\ save.pc \in {"idle"} \cup Op /\ save.form \in Form
    /\ save.left \subseteq save.form.parties
    /\ save.pc = "idle" <=> call = NoCall
    /\ reply.kind \in {"none", "ok", "refused", "unavailable"} /\ reply.id \in Nat
    /\ \A q \in strays : q.op \in Op /\ q.matter \in 0 .. Len(table["matter"])
    /\ DOMAIN table = Op
    /\ Cardinality(notice) <= 1 /\ \A f \in notice : f \in Form
    /\ faults \in 0 .. MaxFaults /\ edits \in 0 .. MaxEdits

Init ==
    /\ page = Mounted(1, 0)
    /\ load = Loading(0)
    /\ form = EmptyForm
    /\ save = Idle
    /\ call = NoCall
    /\ reply = NoReply
    /\ strays = {}
    /\ table = [o \in Op |-> <<>>]
    /\ notice = {}
    /\ faults = 0 /\ edits = 0

Fault == faults < MaxFaults /\ faults' = faults + 1

OnPage == page.step # "left"

-----------------------------------------------------------------------------
(* The page: availability, steps, reads of a reopened matter.               *)

\* The probe lists one matter.  A failure disables saving for this mount.
Probe ==
    /\ OnPage /\ page.persistence = "checking"
    /\ \/ page' = [page EXCEPT !.persistence = "ready"] /\ UNCHANGED faults
       \/ page' = [page EXCEPT !.persistence = "unavailable"] /\ Fault
    /\ UNCHANGED <<load, form, save, call, reply, strays, table, notice, edits>>

\* The wizard is left or the tab reloaded: the closure dies with the page, a
\* request on its way does not.  The matter is reopened by its id.
Reload(m) ==
    /\ Fault
    /\ page' = Mounted(page.mount + 1, m)
    /\ load' = Loading(m)
    /\ form' = EmptyForm
    /\ save' = Idle
    /\ call' = NoCall /\ reply' = NoReply
    /\ strays' = IF call = NoCall \/ reply # NoReply THEN strays ELSE strays \cup {call}
    /\ notice' = {}
    /\ UNCHANGED <<table, edits>>

\* One of the reads of links and parties answers with the rows committed by now, or fails.
ReadAnswers(r) ==
    /\ r \in load.asked
    /\ \/ load' = [load EXCEPT !.asked = @ \ {r}, !.upto[r] = Len(table[r])]
       \/ load' = [load EXCEPT !.asked = @ \ {r}, !.failed = @ \cup {r}]
    /\ UNCHANGED <<page, form, save, call, reply, strays, table, notice, faults, edits>>

\* Rows of the opened matter that the read returned.
Seen(r) == {i \in 1 .. load.upto[r] : table[r][i].matter = page.opened}

SavedCard(i) ==
    LET r == table["party"][i]
    IN  [card |-> r.key, kind |-> r.what, text |-> r.text, row |-> i]

\* The form the reads describe.  The aggregate brings neither parties nor a
\* complete address, and its details are not sent again; a failed read of the
\* links looks like no link.
Reopened ==
    LET first == {i \in Seen("property") : \A j \in Seen("property") : i <= j}
    IN  [matter  |-> page.opened,
         details |-> 0,
         parties |-> {SavedCard(i) : i \in Seen("party")},
         choice  |-> Unset,
         linkKey |-> IF first = {} THEN <<>> ELSE table["property"][CHOOSE i \in first : TRUE].key,
         link    |-> IF first = {} THEN 0 ELSE CHOOSE i \in first : TRUE]

\* HYDRATE_TRANSFER replaces the whole form, whatever was typed or saved since
\* the reads; nothing happens when neither the aggregate nor the parties came.
Hydrate ==
    /\ OnPage /\ page.opened # 0 /\ ~page.hydrated /\ load.asked = {}
    /\ \/ form' = Reopened
       \/ "party" \in load.failed /\ UNCHANGED form
    /\ page' = [page EXCEPT !.hydrated = TRUE, !.step = IF form' = form THEN @ ELSE "property"]
    /\ load' = Loading(0)
    /\ UNCHANGED <<save, call, reply, strays, table, notice, faults, edits>>

\* Financials and documents, between the parties and the review, are not saved.
handleNext ==
    /\ save.pc = "idle"
    /\ \/ /\ page.step = "property" /\ (form.link # 0 \/ form.choice # Unset)
          /\ page' = [page EXCEPT !.step = "parties"]
       \/ /\ page.step = "parties" /\ form.parties # {}
          /\ page' = [page EXCEPT !.step = "review"]
    /\ UNCHANGED <<load, form, save, call, reply, strays, table, notice, faults, edits>>

handlePrevious ==
    /\ \/ page.step = "parties" /\ page' = [page EXCEPT !.step = "property"]
       \/ page.step = "review" /\ page' = [page EXCEPT !.step = "parties"]
    /\ UNCHANGED <<load, form, save, call, reply, strays, table, notice, faults, edits>>

-----------------------------------------------------------------------------
(* The user edits, also while a save runs; what is entered first is free,   *)
(* every further change counts.                                             *)

Edit(f, again) ==
    /\ form' = f
    /\ IF again THEN edits < MaxEdits /\ edits' = edits + 1 ELSE UNCHANGED edits
    /\ UNCHANGED <<page, load, save, call, reply, strays, table, notice, faults>>

\* What only the creation of the matter carries: once it exists, the
\* classification and the reference are read-only and the price is never sent.
EditDetails ==
    /\ OnPage /\ form.matter = 0 /\ page.opened = 0
    /\ Edit([form EXCEPT !.details = @ + 1], form.details > 0)

\* A card whose key no row, request or closure still carries.
Unused(c) ==
    /\ \A p \in form.parties \cup save.form.parties : p.card # c
    /\ \A i \in DOMAIN table["party"] : table["party"][i].key # c
    /\ \A q \in strays : q.op = "party" => q.key # c

NewCard(c, k) == [card |-> c, kind |-> k, text |-> 0, row |-> 0]

AddParty(c) ==
    /\ page.step = "parties" /\ Unused(c)
    /\ Edit([form EXCEPT !.parties = @ \cup {NewCard(c, Manual)}], form.parties # {})

\* The first buyer comes with the navigation: a golden record, or a search
\* that found none and left its entity type.
AutoAddBuyer(c, k) ==
    /\ page.step = "parties" /\ form.parties = {} /\ Unused(c)
    /\ Edit([form EXCEPT !.parties = {NewCard(c, k)}], FALSE)

\* A card stays editable after its row was saved.  What a golden record's card
\* shows is never sent.
EditParty(p) ==
    /\ page.step = "parties" /\ p.kind = Manual
    /\ Edit([form EXCEPT !.parties = (@ \ {p}) \cup {[p EXCEPT !.text = @ + 1]}], TRUE)

\* Removal is local: the row stays.
RemoveParty(p) ==
    /\ page.step = "parties"
    /\ Edit([form EXCEPT !.parties = @ \ {p}], TRUE)

\* Select or clear a registered property, or type an address; the key stays.
ChooseProperty(x) ==
    /\ page.step = "property" /\ form.link = 0 /\ x # form.choice
    /\ Edit([form EXCEPT !.choice = x], form.choice # Unset)

-----------------------------------------------------------------------------
(* persistAggregate.                                                        *)

CreateRequest(f) ==
    [op |-> "matter", matter |-> 0, key |-> page.mount, what |-> Unset, text |-> f.details]

PropertyRequest(m, f, k) ==
    [op |-> "property", matter |-> m, key |-> k, what |-> f.choice, text |-> 0]

PartyRequest(m, p) ==
    [op |-> "party", matter |-> m, key |-> p.card, what |-> p.kind, text |-> p.text]

\* Faulty variant: a card that cannot be expressed is skipped silently.
NoneInexpressible(f) == {}

\* Faulty variant: the loop runs over the form as it is now.
ExpressibleNow(f) == {p \in form.parties : p.row = 0 /\ p.kind # Company}

\* The cards buildAttachPartyRequest can express and that have no row yet.
Expressible(f) == {p \in f.parties : p.row = 0 /\ p.kind # Company}
Inexpressible(f) == {p \in f.parties : p.row = 0 /\ p.kind = Company}

\* The notice is for the form at the click; a submit leaves for the matter page.
Conclude(m, f, submit, failed) ==
    /\ save' = Idle /\ call' = NoCall
    /\ notice' = IF failed THEN {} ELSE {[f EXCEPT !.matter = m]}
    /\ page' = IF submit /\ ~failed THEN [page EXCEPT !.step = "left"] ELSE page

\* The parties of the snapshot, one request after the other.
AttachParties(m, f, submit, left, failed) ==
    \/ /\ left = {}
       /\ Conclude(m, f, submit, failed)
    \/ \E p \in left :
          /\ save' = [pc |-> "party", submit |-> submit, form |-> f, matter |-> m,
                      left |-> left \ {p}, failed |-> failed]
          /\ call' = PartyRequest(m, p)
          /\ UNCHANGED <<notice, page>>

\* A request key is minted once and kept in the form, until the form is replaced.
FreshKey == <<page.mount, IF page.hydrated THEN 1 ELSE 0>>

\* Faulty variant: every save mints a key.
LinkKeyPerSave(f) == <<page.mount, IF page.hydrated THEN 1 ELSE 0, faults>>

LinkKey(f) == IF f.linkKey = <<>> THEN FreshKey ELSE f.linkKey

\* A link that is not saved yet is attached first, under the form's stable key.
\* f is the snapshot, g the form as it is now.
AttachProperty(m, f, g, submit) ==
    LET failed == Inexpressible(f) # {}
        k == LinkKey(f)
    IN  \/ /\ f.link # 0
           /\ form' = g
           /\ AttachParties(m, f, submit, Expressible(f), failed)
        \/ /\ f.link = 0 /\ f.choice = Unset
           /\ form' = [g EXCEPT !.linkKey = k]
           /\ AttachParties(m, f, submit, Expressible(f), TRUE)
        \/ /\ f.link = 0 /\ f.choice # Unset
           /\ form' = [g EXCEPT !.linkKey = k]
           /\ call' = PropertyRequest(m, f, k)
           /\ save' = [pc |-> "property", submit |-> submit, form |-> f, matter |-> m,
                       left |-> Expressible(f), failed |-> failed]
           /\ UNCHANGED <<notice, page>>

\* The buttons are disabled while a save runs and while saving is unavailable;
\* a new matter needs its classification.  Submitting is for the last step.
Save(submit) ==
    /\ OnPage /\ save.pc = "idle" /\ page.persistence = "ready"
    /\ submit => page.step = "review"
    /\ LET m == IF form.matter # 0 THEN form.matter ELSE page.opened
       IN  \/ /\ m = 0 /\ form.details > 0
              /\ save' = [Idle EXCEPT !.pc = "matter", !.submit = submit, !.form = form]
              /\ call' = CreateRequest(form)
              /\ notice' = {}
              /\ UNCHANGED <<form, page>>
           \/ m # 0 /\ AttachProperty(m, form, form, submit)
    /\ UNCHANGED <<load, reply, strays, table, faults, edits>>

\* A save that could not create the matter ends here; a refusal for want of
\* the service or of authority disables saving until the page is reloaded.
MatterAnswered ==
    /\ save.pc = "matter" /\ reply # NoReply
    /\ \/ /\ reply.kind = "ok"
          /\ AttachProperty(reply.id, save.form, [form EXCEPT !.matter = reply.id], save.submit)
       \/ /\ reply.kind # "ok"
          /\ save' = Idle /\ call' = NoCall
          /\ page' = IF reply.kind = "unavailable"
                     THEN [page EXCEPT !.persistence = "unavailable"] ELSE page
          /\ UNCHANGED <<form, notice>>
    /\ reply' = NoReply
    /\ UNCHANGED <<load, strays, table, faults, edits>>

PropertyAnswered ==
    /\ save.pc = "property" /\ reply # NoReply
    /\ form' = IF reply.kind = "ok" THEN [form EXCEPT !.link = reply.id] ELSE form
    /\ AttachParties(save.matter, save.form, save.submit, save.left,
                     save.failed \/ reply.kind # "ok")
    /\ reply' = NoReply
    /\ UNCHANGED <<load, strays, table, faults, edits>>

\* The row's id goes to the card, if the form still holds it.
WithRow(parties, c, i) ==
    {IF p.card = c THEN [p EXCEPT !.row = i] ELSE p : p \in parties}

PartyAnswered ==
    /\ save.pc = "party" /\ reply # NoReply
    /\ form' = IF reply.kind = "ok"
               THEN [form EXCEPT !.parties = WithRow(@, call.key, reply.id)] ELSE form
    /\ AttachParties(save.matter, save.form, save.submit, save.left,
                     save.failed \/ reply.kind # "ok")
    /\ reply' = NoReply
    /\ UNCHANGED <<load, strays, table, faults, edits>>

-----------------------------------------------------------------------------
(* The server: one transaction per request.                                 *)

\* Faulty variant: no lookup by request key.
NoTwin(q) == {}

\* The row that carries the request's key.
Twin(q) == {i \in DOMAIN table[q.op] : table[q.op][i].key = q.key}

\* Faulty variant: any request with the key is a replay.
KeyAlone(q, r) == q.key = r.key

\* What the fingerprint distinguishes.
SameRequest(q, r) == q.matter = r.matter /\ q.what = r.what /\ q.text = r.text

\* An existing link of the same golden record or registered property, whoever
\* asked for it.
NaturalTwin(q) ==
    {i \in DOMAIN table[q.op] : /\ q.what \in Golden \cup Registry
                                /\ table[q.op][i].matter = q.matter
                                /\ table[q.op][i].what = q.what}

Ok(i) == [kind |-> "ok", id |-> i]
Refused == [kind |-> "refused", id |-> 0]

\* Replay, conflict, existing row, or insert.
Handle(q, answer) ==
    \/ /\ \E i \in Twin(q) :
            answer = IF SameRequest(q, table[q.op][i]) THEN Ok(i) ELSE Refused
       /\ UNCHANGED table
    \/ /\ Twin(q) = {} /\ \E i \in NaturalTwin(q) : answer = Ok(i)
       /\ UNCHANGED table
    \/ /\ Twin(q) = {} /\ NaturalTwin(q) = {}
       /\ table' = [table EXCEPT ![q.op] = Append(@, q)]
       /\ answer = Ok(Len(table'[q.op]))

Answers == {Refused} \cup {Ok(i) : i \in 1 .. 1 + Len(table["matter"]) + Len(table["property"])
                                                + Len(table["party"])}

Serve ==
    /\ call # NoCall /\ reply = NoReply
    /\ \E a \in Answers : Handle(call, a) /\ reply' = a
    /\ UNCHANGED <<page, load, form, save, call, strays, notice, faults, edits>>

\* Validation, visibility of a golden record, a second primary contact.
Refuse ==
    /\ call # NoCall /\ reply = NoReply
    /\ reply' = Refused
    /\ Fault
    /\ UNCHANGED <<page, load, form, save, call, strays, table, notice, edits>>

\* The proxy answers 503 after its timeout, or the connection drops: the
\* request may still be served.
GiveUp ==
    /\ call # NoCall /\ reply = NoReply
    /\ \E k \in {"refused", "unavailable"} : reply' = [kind |-> k, id |-> 0]
    /\ strays' = strays \cup {call}
    /\ Fault
    /\ UNCHANGED <<page, load, form, save, call, table, notice, edits>>

ServeLate(q) ==
    /\ \E a \in Answers : Handle(q, a)
    /\ strays' = strays \ {q}
    /\ UNCHANGED <<page, load, form, save, call, reply, notice, faults, edits>>

-----------------------------------------------------------------------------
Next ==
    \/ Probe \/ Hydrate \/ handleNext \/ handlePrevious \/ EditDetails
    \/ \E m \in DOMAIN table["matter"] : Reload(m)
    \/ \E r \in Read : ReadAnswers(r)
    \/ \E c \in Card : AddParty(c) \/ \E k \in Golden \cup {Company} : AutoAddBuyer(c, k)
    \/ \E p \in form.parties : EditParty(p) \/ RemoveParty(p)
    \/ \E x \in Choice : ChooseProperty(x)
    \/ \E submit \in BOOLEAN : Save(submit)
    \/ MatterAnswered \/ PropertyAnswered \/ PartyAnswered
    \/ Serve \/ Refuse \/ GiveUp
    \/ \E q \in strays : ServeLate(q)

Spec == Init /\ [][Next]_vars

-----------------------------------------------------------------------------
(* Properties.                                                              *)

\* However often a save is retried, and whatever is served late, the wizard
\* opened once creates one matter, each card becomes one row, and a golden
\* record or registered property is linked to a matter once.
RetriesNeverDuplicate ==
    \A o \in Op : \A i, j \in DOMAIN table[o] :
        i # j => /\ table[o][i].key # table[o][j].key
                 /\ \/ table[o][i].matter # table[o][j].matter
                    \/ table[o][i].what # table[o][j].what
                    \/ table[o][i].what \notin Golden \cup Registry

\* A form that no reopening replaced attaches at most one property, also when
\* the user chose another one after a save whose reply was lost.
OneLinkPerForm ==
    LET origin(i) == <<table["property"][i].key[1], table["property"][i].key[2]>>
    IN  \A i, j \in DOMAIN table["property"] : origin(i) = origin(j) => i = j

\* The row that stands for a card of a matter, if any.
RowOf(m, p) ==
    {i \in DOMAIN table["party"] :
        /\ table["party"][i].matter = m
        /\ table["party"][i].key = p.card \/ (p.kind \in Golden /\ table["party"][i].what = p.kind)}

\* "Matter, property and all parties saved.", and leaving for the matter page,
\* mean it: every card of the form that was clicked has a row of that matter, a
\* card saved by this very save with the text it had, and the matter has a link.
SuccessMeansStored ==
    \A f \in notice :
        /\ f.matter \in DOMAIN table["matter"]
        /\ \E i \in DOMAIN table["property"] : table["property"][i].matter = f.matter
        /\ \A p \in f.parties : \E i \in RowOf(f.matter, p) :
              p.row = 0 /\ p.kind = Manual => table["party"][i].text = p.text

\* A card is marked saved only by a row that holds what this save sent for it,
\* even if an earlier attempt with other text was served meanwhile.
SavedAsSent ==
    [][LET row == table[save.pc][reply.id]
       IN  save.pc \in Op /\ reply.kind = "ok" /\ reply' = NoReply =>
              /\ row.matter = save.matter
              /\ row.what = call.what /\ row.text = call.text]_vars

\* What the notice says of the form that was saved, taken at its word: the
\* rows hold what the form holds.
NoticeIsTrue ==
    \A f \in notice : \A p \in f.parties :
        p.kind = Manual => \E i \in RowOf(f.matter, p) : table["party"][i].text = p.text

=============================================================================

-------------------------- MODULE MatterWizardProofs --------------------------
(***************************************************************************)
(* The wizard's saves and retries, for every set of cards, golden records  *)
(* and properties and every bound.  A request carries the key minted with  *)
(* its card, form or page wherever it is - awaited, lost on its way, served*)
(* as a row - and the server inserts only what has no row yet; what a save *)
(* has not sent yet is what its snapshot has no row for.                   *)
(***************************************************************************)
EXTENDS MatterWizard, FiniteSetTheorems, SequenceTheorems, TLAPS

Keys == Nat \X Nat

\* Requests and rows of the three operations; only hand-typed persons carry text.
MatterRequests   == [op: {"matter"}, matter: {0}, key: Nat, what: {Unset}, text: Nat]
PropertyRequests == [op: {"property"}, matter: Nat, key: Keys, what: Choice, text: {0}]
PartyRequests    == {q \in [op: {"party"}, matter: Nat, key: Card, what: Golden \cup {Manual}, text: Nat] :
                        q.what # Manual => q.text = 0}
Request == MatterRequests \cup PropertyRequests \cup PartyRequests

Cards == {p \in [card: Card, kind: Kind, text: Nat, row: Nat] : p.kind # Manual => p.text = 0}

Forms == [matter: Nat, details: Nat, parties: SUBSET Cards, choice: Choice,
          linkKey: Keys \cup {<<>>}, link: Nat]

Pages == [mount: Nat, opened: Nat, step: {"property", "parties", "review", "left"},
          persistence: {"checking", "ready", "unavailable"}, hydrated: BOOLEAN]

Closures == [pc: {"idle"} \cup Op, submit: BOOLEAN, form: Forms, matter: Nat,
             left: SUBSET Cards, failed: BOOLEAN]

WellTyped ==
    /\ page \in Pages
    /\ load \in [asked: SUBSET Read, failed: SUBSET Read, upto: [Read -> Nat]]
    /\ form \in Forms
    /\ save \in Closures
    /\ save.pc # "idle" => call \in Request
    /\ save.pc = "idle" => call = NoCall /\ reply = NoReply
    /\ reply \in [kind: {"none", "ok", "refused", "unavailable"}, id: Nat]
    /\ strays \subseteq Request

Tables ==
    /\ table \in [Op -> Seq(Request)]
    /\ \A o \in Op : \A i \in 1 .. Len(table[o]) : table[o][i].op = o

\* Rows with distinct keys, and what is linked from elsewhere linked once.
Unique ==
    \A o \in Op : \A i, j \in 1 .. Len(table[o]) :
        i # j => /\ table[o][i].key # table[o][j].key
                 /\ \/ table[o][i].matter # table[o][j].matter
                    \/ table[o][i].what # table[o][j].what
                    \/ table[o][i].what \notin Golden \cup Registry

\* Row i answers request q.
AnswersRequest(q, i) ==
    /\ i \in 1 .. Len(table[q.op])
    /\ table[q.op][i].matter = q.matter /\ table[q.op][i].what = q.what
    /\ table[q.op][i].text = q.text
    /\ table[q.op][i].key = q.key \/ q.what \in Golden \cup Registry

-----------------------------------------------------------------------------
(* The server.                                                              *)

LEMMA RequestFields ==
    ASSUME NEW q \in Request
    PROVE  /\ q.op \in Op /\ q.matter \in Nat /\ q.text \in Nat
           /\ q.op = "matter" => q \in MatterRequests
           /\ q.op = "property" => q \in PropertyRequests
           /\ q.op = "party" => q \in PartyRequests
BY DEF Request, MatterRequests, PropertyRequests, PartyRequests, Op

\* What is linked from elsewhere comes without text.
LEMMA NaturalText ==
    ASSUME WizardAssumption, NEW q \in Request, q.what \in Golden \cup Registry
    PROVE  q.text = 0
<1>1. CASE q \in MatterRequests
  BY <1>1 DEF MatterRequests, WizardAssumption
<1>2. CASE q \in PropertyRequests
  BY <1>2 DEF PropertyRequests
<1>3. CASE q \in PartyRequests
  BY <1>3 DEF PartyRequests, WizardAssumption
<1>. QED  BY <1>1, <1>2, <1>3 DEF Request

LEMMA TableRows ==
    ASSUME Tables, NEW o \in Op
    PROVE  /\ table[o] \in Seq(Request) /\ Len(table[o]) \in Nat
           /\ DOMAIN table[o] = 1 .. Len(table[o])
           /\ \A i \in 1 .. Len(table[o]) : table[o][i] \in Request /\ table[o][i].op = o
BY LenProperties, ElementOfSeq DEF Tables

\* A request replays its row, finds the row it would repeat, is refused, or makes a row;
\* rows are never changed.
LEMMA HandleServes ==
    ASSUME WizardAssumption, Tables, Unique, NEW q \in Request, NEW a, Handle(q, a)
    PROVE  /\ Tables' /\ Unique'
           /\ \A o \in Op : /\ Len(table[o]) <= Len(table'[o])
                            /\ \A i \in 1 .. Len(table[o]) : table'[o][i] = table[o][i]
           /\ \A o \in Op : \A i \in 1 .. Len(table'[o]) :
                  i \in 1 .. Len(table[o]) \/ (o = q.op /\ table'[o][i] = q)
           /\ a \in [kind: {"ok", "refused"}, id: Nat]
           /\ a.kind = "ok" => AnswersRequest(q, a.id)'
<1>0. q.op \in Op
  BY RequestFields
<1>1. /\ table[q.op] \in Seq(Request) /\ Len(table[q.op]) \in Nat
      /\ DOMAIN table[q.op] = 1 .. Len(table[q.op])
      /\ \A i \in 1 .. Len(table[q.op]) : table[q.op][i] \in Request
  BY <1>0, TableRows
<1>2. CASE UNCHANGED table /\ \E i \in Twin(q) :
              a = IF SameRequest(q, table[q.op][i]) THEN Ok(i) ELSE Refused
  <2>1. PICK i \in Twin(q) : a = IF SameRequest(q, table[q.op][i]) THEN Ok(i) ELSE Refused
    BY <1>2
  <2>2. i \in 1 .. Len(table[q.op]) /\ table[q.op][i].key = q.key /\ i \in Nat
    BY <1>1, <2>1 DEF Twin
  <2>3. a \in [kind: {"ok", "refused"}, id: Nat] /\ (a.kind = "ok" => a.id = i /\ SameRequest(q, table[q.op][i]))
    BY <2>1, <2>2 DEF Ok, Refused
  <2>4. a.kind = "ok" => AnswersRequest(q, a.id)
    BY <2>2, <2>3 DEF AnswersRequest, SameRequest
  <2>. QED  BY <1>2, <2>3, <2>4, TableRows DEF Tables, Unique, AnswersRequest
<1>3. CASE UNCHANGED table /\ \E i \in NaturalTwin(q) : a = Ok(i)
  <2>1. PICK i \in NaturalTwin(q) : a = Ok(i)
    BY <1>3
  <2>2. /\ i \in 1 .. Len(table[q.op]) /\ i \in Nat /\ q.what \in Golden \cup Registry
        /\ table[q.op][i].matter = q.matter /\ table[q.op][i].what = q.what
    BY <1>1, <2>1 DEF NaturalTwin
  <2>3. table[q.op][i].text = 0 /\ q.text = 0
    BY <1>1, <2>2, NaturalText
  <2>4. a \in [kind: {"ok", "refused"}, id: Nat] /\ a.id = i
    BY <2>1, <2>2 DEF Ok
  <2>5. AnswersRequest(q, a.id)
    BY <2>2, <2>3, <2>4 DEF AnswersRequest
  <2>. QED  BY <1>3, <2>4, <2>5, TableRows DEF Tables, Unique, AnswersRequest
<1>4. CASE /\ Twin(q) = {} /\ NaturalTwin(q) = {}
           /\ table' = [table EXCEPT ![q.op] = Append(@, q)] /\ a = Ok(Len(table'[q.op]))
  <2> DEFINE n == Len(table[q.op]) + 1
             rows == Append(table[q.op], q)
  <2>1. /\ rows \in Seq(Request) /\ Len(rows) = n /\ rows[n] = q
        /\ \A i \in 1 .. Len(table[q.op]) : rows[i] = table[q.op][i]
    BY <1>1, AppendProperties
  <2>2. table'[q.op] = rows /\ \A o \in Op : o # q.op => table'[o] = table[o]
    BY <1>0, <1>4 DEF Tables
  <2>3. table' \in [Op -> Seq(Request)]
    BY <1>0, <1>4, <2>1 DEF Tables
  <2>. HIDE DEF rows
  <2>4. n \in Nat /\ \A i \in 1 .. n : i \in 1 .. Len(table[q.op]) \/ i = n
    BY <1>1
  <2>5. \A o \in Op : /\ Len(table[o]) <= Len(table'[o])
                      /\ \A i \in 1 .. Len(table[o]) : table'[o][i] = table[o][i]
    BY <1>1, <2>1, <2>2, TableRows
  <2>6. \A o \in Op : \A i \in 1 .. Len(table'[o]) :
             i \in 1 .. Len(table[o]) \/ (o = q.op /\ table'[o][i] = q)
    BY <2>1, <2>2, <2>4
  <2>7. Tables'
    BY <2>3, <2>5, <2>6 DEF Tables
  <2>8. \A i \in 1 .. Len(table[q.op]) :
            /\ table[q.op][i].key # q.key
            /\ \/ table[q.op][i].matter # q.matter
               \/ table[q.op][i].what # q.what
               \/ q.what \notin Golden \cup Registry
    BY <1>1, <1>4 DEF Twin, NaturalTwin
  <2>9. Unique'
    <3>. SUFFICES ASSUME NEW o \in Op, NEW i \in 1 .. Len(table'[o]), NEW j \in 1 .. Len(table'[o]),
                         i # j
                  PROVE  /\ table'[o][i].key # table'[o][j].key
                         /\ \/ table'[o][i].matter # table'[o][j].matter
                            \/ table'[o][i].what # table'[o][j].what
                            \/ table'[o][i].what \notin Golden \cup Registry
      BY DEF Unique
    <3>1. CASE i \in 1 .. Len(table[o]) /\ j \in 1 .. Len(table[o])
      BY <3>1, <2>5 DEF Unique
    <3>2. CASE i \notin 1 .. Len(table[o])
      <4>1. o = q.op /\ table'[o][i] = q /\ i = n /\ j \in 1 .. Len(table[o])
        BY <3>2, <2>1, <2>2, <2>4, <2>6
      <4>. QED  BY <4>1, <2>5, <2>8
    <3>3. CASE j \notin 1 .. Len(table[o])
      <4>1. o = q.op /\ table'[o][j] = q /\ j = n /\ i \in 1 .. Len(table[o])
        BY <3>3, <2>1, <2>2, <2>4, <2>6
      <4>. QED  BY <4>1, <2>5, <2>8
    <3>. QED  BY <3>1, <3>2, <3>3
  <2>10. a = Ok(n) /\ table'[q.op][n] = q /\ n \in 1 .. Len(table'[q.op])
    BY <1>1, <1>4, <2>1, <2>2
  <2>11. a \in [kind: {"ok", "refused"}, id: Nat] /\ a.id = n
    BY <2>4, <2>10 DEF Ok
  <2>12. AnswersRequest(q, a.id)'
    BY <2>10, <2>11 DEF AnswersRequest
  <2>. QED  BY <2>5, <2>6, <2>7, <2>9, <2>11, <2>12
<1>. QED  BY <1>2, <1>3, <1>4 DEF Handle

-----------------------------------------------------------------------------
(* The invariant.                                                           *)

\* The matter the page is about, 0 before it exists.
Target == IF form.matter # 0 THEN form.matter ELSE page.opened

Matters   == 1 .. Len(table["matter"])
Linked(m) == \E i \in 1 .. Len(table["property"]) : table["property"][i].matter = m
RowFor(m, p, i) ==
    /\ i \in 1 .. Len(table["party"]) /\ table["party"][i].matter = m
    /\ table["party"][i].key = p.card \/ (p.kind \in Golden /\ table["party"][i].what = p.kind)
HasRow(m, p) == \E i \in 1 .. Len(table["party"]) : RowFor(m, p, i)
Stored(m, p) ==
    \E i \in 1 .. Len(table["party"]) :
        /\ RowFor(m, p, i)
        /\ p.row = 0 /\ p.kind = Manual => table["party"][i].text = p.text

\* What a form says is saved is.
Backed(f, m) ==
    /\ f.link # 0 => Linked(m)
    /\ \A p \in f.parties : p.row # 0 => HasRow(m, p)

\* What a save has still to send, if it has not failed.
Owes(m, f, left, failed) ==
    /\ left \subseteq Expressible(f)
    /\ ~failed => /\ Inexpressible(f) = {} /\ Linked(m)
                  /\ \A p \in f.parties : p.row = 0 => p \in left \/ Stored(m, p)

\* The card whose row is awaited, and what is owed besides.
Awaits(m, f, left, failed) ==
    \E p \in Expressible(f) :
        /\ call.key = p.card /\ call.what = p.kind /\ call.text = p.text
        /\ left \subseteq Expressible(f)
        /\ ~failed => /\ Inexpressible(f) = {} /\ Linked(m)
                      /\ \A r \in f.parties : r.row = 0 => r \in left \/ r = p \/ Stored(m, r)

\* What a save is, as long as it runs.
Saves(s) ==
    /\ s.pc # "idle" => call.op = s.pc /\ call.matter = s.matter
    /\ s.pc = "matter" => /\ Target = 0 /\ s.form.link = 0
                          /\ \A p \in s.form.parties : p.row = 0
    /\ s.pc \in {"property", "party"} =>
         /\ s.matter = Target /\ s.matter \in Matters /\ Backed(s.form, s.matter)
    /\ s.pc = "property" =>
         /\ s.left = Expressible(s.form)
         /\ ~s.failed => Inexpressible(s.form) = {}
    /\ s.pc = "party" => Awaits(s.matter, s.form, s.left, s.failed)

Shown ==
    /\ page.opened # 0 => page.opened \in Matters /\ form.matter \in {0, page.opened}
    /\ form.matter # 0 => form.matter \in Matters
    /\ Target = 0 => form.link = 0 /\ \A p \in form.parties : p.row = 0
    /\ Backed(form, Target)
    /\ \A r \in Read : load.upto[r] <= Len(table[r])

\* A card has one kind wherever its key is.
Carriers ==
    {<<p.card, p.kind>> : p \in form.parties \cup save.form.parties}
    \cup {<<table["party"][i].key, table["party"][i].what>> : i \in 1 .. Len(table["party"])}
    \cup {<<q.key, q.what>> : q \in {r \in strays : r.op = "party"}}

OneKind == \A x, y \in Carriers : x[1] = y[1] => x[2] = y[2]

Replied == save.pc # "idle" /\ reply.kind = "ok" => AnswersRequest(call, reply.id)

Noticed ==
    \A f \in notice : /\ f.matter \in Matters /\ Linked(f.matter)
                      /\ \A p \in f.parties : Stored(f.matter, p)

\* The inductive invariant.
Wired == WellTyped /\ Tables /\ Unique /\ Saves(save) /\ Shown /\ OneKind /\ Replied /\ Noticed

-----------------------------------------------------------------------------
LEMMA InitWired == Init => Wired
<1>. SUFFICES ASSUME Init PROVE Wired
  OBVIOUS
<1>1. EmptyForm \in Forms /\ EmptyForm.parties = {} /\ EmptyForm.link = 0 /\ EmptyForm.matter = 0
  BY DEF EmptyForm, Forms, Choice
<1>2. /\ Idle \in Closures
      /\ Idle.pc = "idle" /\ Idle.form = EmptyForm
  BY <1>1 DEF Idle, Closures, Op
<1>3. load = [asked |-> {}, failed |-> {}, upto |-> [r \in Read |-> 0]]
  BY DEF Init, Loading
<1>4. WellTyped
  BY <1>1, <1>2, <1>3 DEF Init, WellTyped, Pages, Mounted, NoReply
<1>5. \A o \in Op : table[o] = <<>> /\ Len(table[o]) = 0 /\ table[o] \in Seq(Request)
  BY DEF Init
<1>6. Tables /\ Unique
  BY <1>5 DEF Init, Tables, Unique
<1>7. page.opened = 0 /\ form = EmptyForm /\ save = Idle /\ strays = {} /\ notice = {}
  BY DEF Init, Mounted
<1>8. Saves(save) /\ Replied /\ Noticed
  BY <1>2, <1>7 DEF Saves, Replied, Noticed
<1>9. Shown
  <2>1. Read \subseteq Op
    BY DEF Read, Op
  <2>. QED  BY <1>1, <1>3, <1>5, <1>7, <2>1 DEF Shown, Target, Backed
<1>10. Carriers = {}
  BY <1>1, <1>2, <1>5, <1>7 DEF Carriers, Op
<1>. QED  BY <1>4, <1>6, <1>8, <1>9, <1>10 DEF Wired, OneKind
-----------------------------------------------------------------------------
(* What is stored stays stored.                                             *)

Grown ==
    \A o \in Op : /\ Len(table[o]) <= Len(table'[o])
                  /\ \A i \in 1 .. Len(table[o]) : table'[o][i] = table[o][i]

LEMMA SameGrown == ASSUME Tables, UNCHANGED table PROVE Tables' /\ Grown
BY TableRows DEF Grown, Tables

LEMMA Kept ==
    ASSUME Tables, Tables', Grown
    PROVE  /\ Matters \subseteq Matters'
           /\ \A m : Linked(m) => Linked(m)'
           /\ \A m, p : HasRow(m, p) => HasRow(m, p)'
           /\ \A m, p : Stored(m, p) => Stored(m, p)'
           /\ \A q, i : q.op \in Op /\ AnswersRequest(q, i) => AnswersRequest(q, i)'
<1>1. \A o \in Op : \A i \in 1 .. Len(table[o]) :
          i \in 1 .. Len(table'[o]) /\ table'[o][i] = table[o][i]
  <2>. TAKE o \in Op
  <2>1. Len(table[o]) \in Nat /\ Len(table'[o]) \in Nat
    BY TableRows, LenProperties DEF Tables
  <2>. QED  BY <2>1 DEF Grown
<1>2. Op = {"matter", "property", "party"}
  BY DEF Op
<1>3. Matters \subseteq Matters'
  BY <1>1, <1>2 DEF Matters
<1>4. \A m : Linked(m) => Linked(m)'
  BY <1>1, <1>2 DEF Linked
<1>5. \A m, p, i : RowFor(m, p, i) => RowFor(m, p, i)'
  BY <1>1, <1>2 DEF RowFor
<1>6. \A m, p : HasRow(m, p) => HasRow(m, p)'
  BY <1>1, <1>2, <1>5 DEF HasRow
<1>7. \A m, p : Stored(m, p) => Stored(m, p)'
  BY <1>1, <1>2, <1>5 DEF Stored
<1>8. \A q, i : q.op \in Op /\ AnswersRequest(q, i) => AnswersRequest(q, i)'
  BY <1>1 DEF AnswersRequest
<1>. QED  BY <1>3, <1>4, <1>6, <1>7, <1>8

-----------------------------------------------------------------------------
(* persistAggregate.                                                        *)

LEMMA ExpressibleCards ==
    ASSUME NEW f \in Forms
    PROVE  /\ Expressible(f) \subseteq Cards
           /\ \A p \in Expressible(f) : p \in f.parties /\ p.row = 0 /\ p.kind # Company
           /\ \A p \in f.parties : p.row = 0 => p \in Expressible(f) \/ p \in Inexpressible(f)
BY DEF Expressible, Inexpressible, Forms

\* What the next request or the end of a save leaves: the page, the save, its
\* request and what the notice claims.
Advanced(m, f, submit) ==
    /\ page' \in Pages /\ page'.opened = page.opened
    /\ save' \in Closures
    /\ save'.pc # "idle" => call' \in Request /\ save'.form = f
    /\ save'.pc = "idle" => call' = NoCall /\ save'.form = EmptyForm
    /\ Saves(save)' /\ Noticed'

LEMMA EmptyFormTyped == EmptyForm \in Forms /\ EmptyForm.parties = {}
BY DEF EmptyForm, Forms, Choice

LEMMA PartiesAdvance ==
    ASSUME WizardAssumption, Tables, Noticed, UNCHANGED table, form' \in Forms,
           page \in Pages,
           NEW m \in Matters, m = IF form'.matter # 0 THEN form'.matter ELSE page.opened,
           NEW f \in Forms, NEW submit \in BOOLEAN, NEW left, NEW failed \in BOOLEAN,
           Backed(f, m), Owes(m, f, left, failed), AttachParties(m, f, submit, left, failed)
    PROVE  Advanced(m, f, submit)
<1>0. Tables' /\ Grown
  BY SameGrown
<1>1. page' \in Pages /\ page'.opened = page.opened
  <2>1. page' = page \/ page' = [page EXCEPT !.step = "left"]
    BY DEF AttachParties, Conclude
  <2>. QED  BY <2>1 DEF Pages
<1>2. m \in Nat /\ m = Target' /\ m \in Matters'
  <2>1. Len(table["matter"]) \in Nat
    BY TableRows DEF Op
  <2>. QED  BY <1>1, <2>1 DEF Matters, Target
<1>3. Backed(f, m)'
  BY <1>0, Kept DEF Backed
<1>4. CASE left = {} /\ Conclude(m, f, submit, failed)
  <2>1. /\ save' = Idle /\ call' = NoCall
        /\ notice' = IF failed THEN {} ELSE {[f EXCEPT !.matter = m]}
    BY <1>4 DEF Conclude
  <2>2. /\ save' \in Closures
        /\ save'.pc = "idle" /\ save'.form = EmptyForm
    BY <2>1, EmptyFormTyped DEF Idle, Closures
  <2>3. Saves(save)'
    BY <2>2 DEF Saves, Op
  <2>4. Noticed'
    <3>. SUFFICES ASSUME ~failed, NEW g \in notice'
                  PROVE  /\ g.matter \in Matters' /\ Linked(g.matter)'
                         /\ \A p \in g.parties : Stored(g.matter, p)'
      BY <2>1 DEF Noticed
    <3>1. g.matter = m /\ g.parties = f.parties
      BY <2>1 DEF Forms
    <3>2. Linked(m) /\ \A p \in f.parties : p.row = 0 => Stored(m, p)
      BY <1>4 DEF Owes
    <3>3. \A p \in f.parties : Stored(m, p)
      BY <3>2 DEF Backed, HasRow, Stored
    <3>. QED  BY <1>0, <1>2, <3>1, <3>2, <3>3, Kept
  <2>. QED  BY <1>1, <2>1, <2>2, <2>3, <2>4 DEF Advanced
<1>5. ASSUME NEW p \in left,
             save' = [pc |-> "party", submit |-> submit, form |-> f, matter |-> m,
                      left |-> left \ {p}, failed |-> failed],
             call' = PartyRequest(m, p), UNCHANGED <<notice, page>>
      PROVE  Advanced(m, f, submit)
  <2>1. p \in Expressible(f) /\ p \in Cards /\ p.kind # Company /\ left \subseteq Cards
    BY ExpressibleCards DEF Owes
  <2>2. /\ call'.op = "party" /\ call'.matter = m /\ call'.key = p.card
        /\ call'.what = p.kind /\ call'.text = p.text
    BY <1>5 DEF PartyRequest
  <2>3. call' \in Request
    BY <1>2, <1>5, <2>1 DEF PartyRequest, Request, PartyRequests, Cards, Kind
  <2>4. /\ save'.pc = "party" /\ save'.form = f /\ save'.matter = m
        /\ save'.left = left \ {p} /\ save'.failed = failed
    BY <1>5
  <2>5. save' \in Closures
    BY <1>2, <1>5, <2>1 DEF Op, Closures
  <2>6. \A r \in f.parties : r.row = 0 /\ Stored(m, r) => Stored(m, r)'
    BY <1>0, Kept
  <2>7. Awaits(m, f, left \ {p}, failed)'
    <3>1. left \ {p} \subseteq Expressible(f)
      BY DEF Owes
    <3>2. ~failed => /\ Inexpressible(f) = {} /\ Linked(m)'
                     /\ \A r \in f.parties : r.row = 0 =>
                           r \in left \ {p} \/ r = p \/ Stored(m, r)'
      BY <1>0, <2>6, Kept DEF Owes
    <3>. QED  BY <2>1, <2>2, <3>1, <3>2 DEF Awaits
  <2>8. Saves(save)'
    BY <1>2, <1>3, <2>2, <2>4, <2>7 DEF Saves
  <2>9. Noticed'
    BY <1>0, <1>5, Kept DEF Noticed
  <2>. QED  BY <1>1, <1>5, <2>3, <2>4, <2>5, <2>8, <2>9 DEF Advanced
<1>. QED  BY <1>4, <1>5 DEF AttachParties

LEMMA PropertyAdvances ==
    ASSUME WizardAssumption, Tables, Noticed, UNCHANGED table, page \in Pages,
           NEW g \in Forms, NEW m \in Matters,
           m = IF g.matter # 0 THEN g.matter ELSE page.opened,
           NEW f \in Forms, NEW submit \in BOOLEAN,
           Backed(f, m), AttachProperty(m, f, g, submit)
    PROVE  /\ Advanced(m, f, submit)
           /\ form' \in Forms /\ form'.parties = g.parties
           /\ form'.matter = g.matter /\ form'.link = g.link
<1> DEFINE failed == Inexpressible(f) # {}
           k == LinkKey(f)
<1>0. k \in Keys /\ failed \in BOOLEAN
  BY DEF LinkKey, FreshKey, Keys, Forms, Pages
<1>1. /\ Tables' /\ Grown
      /\ m \in Nat
  <2>1. Len(table["matter"]) \in Nat
    BY TableRows DEF Op
  <2>. QED  BY <2>1, SameGrown DEF Matters
<1>2. /\ Expressible(f) \subseteq Cards
      /\ \A p \in f.parties : p.row = 0 => p \in Expressible(f) \/ p \in Inexpressible(f)
  BY ExpressibleCards
<1>3. [g EXCEPT !.linkKey = k] \in Forms
  BY <1>0 DEF Forms
<1>4. /\ [g EXCEPT !.linkKey = k].parties = g.parties
      /\ [g EXCEPT !.linkKey = k].matter = g.matter
      /\ [g EXCEPT !.linkKey = k].link = g.link
  BY DEF Forms
<1>5. CASE f.link # 0 /\ form' = g /\ AttachParties(m, f, submit, Expressible(f), failed)
  <2>1. Owes(m, f, Expressible(f), failed)
    BY <1>2, <1>5 DEF Owes, Backed
  <2>2. form' \in Forms /\ m = IF form'.matter # 0 THEN form'.matter ELSE page.opened
    BY <1>5
  <2>3. Advanced(m, f, submit)
    BY <1>0, <1>5, <2>1, <2>2, PartiesAdvance
  <2>. QED  BY <1>5, <2>2, <2>3
<1>6. CASE /\ form' = [g EXCEPT !.linkKey = k]
           /\ AttachParties(m, f, submit, Expressible(f), TRUE)
  <2>1. Owes(m, f, Expressible(f), TRUE)
    BY DEF Owes
  <2>2. form' \in Forms /\ m = IF form'.matter # 0 THEN form'.matter ELSE page.opened
    BY <1>3, <1>4, <1>6
  <2>3. Advanced(m, f, submit)
    BY <1>6, <2>1, <2>2, PartiesAdvance
  <2>. QED  BY <1>4, <1>6, <2>2, <2>3
<1>7. CASE /\ form' = [g EXCEPT !.linkKey = k]
           /\ call' = PropertyRequest(m, f, k)
           /\ save' = [pc |-> "property", submit |-> submit, form |-> f, matter |-> m,
                       left |-> Expressible(f), failed |-> failed]
           /\ UNCHANGED <<notice, page>>
  <2>1. /\ form' \in Forms /\ form'.parties = g.parties
        /\ form'.matter = g.matter /\ form'.link = g.link
    BY <1>3, <1>4, <1>7
  <2>2. call' \in Request /\ call'.op = "property" /\ call'.matter = m
    BY <1>0, <1>1, <1>7 DEF PropertyRequest, Request, PropertyRequests, Forms
  <2>3. save' \in Closures
    BY <1>0, <1>1, <1>2, <1>7 DEF Closures, Op
  <2>4. /\ save'.pc = "property" /\ save'.form = f /\ save'.matter = m
        /\ save'.left = Expressible(f) /\ save'.failed = failed
    BY <1>7
  <2>5. m = Target' /\ m \in Matters' /\ Backed(f, m)'
    <3>1. Backed(f, m)'
      BY <1>1, Kept DEF Backed
    <3>2. m = Target'
      BY <1>7, <2>1 DEF Target
    <3>. QED  BY <1>1, <3>1, <3>2, Kept
  <2>6. Saves(save)'
    BY <2>2, <2>4, <2>5 DEF Saves
  <2>7. Noticed'
    BY <1>1, <1>7, Kept DEF Noticed
  <2>. QED  BY <1>7, <2>1, <2>2, <2>3, <2>4, <2>6, <2>7 DEF Advanced
<1>. QED  BY <1>5, <1>6, <1>7 DEF AttachProperty

LEMMA CarriersShrink == ASSUME OneKind, Carriers' \subseteq Carriers PROVE OneKind'
BY DEF OneKind

\* A save that goes on over a form, or ends.
LEMMA AdvancedWired ==
    ASSUME Wired, NEW m \in Matters, NEW f \in Forms, NEW submit \in BOOLEAN,
           Advanced(m, f, submit), UNCHANGED <<load, strays, table>>, reply' = NoReply,
           f = form \/ f = save.form,
           form' \in Forms,
           \A p \in form'.parties : \E r \in form.parties : r.card = p.card /\ r.kind = p.kind,
           m = IF form'.matter # 0 THEN form'.matter ELSE page.opened,
           page.opened # 0 => form'.matter \in {0, page.opened},
           Backed(form', m)
    PROVE  Wired'
<1>1. WellTyped /\ Tables /\ Unique /\ Shown /\ OneKind
  BY DEF Wired
<1>2. Tables' /\ Grown /\ Unique' /\ m # 0 /\ m = Target'
  <2>1. Tables' /\ Grown
    BY <1>1, SameGrown
  <2>2. m # 0
    BY DEF Matters
  <2>. QED  BY <1>1, <2>1, <2>2 DEF Unique, Advanced, Target
<1>3. WellTyped'
  BY <1>1 DEF WellTyped, Advanced, NoReply
<1>4. Shown'
  <2>1. form'.link # 0 => Linked(m)'
    BY <1>1, <1>2, Kept DEF Backed
  <2>2. \A p \in form'.parties : p.row # 0 => HasRow(m, p)'
    BY <1>1, <1>2, Kept DEF Backed
  <2>3. Backed(form, Target)'
    BY <1>2, <2>1, <2>2 DEF Backed
  <2>4. page'.opened = page.opened /\ load' = load /\ table' = table
    BY DEF Advanced
  <2>. QED  BY <1>1, <1>2, <2>3, <2>4 DEF Shown, Matters
<1>5. Carriers' \subseteq Carriers
  <2>1. \A p \in form'.parties \cup save'.form.parties :
            \E r \in form.parties \cup save.form.parties : r.card = p.card /\ r.kind = p.kind
    BY EmptyFormTyped DEF Advanced
  <2>. QED  BY <2>1 DEF Carriers
<1>6. Replied'
  BY DEF Replied, NoReply
<1>. QED  BY <1>1, <1>2, <1>3, <1>4, <1>5, <1>6, CarriersShrink DEF Wired, Advanced

LEMMA TargetMatter ==
    ASSUME WellTyped, Tables, Shown
    PROVE  /\ Target # 0 => Target \in Matters
           /\ page.opened # 0 => form.matter \in {0, page.opened}
           /\ page.opened = 0 => Target = form.matter
BY DEF WellTyped, Shown, Target, Pages, Forms

LEMMA SaveWired ==
    ASSUME WizardAssumption, Wired, NEW submit \in BOOLEAN, Save(submit)
    PROVE  Wired'
<1>1. /\ WellTyped /\ Tables /\ Unique /\ Shown /\ OneKind /\ Noticed
      /\ page \in Pages /\ form \in Forms /\ save \in Closures
      /\ save.pc = "idle" /\ reply = NoReply
  BY DEF Wired, WellTyped, Save
<1>2. CASE /\ Target = 0
           /\ save' = [Idle EXCEPT !.pc = "matter", !.submit = submit, !.form = form]
           /\ call' = CreateRequest(form) /\ notice' = {}
           /\ UNCHANGED <<form, page, load, reply, strays, table>>
  <2>1. /\ save' = [pc |-> "matter", submit |-> submit, form |-> form, matter |-> 0,
                    left |-> {}, failed |-> FALSE]
    BY <1>2 DEF Idle
  <2>2. /\ save'.pc = "matter" /\ save'.form = form /\ save'.matter = 0
        /\ save' \in Closures
    BY <1>1, <2>1 DEF Closures, Op
  <2>3. call' \in Request /\ call'.op = "matter" /\ call'.matter = 0
    BY <1>1, <1>2 DEF CreateRequest, Request, MatterRequests, Pages, Forms
  <2>4. WellTyped' /\ Tables' /\ Unique'
    BY <1>1, <1>2, <2>2, <2>3, SameGrown DEF WellTyped, Unique
  <2>5. Target' = 0
    BY <1>2 DEF Target
  <2>6. Saves(save)'
    BY <1>1, <1>2, <2>2, <2>3, <2>5 DEF Saves, Shown
  <2>7. Shown' /\ Replied' /\ Noticed'
    <3>1. Shown'
      BY <1>1, <1>2 DEF Shown, Target, Backed, HasRow, RowFor, Linked, Matters
    <3>2. Replied'
      BY <1>1, <1>2 DEF Replied, NoReply
    <3>3. Noticed'
      BY <1>2 DEF Noticed
    <3>. QED  BY <3>1, <3>2, <3>3
  <2>8. Carriers' \subseteq Carriers
    BY <1>2, <2>2 DEF Carriers
  <2>. QED  BY <1>1, <2>4, <2>6, <2>7, <2>8, CarriersShrink DEF Wired
<1>3. CASE /\ Target # 0 /\ AttachProperty(Target, form, form, submit)
           /\ UNCHANGED <<load, reply, strays, table>>
  <2>0. Target \in Matters
    BY <1>1, <1>3, TargetMatter
  <2>1. Target \in Matters /\ Backed(form, Target)
    BY <1>1, <2>0 DEF Shown
  <2>2. Target = IF form.matter # 0 THEN form.matter ELSE page.opened
    BY DEF Target
  <2>3. /\ Advanced(Target, form, submit)
        /\ form' \in Forms /\ form'.parties = form.parties
        /\ form'.matter = form.matter /\ form'.link = form.link
    BY <1>1, <1>3, <2>1, <2>2, PropertyAdvances
  <2>4. Backed(form', Target)
    BY <2>1, <2>3 DEF Backed
  <2>5. /\ Target = IF form'.matter # 0 THEN form'.matter ELSE page.opened
        /\ page.opened # 0 => form'.matter \in {0, page.opened}
        /\ \A p \in form'.parties : \E r \in form.parties : r.card = p.card /\ r.kind = p.kind
    BY <1>1, <2>2, <2>3, TargetMatter
  <2>6. reply' = NoReply /\ UNCHANGED <<load, strays, table>>
    BY <1>1, <1>3
  <2>. QED  BY <1>1, <2>1, <2>3, <2>4, <2>5, <2>6, AdvancedWired
<1>. QED  BY <1>2, <1>3 DEF Save, Target

LEMMA MatterAnsweredWired ==
    ASSUME WizardAssumption, Wired, MatterAnswered
    PROVE  Wired'
<1>1. /\ WellTyped /\ Tables /\ Unique /\ Shown /\ OneKind /\ Noticed /\ Replied
      /\ page \in Pages /\ form \in Forms /\ save \in Closures
      /\ save.pc = "matter" /\ save.form \in Forms /\ save.submit \in BOOLEAN
  BY DEF Wired, WellTyped, Closures, MatterAnswered
<1>2. /\ Target = 0 /\ page.opened = 0 /\ form.matter = 0 /\ form.link = 0
      /\ \A p \in form.parties : p.row = 0
      /\ save.form.link = 0 /\ \A p \in save.form.parties : p.row = 0
      /\ call \in Request /\ call.op = "matter"
  BY <1>1 DEF Wired, Saves, WellTyped, Shown, Target
<1>3. CASE /\ reply.kind = "ok"
           /\ AttachProperty(reply.id, save.form, [form EXCEPT !.matter = reply.id], save.submit)
           /\ reply' = NoReply /\ UNCHANGED <<load, strays, table>>
  <2> DEFINE g == [form EXCEPT !.matter = reply.id]
  <2>1. reply.id \in Matters /\ reply.id # 0 /\ reply.id \in Nat
    BY <1>1, <1>2, <1>3 DEF Replied, AnswersRequest, Matters, WellTyped
  <2>2. g \in Forms /\ g.matter = reply.id /\ g.parties = form.parties /\ g.link = form.link
    BY <1>1, <2>1 DEF Forms
  <2>. HIDE DEF g
  <2>3. Backed(save.form, reply.id)
    BY <1>2 DEF Backed
  <2>4. /\ Advanced(reply.id, save.form, save.submit)
        /\ form' \in Forms /\ form'.parties = g.parties
        /\ form'.matter = g.matter /\ form'.link = g.link
    <3>1. AttachProperty(reply.id, save.form, g, save.submit)
      BY <1>3 DEF g
    <3>. QED  BY <1>1, <1>3, <2>1, <2>2, <2>3, <3>1, PropertyAdvances
  <2>5. Backed(form', reply.id)
    BY <1>2, <2>2, <2>4 DEF Backed
  <2>6. /\ reply.id = IF form'.matter # 0 THEN form'.matter ELSE page.opened
        /\ \A p \in form'.parties : \E r \in form.parties : r.card = p.card /\ r.kind = p.kind
    BY <2>1, <2>2, <2>4
  <2>. QED  BY <1>1, <1>2, <1>3, <2>1, <2>4, <2>5, <2>6, AdvancedWired
<1>4. CASE /\ reply.kind # "ok" /\ save' = Idle /\ call' = NoCall
           /\ page' = IF reply.kind = "unavailable"
                      THEN [page EXCEPT !.persistence = "unavailable"] ELSE page
           /\ reply' = NoReply /\ UNCHANGED <<form, notice, load, strays, table>>
  <2>1. page' \in Pages /\ page'.opened = page.opened
    BY <1>1, <1>4 DEF Pages
  <2>2. Idle \in Closures /\ Idle.pc = "idle" /\ Idle.form = EmptyForm
    BY EmptyFormTyped DEF Idle, Closures
  <2>3. WellTyped'
    BY <1>1, <1>4, <2>1, <2>2 DEF WellTyped, NoReply
  <2>4. Tables' /\ Unique'
    BY <1>1, <1>4, SameGrown DEF Unique
  <2>5. Saves(save)' /\ Replied'
    BY <1>4, <2>2 DEF Saves, Replied, Op
  <2>6. Shown'
    BY <1>1, <1>4, <2>1 DEF Shown, Target, Backed, HasRow, RowFor, Linked, Matters
  <2>7. Noticed'
    BY <1>1, <1>4, <2>4, SameGrown, Kept DEF Noticed
  <2>8. Carriers' \subseteq Carriers
    BY <1>4, <2>2, EmptyFormTyped DEF Carriers
  <2>. QED  BY <1>1, <2>3, <2>4, <2>5, <2>6, <2>7, <2>8, CarriersShrink DEF Wired
<1>. QED  BY <1>3, <1>4 DEF MatterAnswered

LEMMA PropertyAnsweredWired ==
    ASSUME WizardAssumption, Wired, PropertyAnswered
    PROVE  Wired'
<1> DEFINE m == save.matter
           f == save.form
           failed == save.failed \/ reply.kind # "ok"
<1>1. /\ WellTyped /\ Tables /\ Unique /\ Shown /\ OneKind /\ Noticed /\ Replied
      /\ page \in Pages /\ form \in Forms /\ save \in Closures
      /\ save.pc = "property" /\ f \in Forms /\ save.submit \in BOOLEAN
      /\ failed \in BOOLEAN /\ reply' = NoReply /\ UNCHANGED <<load, strays, table>>
      /\ form' = IF reply.kind = "ok" THEN [form EXCEPT !.link = reply.id] ELSE form
      /\ AttachParties(m, f, save.submit, save.left, failed)
  BY DEF Wired, WellTyped, Closures, PropertyAnswered
<1>2. /\ m = Target /\ m \in Matters /\ Backed(f, m) /\ save.left = Expressible(f)
      /\ ~save.failed => Inexpressible(f) = {}
      /\ call \in Request /\ call.op = "property" /\ call.matter = m
  BY <1>1 DEF Wired, Saves, WellTyped
<1>3. reply.kind = "ok" => Linked(m)
  BY <1>1, <1>2 DEF Replied, AnswersRequest, Linked
<1>4. Owes(m, f, save.left, failed)
  <2>1. \A p \in f.parties : p.row = 0 => p \in Expressible(f) \/ p \in Inexpressible(f)
    BY <1>1, ExpressibleCards
  <2>. QED  BY <1>2, <1>3, <2>1 DEF Owes
<1>5. /\ form' \in Forms /\ form'.parties = form.parties /\ form'.matter = form.matter
      /\ form'.link # 0 => form.link # 0 \/ reply.kind = "ok"
  <2>1. reply.id \in Nat
    BY <1>1 DEF WellTyped
  <2>. QED  BY <1>1, <2>1 DEF Forms
<1>6. m = IF form'.matter # 0 THEN form'.matter ELSE page.opened
  BY <1>2, <1>5 DEF Target
<1>7. Backed(form, m)
  BY <1>1, <1>2 DEF Shown
<1>8. Backed(form', m)
  BY <1>3, <1>5, <1>7 DEF Backed
<1>9. /\ page.opened # 0 => form'.matter \in {0, page.opened}
      /\ \A p \in form'.parties : \E r \in form.parties : r.card = p.card /\ r.kind = p.kind
  BY <1>1, <1>5, TargetMatter
<1>. HIDE DEF m, f, failed
<1>10. Advanced(m, f, save.submit)
  BY <1>1, <1>2, <1>4, <1>5, <1>6, PartiesAdvance
<1>11. f = save.form
  BY DEF f
<1>. QED  BY <1>1, <1>2, <1>5, <1>6, <1>8, <1>9, <1>10, <1>11, AdvancedWired

\* The kind of a card that a running save sends is the kind it has in the form.
LEMMA SentKind ==
    ASSUME Wired, save.pc = "party", NEW p \in form.parties, p.card = call.key
    PROVE  p.kind = call.what
<1>1. PICK r \in Expressible(save.form) : call.key = r.card /\ call.what = r.kind
  BY DEF Wired, Saves, Awaits
<1>2. r \in save.form.parties
  BY <1>1 DEF Expressible
<1>3. <<p.card, p.kind>> \in Carriers /\ <<r.card, r.kind>> \in Carriers
  BY <1>2 DEF Carriers
<1>4. \A x, y \in Carriers : x[1] = y[1] => x[2] = y[2]
  BY DEF Wired, OneKind
<1>. QED  BY <1>1, <1>3, <1>4

LEMMA PartyAnsweredWired ==
    ASSUME WizardAssumption, Wired, PartyAnswered
    PROVE  Wired'
<1> DEFINE m == save.matter
           f == save.form
           failed == save.failed \/ reply.kind # "ok"
           ok == reply.kind = "ok"
<1>1. /\ WellTyped /\ Tables /\ Unique /\ Shown /\ OneKind /\ Noticed /\ Replied
      /\ page \in Pages /\ form \in Forms /\ save \in Closures
      /\ save.pc = "party" /\ f \in Forms /\ save.submit \in BOOLEAN
      /\ failed \in BOOLEAN /\ reply' = NoReply /\ UNCHANGED <<load, strays, table>>
      /\ form' = IF ok THEN [form EXCEPT !.parties = WithRow(@, call.key, reply.id)] ELSE form
      /\ AttachParties(m, f, save.submit, save.left, failed)
  BY DEF Wired, WellTyped, Closures, PartyAnswered
<1>2. /\ m = Target /\ m \in Matters /\ Backed(f, m)
      /\ Awaits(m, f, save.left, save.failed)
      /\ call \in Request /\ call.op = "party" /\ call.matter = m
  BY <1>1 DEF Wired, Saves, WellTyped
<1>3. /\ call.what \in Golden \cup {Manual}
      /\ call.what \in Golden \cup Registry => call.what \in Golden
  BY <1>2, RequestFields DEF PartyRequests, WizardAssumption
<1>4. ok => /\ reply.id \in 1 .. Len(table["party"])
            /\ table["party"][reply.id].matter = m
            /\ table["party"][reply.id].what = call.what
            /\ table["party"][reply.id].text = call.text
            /\ table["party"][reply.id].key = call.key \/ call.what \in Golden
  BY <1>1, <1>2, <1>3 DEF Replied, AnswersRequest
<1>5. Owes(m, f, save.left, failed)
  <2>1. PICK p \in Expressible(f) :
            /\ call.key = p.card /\ call.what = p.kind /\ call.text = p.text
            /\ save.left \subseteq Expressible(f)
            /\ ~save.failed => /\ Inexpressible(f) = {} /\ Linked(m)
                               /\ \A r \in f.parties :
                                     r.row = 0 => r \in save.left \/ r = p \/ Stored(m, r)
    BY <1>2 DEF Awaits
  <2>2. ok => Stored(m, p)
    BY <1>4, <2>1 DEF Stored, RowFor
  <2>. QED  BY <2>1, <2>2 DEF Owes
<1>6. reply.id \in Nat
  BY <1>1 DEF WellTyped
<1>7. \A p \in form'.parties : \E r \in form.parties :
          /\ p \in Cards /\ p.card = r.card /\ p.kind = r.kind
          /\ p.row = r.row \/ (ok /\ p.card = call.key)
  <2>1. \A r \in form.parties : r \in Cards
    BY <1>1 DEF Forms
  <2>2. \A r \in form.parties :
            /\ [r EXCEPT !.row = reply.id] \in Cards
            /\ [r EXCEPT !.row = reply.id].card = r.card
            /\ [r EXCEPT !.row = reply.id].kind = r.kind
    BY <1>6, <2>1 DEF Cards
  <2>3. form'.parties = IF ok THEN WithRow(form.parties, call.key, reply.id) ELSE form.parties
    BY <1>1 DEF Forms
  <2>. TAKE p \in form'.parties
  <2>4. CASE ok
    <3>1. PICK r \in form.parties :
              p = IF r.card = call.key THEN [r EXCEPT !.row = reply.id] ELSE r
      BY <2>3, <2>4 DEF WithRow
    <3>2. CASE r.card = call.key
      BY <2>2, <2>4, <3>1, <3>2
    <3>3. CASE r.card # call.key
      BY <2>1, <3>1, <3>3
    <3>. QED  BY <3>2, <3>3
  <2>5. CASE ~ok
    BY <2>1, <2>3, <2>5
  <2>. QED  BY <2>4, <2>5
<1>8. /\ form' \in Forms /\ form'.matter = form.matter /\ form'.link = form.link
  <2>1. form'.parties \subseteq Cards
    BY <1>7
  <2>2. /\ form'.matter = form.matter /\ form'.link = form.link
        /\ form'.details = form.details /\ form'.choice = form.choice
        /\ form'.linkKey = form.linkKey
        /\ form' = [matter |-> form'.matter, details |-> form'.details, parties |-> form'.parties,
                    choice |-> form'.choice, linkKey |-> form'.linkKey, link |-> form'.link]
    BY <1>1 DEF Forms
  <2>. QED  BY <1>1, <2>1, <2>2 DEF Forms
<1>9. m = IF form'.matter # 0 THEN form'.matter ELSE page.opened
  BY <1>2, <1>8 DEF Target
<1>10. Backed(form, m)
  BY <1>1, <1>2 DEF Shown
<1>11. \A p \in form'.parties : p.row # 0 => HasRow(m, p)
  <2>. SUFFICES ASSUME NEW p \in form'.parties, p.row # 0
                PROVE  HasRow(m, p)
    OBVIOUS
  <2>1. PICK r \in form.parties : /\ p.card = r.card /\ p.kind = r.kind
                                  /\ p.row = r.row \/ (ok /\ p.card = call.key)
    BY <1>7
  <2>2. CASE p.row = r.row
    BY <1>10, <2>1, <2>2 DEF Backed, HasRow, RowFor
  <2>3. CASE ok /\ p.card = call.key
    <3>1. r.kind = call.what
      BY <1>1, <2>1, <2>3, SentKind
    <3>. QED  BY <1>4, <2>1, <2>3, <3>1 DEF HasRow, RowFor
  <2>. QED  BY <2>1, <2>2, <2>3
<1>12. Backed(form', m)
  BY <1>8, <1>10, <1>11 DEF Backed
<1>13. /\ page.opened # 0 => form'.matter \in {0, page.opened}
       /\ \A p \in form'.parties : \E r \in form.parties : r.card = p.card /\ r.kind = p.kind
  BY <1>1, <1>7, <1>8, TargetMatter
<1>. HIDE DEF m, f, failed, ok
<1>14. Advanced(m, f, save.submit)
  BY <1>1, <1>2, <1>5, <1>8, <1>9, PartiesAdvance
<1>15. f = save.form
  BY DEF f
<1>. QED  BY <1>1, <1>2, <1>8, <1>9, <1>12, <1>13, <1>14, <1>15, AdvancedWired

-----------------------------------------------------------------------------
(* Requests that are served, refused or lost.                               *)

LEMMA RowsKeep ==
    ASSUME Wired, Tables', Grown, UNCHANGED <<page, load, form, save, call, notice>>
    PROVE  Saves(save)' /\ Shown' /\ Noticed'
<1>1. WellTyped /\ Tables /\ Saves(save) /\ Shown /\ Noticed
  BY DEF Wired
<1>2. Target' = Target
  BY DEF Target
<1>3. /\ Matters \subseteq Matters'
      /\ \A m : Linked(m) => Linked(m)'
      /\ \A m, p : HasRow(m, p) => HasRow(m, p)'
      /\ \A m, p : Stored(m, p) => Stored(m, p)'
  BY <1>1, Kept
<1>4. \A m, f : Backed(f, m) => Backed(f, m)'
  BY <1>3 DEF Backed
<1>5. Saves(save)'
  <2>1. \A m, f, left, failed : Awaits(m, f, left, failed) => Awaits(m, f, left, failed)'
    BY <1>3 DEF Awaits
  <2>. QED  BY <1>1, <1>2, <1>3, <1>4, <2>1 DEF Saves
<1>6. Noticed'
  BY <1>1, <1>3 DEF Noticed
<1>7. Shown'
  <2>1. \A r \in Read : load.upto[r] \in Nat /\ Len(table[r]) \in Nat /\ Len(table'[r]) \in Nat
                        /\ load.upto[r] <= Len(table[r]) /\ Len(table[r]) <= Len(table'[r])
    <3>1. Read \subseteq Op
      BY DEF Read, Op
    <3>2. \A r \in Op : table[r] \in Seq(Request) /\ table'[r] \in Seq(Request)
      BY <1>1 DEF Tables
    <3>. QED  BY <1>1, <3>1, <3>2, LenProperties DEF WellTyped, Shown, Grown
  <2>2. \A r \in Read : load.upto[r] <= Len(table'[r])
    BY <2>1
  <2>3. Backed(form, Target)'
    BY <1>1, <1>2, <1>4 DEF Shown
  <2>. QED  BY <1>1, <1>2, <1>3, <2>2, <2>3 DEF Shown
<1>. QED  BY <1>5, <1>6, <1>7

LEMMA ServeWired == ASSUME WizardAssumption, Wired, Serve PROVE Wired'
<1>1. /\ WellTyped /\ Tables /\ Unique /\ OneKind /\ call # NoCall
      /\ UNCHANGED <<page, load, form, save, call, strays, notice>>
      /\ save.pc # "idle" /\ call \in Request
  BY DEF Wired, WellTyped, Serve
<1>2. Handle(call, reply')
  BY DEF Serve
<1>3. /\ Tables' /\ Unique' /\ Grown
      /\ \A o \in Op : \A i \in 1 .. Len(table'[o]) :
             i \in 1 .. Len(table[o]) \/ (o = call.op /\ table'[o][i] = call)
      /\ reply' \in [kind: {"ok", "refused"}, id: Nat]
      /\ reply'.kind = "ok" => AnswersRequest(call, reply.id)'
  <2>1. PICK a : Handle(call, a) /\ reply' = a
    BY <1>2
  <2>2. PICK q \in Request : q = call /\ Handle(q, a)
    BY <1>1, <2>1
  <2>3. a.kind = "ok" => AnswersRequest(q, a.id)'
    BY <1>1, <2>2, HandleServes
  <2>. QED  BY <1>1, <2>1, <2>2, <2>3, HandleServes DEF Grown
<1>4. Saves(save)' /\ Shown' /\ Noticed'
  BY <1>1, <1>3, RowsKeep
<1>5. WellTyped' /\ Replied'
  BY <1>1, <1>3 DEF WellTyped, Replied
<1>6. Carriers' \subseteq Carriers
  <2>1. call.op = "party" => <<call.key, call.what>> \in Carriers
    <3>. SUFFICES ASSUME call.op = "party" PROVE <<call.key, call.what>> \in Carriers
      OBVIOUS
    <3>1. PICK r \in Expressible(save.form) : call.key = r.card /\ call.what = r.kind
      BY <1>1 DEF Wired, Saves, Awaits
    <3>. QED  BY <3>1 DEF Expressible, Carriers
  <2>2. \A i \in 1 .. Len(table'["party"]) :
            \/ i \in 1 .. Len(table["party"]) /\ table'["party"][i] = table["party"][i]
            \/ call.op = "party" /\ table'["party"][i] = call
    BY <1>3 DEF Grown, Op
  <2>. QED  BY <1>1, <2>1, <2>2 DEF Carriers
<1>. QED  BY <1>1, <1>3, <1>4, <1>5, <1>6, CarriersShrink DEF Wired

LEMMA ServeLateWired ==
    ASSUME WizardAssumption, Wired, NEW q \in strays, ServeLate(q)
    PROVE  Wired'
<1>1. /\ WellTyped /\ Tables /\ Unique /\ OneKind /\ Replied /\ q \in Request
      /\ UNCHANGED <<page, load, form, save, call, reply, notice>>
      /\ strays' = strays \ {q}
  BY DEF Wired, WellTyped, ServeLate
<1>2. PICK a : Handle(q, a)
  BY DEF ServeLate
<1>3. /\ Tables' /\ Unique' /\ Grown
      /\ \A o \in Op : \A i \in 1 .. Len(table'[o]) :
             i \in 1 .. Len(table[o]) \/ (o = q.op /\ table'[o][i] = q)
  BY <1>1, <1>2, HandleServes DEF Grown
<1>4. Saves(save)' /\ Shown' /\ Noticed'
  BY <1>1, <1>3, RowsKeep
<1>5. WellTyped' /\ Replied'
  <2>1. WellTyped'
    BY <1>1 DEF WellTyped
  <2>2. save.pc # "idle" => call.op \in Op
    BY <1>1, RequestFields DEF WellTyped
  <2>3. \A r, i : r.op \in Op /\ AnswersRequest(r, i) => AnswersRequest(r, i)'
    BY <1>1, <1>3, Kept
  <2>4. Replied'
    BY <1>1, <2>2, <2>3 DEF Replied
  <2>. QED  BY <2>1, <2>4
<1>6. Carriers' \subseteq Carriers
  <2>1. \A i \in 1 .. Len(table'["party"]) :
            \/ i \in 1 .. Len(table["party"]) /\ table'["party"][i] = table["party"][i]
            \/ q.op = "party" /\ table'["party"][i] = q
    BY <1>3 DEF Grown, Op
  <2>. QED  BY <1>1, <2>1 DEF Carriers
<1>. QED  BY <1>1, <1>3, <1>4, <1>5, <1>6, CarriersShrink DEF Wired

\* A request that nobody awaits any more carries its card's kind with it.
LEMMA StrayCarriers ==
    ASSUME Wired, save.pc # "idle", UNCHANGED table,
           form'.parties \subseteq form.parties, save'.form.parties \subseteq save.form.parties,
           strays' \subseteq strays \cup {call}
    PROVE  OneKind'
<1>1. call.op = "party" => <<call.key, call.what>> \in Carriers
  <2>. SUFFICES ASSUME call.op = "party" PROVE <<call.key, call.what>> \in Carriers
    OBVIOUS
  <2>1. PICK r \in Expressible(save.form) : call.key = r.card /\ call.what = r.kind
    BY DEF Wired, Saves, Awaits
  <2>. QED  BY <2>1 DEF Expressible, Carriers
<1>2. Carriers' \subseteq Carriers
  BY <1>1 DEF Carriers
<1>. QED  BY <1>2, CarriersShrink DEF Wired

LEMMA FailureWired == ASSUME WizardAssumption, Wired, Refuse \/ GiveUp PROVE Wired'
<1>1. /\ UNCHANGED <<page, load, form, save, call, table, notice>>
      /\ save.pc # "idle" /\ call \in Request
      /\ reply' \in [kind: {"refused", "unavailable"}, id: Nat]
      /\ strays' \subseteq strays \cup {call}
  BY DEF Wired, WellTyped, Refuse, GiveUp, Refused
<1>2. Tables' /\ Grown /\ Unique'
  BY <1>1, SameGrown DEF Wired, Unique
<1>3. Saves(save)' /\ Shown' /\ Noticed'
  BY <1>1, <1>2, RowsKeep
<1>4. WellTyped' /\ Replied'
  BY <1>1 DEF Wired, WellTyped, Replied
<1>5. OneKind'
  BY <1>1, StrayCarriers
<1>. QED  BY <1>2, <1>3, <1>4, <1>5 DEF Wired

-----------------------------------------------------------------------------
(* The page.                                                                *)

\* What neither the save nor the rows have a part in.
LEMMA PageKeeps ==
    ASSUME Wired, UNCHANGED <<form, save, call, reply, strays, table, notice>>,
           page' \in Pages, page'.opened = page.opened,
           load' \in [asked: SUBSET Read, failed: SUBSET Read, upto: [Read -> Nat]],
           \A r \in Read : load'.upto[r] <= Len(table[r])
    PROVE  Wired'
<1>1. WellTyped /\ Tables /\ Unique /\ Saves(save) /\ Shown /\ OneKind /\ Replied /\ Noticed
  BY DEF Wired
<1>2. Target' = Target
  BY DEF Target
<1>3. Tables' /\ Grown /\ Unique'
  BY <1>1, SameGrown DEF Unique
<1>4. Saves(save)'
  BY <1>1, <1>2 DEF Saves, Awaits, Backed, Stored, HasRow, RowFor, Linked, Matters
<1>5. Shown'
  BY <1>1, <1>2 DEF Shown, Backed, HasRow, RowFor, Linked, Matters
<1>6. Noticed'
  BY <1>1, <1>3, Kept DEF Noticed
<1>7. WellTyped' /\ Replied'
  BY <1>1 DEF WellTyped, Replied, AnswersRequest
<1>8. Carriers' \subseteq Carriers
  BY DEF Carriers
<1>. QED  BY <1>1, <1>3, <1>4, <1>5, <1>6, <1>7, <1>8, CarriersShrink DEF Wired

LEMMA BrowseWired == ASSUME Wired, Probe \/ handleNext \/ handlePrevious PROVE Wired'
<1>1. /\ page \in Pages /\ \A r \in Read : load.upto[r] <= Len(table[r])
      /\ load \in [asked: SUBSET Read, failed: SUBSET Read, upto: [Read -> Nat]]
  BY DEF Wired, WellTyped, Shown
<1>2. page' \in Pages /\ page'.opened = page.opened
  BY <1>1 DEF Probe, handleNext, handlePrevious, Pages
<1>3. UNCHANGED <<load, form, save, call, reply, strays, table, notice>>
  BY DEF Probe, handleNext, handlePrevious
<1>. QED  BY <1>1, <1>2, <1>3, PageKeeps

LEMMA ReadAnswersWired ==
    ASSUME Wired, NEW r \in Read, ReadAnswers(r)
    PROVE  Wired'
<1>1. /\ page \in Pages /\ Tables /\ \A x \in Read : load.upto[x] <= Len(table[x])
      /\ load \in [asked: SUBSET Read, failed: SUBSET Read, upto: [Read -> Nat]]
      /\ UNCHANGED <<page, form, save, call, reply, strays, table, notice, faults, edits>>
  BY DEF Wired, WellTyped, Shown, ReadAnswers
<1>2. Len(table[r]) \in Nat
  BY <1>1, TableRows DEF Read, Op
<1>3. CASE load' = [load EXCEPT !.asked = @ \ {r}, !.upto[r] = Len(table[r])]
  <2>1. /\ load'.asked = load.asked \ {r} /\ load'.failed = load.failed
        /\ load'.upto = [load.upto EXCEPT ![r] = Len(table[r])]
        /\ load' = [asked |-> load'.asked, failed |-> load'.failed, upto |-> load'.upto]
    BY <1>1, <1>3
  <2>2. load'.upto \in [Read -> Nat] /\ \A x \in Read : load'.upto[x] <= Len(table[x])
    BY <1>1, <1>2, <2>1
  <2>. QED  BY <1>1, <2>1, <2>2, PageKeeps
<1>4. CASE load' = [load EXCEPT !.asked = @ \ {r}, !.failed = @ \cup {r}]
  <2>1. /\ load'.asked = load.asked \ {r} /\ load'.failed = load.failed \cup {r}
        /\ load'.upto = load.upto
        /\ load' = [asked |-> load'.asked, failed |-> load'.failed, upto |-> load'.upto]
    BY <1>1, <1>4
  <2>. QED  BY <1>1, <2>1, PageKeeps
<1>. QED  BY <1>3, <1>4 DEF ReadAnswers

LEMMA ReloadWired ==
    ASSUME Wired, NEW m \in DOMAIN table["matter"], Reload(m)
    PROVE  Wired'
<1>1. /\ WellTyped /\ Tables /\ Unique
      /\ page' = Mounted(page.mount + 1, m) /\ load' = Loading(m)
      /\ form' = EmptyForm /\ save' = Idle /\ call' = NoCall /\ reply' = NoReply
      /\ strays' = IF call = NoCall \/ reply # NoReply THEN strays ELSE strays \cup {call}
      /\ notice' = {} /\ UNCHANGED <<table, edits>>
  BY DEF Wired, Reload
<1>2. m \in Matters /\ m \in Nat
  <2>1. Len(table["matter"]) \in Nat /\ DOMAIN table["matter"] = 1 .. Len(table["matter"])
    BY <1>1, TableRows DEF Op
  <2>. QED  BY <2>1 DEF Matters
<1>3. /\ page' = [mount |-> page.mount + 1, opened |-> m, step |-> "property",
                  persistence |-> "checking", hydrated |-> FALSE]
      /\ load' = [asked |-> load'.asked, failed |-> {}, upto |-> [r \in Read |-> 0]]
      /\ load'.asked \subseteq Read
  BY <1>1 DEF Mounted, Loading
<1>4. /\ Idle \in Closures /\ Idle.pc = "idle" /\ Idle.form = EmptyForm
      /\ EmptyForm.matter = 0 /\ EmptyForm.link = 0 /\ EmptyForm.parties = {}
  BY EmptyFormTyped DEF Idle, Closures, EmptyForm
<1>5. WellTyped'
  <2>1. strays' \subseteq Request
    BY <1>1 DEF WellTyped
  <2>2. page' \in Pages
    <3>1. page.mount + 1 \in Nat
      BY <1>1 DEF WellTyped, Pages
    <3>. QED  BY <1>2, <1>3, <3>1 DEF Pages
  <2>3. load' \in [asked: SUBSET Read, failed: SUBSET Read, upto: [Read -> Nat]]
    BY <1>3
  <2>. QED  BY <1>1, <1>4, <2>1, <2>2, <2>3, EmptyFormTyped DEF WellTyped, NoReply
<1>6. Tables' /\ Grown /\ Unique'
  BY <1>1, SameGrown DEF Unique
<1>7. Saves(save)' /\ Replied' /\ Noticed'
  BY <1>1, <1>4 DEF Saves, Replied, Noticed, Op
<1>8. Shown'
  <2>1. Target' = m /\ m # 0
    BY <1>1, <1>2, <1>3, <1>4 DEF Target, Matters
  <2>2. \A r \in Read : load'.upto[r] = 0 /\ Len(table'[r]) \in Nat
    <3>1. Read \subseteq Op
      BY DEF Read, Op
    <3>. QED  BY <1>3, <1>6, <3>1, LenProperties DEF Tables
  <2>. QED  BY <1>1, <1>2, <1>3, <1>4, <2>1, <2>2 DEF Shown, Backed, Matters
<1>9. OneKind'
  <2>1. CASE call # NoCall
    <3>1. save.pc # "idle"
      BY <1>1, <2>1 DEF WellTyped
    <3>. QED  BY <1>1, <1>4, <3>1, StrayCarriers
  <2>2. CASE call = NoCall
    <3>1. Carriers' \subseteq Carriers
      BY <1>1, <1>4, <2>2 DEF Carriers
    <3>. QED  BY <3>1, CarriersShrink DEF Wired
  <2>. QED  BY <2>1, <2>2
<1>. QED  BY <1>5, <1>6, <1>7, <1>8, <1>9 DEF Wired

\* The reopened form shows rows of its matter.
LEMMA HydrateWired == ASSUME WizardAssumption, Wired, Hydrate PROVE Wired'
<1>1. /\ WellTyped /\ Tables /\ Unique /\ Saves(save) /\ Shown /\ OneKind /\ Replied /\ Noticed
      /\ page.opened # 0 /\ page \in Pages
      /\ form' = Reopened \/ form' = form
      /\ load' = Loading(0)
      /\ UNCHANGED <<save, call, reply, strays, table, notice, faults, edits>>
  BY DEF Wired, WellTyped, Hydrate
<1>2. page' \in Pages /\ page'.opened = page.opened
  BY <1>1 DEF Hydrate, Pages
<1>3. /\ load' \in [asked: SUBSET Read, failed: SUBSET Read, upto: [Read -> Nat]]
      /\ \A r \in Read : load'.upto[r] <= Len(table[r])
  <2>1. load' = [asked |-> {}, failed |-> {}, upto |-> [r \in Read |-> 0]]
    BY <1>1 DEF Loading
  <2>2. \A r \in Read : Len(table[r]) \in Nat
    BY <1>1, TableRows DEF Read, Op
  <2>. QED  BY <2>1, <2>2
<1>4. CASE form' = form
  BY <1>1, <1>2, <1>3, <1>4, PageKeeps
<1>5. CASE form' = Reopened
  <2>1. \A r \in Read : \A i \in Seen(r) :
            /\ i \in 1 .. Len(table[r]) /\ i \in Nat
            /\ table[r][i] \in Request /\ table[r][i].op = r /\ table[r][i].matter = page.opened
    <3>. TAKE r \in Read
    <3>. TAKE i \in Seen(r)
    <3>1. /\ load.upto[r] \in Nat /\ load.upto[r] <= Len(table[r]) /\ Len(table[r]) \in Nat
          /\ r \in Op
      BY <1>1, TableRows DEF WellTyped, Shown, Read, Op
    <3>2. i \in 1 .. load.upto[r] /\ table[r][i].matter = page.opened
      BY DEF Seen
    <3>3. i \in 1 .. Len(table[r]) /\ i \in Nat
      BY <3>1, <3>2
    <3>. QED  BY <1>1, <3>1, <3>2, <3>3, TableRows
  <2> DEFINE first == {i \in Seen("property") : \A j \in Seen("property") : i <= j}
             link == IF first = {} THEN 0 ELSE CHOOSE i \in first : TRUE
             key == IF first = {} THEN <<>> ELSE table["property"][CHOOSE i \in first : TRUE].key
  <2>2. /\ link \in Nat
        /\ link # 0 => Linked(page.opened)
    <3>1. CASE first = {}
      BY <3>1
    <3>2. CASE first # {}
      <4>1. link \in Seen("property")
        BY <3>2
      <4>2. link \in 1 .. Len(table["property"]) /\ table["property"][link].matter = page.opened
        BY <2>1, <4>1 DEF Read
      <4>. QED  BY <4>2 DEF Linked
    <3>. QED  BY <3>1, <3>2
  <2>3. key \in Keys \cup {<<>>}
    <3>1. CASE first # {}
      <4>1. link \in Seen("property") /\ key = table["property"][link].key
        BY <3>1
      <4>2. table["property"][link] \in Request /\ table["property"][link].op = "property"
        BY <2>1, <4>1 DEF Read
      <4>. QED  BY <4>1, <4>2, RequestFields DEF PropertyRequests
    <3>. QED  BY <3>1
  <2>4. \A i \in Seen("party") :
            /\ SavedCard(i) \in Cards /\ SavedCard(i).row = i
            /\ SavedCard(i).card = table["party"][i].key /\ SavedCard(i).kind = table["party"][i].what
    <3>. TAKE i \in Seen("party")
    <3>1. table["party"][i] \in PartyRequests /\ i \in Nat
      BY <2>1, RequestFields DEF Read
    <3>2. SavedCard(i) = [card |-> table["party"][i].key, kind |-> table["party"][i].what,
                          text |-> table["party"][i].text, row |-> i]
      BY DEF SavedCard
    <3>. QED  BY <3>1, <3>2 DEF PartyRequests, Cards, Kind
  <2>5. form' = [matter |-> page.opened, details |-> 0, parties |-> {SavedCard(i) : i \in Seen("party")},
                choice |-> Unset, linkKey |-> key, link |-> link]
    BY <1>5 DEF Reopened
  <2>. HIDE DEF first, link, key
  <2>6. /\ form'.matter = page.opened /\ form'.parties = {SavedCard(i) : i \in Seen("party")}
        /\ form'.link = link
    BY <2>5
  <2>7. \A p \in form'.parties : \E i \in Seen("party") :
            /\ p \in Cards /\ p.row = i
            /\ p.card = table["party"][i].key /\ p.kind = table["party"][i].what
    BY <2>4, <2>6
  <2>8. form' \in Forms
    <3>1. form'.parties \subseteq Cards
      BY <2>7
    <3>2. page.opened \in Nat /\ Unset \in Choice
      BY <1>1 DEF Pages, Choice
    <3>3. /\ form' = [matter |-> form'.matter, details |-> form'.details, parties |-> form'.parties,
                      choice |-> form'.choice, linkKey |-> form'.linkKey, link |-> form'.link]
          /\ form'.details = 0 /\ form'.choice = Unset /\ form'.linkKey = key
      BY <2>5
    <3>4. /\ form'.matter \in Nat /\ form'.details \in Nat /\ form'.parties \in SUBSET Cards
          /\ form'.choice \in Choice /\ form'.linkKey \in Keys \cup {<<>>} /\ form'.link \in Nat
      BY <2>2, <2>3, <2>6, <3>1, <3>2, <3>3
    <3>. QED  BY <3>3, <3>4 DEF Forms
  <2>9. Tables' /\ Grown /\ Unique'
    BY <1>1, SameGrown DEF Unique
  <2>10. Target' = page.opened /\ Target = page.opened
    BY <1>1, <1>2, <2>6 DEF Target, Shown
  <2>11. Backed(form, Target)'
    <3>0. PICK m : m = page.opened
      OBVIOUS
    <3>1. form'.link # 0 => Linked(m)'
      BY <1>1, <2>2, <2>6, <2>9, <3>0, Kept
    <3>2. \A p \in form'.parties : HasRow(m, p)
      <4>. TAKE p \in form'.parties
      <4>1. PICK i \in Seen("party") : p.card = table["party"][i].key
        BY <2>7
      <4>2. i \in 1 .. Len(table["party"]) /\ table["party"][i].matter = m
        BY <2>1, <3>0 DEF Read
      <4>. QED  BY <4>1, <4>2 DEF HasRow, RowFor
    <3>3. \A p \in form'.parties : HasRow(m, p)'
      BY <1>1, <2>9, <3>2, Kept
    <3>. QED  BY <2>10, <3>0, <3>1, <3>3 DEF Backed
  <2>12. Shown'
    BY <1>1, <1>2, <1>3, <2>6, <2>10, <2>11 DEF Shown, Matters
  <2>13. Saves(save)'
    BY <1>1, <2>10 DEF Saves, Awaits, Backed, Stored, HasRow, RowFor, Linked, Matters
  <2>14. Noticed'
    BY <1>1, <2>9, Kept DEF Noticed
  <2>15. WellTyped' /\ Replied'
    BY <1>1, <1>2, <1>3, <2>8 DEF WellTyped, Replied, AnswersRequest
  <2>16. Carriers' \subseteq Carriers
    <3>1. \A p \in form'.parties : <<p.card, p.kind>> \in Carriers
      BY <2>1, <2>7 DEF Carriers, Read
    <3>. QED  BY <1>1, <3>1 DEF Carriers
  <2>. QED  BY <1>1, <2>9, <2>12, <2>13, <2>14, <2>15, <2>16, CarriersShrink DEF Wired
<1>. QED  BY <1>1, <1>4, <1>5

-----------------------------------------------------------------------------
(* The user edits.                                                          *)

LEMMA EditKeeps ==
    ASSUME Wired, UNCHANGED <<page, load, save, call, reply, strays, table, notice>>,
           form' \in Forms, form'.matter = form.matter, form'.link = form.link,
           \A p \in form'.parties : p.row # 0 => \E r \in form.parties :
               p.card = r.card /\ p.kind = r.kind /\ p.row = r.row,
           OneKind'
    PROVE  Wired'
<1>1. WellTyped /\ Tables /\ Unique /\ Saves(save) /\ Shown /\ Replied /\ Noticed
  BY DEF Wired
<1>2. Target' = Target
  BY DEF Target
<1>3. Tables' /\ Grown /\ Unique'
  BY <1>1, SameGrown DEF Unique
<1>4. Saves(save)'
  BY <1>1, <1>2 DEF Saves, Awaits, Backed, Stored, HasRow, RowFor, Linked, Matters
<1>5. Shown'
  <2>1. Backed(form, Target) /\ (Target = 0 => form.link = 0 /\ \A p \in form.parties : p.row = 0)
    BY <1>1 DEF Shown
  <2>2. form'.link # 0 => Linked(Target)
    BY <2>1 DEF Backed
  <2>3. \A p \in form'.parties : p.row # 0 => HasRow(Target, p)
    BY <2>1 DEF Backed, HasRow, RowFor
  <2>4. Backed(form, Target)'
    BY <1>2, <2>2, <2>3 DEF Backed, HasRow, RowFor, Linked
  <2>. QED  BY <1>1, <1>2, <2>1, <2>4 DEF Shown, Matters
<1>6. Noticed'
  BY <1>1, <1>3, Kept DEF Noticed
<1>7. WellTyped' /\ Replied'
  BY <1>1 DEF WellTyped, Replied, AnswersRequest
<1>. QED  BY <1>3, <1>4, <1>5, <1>6, <1>7 DEF Wired

\* Cards that keep their kind, and perhaps one whose key is new.
LEMMA CarriersExtend ==
    ASSUME Wired, UNCHANGED <<save, strays, table>>, NEW c, NEW k, Unused(c),
           \A p \in form'.parties : \/ p.card = c /\ p.kind = k
                                    \/ \E r \in form.parties : p.card = r.card /\ p.kind = r.kind
    PROVE  OneKind'
<1>1. \A x \in Carriers : x[1] # c
  <2>1. DOMAIN table["party"] = 1 .. Len(table["party"])
    BY TableRows DEF Wired, Op
  <2>. QED  BY <2>1 DEF Unused, Carriers
<1>2. Carriers' \subseteq Carriers \cup {<<c, k>>}
  BY DEF Carriers
<1>. QED  BY <1>1, <1>2 DEF Wired, OneKind

LEMMA CarriersEdited ==
    ASSUME Wired, UNCHANGED <<save, strays, table>>,
           \A p \in form'.parties : \E r \in form.parties : p.card = r.card /\ p.kind = r.kind
    PROVE  OneKind'
<1>1. Carriers' \subseteq Carriers
  BY DEF Carriers
<1>. QED  BY <1>1, CarriersShrink DEF Wired

LEMMA EditWired ==
    ASSUME WizardAssumption, Wired, NEW f, NEW again, Edit(f, again),
           f.matter = form.matter, f.link = form.link, f \in Forms,
           \A p \in f.parties : p.row # 0 => \E r \in form.parties :
               p.card = r.card /\ p.kind = r.kind /\ p.row = r.row,
           OneKind'
    PROVE  Wired'
<1>1. form' = f /\ UNCHANGED <<page, load, save, call, reply, strays, table, notice>>
  BY DEF Edit
<1>. QED  BY <1>1, EditKeeps

LEMMA FormEditsWired ==
    ASSUME WizardAssumption, Wired,
           EditDetails \/ \E x \in Choice : ChooseProperty(x)
    PROVE  Wired'
<1>1. form \in Forms
  BY DEF Wired, WellTyped
<1>2. PICK f, again :
          /\ Edit(f, again) /\ f \in Forms
          /\ f.matter = form.matter /\ f.link = form.link /\ f.parties = form.parties
  <2>1. CASE EditDetails
    <3>1. /\ [form EXCEPT !.details = @ + 1] \in Forms
          /\ [form EXCEPT !.details = @ + 1].matter = form.matter
          /\ [form EXCEPT !.details = @ + 1].link = form.link
          /\ [form EXCEPT !.details = @ + 1].parties = form.parties
      BY <1>1 DEF Forms
    <3>. QED  BY <2>1, <3>1 DEF EditDetails
  <2>2. CASE \E x \in Choice : ChooseProperty(x)
    <3>1. PICK x \in Choice : ChooseProperty(x)
      BY <2>2
    <3>2. /\ [form EXCEPT !.choice = x] \in Forms
          /\ [form EXCEPT !.choice = x].matter = form.matter
          /\ [form EXCEPT !.choice = x].link = form.link
          /\ [form EXCEPT !.choice = x].parties = form.parties
      BY <1>1 DEF Forms
    <3>. QED  BY <3>1, <3>2 DEF ChooseProperty
  <2>. QED  BY <2>1, <2>2
<1>3. form' = f /\ UNCHANGED <<save, strays, table>>
  BY <1>2 DEF Edit
<1>4. OneKind'
  BY <1>2, <1>3, CarriersEdited
<1>. QED  BY <1>2, <1>4, EditWired

LEMMA WithParties ==
    ASSUME NEW S, S \subseteq Cards, form \in Forms
    PROVE  /\ [form EXCEPT !.parties = S] \in Forms
           /\ [form EXCEPT !.parties = S].matter = form.matter
           /\ [form EXCEPT !.parties = S].link = form.link
           /\ [form EXCEPT !.parties = S].parties = S
BY DEF Forms

\* The card with other text.
Retyped(p) == [p EXCEPT !.text = @ + 1]

\* Cards are added, edited or removed; only a card of the form has a row.
LEMMA CardEditsWired ==
    ASSUME WizardAssumption, Wired, NEW S, NEW again, NEW c \in Card, NEW k \in Kind,
           Edit([form EXCEPT !.parties = S], again),
           \A p \in S :
               \/ p = NewCard(c, k) /\ Unused(c)
               \/ p \in form.parties
               \/ \E r \in form.parties : r.kind = Manual /\ p = Retyped(r)
    PROVE  Wired'
<1>1. form \in Forms
  BY DEF Wired, WellTyped
<1>2. NewCard(c, k) \in Cards /\ NewCard(c, k).row = 0 /\ NewCard(c, k).card = c /\ NewCard(c, k).kind = k
  BY DEF NewCard, Cards
<1>3. \A r \in form.parties :
          /\ r \in Cards
          /\ r.kind = Manual => Retyped(r) \in Cards
          /\ Retyped(r).card = r.card
          /\ Retyped(r).kind = r.kind /\ Retyped(r).row = r.row
  BY <1>1 DEF Forms, Cards, Retyped
<1>4. S \subseteq Cards
  BY <1>2, <1>3
<1>5. \A p \in S : \/ p.card = c /\ p.kind = k /\ p.row = 0 /\ Unused(c)
                   \/ \E r \in form.parties : p.card = r.card /\ p.kind = r.kind /\ p.row = r.row
  <2>. TAKE p \in S
  <2>1. CASE p = NewCard(c, k) /\ Unused(c)
    BY <1>2, <2>1
  <2>2. CASE p \in form.parties
    BY <2>2
  <2>3. ASSUME NEW r \in form.parties, p = Retyped(r)
        PROVE  p.card = r.card /\ p.kind = r.kind /\ p.row = r.row
    BY <1>3, <2>3
  <2>. QED  BY <2>1, <2>2, <2>3
<1> DEFINE f == [form EXCEPT !.parties = S]
<1>6. /\ Edit(f, again) /\ form' = f /\ UNCHANGED <<save, strays, table>>
  BY DEF Edit
<1>7. f \in Forms /\ f.matter = form.matter /\ f.link = form.link /\ f.parties = S
  BY <1>1, <1>4, WithParties
<1>. HIDE DEF f
<1>8. OneKind'
  <2>1. CASE Unused(c)
    <3>1. \A p \in form'.parties : \/ p.card = c /\ p.kind = k
                                   \/ \E r \in form.parties : p.card = r.card /\ p.kind = r.kind
      BY <1>5, <1>6, <1>7
    <3>. QED  BY <1>6, <2>1, <3>1, CarriersExtend
  <2>2. CASE ~Unused(c)
    <3>1. \A p \in form'.parties : \E r \in form.parties : p.card = r.card /\ p.kind = r.kind
      BY <1>5, <1>6, <1>7, <2>2
    <3>. QED  BY <1>6, <3>1, CarriersEdited
  <2>. QED  BY <2>1, <2>2
<1>9. \A p \in f.parties : p.row # 0 => \E r \in form.parties :
          p.card = r.card /\ p.kind = r.kind /\ p.row = r.row
  BY <1>5, <1>7
<1>. QED  BY <1>6, <1>7, <1>8, <1>9, EditWired

LEMMA PartyEditsWired ==
    ASSUME WizardAssumption, Wired,
           \/ \E c \in Card : AddParty(c) \/ \E k \in Golden \cup {Company} : AutoAddBuyer(c, k)
           \/ \E p \in form.parties : EditParty(p) \/ RemoveParty(p)
    PROVE  Wired'
<1>1. ASSUME NEW c \in Card, AddParty(c) PROVE Wired'
  <2> DEFINE S == form.parties \cup {NewCard(c, Manual)}
  <2>1. PICK again : Edit([form EXCEPT !.parties = S], again)
    BY <1>1 DEF AddParty
  <2>2. \A p \in S : (p = NewCard(c, Manual) /\ Unused(c)) \/ p \in form.parties
    BY <1>1 DEF AddParty
  <2>3. Manual \in Kind
    BY DEF Kind
  <2>. HIDE DEF S
  <2>. QED  BY <2>1, <2>2, <2>3, CardEditsWired
<1>2. ASSUME NEW c \in Card, NEW k \in Golden \cup {Company}, AutoAddBuyer(c, k) PROVE Wired'
  <2> DEFINE S == {NewCard(c, k)}
  <2>1. PICK again : Edit([form EXCEPT !.parties = S], again)
    BY <1>2 DEF AutoAddBuyer
  <2>2. \A p \in S : p = NewCard(c, k) /\ Unused(c)
    BY <1>2 DEF AutoAddBuyer
  <2>3. k \in Kind
    BY DEF Kind
  <2>. HIDE DEF S
  <2>4. \A p \in S :
            \/ p = NewCard(c, k) /\ Unused(c)
            \/ p \in form.parties
            \/ \E r \in form.parties : r.kind = Manual /\ p = Retyped(r)
    BY <2>2
  <2>. QED  BY <2>1, <2>3, <2>4, CardEditsWired
<1>3. ASSUME NEW p \in form.parties, EditParty(p) \/ RemoveParty(p) PROVE Wired'
  <2>1. p \in Cards
    BY <1>3 DEF Wired, WellTyped, Forms
  <2>2. p.card \in Card /\ p.kind \in Kind
    BY <2>1 DEF Cards
  <2>3. CASE EditParty(p)
    <3> DEFINE S == (form.parties \ {p}) \cup {[p EXCEPT !.text = @ + 1]}
    <3>1. Edit([form EXCEPT !.parties = S], TRUE) /\ p.kind = Manual
      BY <2>3 DEF EditParty
    <3>2. \A r \in S : \/ r \in form.parties
                      \/ \E o \in form.parties : o.kind = Manual /\ r = Retyped(o)
      BY <3>1 DEF Retyped
    <3>. HIDE DEF S
    <3>3. PICK c \in Card, k \in Kind : TRUE
      BY <2>2
    <3>4. \A r \in S :
              \/ r = NewCard(c, k) /\ Unused(c)
              \/ r \in form.parties
              \/ \E o \in form.parties : o.kind = Manual /\ r = Retyped(o)
      BY <3>2
    <3>. QED  BY <3>1, <3>4, CardEditsWired
  <2>4. CASE RemoveParty(p)
    <3> DEFINE S == form.parties \ {p}
    <3>1. Edit([form EXCEPT !.parties = S], TRUE)
      BY <2>4 DEF RemoveParty
    <3>2. \A r \in S : r \in form.parties
      OBVIOUS
    <3>. HIDE DEF S
    <3>. QED  BY <2>2, <3>1, <3>2, CardEditsWired
  <2>. QED  BY <1>3, <2>3, <2>4
<1>. QED  BY <1>1, <1>2, <1>3

-----------------------------------------------------------------------------
(* The theorems.                                                            *)

LEMMA NextWired == ASSUME WizardAssumption, Wired, [Next]_vars PROVE Wired'
<1>1. CASE UNCHANGED vars
  <2>1. \A r \in Read : load.upto[r] <= Len(table[r])
    BY DEF Wired, Shown
  <2>2. /\ page' \in Pages
        /\ load' \in [asked: SUBSET Read, failed: SUBSET Read, upto: [Read -> Nat]]
    BY <1>1 DEF vars, Wired, WellTyped
  <2>. QED  BY <1>1, <2>1, <2>2, PageKeeps DEF vars
<1>2. CASE Probe \/ handleNext \/ handlePrevious
  BY <1>2, BrowseWired
<1>3. CASE Hydrate
  BY <1>3, HydrateWired
<1>4. CASE EditDetails \/ \E x \in Choice : ChooseProperty(x)
  BY <1>4, FormEditsWired
<1>5. CASE \E m \in DOMAIN table["matter"] : Reload(m)
  BY <1>5, ReloadWired
<1>6. CASE \E r \in Read : ReadAnswers(r)
  BY <1>6, ReadAnswersWired
<1>7. CASE \/ \E c \in Card : AddParty(c) \/ \E k \in Golden \cup {Company} : AutoAddBuyer(c, k)
           \/ \E p \in form.parties : EditParty(p) \/ RemoveParty(p)
  BY <1>7, PartyEditsWired
<1>8. CASE \E submit \in BOOLEAN : Save(submit)
  BY <1>8, SaveWired
<1>9. CASE MatterAnswered \/ PropertyAnswered \/ PartyAnswered
  BY <1>9, MatterAnsweredWired, PropertyAnsweredWired, PartyAnsweredWired
<1>10. CASE Serve \/ Refuse \/ GiveUp
  BY <1>10, ServeWired, FailureWired
<1>11. CASE \E q \in strays : ServeLate(q)
  BY <1>11, ServeLateWired
<1>. QED  BY <1>1, <1>2, <1>3, <1>4, <1>5, <1>6, <1>7, <1>8, <1>9, <1>10, <1>11 DEF Next

\* The invariant of a form, its save, the requests under way and the tables they
\* write: what each step relies on (Transfers.tsx persistAggregate and the services).
THEOREM WizardWired == ASSUME WizardAssumption PROVE Spec => []Wired
BY InitWired, NextWired, PTL DEF Spec

\* However often a save is retried, and whatever is served late, no card has
\* two rows and nothing linked from elsewhere is linked to a matter twice.
THEOREM WizardNeverDuplicates ==
    ASSUME WizardAssumption PROVE Spec => []RetriesNeverDuplicate
<1>1. Wired => RetriesNeverDuplicate
  BY TableRows DEF Wired, Unique, RetriesNeverDuplicate
<1>. QED  BY <1>1, WizardWired, PTL

\* A form attaches at most one property.
THEOREM WizardLinksOnce ==
    ASSUME WizardAssumption PROVE Spec => []OneLinkPerForm
<1>1. Wired => OneLinkPerForm
  <2>. SUFFICES ASSUME Wired, NEW i \in DOMAIN table["property"], NEW j \in DOMAIN table["property"],
                       table["property"][i].key[1] = table["property"][j].key[1],
                       table["property"][i].key[2] = table["property"][j].key[2]
                PROVE  i = j
    BY DEF OneLinkPerForm
  <2>1. /\ DOMAIN table["property"] = 1 .. Len(table["property"])
        /\ \A n \in 1 .. Len(table["property"]) :
              table["property"][n] \in Request /\ table["property"][n].op = "property"
    BY TableRows DEF Wired, Op
  <2>2. table["property"][i].key \in Keys /\ table["property"][j].key \in Keys
    BY <2>1, RequestFields DEF PropertyRequests
  <2>3. table["property"][i].key = table["property"][j].key
    BY <2>2 DEF Keys
  <2>. QED  BY <2>1, <2>3 DEF Wired, Unique, Op
<1>. QED  BY <1>1, WizardWired, PTL

\* A success notice is backed by rows: the matter, a link and one for each card.
THEOREM WizardSuccessStored ==
    ASSUME WizardAssumption PROVE Spec => []SuccessMeansStored
<1>1. Wired => SuccessMeansStored
  <2>. SUFFICES ASSUME Wired, NEW f \in notice
                PROVE  /\ f.matter \in DOMAIN table["matter"]
                       /\ \E i \in DOMAIN table["property"] : table["property"][i].matter = f.matter
                       /\ \A p \in f.parties : \E i \in RowOf(f.matter, p) :
                             p.row = 0 /\ p.kind = Manual => table["party"][i].text = p.text
    BY DEF SuccessMeansStored
  <2>1. \A o \in Op : DOMAIN table[o] = 1 .. Len(table[o])
    BY TableRows DEF Wired
  <2>2. /\ f.matter \in Matters /\ Linked(f.matter)
        /\ \A p \in f.parties : Stored(f.matter, p)
    BY DEF Wired, Noticed
  <2>. QED  BY <2>1, <2>2 DEF Matters, Linked, Stored, RowFor, RowOf, Op
<1>. QED  BY <1>1, WizardWired, PTL

\* What a card, the form or the page takes as saved is the row of what was sent.
THEOREM WizardSavedAsSent ==
    ASSUME WizardAssumption PROVE Spec => SavedAsSent
<1>1. ASSUME Wired, save.pc \in Op, reply.kind = "ok"
      PROVE  /\ table[save.pc][reply.id].matter = save.matter
             /\ table[save.pc][reply.id].what = call.what
             /\ table[save.pc][reply.id].text = call.text
  BY <1>1 DEF Wired, Saves, Replied, AnswersRequest, Op
<1>2. Wired => [LET row == table[save.pc][reply.id]
                IN  save.pc \in Op /\ reply.kind = "ok" /\ reply' = NoReply =>
                       /\ row.matter = save.matter
                       /\ row.what = call.what /\ row.text = call.text]_vars
  BY <1>1
<1>. QED  BY <1>2, WizardWired, PTL DEF SavedAsSent

-----------------------------------------------------------------------------
(* The bounds of what is counted, which the invariant leaves open.          *)

\* What was typed in is no more than what was changed.
Small(f) == f.details <= 1 + edits /\ \A p \in f.parties : p.text <= edits

\* A request is for a matter that is there, or for the first.
Placed(q) == /\ q.matter \in 0 .. Len(table["matter"])
             /\ q.op = "party" => q.text <= edits

Sized ==
    /\ faults \in 0 .. MaxFaults /\ edits \in 0 .. MaxEdits
    /\ page.mount \in 1 .. 1 + faults
    /\ Small(form) /\ Small(save.form)
    /\ \A i \in 1 .. Len(table["party"]) : table["party"][i].text <= edits
    /\ \A q \in strays : Placed(q)
    /\ save.pc # "idle" => Placed(call)
    /\ save.pc \in {"idle", "matter"} => save.left = {}
    /\ notice = {} \/ \E f \in Forms : notice = {f} /\ Small(f)

LEMMA InitSized == ASSUME WizardAssumption, Init PROVE Sized
<1>1. /\ page.mount = 1 /\ form = EmptyForm /\ save = Idle /\ faults = 0 /\ edits = 0
      /\ notice = {} /\ strays = {}
  BY DEF Init, Mounted
<1>2. table["party"] = <<>> /\ Len(table["party"]) = 0
  BY DEF Init, Op
<1>3. Idle.pc = "idle" /\ Idle.left = {} /\ Idle.form = EmptyForm
  BY DEF Idle
<1>4. EmptyForm.details = 0 /\ EmptyForm.parties = {}
  BY DEF EmptyForm
<1>. QED
  BY <1>1, <1>2, <1>3, <1>4 DEF Sized, Small, WizardAssumption

\* What a form holds is counted in natural numbers.
LEMMA FormNumbers ==
    ASSUME NEW f \in Forms
    PROVE  /\ f.details \in Nat /\ f.parties \subseteq Cards
           /\ \A p \in f.parties : p.text \in Nat
BY DEF Forms, Cards

\* Another change of what was entered.
LEMMA MoreEdits ==
    ASSUME Wired, Sized, edits' \in {edits, edits + 1}, edits' \in 0 .. MaxEdits, Small(form)',
           UNCHANGED <<page, save, call, strays, table, notice, faults>>
    PROVE  Sized'
<1>1. /\ save.form \in Forms /\ edits \in Nat /\ edits <= edits'
      /\ strays \subseteq Request /\ (save.pc # "idle" => call \in Request)
  BY DEF Wired, WellTyped, Closures, Sized
<1>2. \A f \in Forms : Small(f) => Small(f)'
  BY <1>1, FormNumbers DEF Small
<1>3. \A q \in Request : Placed(q) => Placed(q)'
  BY <1>1, RequestFields DEF Placed
<1>4. \A i \in 1 .. Len(table["party"]) : table["party"][i].text \in Nat
  BY TableRows, RequestFields DEF Wired, Op
<1>. QED
  BY <1>1, <1>2, <1>3, <1>4 DEF Sized

LEMMA EditSized ==
    ASSUME WizardAssumption, Wired, Sized, NEW f, NEW again, Edit(f, again),
           f.details <= 1 + edits', \A p \in f.parties : p.text <= edits'
    PROVE  Sized'
<1>1. /\ form' = f /\ UNCHANGED <<page, save, call, strays, table, notice, faults>>
      /\ edits' \in {edits, edits + 1} /\ edits' \in 0 .. MaxEdits
  BY DEF Edit, Sized, WizardAssumption
<1>2. Small(form)'
  BY <1>1 DEF Small
<1>. QED
  BY <1>1, <1>2, MoreEdits

LEMMA EditsSized ==
    ASSUME WizardAssumption, Wired, Sized,
           \/ EditDetails \/ \E x \in Choice : ChooseProperty(x)
           \/ \E c \in Card : AddParty(c) \/ \E k \in Golden \cup {Company} : AutoAddBuyer(c, k)
           \/ \E p \in form.parties : EditParty(p) \/ RemoveParty(p)
    PROVE  Sized'
<1>1. /\ form \in Forms /\ form.details \in Nat /\ form.parties \subseteq Cards
      /\ \A p \in form.parties : p.text \in Nat /\ p.text <= edits
      /\ form.details <= 1 + edits /\ edits \in Nat
  BY FormNumbers DEF Wired, WellTyped, Sized, Small
<1>2. CASE EditDetails
  <2>1. PICK f, again : /\ f = [form EXCEPT !.details = @ + 1] /\ Edit(f, again)
                        /\ again = (form.details > 0)
    BY <1>2 DEF EditDetails
  <2>2. f.details = form.details + 1 /\ f.parties = form.parties
    BY <1>1, <2>1 DEF Forms
  <2>3. edits' = IF form.details > 0 THEN edits + 1 ELSE edits
    BY <2>1 DEF Edit
  <2>4. f.details <= 1 + edits' /\ \A p \in f.parties : p.text <= edits'
    BY <1>1, <2>2, <2>3
  <2>. QED
    BY <2>1, <2>4, EditSized
<1>3. ASSUME NEW x \in Choice, ChooseProperty(x) PROVE Sized'
  <2>1. PICK f, again : f = [form EXCEPT !.choice = x] /\ Edit(f, again)
    BY <1>3 DEF ChooseProperty
  <2>2. f.details = form.details /\ f.parties = form.parties
    BY <1>1, <2>1 DEF Forms
  <2>3. edits' \in {edits, edits + 1}
    BY <2>1 DEF Edit
  <2>4. f.details <= 1 + edits' /\ \A p \in f.parties : p.text <= edits'
    BY <1>1, <2>2, <2>3
  <2>. QED
    BY <2>1, <2>4, EditSized
<1>4. ASSUME NEW S, \E again : Edit([form EXCEPT !.parties = S], again),
             \A p \in S : \/ p \in form.parties \/ p.text = 0
                          \/ edits' = edits + 1 /\ \E r \in form.parties : p.text = r.text + 1
      PROVE  Sized'
  <2>1. PICK f, again : f = [form EXCEPT !.parties = S] /\ Edit(f, again)
    BY <1>4
  <2>2. f.details = form.details /\ f.parties = S
    BY <1>1, <2>1 DEF Forms
  <2>3. edits' \in {edits, edits + 1}
    BY <2>1 DEF Edit
  <2>4. \A p \in S : p.text <= edits'
    BY <1>1, <1>4, <2>3
  <2>5. f.details <= 1 + edits'
    BY <1>1, <2>2, <2>3
  <2>. QED
    BY <2>1, <2>2, <2>4, <2>5, EditSized
<1>5. ASSUME NEW c \in Card, AddParty(c) PROVE Sized'
  <2>1. PICK S : S = form.parties \cup {NewCard(c, Manual)}
    OBVIOUS
  <2>2. \E again : Edit([form EXCEPT !.parties = S], again)
    BY <1>5, <2>1 DEF AddParty
  <2>3. \A p \in S : p \in form.parties \/ p.text = 0
    BY <2>1 DEF NewCard
  <2>. QED
    BY <1>4, <2>2, <2>3
<1>6. ASSUME NEW c \in Card, NEW k \in Golden \cup {Company}, AutoAddBuyer(c, k) PROVE Sized'
  <2>1. PICK S : S = {NewCard(c, k)}
    OBVIOUS
  <2>2. \E again : Edit([form EXCEPT !.parties = S], again)
    BY <1>6, <2>1 DEF AutoAddBuyer
  <2>3. \A p \in S : p.text = 0
    BY <2>1 DEF NewCard
  <2>. QED
    BY <1>4, <2>2, <2>3
<1>7. ASSUME NEW p \in form.parties, EditParty(p) PROVE Sized'
  <2>1. PICK q : q = [p EXCEPT !.text = @ + 1]
    OBVIOUS
  <2>2. q.text = p.text + 1
    BY <1>1, <2>1 DEF Cards
  <2>3. PICK S : S = (form.parties \ {p}) \cup {q}
    OBVIOUS
  <2>4. (\E again : Edit([form EXCEPT !.parties = S], again)) /\ edits' = edits + 1
    BY <1>7, <2>1, <2>3 DEF EditParty, Edit
  <2>5. \A r \in S : r \in form.parties \/ \E o \in form.parties : r.text = o.text + 1
    BY <2>2, <2>3
  <2>. QED
    BY <1>4, <2>4, <2>5
<1>8. ASSUME NEW p \in form.parties, RemoveParty(p) PROVE Sized'
  <2>1. PICK S : S = form.parties \ {p}
    OBVIOUS
  <2>2. (\E again : Edit([form EXCEPT !.parties = S], again)) /\ \A r \in S : r \in form.parties
    BY <1>8, <2>1 DEF RemoveParty
  <2>. QED
    BY <1>4, <2>2
<1>. QED
  BY <1>2, <1>3, <1>5, <1>6, <1>7, <1>8

\* What the next request of a save, or its end, leaves.
Going(m) ==
    /\ page'.mount = page.mount /\ Small(save.form)'
    /\ save'.pc # "idle" => Placed(call)'
    /\ save'.pc \in {"idle", "matter"} => save'.left = {}
    /\ notice' = notice \/ notice' = {} \/ \E f \in Forms : notice' = {f} /\ Small(f)'

LEMMA PartiesGoing ==
    ASSUME Tables, UNCHANGED <<table, edits>>, page \in Pages, edits \in Nat,
           NEW m \in Matters, NEW f \in Forms, Small(f), NEW submit, NEW left, NEW failed,
           left \subseteq f.parties, AttachParties(m, f, submit, left, failed)
    PROVE  Going(m)
<1>1. m \in Nat /\ m \in 0 .. Len(table["matter"])
  BY TableRows DEF Op, Matters
<1>2. CASE left = {} /\ Conclude(m, f, submit, failed)
  <2>1. /\ save' = Idle /\ notice' = IF failed THEN {} ELSE {[f EXCEPT !.matter = m]}
        /\ page' = page \/ page' = [page EXCEPT !.step = "left"]
    BY <1>2 DEF Conclude
  <2>2. page'.mount = page.mount
    BY <2>1 DEF Pages
  <2>3. save'.pc = "idle" /\ save'.left = {} /\ save'.form = EmptyForm
    BY <2>1 DEF Idle
  <2>4. EmptyForm.details = 0 /\ EmptyForm.parties = {}
    BY DEF EmptyForm
  <2>5. PICK g : g = [f EXCEPT !.matter = m]
    OBVIOUS
  <2>6. g \in Forms /\ g.details = f.details /\ g.parties = f.parties
    BY <1>1, <2>5 DEF Forms
  <2>7. Small(g)'
    BY <2>6 DEF Small
  <2>8. Small(save.form)'
    BY <2>3, <2>4 DEF Small
  <2>. QED
    BY <2>1, <2>2, <2>3, <2>5, <2>6, <2>7, <2>8 DEF Going
<1>3. ASSUME NEW p \in left,
             save' = [pc |-> "party", submit |-> submit, form |-> f, matter |-> m,
                      left |-> left \ {p}, failed |-> failed],
             call' = PartyRequest(m, p), UNCHANGED <<notice, page>>
      PROVE  Going(m)
  <2>1. save'.pc = "party" /\ save'.form = f
    BY <1>3
  <2>2. Small(save.form)'
    BY <2>1 DEF Small
  <2>3. call'.matter = m /\ call'.text = p.text /\ p.text <= edits
    BY <1>3 DEF PartyRequest, Small
  <2>4. Placed(call)'
    BY <1>1, <2>3 DEF Placed
  <2>. QED
    BY <1>3, <2>1, <2>2, <2>4 DEF Going
<1>. QED
  BY <1>2, <1>3 DEF AttachParties

LEMMA PropertyGoing ==
    ASSUME Tables, UNCHANGED <<table, edits>>, page \in Pages, edits \in Nat,
           NEW m \in Matters, NEW f \in Forms, NEW g \in Forms, Small(f), Small(g), NEW submit,
           AttachProperty(m, f, g, submit)
    PROVE  Going(m) /\ Small(form)'
<1>1. Expressible(f) \subseteq f.parties
  BY DEF Expressible
<1>2. m \in Nat /\ m \in 0 .. Len(table["matter"])
  BY TableRows DEF Op, Matters
<1>3. Small(form)'
  <2>1. form' = g \/ \E k : form' = [g EXCEPT !.linkKey = k]
    BY DEF AttachProperty
  <2>2. form'.details = g.details /\ form'.parties = g.parties
    BY <2>1 DEF Forms
  <2>. QED
    BY <2>2 DEF Small
<1>4. CASE \E failed : AttachParties(m, f, submit, Expressible(f), failed)
  BY <1>1, <1>3, <1>4, PartiesGoing
<1>5. ASSUME NEW k, NEW failed, call' = PropertyRequest(m, f, k),
             save' = [pc |-> "property", submit |-> submit, form |-> f, matter |-> m,
                      left |-> Expressible(f), failed |-> failed],
             UNCHANGED <<notice, page>>
      PROVE  Going(m)
  <2>1. save'.pc = "property" /\ save'.form = f
    BY <1>5
  <2>2. call'.matter = m /\ call'.op = "property"
    BY <1>5 DEF PropertyRequest
  <2>3. Small(save.form)' /\ Placed(call)'
    BY <1>2, <2>1, <2>2 DEF Small, Placed
  <2>. QED
    BY <1>5, <2>1, <2>3 DEF Going
<1>6. CASE f.link # 0 \/ f.choice = Unset
  <2>1. \E failed : AttachParties(m, f, submit, Expressible(f), failed)
    BY <1>6 DEF AttachProperty
  <2>. QED
    BY <1>3, <1>4, <2>1
<1>7. CASE f.link = 0 /\ f.choice # Unset
  <2>1. \E k, failed :
          /\ call' = PropertyRequest(m, f, k)
          /\ save' = [pc |-> "property", submit |-> submit, form |-> f, matter |-> m,
                      left |-> Expressible(f), failed |-> failed]
          /\ UNCHANGED <<notice, page>>
    BY <1>7 DEF AttachProperty
  <2>. QED
    BY <1>3, <1>5, <2>1
<1>. QED
  BY <1>6, <1>7

\* A save that goes on keeps what is counted.
LEMMA GoingSized ==
    ASSUME Sized, NEW m, Going(m), Small(form)', UNCHANGED <<strays, table, faults, edits>>
    PROVE  Sized'
<1>1. \A q \in strays : Placed(q)'
  BY DEF Sized, Placed
<1>2. notice' = {} \/ \E f \in Forms : notice' = {f} /\ Small(f)'
  BY DEF Sized, Going, Small
<1>. QED
  BY <1>1, <1>2 DEF Sized, Going

LEMMA SavesSized ==
    ASSUME WizardAssumption, Wired, Sized,
           (\E submit \in BOOLEAN : Save(submit)) \/ MatterAnswered \/ PropertyAnswered \/ PartyAnswered
    PROVE  Sized'
<1>1. /\ WellTyped /\ Tables /\ Shown /\ Replied /\ Saves(save)
      /\ page \in Pages /\ form \in Forms /\ save.form \in Forms
      /\ edits \in Nat /\ Small(form) /\ Small(save.form)
  BY DEF Wired, WellTyped, Closures, Sized
<1>2. ASSUME NEW submit \in BOOLEAN, Save(submit) PROVE Sized'
  <2>1. UNCHANGED <<strays, table, faults, edits>>
    BY <1>2 DEF Save
  <2>2. CASE /\ save' = [Idle EXCEPT !.pc = "matter", !.submit = submit, !.form = form]
             /\ call' = CreateRequest(form) /\ notice' = {} /\ UNCHANGED <<form, page>>
    <3>1. save'.pc = "matter" /\ save'.form = form /\ save'.left = {}
      BY <2>2 DEF Idle
    <3>2. Placed(call)'
      BY <1>1, <2>2, TableRows, <2>1 DEF Placed, CreateRequest, Op
    <3>3. Small(form)' /\ Small(save.form)'
      BY <1>1, <2>1, <2>2, <3>1 DEF Small
    <3>4. Going(0)
      BY <2>2, <3>1, <3>2, <3>3 DEF Going
    <3>. QED
      BY <2>1, <3>3, <3>4, GoingSized
  <2>3. CASE Target # 0 /\ AttachProperty(Target, form, form, submit)
    <3>1. Target \in Matters
      BY <1>1, <2>3, TargetMatter
    <3>. QED
      BY <1>1, <2>1, <2>3, <3>1, PropertyGoing, GoingSized
  <2>. QED
    BY <1>2, <2>2, <2>3 DEF Save, Target
<1>3. CASE MatterAnswered
  <2>1. UNCHANGED <<strays, table, faults, edits>>
    BY <1>3 DEF MatterAnswered
  <2>2. CASE reply.kind = "ok"
    <3>1. reply.id \in Matters /\ reply.id \in Nat
      <4>1. call.op = "matter" /\ AnswersRequest(call, reply.id)
        BY <1>1, <1>3, <2>2 DEF MatterAnswered, Replied, Saves
      <4>. QED
        BY <1>1, <4>1 DEF AnswersRequest, Matters, WellTyped
    <3>2. PICK g : g = [form EXCEPT !.matter = reply.id]
      OBVIOUS
    <3>3. g \in Forms /\ g.details = form.details /\ g.parties = form.parties
      BY <1>1, <3>1, <3>2 DEF Forms
    <3>4. Small(g)
      BY <1>1, <3>3 DEF Small
    <3>5. AttachProperty(reply.id, save.form, g, save.submit)
      BY <1>3, <2>2, <3>2 DEF MatterAnswered
    <3>. QED
      BY <1>1, <2>1, <3>1, <3>3, <3>4, <3>5, PropertyGoing, GoingSized
  <2>3. CASE reply.kind # "ok"
    <3>1. /\ save' = Idle /\ UNCHANGED <<form, notice>>
          /\ page' = page \/ page' = [page EXCEPT !.persistence = "unavailable"]
      BY <1>3, <2>3 DEF MatterAnswered
    <3>2. /\ save'.pc = "idle" /\ save'.left = {} /\ save'.form.details = 0
          /\ save'.form.parties = {}
      BY <3>1 DEF Idle, EmptyForm
    <3>3. page'.mount = page.mount
      BY <1>1, <3>1 DEF Pages
    <3>4. Small(form)' /\ Small(save.form)'
      BY <1>1, <2>1, <3>1, <3>2 DEF Small
    <3>5. Going(0)
      BY <3>1, <3>2, <3>3, <3>4 DEF Going
    <3>. QED
      BY <2>1, <3>4, <3>5, GoingSized
  <2>. QED
    BY <2>2, <2>3
<1>4. CASE PropertyAnswered \/ PartyAnswered
  <2>1. UNCHANGED <<strays, table, faults, edits>>
    BY <1>4 DEF PropertyAnswered, PartyAnswered
  <2>2. save.matter \in Matters /\ save.left \subseteq save.form.parties
    BY <1>1, <1>4 DEF PropertyAnswered, PartyAnswered, Saves, Awaits, Expressible
  <2>3. PICK failed : AttachParties(save.matter, save.form, save.submit, save.left, failed)
    BY <1>4 DEF PropertyAnswered, PartyAnswered
  <2>4. Going(save.matter)
    BY <1>1, <2>1, <2>2, <2>3, PartiesGoing
  <2>5. Small(form)'
    <3>1. CASE form' = form \/ \E i : form' = [form EXCEPT !.link = i]
      <4>1. form'.details = form.details /\ form'.parties = form.parties
        BY <1>1, <3>1 DEF Forms
      <4>. QED
        BY <1>1, <2>1, <4>1 DEF Small
    <3>2. ASSUME NEW c, NEW i, form' = [form EXCEPT !.parties = WithRow(@, c, i)]
          PROVE  Small(form)'
      <4>1. form'.details = form.details /\ form'.parties = WithRow(form.parties, c, i)
        BY <1>1, <3>2 DEF Forms
      <4>2. \A p \in form.parties : [p EXCEPT !.row = i].text = p.text
        BY <1>1 DEF Forms, Cards
      <4>3. \A p \in form'.parties : \E r \in form.parties : p.text = r.text
        BY <4>1, <4>2 DEF WithRow
      <4>. QED
        BY <1>1, <2>1, <4>1, <4>3 DEF Small
    <3>. QED
      BY <1>4, <3>1, <3>2 DEF PropertyAnswered, PartyAnswered
  <2>. QED
    BY <2>1, <2>4, <2>5, GoingSized
<1>. QED
  BY <1>2, <1>3, <1>4

\* What is served was bounded when it was sent.
LEMMA ServedSized ==
    ASSUME WizardAssumption, Wired, Sized, Serve \/ \E q \in strays : ServeLate(q)
    PROVE  Sized'
<1>1. /\ WellTyped /\ Tables /\ Unique /\ edits \in Nat
      /\ UNCHANGED <<page, form, save, call, notice, faults, edits>>
      /\ strays' \subseteq strays
  BY DEF Wired, WellTyped, Sized, Serve, ServeLate
<1>q. PICK q \in Request : (\E a : Handle(q, a)) /\ Placed(q)
  BY <1>1 DEF Serve, ServeLate, WellTyped, Sized
<1>2. PICK a : Handle(q, a) /\ Placed(q)
  BY <1>q
<1>3. /\ Tables' /\ Len(table["matter"]) <= Len(table'["matter"])
      /\ \A i \in 1 .. Len(table["party"]) : table'["party"][i] = table["party"][i]
      /\ \A i \in 1 .. Len(table'["party"]) :
            i \in 1 .. Len(table["party"]) \/ (q.op = "party" /\ table'["party"][i] = q)
  <2>1. "matter" \in Op /\ "party" \in Op
    BY DEF Op
  <2>. QED
    BY <1>1, <1>2, <2>1, HandleServes
<1>4. Len(table["matter"]) \in Nat /\ Len(table'["matter"]) \in Nat
  BY <1>1, <1>3, LenProperties, TableRows DEF Tables, Op
<1>5. \A r \in Request : Placed(r) => Placed(r)'
  BY <1>1, <1>3, <1>4 DEF Placed
<1>6. \A i \in 1 .. Len(table'["party"]) : table'["party"][i].text <= edits
  BY <1>2, <1>3 DEF Sized, Placed
<1>7. (\A r \in strays' : Placed(r)') /\ (save'.pc # "idle" => Placed(call)')
  BY <1>1, <1>5 DEF Sized, WellTyped
<1>. QED
  BY <1>1, <1>6, <1>7 DEF Sized, Small

\* A request that is given up, or left behind by the page, was bounded too.
LEMMA LeftSized ==
    ASSUME WizardAssumption, Wired, Sized,
           Refuse \/ GiveUp \/ \E m \in DOMAIN table["matter"] : Reload(m)
    PROVE  Sized'
<1>1. faults' = faults + 1 /\ faults' \in 0 .. MaxFaults /\ UNCHANGED <<table, edits>>
  BY DEF Refuse, GiveUp, Reload, Fault, Sized, WizardAssumption
<1>2. CASE Refuse \/ GiveUp
  <2>1. /\ UNCHANGED <<page, form, save, call, notice>> /\ save.pc # "idle"
        /\ strays' \subseteq strays \cup {call}
    BY <1>2 DEF Refuse, GiveUp, Wired, WellTyped
  <2>. QED
    BY <1>1, <2>1 DEF Sized, Small, Placed
<1>3. ASSUME NEW m, Reload(m) PROVE Sized'
  <2>1. /\ page' = Mounted(page.mount + 1, m) /\ form' = EmptyForm /\ save' = Idle
        /\ notice' = {} /\ strays' \subseteq strays \cup {call}
        /\ call = NoCall => strays' = strays
    BY <1>3 DEF Reload
  <2>2. page'.mount = page.mount + 1
    BY <2>1 DEF Mounted
  <2>3. save'.pc = "idle" /\ save'.left = {} /\ save'.form = EmptyForm
    BY <2>1 DEF Idle
  <2>4. EmptyForm.details = 0 /\ EmptyForm.parties = {}
    BY DEF EmptyForm
  <2>5. \A q \in strays' : Placed(q)
    BY <2>1 DEF Sized, Wired, WellTyped
  <2>6. \A q \in strays' : Placed(q)'
    BY <1>1, <2>5 DEF Placed
  <2>. QED
    BY <1>1, <2>1, <2>2, <2>3, <2>4, <2>6 DEF Sized, Small
<1>. QED
  BY <1>2, <1>3

LEMMA PageSized ==
    ASSUME WizardAssumption, Wired, Sized,
           Probe \/ handleNext \/ handlePrevious \/ Hydrate \/ \E r \in Read : ReadAnswers(r)
    PROVE  Sized'
<1>1. /\ UNCHANGED <<save, call, strays, table, notice, edits>> /\ page \in Pages /\ edits \in Nat
      /\ faults' \in {faults, faults + 1} /\ faults' \in 0 .. MaxFaults
  <2>1. faults' = faults \/ Fault
    BY DEF Probe, handleNext, handlePrevious, Hydrate, ReadAnswers
  <2>2. UNCHANGED <<save, call, strays, table, notice, edits>>
    BY DEF Probe, handleNext, handlePrevious, Hydrate, ReadAnswers
  <2>. QED
    BY <2>1, <2>2 DEF Fault, Wired, WellTyped, Sized, WizardAssumption
<1>2. page'.mount = page.mount
  BY <1>1 DEF Probe, handleNext, handlePrevious, Hydrate, ReadAnswers, Pages
<1>3. Small(form)'
  <2>1. CASE form' = form
    BY <1>1, <2>1 DEF Sized, Small
  <2>2. CASE form' = Reopened
    <3>1. form'.details = 0 /\ form'.parties = {SavedCard(i) : i \in Seen("party")}
      BY <2>2 DEF Reopened
    <3>2. \A i \in Seen("party") : i \in 1 .. Len(table["party"])
      <4>1. /\ load.upto["party"] \in Nat /\ Len(table["party"]) \in Nat
            /\ load.upto["party"] <= Len(table["party"])
        BY TableRows DEF Wired, WellTyped, Shown, Read, Op
      <4>. QED
        BY <4>1 DEF Seen
    <3>3. \A i \in Seen("party") : SavedCard(i).text <= edits
      BY <3>2 DEF SavedCard, Sized
    <3>4. Small(form')
      BY <1>1, <3>1, <3>3 DEF Small
    <3>. QED
      BY <1>1, <3>4 DEF Small
  <2>. QED
    BY <2>1, <2>2 DEF Probe, handleNext, handlePrevious, Hydrate, ReadAnswers
<1>4. Small(save.form)' /\ (\A f \in Forms : Small(f) => Small(f)') /\ \A q : Placed(q) => Placed(q)'
  BY <1>1 DEF Sized, Small, Placed
<1>. QED
  BY <1>1, <1>2, <1>3, <1>4 DEF Sized, WizardAssumption

LEMMA NextSized ==
    ASSUME WizardAssumption, Wired, Sized, [Next]_vars
    PROVE  Sized'
<1>1. CASE UNCHANGED vars
  BY <1>1 DEF vars, Sized, Small, Placed
<1>2. CASE Probe \/ handleNext \/ handlePrevious \/ Hydrate \/ \E r \in Read : ReadAnswers(r)
  BY <1>2, PageSized
<1>3. CASE \/ EditDetails \/ \E x \in Choice : ChooseProperty(x)
           \/ \E c \in Card : AddParty(c) \/ \E k \in Golden \cup {Company} : AutoAddBuyer(c, k)
           \/ \E p \in form.parties : EditParty(p) \/ RemoveParty(p)
  BY <1>3, EditsSized
<1>4. CASE (\E submit \in BOOLEAN : Save(submit)) \/ MatterAnswered \/ PropertyAnswered \/ PartyAnswered
  BY <1>4, SavesSized
<1>5. CASE Serve \/ \E q \in strays : ServeLate(q)
  BY <1>5, ServedSized
<1>6. CASE Refuse \/ GiveUp \/ \E m \in DOMAIN table["matter"] : Reload(m)
  BY <1>6, LeftSized
<1>. QED  BY <1>1, <1>2, <1>3, <1>4, <1>5, <1>6 DEF Next

LEMMA SmallForm ==
    ASSUME NEW f \in Forms, Small(f), edits \in 0 .. MaxEdits, MaxEdits \in Nat
    PROVE  f \in Form
<1>1. \A p \in f.parties : p \in PartyCard
  <2>. SUFFICES ASSUME NEW p \in f.parties PROVE p \in PartyCard
    OBVIOUS
  <2>1. p \in Cards /\ p.text \in Nat /\ p.text <= edits
    BY FormNumbers DEF Small
  <2>. QED
    BY <2>1 DEF Cards, PartyCard
<1>2. \A k \in Keys : k \in Seq(Nat)
  <2>. SUFFICES ASSUME NEW k \in Keys PROVE k \in Seq(Nat)
    OBVIOUS
  <2>1. PICK a \in Nat, b \in Nat : k = <<a, b>>
    BY DEF Keys
  <2>2. <<a, b>> \in Seq(Nat)
    OBVIOUS
  <2>. QED
    BY <2>1, <2>2
<1>3. f.linkKey \in Seq(Nat)
  BY <1>2, EmptySeq DEF Forms
<1>4. f.details \in 0 .. 1 + MaxEdits
  BY FormNumbers DEF Small
<1>. QED
  BY <1>1, <1>3, <1>4 DEF Forms, Form

\* The form, the save that runs, its request and those that nobody awaits have their types,
\* and what is counted stays within its bounds.
THEOREM WizardTypeOK == ASSUME WizardAssumption PROVE Spec => []TypeOK
<1>1. Wired /\ Sized => TypeOK
  <2>. SUFFICES ASSUME Wired, Sized PROVE TypeOK
    OBVIOUS
  <2>1. MaxEdits \in Nat /\ MaxFaults \in Nat /\ WellTyped /\ Tables /\ Saves(save)
    BY DEF WizardAssumption, Wired
  <2>2. form \in Form /\ save.form \in Form /\ \A f \in notice : f \in Form
    BY <2>1, SmallForm DEF WellTyped, Closures, Sized
  <2>3. save.left \subseteq save.form.parties
    BY <2>1 DEF Sized, Saves, Awaits, Expressible, WellTyped, Closures, Op
  <2>4. save.pc = "idle" <=> call = NoCall
    <3>1. \A q \in Request : q # NoCall
      <4>. SUFFICES ASSUME NEW q \in Request, q = NoCall PROVE FALSE
        OBVIOUS
      <4>1. "op" \in DOMAIN q
        BY DEF Request, MatterRequests, PropertyRequests, PartyRequests
      <4>2. DOMAIN NoCall = {}
        BY DEF NoCall
      <4>. QED
        BY <4>1, <4>2
    <3>. QED
      BY <2>1, <3>1 DEF WellTyped
  <2>5. Cardinality(notice) <= 1
    <3>1. CASE notice = {}
      BY <3>1, FS_EmptySet
    <3>2. ASSUME NEW f, notice = {f} PROVE Cardinality(notice) <= 1
      BY <3>2, FS_Singleton
    <3>. QED
      BY <3>1, <3>2 DEF Sized
  <2>6. \A q \in strays : q.op \in Op /\ q.matter \in 0 .. Len(table["matter"])
    BY <2>1, RequestFields DEF WellTyped, Sized, Placed
  <2>7. page.mount \in 1 .. 1 + MaxFaults
    BY <2>1 DEF Sized
  <2>8. page \in [mount: 1 .. 1 + MaxFaults, opened: Nat,
                  step: {"property", "parties", "review", "left"},
                  persistence: {"checking", "ready", "unavailable"}, hydrated: BOOLEAN]
    BY <2>1, <2>7 DEF WellTyped, Pages
  <2>. QED
    BY <2>1, <2>2, <2>3, <2>4, <2>5, <2>6, <2>8 DEF TypeOK, WellTyped, Closures, Tables, Sized
<1>. QED
  BY <1>1, InitSized, NextSized, InitWired, NextWired, PTL DEF Spec
=============================================================================

----------------------------- MODULE PageProofs -----------------------------
(***************************************************************************)
(* The pages, one after the other, for every value of their constants:     *)
(* what each promises, by the invariant of its own that its steps keep.    *)
(* Each is an instance over variables of its own, and nothing proved of    *)
(* one is used for another; a service they all call is in each of them, as *)
(* far as that page depends on it.                                         *)
(***************************************************************************)
EXTENDS FiniteSetTheorems, FiniteSets, FiniteSetsExt, Functions, Integers, Naturals, SequenceTheorems, Sequences, WellFoundedInduction, TLAPS

CONSTANTS
    Page, Matter, MaxEdits, MaxClock, MaxMoves, MaxFaults, Term, Type, Id, NoRecord,
    MaxVersion, MaxSession, MaxEntries, Doc, Asked, Requirement, Recalculate, NoRow,
    MaxCalls, MaxPanelSession, Property, Text, matching, Short, NoProperty, NoRows,
    MaxVisits, Identity, User, accountsOf, NoUser, MaxCodes, MaxTransfer, Limit,
    MaxRequest, MaxListChanges, Unread, NoTotals, Transfer, Content, Generated,
    NoStatement, MaxStatementVersion, MaxIds, Preset, Active, Custom, NoSettings,
    NoTariff, Price, Deeds, Multiplier

VARIABLES
    coreRow, clock, corePage, coreLoad, coreSave, typed, coreMoves, coreFaults,
    goldenSearch, goldenActive, goldenVersion, goldenPending, goldenCalls,
    goldenPage, goldenGeneration, scope, history, here, buyer,
    docPanelRow, docPanelShown, busyKey, dialog, uploadTarget, docPanelCalls,
    docPanelGeneration, saved,
    linkPanelMatter, panel, timer, linkPanelCalls, linked, linkPanelActive,
    reported, linkPanelMoves,
    loginPage, loginCalls, loginSent, spent, session,
    listPage, listRequest, listCalls, status, changes,
    tab, proformaVersion, proformaCalls, cache, proformaRows, figures, ids,
    proformaFaults,
    settings, firmRow, tariffs, schedules, firmCalls, firmPage, touched, firmFaults,
    firm, input, proforma

Core == INSTANCE MatterCore WITH
    row <- coreRow, page <- corePage, load <- coreLoad, save <- coreSave,
    moves <- coreMoves, faults <- coreFaults

Golden == INSTANCE GoldenRecordSearch WITH
    search <- goldenSearch, active <- goldenActive, version <- goldenVersion,
    pending <- goldenPending, calls <- goldenCalls, page <- goldenPage,
    generation <- goldenGeneration

DocPanel == INSTANCE MatterDocumentsPanel WITH
    MaxSession <- MaxPanelSession, row <- docPanelRow, shown <- docPanelShown,
    calls <- docPanelCalls, generation <- docPanelGeneration

LinkPanel == INSTANCE MatterProperties WITH
    MaxMoves <- MaxVisits, matter <- linkPanelMatter, calls <- linkPanelCalls,
    active <- linkPanelActive, moves <- linkPanelMoves

Login == INSTANCE LoginFlow WITH
    page <- loginPage, calls <- loginCalls, sent <- loginSent

List == INSTANCE TransfersList WITH
    MaxChanges <- MaxListChanges, page <- listPage, calls <- listCalls

Proforma == INSTANCE ProformaStatement WITH
    MaxVersion <- MaxStatementVersion, version <- proformaVersion,
    calls <- proformaCalls, rows <- proformaRows, faults <- proformaFaults

Firm == INSTANCE FirmSettings WITH
    row <- firmRow, calls <- firmCalls, page <- firmPage, faults <- firmFaults

Accounts == INSTANCE Tariffs

-----------------------------------------------------------------------------
(***************************************************************************)
(* Editing a matter, for any number of pages and matters.  A page may send *)
(* the fields and tokens of one matter to the id of another; only the      *)
(* tokens stand between the two.  The invariant therefore supposes a log of*)
(* all timestamps given, the matter each stamped and the values it had, and*)
(* says that every token anywhere, with the values beside it, is of the    *)
(* log.                                                                    *)
(***************************************************************************)
\* Matters are finitely many: each has a creation time of its own.
CoreAssumption ==
    IsFiniteSet(Matter) /\ MaxEdits \in Nat /\ MaxMoves \in Nat /\ MaxFaults \in Nat

Stamps   == [of: Matter, value: Core!Fields]
Rows     == [value: Core!Fields, at: Core!Tokens]
Pages    == [url: Matter, detail: Core!Detail \cup {Core!NoDetail}, draft: Core!Fields, conflict: BOOLEAN]
Loads    == [of: Matter, got: SUBSET Core!Part, value: Core!Fields, at: Core!Tokens]
Saves    == [of: Matter, at: Core!Tokens, value: Core!Fields, shown: Core!Fields,
             reply: {"none", "ok", "conflict", "error"}, detail: Core!Detail \cup {Core!NoDetail}]

\* The value v was typed, by the history t, in matter m, or is what was there before.
TypedIn(t, v, m) == v = 0 \/ (v \in DOMAIN t /\ t[v] = m)

\* The token k of a part is one that log s gave to matter m, with the value v.
Stamped(s, m, part, k, v) == k \in DOMAIN s /\ s[k].of = m /\ s[k].value[part] = v

Logged(s, m, x) == \A part \in Core!Part : Stamped(s, m, part, x.at[part], x.value[part])

PageSound(s, t, g) ==
    /\ g \in Pages
    /\ g.detail # Core!NoDetail =>
         /\ g.detail \in Core!Detail /\ Logged(s, g.detail.of, g.detail)
         /\ \A part \in Core!Part : TypedIn(t, g.draft[part], g.detail.of)

LoadSound(s, l) ==
    /\ l \in Loads
    /\ \A part \in l.got : Stamped(s, l.of, part, l.at[part], l.value[part])

\* What is being saved was typed in, and shown of, one matter.
SaveSound(s, t, v) ==
    v # Core!NoSave =>
      /\ v \in Saves
      /\ \E m \in Matter : \A part \in Core!Part :
            Stamped(s, m, part, v.at[part], v.shown[part]) /\ TypedIn(t, v.value[part], m)
      /\ v.reply = "ok" => v.detail \in Core!Detail /\ Logged(s, v.detail.of, v.detail)

LogSound(s, t, c) ==
    /\ s \in [1 .. c -> Stamps]
    /\ \A k \in 1 .. c : \A part \in Core!Part : TypedIn(t, s[k].value[part], s[k].of)

\* Everything is as the log s says.
Explained(s) ==
    /\ clock \in Nat /\ LogSound(s, typed, clock)
    /\ coreRow \in [Matter -> Rows] /\ \A m \in Matter : Logged(s, m, coreRow[m])
    /\ corePage \in [Page -> Pages] /\ \A p \in Page : PageSound(s, typed, corePage[p])
    /\ coreLoad \in [Page -> SUBSET Loads] /\ \A p \in Page : \A l \in coreLoad[p] : LoadSound(s, l)
    /\ coreSave \in [Page -> Saves \cup {Core!NoSave}]
    /\ \A p \in Page : SaveSound(s, typed, coreSave[p])

CoreCounts ==
    /\ \E n \in 0 .. MaxEdits : typed \in [1 .. n -> Matter]
    /\ coreMoves \in 0 .. MaxMoves /\ coreFaults \in 0 .. MaxFaults

CoreInv == CoreCounts /\ \E s : Explained(s)

-----------------------------------------------------------------------------

LEMMA CoreCardinality == \A S : Core!Cardinality(S) = Cardinality(S)
BY DEF Core!Cardinality, Cardinality

\* Edits are numbered from 1 without a gap.
LEMMA CoreEdits ==
    ASSUME NEW n \in Nat, NEW t \in [1 .. n -> Matter]
    PROVE  DOMAIN t = 1 .. n /\ Cardinality(DOMAIN t) = n
<1>1. Cardinality(1 .. n) = n
  BY FS_Interval
<1>. QED
  BY <1>1, CoreCardinality

LEMMA CoreBlank ==
    ASSUME CoreAssumption
    PROVE  /\ Core!Blank \in Core!Fields /\ Core!Blank \in Core!Tokens
           /\ \A part \in Core!Part : Core!Blank[part] = 0
<1>1. Core!Blank \in [Core!Part -> {0}]
  BY DEF Core!Blank
<1>. QED
  BY <1>1 DEF Core!Fields, Core!Edit, Core!Tokens, Core!Blank, CoreAssumption

\* What a log explains, a longer one explains, and more edits do not matter.
LEMMA CoreGrows ==
    ASSUME NEW s, NEW s2, \A k \in DOMAIN s : k \in DOMAIN s2 /\ s2[k] = s[k],
           NEW t, NEW t2, \A e \in DOMAIN t : e \in DOMAIN t2 /\ t2[e] = t[e]
    PROVE  /\ \A m, x : Logged(s, m, x) => Logged(s2, m, x)
           /\ \A v, m : TypedIn(t, v, m) => TypedIn(t2, v, m)
           /\ \A g : PageSound(s, t, g) => PageSound(s2, t2, g)
           /\ \A l : LoadSound(s, l) => LoadSound(s2, l)
           /\ \A v : SaveSound(s, t, v) => SaveSound(s2, t2, v)
<1>1. \A m, part, k, v : Stamped(s, m, part, k, v) => Stamped(s2, m, part, k, v)
  BY DEF Stamped
<1>2. \A m, x : Logged(s, m, x) => Logged(s2, m, x)
  BY <1>1 DEF Logged
<1>3. \A v, m : TypedIn(t, v, m) => TypedIn(t2, v, m)
  BY DEF TypedIn
<1>4. \A g : PageSound(s, t, g) => PageSound(s2, t2, g)
  BY <1>2, <1>3 DEF PageSound
<1>5. \A l : LoadSound(s, l) => LoadSound(s2, l)
  BY <1>1 DEF LoadSound
<1>6. \A v : SaveSound(s, t, v) => SaveSound(s2, t2, v)
  BY <1>1, <1>2, <1>3 DEF SaveSound
<1>. QED
  BY <1>2, <1>3, <1>4, <1>5, <1>6

\* What a log gives a matter was typed in it.
LEMMA CoreLogged ==
    ASSUME NEW s, NEW t, NEW c, LogSound(s, t, c), NEW m, NEW x, Logged(s, m, x),
           NEW part \in Core!Part
    PROVE  TypedIn(t, x.value[part], m)
BY DEF LogSound, Logged, Stamped

\* A page takes a step and no row changes.
LEMMA CorePage ==
    ASSUME NEW s, Explained(s), UNCHANGED <<coreRow, clock, typed>>, NEW p \in Page,
           NEW g, PageSound(s, typed, g), corePage' = [corePage EXCEPT ![p] = g],
           NEW L, \A l \in L : LoadSound(s, l), coreLoad' = [coreLoad EXCEPT ![p] = L],
           NEW v, v = Core!NoSave \/ v \in Saves, SaveSound(s, typed, v), coreSave' = [coreSave EXCEPT ![p] = v]
    PROVE  Explained(s)'
<1>1. corePage' \in [Page -> Pages] /\ \A q \in Page : PageSound(s, typed, corePage'[q])
  BY DEF Explained, PageSound
<1>2. /\ coreLoad' \in [Page -> SUBSET Loads]
      /\ \A q \in Page : \A l \in coreLoad'[q] : LoadSound(s, l)
  BY DEF Explained, LoadSound
<1>3. /\ coreSave' \in [Page -> Saves \cup {Core!NoSave}]
      /\ \A q \in Page : SaveSound(s, typed, coreSave'[q])
  BY DEF Explained
<1>. QED
  BY <1>1, <1>2, <1>3 DEF Explained

LEMMA CoreSame ==
    ASSUME NEW s, Explained(s), NEW p \in Page
    PROVE  /\ PageSound(s, typed, corePage[p]) /\ corePage = [corePage EXCEPT ![p] = corePage[p]]
           /\ \A l \in coreLoad[p] : LoadSound(s, l) /\ coreLoad = [coreLoad EXCEPT ![p] = coreLoad[p]]
           /\ coreLoad = [coreLoad EXCEPT ![p] = coreLoad[p]]
           /\ coreSave[p] = Core!NoSave \/ coreSave[p] \in Saves
           /\ SaveSound(s, typed, coreSave[p]) /\ coreSave = [coreSave EXCEPT ![p] = coreSave[p]]
BY DEF Explained

\* A read that starts holds nothing yet.
LEMMA CoreGet ==
    ASSUME CoreAssumption, NEW s, NEW m \in Matter
    PROVE  LoadSound(s, Core!Get(m))
BY CoreBlank DEF LoadSound, Core!Get, Loads

-----------------------------------------------------------------------------

LEMMA CoreNavigate ==
    ASSUME CoreAssumption, NEW s, Explained(s), NEW p \in Page, NEW m \in Matter,
           Core!Navigate(p, m)
    PROVE  Explained(s)'
<1>. DEFINE g == [corePage[p] EXCEPT !.url = m]
<1>1. PageSound(s, typed, corePage[p]) /\ corePage[p] \in Pages
  BY CoreSame DEF PageSound
<1>2. /\ g \in Pages /\ g.detail = corePage[p].detail /\ g.draft = corePage[p].draft
      /\ corePage' = [corePage EXCEPT ![p] = g]
  BY <1>1 DEF Core!Navigate, Pages
<1>. HIDE DEF g
<1>3. PageSound(s, typed, g)
  BY <1>1, <1>2 DEF PageSound
<1>4. \A l \in coreLoad[p] \cup {Core!Get(m)} : LoadSound(s, l)
  BY CoreGet, CoreSame
<1>5. /\ coreLoad' = [coreLoad EXCEPT ![p] = coreLoad[p] \cup {Core!Get(m)}]
      /\ UNCHANGED <<coreRow, clock, coreSave, typed>>
  BY DEF Core!Navigate
<1>. QED
  BY <1>2, <1>3, <1>4, <1>5, CorePage, CoreSame

LEMMA CoreReload ==
    ASSUME CoreAssumption, NEW s, Explained(s), NEW p \in Page, Core!Reload(p)
    PROVE  Explained(s)'
<1>1. corePage[p].url \in Matter
  BY CoreSame DEF PageSound, Pages
<1>2. \A l \in coreLoad[p] \cup {Core!Get(corePage[p].url)} : LoadSound(s, l)
  BY <1>1, CoreGet, CoreSame
<1>3. /\ coreLoad' = [coreLoad EXCEPT ![p] = coreLoad[p] \cup {Core!Get(corePage[p].url)}]
      /\ UNCHANGED <<coreRow, clock, corePage, coreSave, typed>>
  BY DEF Core!Reload
<1>. QED
  BY <1>2, <1>3, CorePage, CoreSame

LEMMA CoreReadRow ==
    ASSUME NEW s, Explained(s), NEW p \in Page, NEW l \in coreLoad[p],
           NEW part \in Core!Part, Core!ReadRow(p, l, part)
    PROVE  Explained(s)'
<1>. DEFINE h == [l EXCEPT !.got = @ \cup {part}, !.value[part] = coreRow[l.of].value[part],
                           !.at[part] = coreRow[l.of].at[part]]
<1>1. LoadSound(s, l) /\ l \in Loads /\ coreRow[l.of] \in Rows /\ Logged(s, l.of, coreRow[l.of])
  BY CoreSame DEF Explained, LoadSound, Loads
<1>2. /\ h.of = l.of /\ h.got = l.got \cup {part}
      /\ h.value = [l.value EXCEPT ![part] = coreRow[l.of].value[part]]
      /\ h.at = [l.at EXCEPT ![part] = coreRow[l.of].at[part]]
      /\ h \in Loads
  <2>1. /\ l.value \in Core!Fields /\ l.at \in Core!Tokens
        /\ coreRow[l.of].value[part] \in Core!Edit
        /\ coreRow[l.of].at[part] \in Nat
    BY <1>1 DEF Loads, Rows, Core!Fields, Core!Tokens
  <2>. QED
    BY <1>1, <2>1 DEF Loads, Core!Fields, Core!Tokens
<1>3. \A q \in h.got : h.value[q] = (IF q = part THEN coreRow[l.of].value[part] ELSE l.value[q])
                       /\ h.at[q] = (IF q = part THEN coreRow[l.of].at[part] ELSE l.at[q])
  BY <1>1, <1>2 DEF Loads, Core!Fields, Core!Tokens
<1>4. /\ coreLoad' = [coreLoad EXCEPT ![p] = (coreLoad[p] \ {l}) \cup {h}]
      /\ UNCHANGED <<coreRow, clock, corePage, coreSave, typed>>
  BY DEF Core!ReadRow
<1>. HIDE DEF h
<1>5. LoadSound(s, h)
  BY <1>1, <1>2, <1>3 DEF LoadSound, Logged
<1>6. \A x \in (coreLoad[p] \ {l}) \cup {h} : LoadSound(s, x)
  BY <1>5, CoreSame
<1>. QED
  BY <1>4, <1>6, CorePage, CoreSame

\* What arrives from the server replaces detail and draft.
LEMMA CoreShow ==
    ASSUME NEW s, Explained(s), NEW p \in Page, NEW d \in Core!Detail, Logged(s, d.of, d),
           NEW b \in BOOLEAN,
           Core!Show(p, d, b)
    PROVE  \E g : PageSound(s, typed, g) /\ corePage' = [corePage EXCEPT ![p] = g]
<1>. DEFINE g == [corePage[p] EXCEPT !.detail = d, !.draft = d.value, !.conflict = b]
<1>1. corePage[p] \in Pages /\ d.value \in Core!Fields
  BY CoreSame DEF PageSound, Core!Detail
<1>2. g \in Pages /\ g.detail = d /\ g.draft = d.value /\ corePage' = [corePage EXCEPT ![p] = g]
  BY <1>1 DEF Pages, Core!Show, Explained
<1>3. \A part \in Core!Part : TypedIn(typed, d.value[part], d.of)
  BY CoreLogged DEF Explained
<1>. HIDE DEF g
<1>. QED
  BY <1>2, <1>3 DEF PageSound

LEMMA CoreLoadAnswers ==
    ASSUME NEW s, Explained(s), NEW p \in Page, NEW l \in coreLoad[p], Core!LoadAnswers(p, l)
    PROVE  Explained(s)'
<1>. DEFINE d == [of |-> l.of, value |-> l.value, at |-> l.at]
<1>1. l \in Loads /\ l.got = Core!Part /\ LoadSound(s, l)
  BY CoreSame DEF Core!LoadAnswers, LoadSound
<1>2. d \in Core!Detail /\ Logged(s, d.of, d)
  BY <1>1 DEF Loads, Core!Detail, LoadSound, Logged
<1>3. /\ Core!Show(p, d, FALSE) /\ coreLoad' = [coreLoad EXCEPT ![p] = coreLoad[p] \ {l}]
      /\ UNCHANGED <<coreRow, clock, coreSave, typed>>
  BY DEF Core!LoadAnswers
<1>. HIDE DEF d
<1>4. PICK g : PageSound(s, typed, g) /\ corePage' = [corePage EXCEPT ![p] = g]
  BY <1>2, <1>3, CoreShow
<1>5. \A x \in coreLoad[p] \ {l} : LoadSound(s, x)
  BY CoreSame
<1>. QED
  BY <1>3, <1>4, <1>5, CorePage, CoreSame

LEMMA CoreLoadFails ==
    ASSUME NEW s, Explained(s), NEW p \in Page, NEW l \in coreLoad[p], Core!LoadFails(p, l)
    PROVE  Explained(s)'
<1>. DEFINE g == [corePage[p] EXCEPT !.detail = Core!NoDetail]
<1>1. corePage[p] \in Pages
  BY CoreSame DEF PageSound
<1>2. g \in Pages /\ g.detail = Core!NoDetail /\ corePage' = [corePage EXCEPT ![p] = g]
  BY <1>1 DEF Pages, Core!LoadFails
<1>. HIDE DEF g
<1>3. PageSound(s, typed, g)
  BY <1>2 DEF PageSound
<1>4. /\ coreLoad' = [coreLoad EXCEPT ![p] = coreLoad[p] \ {l}]
      /\ UNCHANGED <<coreRow, clock, coreSave, typed>>
  BY DEF Core!LoadFails
<1>5. \A x \in coreLoad[p] \ {l} : LoadSound(s, x)
  BY CoreSame
<1>. QED
  BY <1>2, <1>3, <1>4, <1>5, CorePage, CoreSame

LEMMA CoreSaves ==
    ASSUME NEW s, Explained(s), NEW p \in Page, Core!saveCoreDetails(p)
    PROVE  Explained(s)'
<1>. DEFINE v == [of |-> corePage[p].url, at |-> corePage[p].detail.at, value |-> corePage[p].draft,
                  shown |-> corePage[p].detail.value, reply |-> "none", detail |-> Core!NoDetail]
            g == [corePage[p] EXCEPT !.conflict = FALSE]
<1>1. /\ PageSound(s, typed, corePage[p]) /\ corePage[p].detail # Core!NoDetail
      /\ corePage[p] \in Pages
      /\ corePage[p].detail \in Core!Detail
  BY CoreSame DEF Core!saveCoreDetails, PageSound
<1>2. g \in Pages /\ g.detail = corePage[p].detail /\ g.draft = corePage[p].draft
  BY <1>1 DEF Pages
<1>3. /\ corePage' = [corePage EXCEPT ![p] = g] /\ coreSave' = [coreSave EXCEPT ![p] = v]
      /\ UNCHANGED <<coreRow, clock, coreLoad, typed>>
  BY DEF Core!saveCoreDetails
<1>4. v \in Saves
  BY <1>1 DEF Pages, Core!Detail, Saves
<1>5. SaveSound(s, typed, v)
  <2>1. corePage[p].detail.of \in Matter
    BY <1>1 DEF Core!Detail
  <2>2. \A part \in Core!Part :
           /\ Stamped(s, corePage[p].detail.of, part, v.at[part], v.shown[part])
           /\ TypedIn(typed, v.value[part], corePage[p].detail.of)
    BY <1>1 DEF PageSound, Logged
  <2>3. v.reply # "ok"
    OBVIOUS
  <2>. HIDE DEF v
  <2>. QED
    BY <1>4, <2>1, <2>2, <2>3 DEF SaveSound
<1>. HIDE DEF g, v
<1>6. PageSound(s, typed, g)
  BY <1>1, <1>2 DEF PageSound
<1>. QED
  BY <1>3, <1>4, <1>5, <1>6, CorePage, CoreSame

\* The reply to a save that gets no detail.
LEMMA CoreReply ==
    ASSUME NEW s, NEW t, NEW v, SaveSound(s, t, v), v # Core!NoSave,
           NEW reply \in {"conflict", "error"}
    PROVE  /\ [v EXCEPT !.reply = reply] \in Saves
           /\ SaveSound(s, t, [v EXCEPT !.reply = reply])
<1>. DEFINE w == [v EXCEPT !.reply = reply]
<1>1. v \in Saves
  BY DEF SaveSound
<1>2. /\ w \in Saves /\ w.at = v.at /\ w.shown = v.shown /\ w.value = v.value /\ w.reply = reply
  BY <1>1 DEF Saves
<1>. HIDE DEF w
<1>3. SaveSound(s, t, w)
  BY <1>2 DEF SaveSound
<1>. QED
  BY <1>2, <1>3 DEF w

LEMMA CoreSaveFails ==
    ASSUME NEW s, Explained(s), NEW p \in Page, Core!SaveFails(p)
    PROVE  Explained(s)'
<1>1. /\ coreSave' = [coreSave EXCEPT ![p] = [coreSave[p] EXCEPT !.reply = "error"]]
      /\ coreSave[p] # Core!NoSave
      /\ UNCHANGED <<coreRow, clock, corePage, coreLoad, typed>>
  BY DEF Core!SaveFails
<1>2. /\ [coreSave[p] EXCEPT !.reply = "error"] \in Saves
      /\ SaveSound(s, typed, [coreSave[p] EXCEPT !.reply = "error"])
  BY <1>1, CoreReply, CoreSame
<1>. QED
  BY <1>1, <1>2, CorePage, CoreSame

LEMMA CoreSaveAnswered ==
    ASSUME NEW s, Explained(s), NEW p \in Page, Core!SaveAnswered(p)
    PROVE  Explained(s)'
<1>1. /\ coreSave[p] # Core!NoSave /\ coreSave[p].reply # "none"
      /\ coreSave' = [coreSave EXCEPT ![p] = Core!NoSave]
      /\ UNCHANGED <<coreRow, clock, coreLoad, typed>>
  BY DEF Core!SaveAnswered
<1>2. corePage[p] \in Pages /\ PageSound(s, typed, corePage[p])
  BY CoreSame DEF PageSound
<1>3. \E g : PageSound(s, typed, g) /\ corePage' = [corePage EXCEPT ![p] = g]
  <2>1. CASE coreSave[p].reply = "ok" /\ Core!Show(p, coreSave[p].detail, corePage[p].conflict)
    <3>1. /\ coreSave[p].detail \in Core!Detail
          /\ Logged(s, coreSave[p].detail.of, coreSave[p].detail)
          /\ corePage[p].conflict \in BOOLEAN
      BY <1>1, <1>2, <2>1, CoreSame DEF SaveSound, Pages
    <3>. QED
      BY <2>1, <3>1, CoreShow
  <2>2. CASE corePage' = [corePage EXCEPT ![p].conflict = coreSave[p].reply = "conflict"]
    <3>. DEFINE b == coreSave[p].reply = "conflict"
                g == [corePage[p] EXCEPT !.conflict = b]
    <3>1. b \in BOOLEAN
      OBVIOUS
    <3>2. corePage' = [corePage EXCEPT ![p] = g]
      BY <2>2
    <3>. HIDE DEF b
    <3>3. g \in Pages /\ g.detail = corePage[p].detail /\ g.draft = corePage[p].draft
      BY <1>2, <3>1 DEF Pages
    <3>. HIDE DEF g
    <3>4. PageSound(s, typed, g)
      BY <1>2, <3>3 DEF PageSound
    <3>. QED
      BY <3>2, <3>4
  <2>. QED
    BY <2>1, <2>2 DEF Core!SaveAnswered
<1>4. PICK g : PageSound(s, typed, g) /\ corePage' = [corePage EXCEPT ![p] = g]
  BY <1>3
<1>5. SaveSound(s, typed, Core!NoSave)
  BY DEF SaveSound
<1>. QED
  BY <1>1, <1>4, <1>5, CorePage, CoreSame

-----------------------------------------------------------------------------
(* The steps that type an edit or give a timestamp: the log grows.          *)

\* One more edit, typed in matter m.
LEMMA CoreTyped ==
    ASSUME CoreAssumption, CoreCounts, NEW m \in Matter, NEW n,
           n = Cardinality(Core!Edited) + 1,
           Cardinality(Core!Edited) < MaxEdits,
           typed' = [e \in 1 .. n |-> IF e = n THEN m ELSE typed[e]]
    PROVE  /\ n \in Core!Edit /\ TypedIn(typed', n, m)
           /\ \A e \in DOMAIN typed : e \in DOMAIN typed' /\ typed'[e] = typed[e]
           /\ \E k \in 0 .. MaxEdits : typed' \in [1 .. k -> Matter]
<1>1. PICK k \in 0 .. MaxEdits : typed \in [1 .. k -> Matter]
  BY DEF CoreCounts
<1>2. k \in Nat /\ MaxEdits \in Nat
  BY DEF CoreAssumption
<1>3. DOMAIN typed = 1 .. k /\ Cardinality(DOMAIN typed) = k
  BY <1>1, <1>2, CoreEdits
<1>4. n = k + 1 /\ k < MaxEdits
  BY <1>3 DEF Core!Edited
<1>5. typed' \in [1 .. n -> Matter]
  BY <1>1, <1>2, <1>4
<1>. QED
  BY <1>1, <1>2, <1>3, <1>4, <1>5 DEF TypedIn, Core!Edit

LEMMA CoreType ==
    ASSUME CoreAssumption, CoreCounts, NEW s, Explained(s), NEW p \in Page,
           NEW part \in Core!Part,
           Core!Type(p, part)
    PROVE  Explained(s)' /\ CoreCounts'
<1>. DEFINE n == Cardinality(Core!Edited) + 1
            m == corePage[p].detail.of
<1>1. /\ n = Cardinality(Core!Edited) + 1 /\ Cardinality(Core!Edited) < MaxEdits
      /\ corePage' = [corePage EXCEPT ![p].draft[part] = n]
      /\ typed' = [e \in 1 .. n |-> IF e = n THEN m ELSE typed[e]]
      /\ corePage[p].detail # Core!NoDetail
      /\ UNCHANGED <<coreRow, clock, coreLoad, coreSave, coreMoves, coreFaults>>
  BY CoreCardinality DEF Core!Type
<1>2. /\ PageSound(s, typed, corePage[p]) /\ corePage[p] \in Pages
      /\ corePage[p].detail \in Core!Detail /\ m \in Matter
  BY <1>1, CoreSame DEF PageSound, Core!Detail
<1>. HIDE DEF n, m
<1>3. /\ n \in Core!Edit /\ TypedIn(typed', n, m)
      /\ \A e \in DOMAIN typed : e \in DOMAIN typed' /\ typed'[e] = typed[e]
      /\ \E k \in 0 .. MaxEdits : typed' \in [1 .. k -> Matter]
  BY <1>1, <1>2, CoreTyped DEF n
<1>4. /\ \A v, x : TypedIn(typed, v, x) => TypedIn(typed', v, x)
      /\ \A g : PageSound(s, typed, g) => PageSound(s, typed', g)
      /\ \A v : SaveSound(s, typed, v) => SaveSound(s, typed', v)
  BY <1>3, CoreGrows
<1>. DEFINE g == [corePage[p] EXCEPT !.draft[part] = n]
<1>5. g \in Pages /\ g.detail = corePage[p].detail /\ corePage' = [corePage EXCEPT ![p] = g]
      /\ \A q \in Core!Part : g.draft[q] = IF q = part THEN n ELSE corePage[p].draft[q]
  BY <1>1, <1>2, <1>3 DEF Pages, Core!Fields
<1>. HIDE DEF g
<1>6. PageSound(s, typed', g)
  BY <1>1, <1>2, <1>3, <1>4, <1>5 DEF PageSound, m
<1>7. corePage' \in [Page -> Pages] /\ \A q \in Page : PageSound(s, typed', corePage'[q])
  BY <1>4, <1>5, <1>6 DEF Explained
<1>8. LogSound(s, typed', clock')
  BY <1>1, <1>4 DEF Explained, LogSound
<1>9. Explained(s)'
  BY <1>1, <1>4, <1>7, <1>8 DEF Explained
<1>. QED
  BY <1>1, <1>3, <1>9 DEF CoreCounts

\* The log with the next timestamp.
Longer(s, c, m, value) ==
    [k \in 1 .. c + 1 |-> IF k = c + 1 THEN [of |-> m, value |-> value] ELSE s[k]]

LEMMA CoreLonger ==
    ASSUME NEW s, NEW t, NEW t2, NEW c \in Nat, LogSound(s, t, c), NEW m \in Matter,
           NEW value \in Core!Fields,
           \A e \in DOMAIN t : e \in DOMAIN t2 /\ t2[e] = t[e],
           \A part \in Core!Part : TypedIn(t2, value[part], m)
    PROVE  /\ LogSound(Longer(s, c, m, value), t2, c + 1)
           /\ \A k \in DOMAIN s : k \in DOMAIN Longer(s, c, m, value) /\ Longer(s, c, m, value)[k] = s[k]
           /\ \A part \in Core!Part : Stamped(Longer(s, c, m, value), m, part, c + 1, value[part])
<1>. DEFINE s2 == Longer(s, c, m, value)
<1>1. s \in [1 .. c -> Stamps] /\ [of |-> m, value |-> value] \in Stamps
  BY DEF LogSound, Stamps
<1>2. /\ DOMAIN s2 = 1 .. c + 1 /\ s2[c + 1] = [of |-> m, value |-> value]
      /\ \A k \in 1 .. c : s2[k] = s[k]
  BY DEF Longer
<1>3. s2 \in [1 .. c + 1 -> Stamps]
  BY <1>1 DEF Longer
<1>4. \A v, x : TypedIn(t, v, x) => TypedIn(t2, v, x)
  BY DEF TypedIn
<1>5. \A k \in 1 .. c + 1 : k \in 1 .. c \/ k = c + 1
  OBVIOUS
<1>. HIDE DEF s2
<1>6. LogSound(s2, t2, c + 1)
  BY <1>2, <1>3, <1>4, <1>5 DEF LogSound
<1>7. \A k \in DOMAIN s : k \in DOMAIN s2 /\ s2[k] = s[k]
  BY <1>1, <1>2
<1>8. \A part \in Core!Part : Stamped(s2, m, part, c + 1, value[part])
  BY <1>2 DEF Stamped
<1>. QED
  BY <1>6, <1>7, <1>8 DEF s2

LEMMA CoreEditAlone ==
    ASSUME CoreAssumption, CoreCounts, NEW s, Explained(s), NEW m \in Matter,
           NEW part \in Core!Part,
           Core!EditAlone(m, part)
    PROVE  (\E x : Explained(x))' /\ CoreCounts'
<1>. DEFINE n == Cardinality(Core!Edited) + 1
            value == [coreRow[m].value EXCEPT ![part] = n]
            s2 == Longer(s, clock, m, value)
<1>1. /\ n = Cardinality(Core!Edited) + 1 /\ Cardinality(Core!Edited) < MaxEdits
      /\ coreRow' = [coreRow EXCEPT ![m].value[part] = n, ![m].at[part] = clock + 1]
      /\ typed' = [e \in 1 .. n |-> IF e = n THEN m ELSE typed[e]]
      /\ clock' = clock + 1 /\ UNCHANGED <<corePage, coreLoad, coreSave, coreMoves, coreFaults>>
  BY CoreCardinality DEF Core!EditAlone
<1>. HIDE DEF n
<1>2. /\ n \in Core!Edit /\ TypedIn(typed', n, m)
      /\ \A e \in DOMAIN typed : e \in DOMAIN typed' /\ typed'[e] = typed[e]
      /\ \E k \in 0 .. MaxEdits : typed' \in [1 .. k -> Matter]
  BY <1>1, CoreTyped DEF n
<1>3. /\ clock \in Nat /\ LogSound(s, typed, clock) /\ coreRow \in [Matter -> Rows]
      /\ coreRow[m] \in Rows /\ Logged(s, m, coreRow[m])
  BY DEF Explained
<1>4. /\ value \in Core!Fields
      /\ \A q \in Core!Part : value[q] = IF q = part THEN n ELSE coreRow[m].value[q]
  BY <1>2, <1>3 DEF Rows, Core!Fields
<1>5. \A q \in Core!Part : TypedIn(typed', value[q], m)
  <2>1. \A q \in Core!Part : TypedIn(typed, coreRow[m].value[q], m)
    BY <1>3, CoreLogged
  <2>. QED
    BY <1>2, <1>4, <2>1 DEF TypedIn
<1>. HIDE DEF value
<1>. DEFINE w == [value |-> value, at |-> [coreRow[m].at EXCEPT ![part] = clock + 1]]
<1>6. /\ w \in Rows /\ w.value = value /\ coreRow' = [coreRow EXCEPT ![m] = w]
      /\ \A q \in Core!Part : w.at[q] = IF q = part THEN clock + 1 ELSE coreRow[m].at[q]
  <2>1. /\ coreRow[m].at \in [Core!Part -> Nat] /\ clock + 1 \in Nat
        /\ coreRow[m] = [value |-> coreRow[m].value, at |-> coreRow[m].at]
    BY <1>3 DEF Rows, Core!Tokens
  <2>2. /\ [coreRow[m] EXCEPT !.value[part] = n] = [value |-> value, at |-> coreRow[m].at]
        /\ [[value |-> value, at |-> coreRow[m].at] EXCEPT !.at[part] = clock + 1] = w
    BY <1>3 DEF Rows, value
  <2>3. coreRow' = [coreRow EXCEPT ![m] = [[coreRow[m] EXCEPT !.value[part] = n] EXCEPT !.at[part] = clock + 1]]
    BY <1>1, <1>3
  <2>4. [[coreRow[m] EXCEPT !.value[part] = n] EXCEPT !.at[part] = clock + 1] = w
    BY <2>2
  <2>. QED
    BY <1>4, <2>1, <2>2, <2>3, <2>4 DEF Rows, Core!Tokens
<1>. HIDE DEF w
<1>7. /\ LogSound(s2, typed', clock + 1)
      /\ \A k \in DOMAIN s : k \in DOMAIN s2 /\ s2[k] = s[k]
      /\ \A q \in Core!Part : Stamped(s2, m, q, clock + 1, value[q])
  BY <1>2, <1>3, <1>4, <1>5, CoreLonger
<1>. HIDE DEF s2
<1>8. /\ \A x, y : Logged(s, x, y) => Logged(s2, x, y)
      /\ \A g : PageSound(s, typed, g) => PageSound(s2, typed', g)
      /\ \A l : LoadSound(s, l) => LoadSound(s2, l)
      /\ \A v : SaveSound(s, typed, v) => SaveSound(s2, typed', v)
  BY <1>2, <1>7, CoreGrows
<1>9. Logged(s2, m, w)
  <2>1. Logged(s2, m, coreRow[m])
    BY <1>3, <1>8
  <2>. QED
    BY <1>4, <1>6, <1>7, <2>1 DEF Logged
<1>10. coreRow' \in [Matter -> Rows] /\ \A x \in Matter : Logged(s2, x, coreRow'[x])
  BY <1>3, <1>6, <1>8, <1>9 DEF Explained
<1>z. PICK z : z = s2
  OBVIOUS
<1>11. Explained(z)'
  <2>1. clock' \in Nat /\ LogSound(s2, typed', clock')
    BY <1>1, <1>3, <1>7
  <2>2. corePage' \in [Page -> Pages] /\ \A p \in Page : PageSound(s2, typed', corePage'[p])
    BY <1>1, <1>8 DEF Explained
  <2>3. /\ coreLoad' \in [Page -> SUBSET Loads]
        /\ \A p \in Page : \A l \in coreLoad'[p] : LoadSound(s2, l)
    BY <1>1, <1>8 DEF Explained
  <2>4. /\ coreSave' \in [Page -> Saves \cup {Core!NoSave}]
        /\ \A p \in Page : SaveSound(s2, typed', coreSave'[p])
    BY <1>1, <1>8 DEF Explained
  <2>. QED
    BY <1>10, <1>z, <2>1, <2>2, <2>3, <2>4 DEF Explained
<1>. QED
  BY <1>1, <1>2, <1>11 DEF CoreCounts

\* A save that meets the tokens it was sent with: what it overwrites is what was shown,
\* and it was typed in the matter it goes to.
LEMMA CoreFresh ==
    ASSUME NEW s, Explained(s), NEW p \in Page, coreSave[p] # Core!NoSave,
           Core!Fresh(coreSave[p].of, coreSave[p].at)
    PROVE  /\ coreSave[p] \in Saves /\ coreSave[p].shown = coreRow[coreSave[p].of].value
           /\ \A part \in Core!Part : TypedIn(typed, coreSave[p].value[part], coreSave[p].of)
<1>1. SaveSound(s, typed, coreSave[p]) /\ coreSave[p] \in Saves
  BY CoreSame DEF SaveSound
<1>2. PICK m \in Matter : \A part \in Core!Part :
         /\ Stamped(s, m, part, coreSave[p].at[part], coreSave[p].shown[part])
         /\ TypedIn(typed, coreSave[p].value[part], m)
  BY <1>1 DEF SaveSound
<1>3. coreSave[p].of \in Matter /\ coreSave[p].shown \in Core!Fields
  BY <1>1 DEF Saves
<1>4. /\ coreRow[coreSave[p].of] \in Rows /\ Logged(s, coreSave[p].of, coreRow[coreSave[p].of])
      /\ coreRow[coreSave[p].of].at = coreSave[p].at
  BY <1>3 DEF Explained, Core!Fresh
<1>5. \A part \in Core!Part :
         Stamped(s, coreSave[p].of, part, coreSave[p].at[part], coreRow[coreSave[p].of].value[part])
  BY <1>4 DEF Logged
<1>6. m = coreSave[p].of
  BY <1>2, <1>5 DEF Core!Part, Stamped
<1>7. \A part \in Core!Part : coreSave[p].shown[part] = coreRow[coreSave[p].of].value[part]
  BY <1>2, <1>5 DEF Stamped
<1>8. coreRow[coreSave[p].of].value \in Core!Fields
  BY <1>4 DEF Rows
<1>. QED
  BY <1>1, <1>2, <1>3, <1>6, <1>7, <1>8 DEF Core!Fields

LEMMA CoreUpdate ==
    ASSUME CoreAssumption, CoreCounts, NEW s, Explained(s), NEW p \in Page,
           Core!update_core_matter_fields(p)
    PROVE  (\E x : Explained(x))' /\ CoreCounts'
<1>. DEFINE v == coreSave[p]
            new == [value |-> v.value, at |-> [part \in Core!Part |-> clock + 1]]
            s2 == Longer(s, clock, v.of, v.value)
<1>1. /\ v # Core!NoSave /\ v \in Saves /\ SaveSound(s, typed, v)
      /\ UNCHANGED <<corePage, coreLoad, typed, coreMoves>>
      /\ v.of \in Matter /\ v.value \in Core!Fields
  BY CoreSame DEF Core!update_core_matter_fields, SaveSound, Saves
<1>2. CASE /\ coreSave' = [coreSave EXCEPT ![p].reply = "conflict"]
           /\ UNCHANGED <<coreRow, clock, coreFaults>>
  <2>1. coreSave' = [coreSave EXCEPT ![p] = [v EXCEPT !.reply = "conflict"]]
    BY <1>2
  <2>2. /\ [v EXCEPT !.reply = "conflict"] \in Saves
        /\ SaveSound(s, typed, [v EXCEPT !.reply = "conflict"])
    BY <1>1, CoreReply
  <2>3. Explained(s)'
    <3>1. UNCHANGED <<coreRow, clock, typed>>
      BY <1>1, <1>2
    <3>2. /\ PageSound(s, typed, corePage[p]) /\ corePage' = [corePage EXCEPT ![p] = corePage[p]]
          /\ \A l \in coreLoad[p] : LoadSound(s, l)
          /\ coreLoad' = [coreLoad EXCEPT ![p] = coreLoad[p]]
      BY <1>1, CoreSame
    <3>. QED
      BY <2>1, <2>2, <3>1, <3>2, CorePage
  <2>. QED
    BY <1>1, <1>2, <2>3 DEF CoreCounts
<1>3. CASE /\ Core!Fresh(v.of, v.at) /\ clock' = clock + 1 /\ coreRow' = [coreRow EXCEPT ![v.of] = new]
           /\ \/ /\ coreSave' = [coreSave EXCEPT ![p].reply = "ok",
                                   ![p].detail = [of |-> v.of, value |-> new.value, at |-> new.at]]
                 /\ UNCHANGED coreFaults
              \/ coreSave' = [coreSave EXCEPT ![p].reply = "error"] /\ Core!Fault
  <2>1. \A part \in Core!Part : TypedIn(typed, v.value[part], v.of)
    BY <1>1, <1>3, CoreFresh
  <2>2. clock \in Nat /\ LogSound(s, typed, clock) /\ coreRow \in [Matter -> Rows]
        /\ coreSave \in [Page -> Saves \cup {Core!NoSave}]
    BY DEF Explained
  <2>3. /\ LogSound(s2, typed, clock + 1)
        /\ \A k \in DOMAIN s : k \in DOMAIN s2 /\ s2[k] = s[k]
        /\ \A part \in Core!Part : Stamped(s2, v.of, part, clock + 1, v.value[part])
    BY <1>1, <2>1, <2>2, CoreLonger
  <2>. HIDE DEF s2
  <2>4. /\ \A x, y : Logged(s, x, y) => Logged(s2, x, y)
        /\ \A g : PageSound(s, typed, g) => PageSound(s2, typed, g)
        /\ \A l : LoadSound(s, l) => LoadSound(s2, l)
        /\ \A w : SaveSound(s, typed, w) => SaveSound(s2, typed, w)
    BY <2>3, CoreGrows
  <2>5. new \in Rows /\ new.value = v.value /\ \A part \in Core!Part : new.at[part] = clock + 1
    BY <1>1, <2>2 DEF Rows, Core!Tokens
  <2>. HIDE DEF new
  <2>6. Logged(s2, v.of, new)
    BY <2>3, <2>5 DEF Logged
  <2>7. coreRow' \in [Matter -> Rows] /\ \A x \in Matter : Logged(s2, x, coreRow'[x])
    BY <1>1, <1>3, <2>2, <2>4, <2>5, <2>6 DEF Explained
  <2>8. \E w : w \in Saves /\ SaveSound(s2, typed, w) /\ coreSave' = [coreSave EXCEPT ![p] = w]
    <3>1. CASE coreSave' = [coreSave EXCEPT ![p].reply = "error"]
      <4>1. coreSave' = [coreSave EXCEPT ![p] = [v EXCEPT !.reply = "error"]]
        BY <3>1
      <4>2. /\ [v EXCEPT !.reply = "error"] \in Saves
            /\ SaveSound(s2, typed, [v EXCEPT !.reply = "error"])
        BY <1>1, <2>4, CoreReply
      <4>. QED
        BY <4>1, <4>2
    <3>2. CASE coreSave' = [coreSave EXCEPT ![p].reply = "ok",
                              ![p].detail = [of |-> v.of, value |-> new.value, at |-> new.at]]
      <4>. DEFINE d == [of |-> v.of, value |-> new.value, at |-> new.at]
                  w == [v EXCEPT !.reply = "ok", !.detail = d]
      <4>1. coreSave' = [coreSave EXCEPT ![p] = w]
        BY <2>2, <3>2
      <4>2. d \in Core!Detail /\ Logged(s2, d.of, d)
        BY <1>1, <2>5, <2>6 DEF Core!Detail, Rows, Logged
      <4>. HIDE DEF d
      <4>3. /\ w \in Saves /\ w.at = v.at /\ w.shown = v.shown /\ w.value = v.value
            /\ w.reply = "ok" /\ w.detail = d
        BY <1>1, <4>2 DEF Saves
      <4>. HIDE DEF w
      <4>4. SaveSound(s2, typed, w)
        BY <1>1, <2>4, <4>2, <4>3 DEF SaveSound
      <4>. QED
        BY <4>1, <4>3, <4>4
    <3>. QED
      BY <1>3, <3>1, <3>2
  <2>9. /\ coreSave' \in [Page -> Saves \cup {Core!NoSave}]
        /\ \A q \in Page : SaveSound(s2, typed, coreSave'[q])
    BY <2>2, <2>4, <2>8 DEF Explained
  <2>z. PICK z : z = s2
    OBVIOUS
  <2>10. Explained(z)'
    <3>1. clock' \in Nat /\ LogSound(s2, typed', clock')
      BY <1>1, <1>3, <2>2, <2>3
    <3>2. corePage' \in [Page -> Pages] /\ \A q \in Page : PageSound(s2, typed', corePage'[q])
      BY <1>1, <2>4 DEF Explained
    <3>3. /\ coreLoad' \in [Page -> SUBSET Loads]
          /\ \A q \in Page : \A l \in coreLoad'[q] : LoadSound(s2, l)
      BY <1>1, <2>4 DEF Explained
    <3>4. typed' = typed
      BY <1>1
    <3>. QED
      BY <2>7, <2>9, <2>z, <3>1, <3>2, <3>3, <3>4 DEF Explained
  <2>11. coreFaults' \in 0 .. MaxFaults
    BY <1>3 DEF CoreCounts, Core!Fault, CoreAssumption
  <2>. QED
    BY <1>1, <2>10, <2>11 DEF CoreCounts
<1>. QED
  BY <1>2, <1>3 DEF Core!update_core_matter_fields

-----------------------------------------------------------------------------

LEMMA CoreInit == ASSUME CoreAssumption, Core!Init PROVE CoreInv
<1>1. /\ clock = Cardinality(Matter) /\ clock \in Nat
      /\ coreSave = [p \in Page |-> Core!NoSave] /\ typed = <<>> /\ coreMoves = 0 /\ coreFaults = 0
  BY CoreCardinality, FS_CardinalityType DEF Core!Init, CoreAssumption
<1>2. PICK created \in [Matter -> 1 .. clock] :
         /\ \A m, n \in Matter : created[m] = created[n] => m = n
         /\ coreRow = [m \in Matter |-> [value |-> Core!Blank, at |-> [p \in Core!Part |-> created[m]]]]
  BY DEF Core!Init
<1>3. PICK m0 \in Matter :
         /\ corePage = [p \in Page |-> [url |-> m0, detail |-> Core!NoDetail, draft |-> Core!Blank, conflict |-> FALSE]]
         /\ coreLoad = [p \in Page |-> {Core!Get(m0)}]
  BY DEF Core!Init
<1>. DEFINE Of(k) == CHOOSE m \in Matter : created[m] = k \/ ~\E x \in Matter : created[x] = k
            s == [k \in 1 .. clock |-> [of |-> Of(k), value |-> Core!Blank]]
<1>4. \A k : Of(k) \in Matter
  <2>1. ASSUME NEW k PROVE \E m \in Matter : created[m] = k \/ ~\E x \in Matter : created[x] = k
    BY <1>3
  <2>. QED
    BY <2>1
<1>5. \A m \in Matter : Of(created[m]) = m
  BY <1>2
<1>. HIDE DEF Of
<1>6. /\ Core!Blank \in Core!Fields /\ Core!Blank \in Core!Tokens
      /\ \A part \in Core!Part : Core!Blank[part] = 0
  BY CoreBlank
<1>7. /\ s \in [1 .. clock -> Stamps]
      /\ \A k \in 1 .. clock : s[k].of = Of(k) /\ s[k].value = Core!Blank
  BY <1>4, <1>6 DEF Stamps
<1>8. LogSound(s, typed, clock)
  BY <1>6, <1>7 DEF LogSound, TypedIn
<1>. HIDE DEF s
<1>9. coreRow \in [Matter -> Rows] /\ \A m \in Matter : Logged(s, m, coreRow[m])
  <2>1. ASSUME NEW m \in Matter PROVE coreRow[m] \in Rows /\ Logged(s, m, coreRow[m])
    <3>1. /\ created[m] \in 1 .. clock /\ coreRow[m].value = Core!Blank
          /\ \A p \in Core!Part : coreRow[m].at[p] = created[m]
      BY <1>2
    <3>2. coreRow[m] \in Rows
      BY <1>1, <1>2, <1>6, <3>1 DEF Rows, Core!Tokens
    <3>. QED
      BY <1>5, <1>7, <3>1, <3>2 DEF Logged, Stamped
  <2>. QED
    BY <1>2, <2>1
<1>10. corePage \in [Page -> Pages] /\ \A p \in Page : PageSound(s, typed, corePage[p])
  BY <1>3, <1>6 DEF Pages, PageSound
<1>11. coreLoad \in [Page -> SUBSET Loads] /\ \A p \in Page : \A l \in coreLoad[p] : LoadSound(s, l)
  BY <1>3, CoreGet DEF LoadSound
<1>12. /\ coreSave \in [Page -> Saves \cup {Core!NoSave}]
       /\ \A p \in Page : SaveSound(s, typed, coreSave[p])
  BY <1>1 DEF SaveSound
<1>13. Explained(s)
  BY <1>1, <1>8, <1>9, <1>10, <1>11, <1>12 DEF Explained
<1>14. CoreCounts
  <2>1. typed \in [1 .. 0 -> Matter]
    BY <1>1
  <2>2. 0 \in 0..MaxEdits /\ coreMoves \in 0..MaxMoves /\ coreFaults \in 0..MaxFaults
    BY <1>1 DEF CoreAssumption
  <2>. QED
    BY <2>1, <2>2 DEF CoreCounts
<1>. QED
  BY <1>13, <1>14 DEF CoreInv

LEMMA CoreStep == ASSUME CoreAssumption, CoreInv, [Core!Next]_(Core!vars) PROVE CoreInv'
<1>1. PICK s : Explained(s)
  BY DEF CoreInv
<1>2. CoreCounts
  BY DEF CoreInv
<1>c. ASSUME UNCHANGED typed, coreMoves' \in 0 .. MaxMoves,
             coreFaults' \in 0 .. MaxFaults PROVE CoreCounts'
  BY <1>2, <1>c DEF CoreCounts
<1>f. coreMoves \in 0 .. MaxMoves /\ coreFaults \in 0 .. MaxFaults
  BY <1>2 DEF CoreCounts
<1>3. ASSUME NEW p \in Page, NEW m \in Matter, Core!Navigate(p, m) PROVE CoreInv'
  <2>1. Explained(s)'
    BY <1>1, <1>3, CoreNavigate
  <2>2. CoreCounts'
    BY <1>3, <1>c, <1>f DEF Core!Navigate, CoreAssumption
  <2>. QED
    BY <2>1, <2>2 DEF CoreInv
<1>4. ASSUME NEW p \in Page, Core!Reload(p) \/ Core!saveCoreDetails(p) \/ Core!SaveAnswered(p)
      PROVE  CoreInv'
  <2>1. Explained(s)'
    BY <1>1, <1>4, CoreReload, CoreSaves, CoreSaveAnswered
  <2>2. CoreCounts'
    BY <1>4, <1>c, <1>f DEF Core!Reload, Core!saveCoreDetails, Core!SaveAnswered
  <2>. QED
    BY <2>1, <2>2 DEF CoreInv
<1>5. ASSUME NEW p \in Page, NEW l \in coreLoad[p], Core!LoadAnswers(p, l) \/ Core!LoadFails(p, l)
      PROVE  CoreInv'
  <2>1. Explained(s)'
    BY <1>1, <1>5, CoreLoadAnswers, CoreLoadFails
  <2>2. CoreCounts'
    <3>1. UNCHANGED <<typed, coreMoves>>
      BY <1>5 DEF Core!LoadAnswers, Core!LoadFails
    <3>2. coreFaults' = coreFaults \/ (coreFaults < MaxFaults /\ coreFaults' = coreFaults + 1)
      BY <1>5 DEF Core!LoadAnswers, Core!LoadFails, Core!Fault
    <3>. QED
      BY <1>c, <1>f, <3>1, <3>2 DEF CoreAssumption
  <2>. QED
    BY <2>1, <2>2 DEF CoreInv
<1>6. ASSUME NEW p \in Page, NEW l \in coreLoad[p], NEW part \in Core!Part, Core!ReadRow(p, l, part)
      PROVE  CoreInv'
  <2>1. Explained(s)'
    BY <1>1, <1>6, CoreReadRow
  <2>2. CoreCounts'
    BY <1>6, <1>c, <1>f DEF Core!ReadRow
  <2>. QED
    BY <2>1, <2>2 DEF CoreInv
<1>7. ASSUME NEW p \in Page, Core!SaveFails(p) PROVE CoreInv'
  <2>1. Explained(s)'
    BY <1>1, <1>7, CoreSaveFails
  <2>2. CoreCounts'
    BY <1>7, <1>c, <1>f DEF Core!SaveFails, Core!Fault, CoreAssumption
  <2>. QED
    BY <2>1, <2>2 DEF CoreInv
<1>8. ASSUME NEW p \in Page, Core!update_core_matter_fields(p) PROVE CoreInv'
  BY <1>1, <1>2, <1>8, CoreUpdate DEF CoreInv
<1>9. ASSUME NEW p \in Page, NEW part \in Core!Part, Core!Type(p, part) PROVE CoreInv'
  BY <1>1, <1>2, <1>9, CoreType DEF CoreInv
<1>10. ASSUME NEW m \in Matter, NEW part \in Core!Part, Core!EditAlone(m, part) PROVE CoreInv'
  BY <1>1, <1>2, <1>10, CoreEditAlone DEF CoreInv
<1>11. CASE UNCHANGED Core!vars
  <2>1. Explained(s)'
    BY <1>1, <1>11 DEF Core!vars, Explained
  <2>2. CoreCounts'
    BY <1>11, <1>c, <1>f DEF Core!vars
  <2>. QED
    BY <2>1, <2>2 DEF CoreInv
<1>. QED
  BY <1>3, <1>4, <1>5, <1>6, <1>7, <1>8, <1>9, <1>10, <1>11 DEF Core!Next

THEOREM CoreKeep == ASSUME CoreAssumption PROVE Core!Spec => []CoreInv
<1>1. Core!Init => CoreInv
  BY CoreInit
<1>2. CoreInv /\ [Core!Next]_(Core!vars) => CoreInv'
  BY CoreStep
<1>. QED
  BY <1>1, <1>2, PTL DEF Core!Spec

THEOREM CoreTypeOK == ASSUME CoreAssumption PROVE Core!Spec => []Core!TypeOK
<1>1. CoreInv => Core!TypeOK
  <2>. SUFFICES ASSUME CoreInv PROVE Core!TypeOK
    OBVIOUS
  <2>1. PICK s : Explained(s)
    BY DEF CoreInv
  <2>2. PICK n \in 0 .. MaxEdits : typed \in [1 .. n -> Matter]
    BY DEF CoreInv, CoreCounts
  <2>3. DOMAIN typed = 1 .. n /\ Cardinality(DOMAIN typed) = n /\ n <= MaxEdits
    BY <2>2, CoreEdits DEF CoreAssumption
  <2>4. typed \in [1 .. Cardinality(Core!Edited) -> Matter] /\ Cardinality(Core!Edited) <= MaxEdits
    BY <2>2, <2>3, CoreCardinality DEF Core!Edited
  <2>5. \A p \in Page :
          /\ corePage[p].url \in Matter /\ corePage[p].conflict \in BOOLEAN
          /\ corePage[p].detail = Core!NoDetail \/ corePage[p].detail \in Core!Detail
          /\ corePage[p].draft \in Core!Fields
    BY <2>1 DEF Explained, Pages
  <2>6. \A p \in Page : \A l \in coreLoad[p] : l.of \in Matter /\ l.got \subseteq Core!Part
    BY <2>1 DEF Explained, LoadSound, Loads
  <2>7. \A p \in Page : coreSave[p] # Core!NoSave =>
          coreSave[p].of \in Matter /\ coreSave[p].reply \in {"none", "ok", "conflict", "error"}
    BY <2>1 DEF Explained, SaveSound, Saves
  <2>8. clock \in Nat /\ coreRow \in [Matter -> [value: Core!Fields, at: Core!Tokens]]
    BY <2>1 DEF Explained, Rows
  <2>9. coreMoves \in 0 .. MaxMoves /\ coreFaults \in 0 .. MaxFaults
    BY DEF CoreInv, CoreCounts
  <2>. QED
    BY <2>4, <2>5, <2>6, <2>7, <2>8, <2>9, CoreCardinality DEF Core!TypeOK
<1>. QED
  BY <1>1, CoreKeep, PTL

\* An edit typed while one matter was shown is never stored in another.
THEOREM CoreEditStays == ASSUME CoreAssumption PROVE Core!Spec => []Core!EditStaysWithMatter
<1>1. CoreInv => Core!EditStaysWithMatter
  <2>. SUFFICES ASSUME CoreInv, NEW m \in Matter, NEW part \in Core!Part, coreRow[m].value[part] # 0
                PROVE  typed[coreRow[m].value[part]] = m
    BY DEF Core!EditStaysWithMatter
  <2>1. PICK s : Explained(s)
    BY DEF CoreInv
  <2>2. TypedIn(typed, coreRow[m].value[part], m)
    BY <2>1, CoreLogged DEF Explained
  <2>. QED
    BY <2>2 DEF TypedIn
<1>. QED
  BY <1>1, CoreKeep, PTL

LEMMA CoreOverwrites == ASSUME CoreInv, [Core!Next]_(Core!vars) PROVE Core!OverwritesShown
<1>. SUFFICES ASSUME NEW p \in Page, coreSave[p] # Core!NoSave, coreSave[p].reply = "none", coreRow' # coreRow,
                     coreSave'[p].reply # "none"
              PROVE  coreSave[p].shown = coreRow[coreSave[p].of].value
  BY DEF Core!OverwritesShown
<1>1. PICK s : Explained(s)
  BY DEF CoreInv
<1>2. PICK q \in Page : Core!update_core_matter_fields(q)
  BY DEF Core!Next, Core!vars, Core!Navigate, Core!Reload, Core!saveCoreDetails,
     Core!SaveFails, Core!SaveAnswered, Core!LoadAnswers, Core!LoadFails,
         Core!ReadRow, Core!Type, Core!EditAlone
<1>3. q = p /\ Core!Fresh(coreSave[p].of, coreSave[p].at)
  BY <1>1, <1>2 DEF Core!update_core_matter_fields, Explained
<1>. QED
  BY <1>1, <1>3, CoreFresh

\* A save overwrites only the values its page showed.
THEOREM CoreNoLostUpdate == ASSUME CoreAssumption PROVE Core!Spec => Core!NoLostUpdate
<1>1. CoreInv /\ [Core!Next]_(Core!vars) => [Core!OverwritesShown]_(Core!vars)
  BY CoreOverwrites
<1>. QED
  BY <1>1, CoreKeep, PTL DEF Core!Spec, Core!NoLostUpdate

-----------------------------------------------------------------------------
(***************************************************************************)
(* The search for a golden record and the way of what was found through the*)
(* browser's history, for any terms, records, sessions and entries.  The   *)
(* invariant numbers the calls under way: none is beyond the version of the*)
(* page, and the one that has it asks what stands in the fields.           *)
(***************************************************************************)
GoldenAssumption == "person" \in Type

SearchState ==
    [term: Term \cup {Golden!Blank}, type: Type, searching: BOOLEAN, retrieving: BOOLEAN,
     result: Golden!Record \cup {NoRecord}, target: Golden!Record \cup {NoRecord},
     candidates: SUBSET Golden!Record, failed: BOOLEAN]

Call == [version: Nat, ask: Golden!Query, ref: Golden!Record \cup {NoRecord}]

GoldenTyped ==
    /\ goldenSearch \in SearchState /\ goldenActive \in BOOLEAN /\ goldenVersion \in Nat
    /\ goldenPending \in BOOLEAN
    /\ goldenCalls \subseteq Call
    /\ goldenPage \in {"login", "elsewhere", "matter", "search", "workflow"}
    /\ goldenGeneration \in Nat /\ scope \in Nat
    /\ history \subseteq Golden!Entry /\ here \in history \cup {NoRecord}
    /\ buyer \in Golden!Entry \cup {NoRecord}

\* An entry is bound to the session that wrote it.
EntriesBound ==
    /\ scope \in {0, goldenGeneration} /\ \A e \in history : e.scope = e.by
    /\ goldenPage = "login" => buyer = NoRecord
    /\ Golden!BuyerOfSession

\* The calls under way: of earlier versions, or what the fields say.
CallsNumbered ==
    /\ ~goldenActive => goldenCalls = {}
    /\ \A c \in goldenCalls : /\ c.version <= goldenVersion
                              /\ c.ref = NoRecord \/ c.ref \in Golden!Matching(c.ask)
                              /\ c.version = goldenVersion => c.ask = Golden!Asked

GoldenInv == GoldenTyped /\ EntriesBound /\ CallsNumbered /\ Golden!BusyIsOneCall /\ Golden!ShownIsAsked

-----------------------------------------------------------------------------

LEMMA GoldenSelection ==
    ASSUME NEW q \in Golden!Query
    PROVE  LET s == Golden!Selection(q) IN
           /\ s \in SearchState /\ s.term = q.term /\ s.type = q.type
           /\ ~s.searching /\ ~s.retrieving /\ s.candidates = {}
           /\ s.result = NoRecord /\ s.target = NoRecord
BY DEF Golden!Selection, SearchState, Golden!Query

LEMMA GoldenAsked == ASSUME GoldenInv PROVE Golden!Asked \in Golden!Query
BY DEF GoldenInv, GoldenTyped, Golden!Asked, SearchState, Golden!Query

LEMMA GoldenStays ==
    ASSUME GoldenInv, UNCHANGED Golden!navigation
    PROVE  EntriesBound'
BY DEF GoldenInv, EntriesBound, Golden!BuyerOfSession, Golden!navigation

\* The page starts a call in a new version, or goes on with one in the same.
LEMMA GoldenLaunch ==
    ASSUME GoldenInv, goldenActive, UNCHANGED <<goldenActive, Golden!navigation>>,
           NEW v \in Nat, goldenVersion' = v, goldenPending' = TRUE,
           NEW others \in SUBSET goldenCalls, \A d \in others : d.version < v,
           NEW ref \in Golden!Record \cup {NoRecord}, ref = NoRecord \/ ref \in Golden!Matching(Golden!Asked),
           goldenCalls' = others \cup {[version |-> v, ask |-> Golden!Asked, ref |-> ref]},
           NEW s \in SearchState, goldenSearch' = s, s.term = goldenSearch.term, s.type = goldenSearch.type,
           s.candidates = {}, s.result = NoRecord, s.target = ref, s.searching \/ s.retrieving
    PROVE  GoldenInv'
<1>. DEFINE c == [version |-> v, ask |-> Golden!Asked, ref |-> ref]
<1>1. c \in Call /\ c.version = v /\ c.ask = Golden!Asked /\ c.ref = ref
  BY GoldenAsked DEF Call
<1>2. goldenCalls' = others \cup {c} /\ Golden!Asked' = Golden!Asked
  BY DEF Golden!Asked
<1>. HIDE DEF c
<1>3. GoldenTyped'
  BY <1>1, <1>2 DEF GoldenInv, GoldenTyped, Golden!navigation
<1>4. \A d \in others : /\ d.version \in Nat /\ d.version # v
                        /\ d.ref = NoRecord \/ d.ref \in Golden!Matching(d.ask)
  BY DEF GoldenInv, GoldenTyped, CallsNumbered, Call
<1>5. CallsNumbered'
  BY <1>1, <1>2, <1>4 DEF CallsNumbered, Golden!Matching
<1>6. {d \in goldenCalls' : Golden!current(d.version)'} = {c}
  BY <1>1, <1>2, <1>4 DEF Golden!current
<1>7. Golden!BusyIsOneCall'
  BY <1>6 DEF Golden!BusyIsOneCall
<1>8. Golden!ShownIsAsked'
  BY <1>2 DEF Golden!ShownIsAsked, Golden!Matching
<1>. QED
  BY <1>3, <1>5, <1>7, <1>8, GoldenStays DEF GoldenInv

\* The page has an answer, or asks nothing.
LEMMA GoldenStops ==
    ASSUME GoldenInv, UNCHANGED <<goldenActive, Golden!navigation>>,
           NEW v \in Nat, goldenVersion' = v, goldenPending' = FALSE,
           NEW others \in SUBSET goldenCalls, \A d \in others : d.version < v, goldenCalls' = others,
           NEW s \in SearchState, goldenSearch' = s, ~s.searching, ~s.retrieving,
           s.candidates \subseteq Golden!Matching([term |-> s.term, type |-> s.type]),
           {s.result, s.target} \ {NoRecord} \subseteq Golden!Matching([term |-> s.term, type |-> s.type])
    PROVE  GoldenInv'
<1>1. Golden!Asked' = [term |-> s.term, type |-> s.type]
  BY DEF Golden!Asked
<1>2. GoldenTyped'
  BY DEF GoldenInv, GoldenTyped, Golden!navigation
<1>3. \A d \in others : /\ d.version \in Nat /\ d.version # v
                        /\ d.ref = NoRecord \/ d.ref \in Golden!Matching(d.ask)
  BY DEF GoldenInv, GoldenTyped, CallsNumbered, Call
<1>4. CallsNumbered'
  BY <1>3 DEF CallsNumbered, Golden!Matching, GoldenInv
<1>5. {d \in goldenCalls' : Golden!current(d.version)'} = {}
  BY <1>3 DEF Golden!current
<1>6. Golden!BusyIsOneCall'
  BY <1>5 DEF Golden!BusyIsOneCall
<1>7. Golden!ShownIsAsked'
  BY <1>1 DEF Golden!ShownIsAsked, Golden!Matching
<1>. QED
  BY <1>2, <1>4, <1>6, <1>7, GoldenStays DEF GoldenInv

\* No call has a version beyond the page's.
LEMMA GoldenVersions ==
    ASSUME GoldenInv
    PROVE  /\ goldenVersion \in Nat /\ goldenVersion + 1 \in Nat
           /\ \A d \in goldenCalls : d.version < goldenVersion + 1
           /\ \A c \in goldenCalls : Golden!current(c.version) =>
                /\ c.version = goldenVersion /\ goldenActive /\ c.ask = Golden!Asked
                /\ goldenPending
                /\ \A d \in goldenCalls \ {c} : d.version < goldenVersion
<1>1. \A d \in goldenCalls : d.version \in Nat /\ d.version <= goldenVersion /\ goldenVersion \in Nat
  BY DEF GoldenInv, GoldenTyped, CallsNumbered, Call
<1>2. goldenVersion \in Nat
  BY DEF GoldenInv, GoldenTyped
<1>3. ASSUME NEW c \in goldenCalls, Golden!current(c.version)
      PROVE  /\ c.version = goldenVersion /\ goldenActive /\ c.ask = Golden!Asked /\ goldenPending
             /\ \A d \in goldenCalls \ {c} : d.version < goldenVersion
  <2>1. c.version = goldenVersion /\ goldenActive /\ c.ask = Golden!Asked
    BY <1>3 DEF Golden!current, GoldenInv, CallsNumbered
  <2>2. c \in {d \in goldenCalls : Golden!current(d.version)}
    BY <1>3
  <2>3. goldenPending /\ \A d \in goldenCalls : Golden!current(d.version) => d = c
    BY <2>2 DEF GoldenInv, Golden!BusyIsOneCall
  <2>4. \A d \in goldenCalls \ {c} : d.version # goldenVersion
    BY <2>1, <2>3 DEF Golden!current
  <2>. QED
    BY <1>1, <2>1, <2>3, <2>4
<1>. QED
  BY <1>1, <1>2, <1>3

LEMMA GoldenSearchSteps ==
    ASSUME GoldenInv,
           \/ \E q \in Golden!Query : Golden!SetQuery(q)
           \/ Golden!SearchBlank \/ Golden!handleSearch \/ Golden!retryRetrieval
           \/ \E r \in Golden!Record : Golden!handleSelectCandidate(r)
    PROVE  GoldenInv'
<1>v. /\ goldenVersion \in Nat /\ goldenVersion + 1 \in Nat
      /\ \A d \in goldenCalls : d.version < goldenVersion + 1
  BY GoldenVersions
<1>a. /\ Golden!Asked \in Golden!Query /\ Golden!Asked.term = goldenSearch.term
      /\ Golden!Asked.type = goldenSearch.type
      /\ goldenSearch \in SearchState /\ goldenPending \in BOOLEAN
  BY GoldenAsked DEF Golden!Asked, GoldenInv, GoldenTyped
<1>1. ASSUME NEW q \in Golden!Query, Golden!SetQuery(q) PROVE GoldenInv'
  <2>1. /\ goldenVersion' = goldenVersion + 1 /\ goldenPending' = FALSE
        /\ goldenSearch' = Golden!Selection(q)
        /\ UNCHANGED <<goldenActive, goldenCalls, Golden!navigation>>
    BY <1>1 DEF Golden!SetQuery, Golden!resetSearch
  <2>. QED
    BY <1>v, <2>1, GoldenSelection, GoldenStops
<1>2. CASE Golden!SearchBlank
  <2>. DEFINE s == [Golden!Selection(Golden!Asked) EXCEPT !.failed = TRUE]
  <2>1. /\ goldenVersion' = goldenVersion + 1 /\ goldenPending' = FALSE /\ goldenSearch' = s
        /\ UNCHANGED <<goldenActive, goldenCalls, Golden!navigation>>
    BY <1>2, <1>a DEF Golden!SearchBlank
  <2>2. /\ s \in SearchState /\ ~s.searching /\ ~s.retrieving /\ s.candidates = {}
        /\ s.result = NoRecord /\ s.target = NoRecord
    BY <1>a, GoldenSelection DEF SearchState
  <2>. HIDE DEF s
  <2>. QED
    BY <1>v, <2>1, <2>2, GoldenStops
<1>3. CASE Golden!handleSearch
  <2>. DEFINE s == [Golden!Selection(Golden!Asked) EXCEPT !.searching = TRUE]
  <2>1. /\ goldenActive /\ goldenVersion' = goldenVersion + 1 /\ goldenPending' = TRUE
        /\ goldenSearch' = s
        /\ goldenCalls' = goldenCalls \cup {[version |-> goldenVersion + 1, ask |-> Golden!Asked, ref |-> NoRecord]}
        /\ UNCHANGED <<goldenActive, Golden!navigation>>
    BY <1>3 DEF Golden!handleSearch
  <2>2. /\ s \in SearchState /\ s.searching /\ s.candidates = {}
        /\ s.result = NoRecord /\ s.target = NoRecord /\ s.term = goldenSearch.term
        /\ s.type = goldenSearch.type
    BY <1>a, GoldenSelection DEF SearchState
  <2>. HIDE DEF s
  <2>. QED
    BY <1>v, <2>1, <2>2, GoldenLaunch
<1>4. ASSUME NEW r \in Golden!Record, r \in Golden!Matching(Golden!Asked), goldenActive,
             goldenVersion' = goldenVersion + 1,
             Golden!retrieve(r, goldenVersion + 1, goldenCalls), UNCHANGED <<goldenActive, Golden!navigation>>
      PROVE  GoldenInv'
  <2>. DEFINE s == [Golden!Selection(Golden!Asked) EXCEPT !.retrieving = TRUE, !.target = r]
  <2>1. /\ goldenPending' = TRUE /\ goldenSearch' = s
        /\ goldenCalls' = goldenCalls \cup {[version |-> goldenVersion + 1, ask |-> Golden!Asked, ref |-> r]}
    BY <1>4 DEF Golden!retrieve
  <2>2. /\ s \in SearchState /\ s.retrieving /\ s.candidates = {}
        /\ s.result = NoRecord /\ s.target = r /\ s.term = goldenSearch.term
        /\ s.type = goldenSearch.type
    BY <1>a, GoldenSelection DEF SearchState
  <2>. HIDE DEF s
  <2>. QED
    BY <1>v, <1>4, <2>1, <2>2, GoldenLaunch
<1>5. ASSUME NEW r \in Golden!Record, Golden!handleSelectCandidate(r) PROVE GoldenInv'
  <2>1. r \in Golden!Matching(Golden!Asked)
    BY <1>5 DEF Golden!handleSelectCandidate, GoldenInv, Golden!ShownIsAsked
  <2>. QED
    BY <1>4, <1>5, <2>1 DEF Golden!handleSelectCandidate
<1>6. CASE Golden!retryRetrieval
  <2>1. /\ goldenSearch.target \in Golden!Matching(Golden!Asked)
        /\ goldenSearch.target \in Golden!Record
    BY <1>6, <1>a DEF Golden!retryRetrieval, GoldenInv, Golden!ShownIsAsked, SearchState
  <2>. QED
    BY <1>4, <1>6, <2>1 DEF Golden!retryRetrieval
<1>. QED
  BY <1>1, <1>2, <1>3, <1>5, <1>6

LEMMA GoldenAnswers == ASSUME GoldenInv, Golden!Answer PROVE GoldenInv'
<1>1. PICK c \in goldenCalls : \/ Golden!Dropped(c) \/ Golden!CallFails(c) \/ Golden!RetrieveAnswers(c)
                               \/ \E r \in Golden!Record : Golden!SearchMatches(c, r)
                               \/ \E R \in SUBSET Golden!Record : Golden!SearchIsAmbiguous(c, R)
  BY DEF Golden!Answer
<1>v. /\ goldenVersion \in Nat /\ goldenSearch \in SearchState
      /\ Golden!current(c.version) =>
           /\ c.version = goldenVersion /\ goldenActive /\ c.ask = Golden!Asked
           /\ \A d \in goldenCalls \ {c} : d.version < goldenVersion
  BY GoldenVersions DEF GoldenInv, GoldenTyped
<1>a. /\ Golden!Asked \in Golden!Query /\ Golden!Asked.term = goldenSearch.term
      /\ Golden!Asked.type = goldenSearch.type
      /\ Golden!Asked = [term |-> goldenSearch.term, type |-> goldenSearch.type]
      /\ goldenSearch.candidates \subseteq Golden!Matching(Golden!Asked)
      /\ {goldenSearch.result, goldenSearch.target} \ {NoRecord} \subseteq Golden!Matching(Golden!Asked)
  BY GoldenAsked DEF Golden!Asked, GoldenInv, Golden!ShownIsAsked
<1>c. /\ c.ref \in Golden!Record \cup {NoRecord}
      /\ (c.ref = NoRecord \/ c.ref \in Golden!Matching(c.ask))
  BY DEF GoldenInv, GoldenTyped, CallsNumbered, Call
<1>2. CASE Golden!Dropped(c)
  <2>1. /\ ~Golden!current(c.version) /\ goldenCalls' = goldenCalls \ {c}
        /\ UNCHANGED <<goldenSearch, Golden!guard, Golden!navigation>>
    BY <1>2 DEF Golden!Dropped
  <2>2. UNCHANGED <<goldenSearch, goldenActive, goldenVersion, goldenPending, goldenPage, goldenGeneration, scope, history, here, buyer>>
    BY <2>1 DEF Golden!guard, Golden!navigation
  <2>3. {d \in goldenCalls' : Golden!current(d.version)'} = {d \in goldenCalls : Golden!current(d.version)}
    BY <2>1, <2>2 DEF Golden!current
  <2>4. Golden!Asked' = Golden!Asked /\ \A q : Golden!Matching(q)' = Golden!Matching(q)
    BY <2>2 DEF Golden!Asked, Golden!Matching
  <2>5. GoldenTyped'
    BY <2>1, <2>2 DEF GoldenInv, GoldenTyped
  <2>6. CallsNumbered'
    BY <2>1, <2>2, <2>4 DEF GoldenInv, CallsNumbered
  <2>7. Golden!BusyIsOneCall'
    BY <2>2, <2>3 DEF GoldenInv, Golden!BusyIsOneCall
  <2>8. Golden!ShownIsAsked'
    BY <2>2, <2>4 DEF GoldenInv, Golden!ShownIsAsked
  <2>. QED
    BY <2>1, <2>5, <2>6, <2>7, <2>8, GoldenStays DEF GoldenInv
<1>3. ASSUME NEW s \in SearchState, s.term = goldenSearch.term, s.type = goldenSearch.type,
             Golden!Settle(c, s),
             Golden!current(c.version), s.candidates \subseteq Golden!Matching(Golden!Asked),
             {s.result, s.target} \ {NoRecord} \subseteq Golden!Matching(Golden!Asked)
      PROVE  GoldenInv'
  <2>. DEFINE t == [s EXCEPT !.searching = FALSE, !.retrieving = FALSE]
  <2>1. /\ goldenSearch' = t /\ goldenPending' = FALSE /\ goldenCalls' = goldenCalls \ {c}
        /\ UNCHANGED <<goldenActive, goldenVersion, Golden!navigation>>
    BY <1>3 DEF Golden!Settle
  <2>2. /\ t \in SearchState /\ ~t.searching /\ ~t.retrieving /\ t.term = s.term /\ t.type = s.type
        /\ t.candidates = s.candidates /\ t.result = s.result /\ t.target = s.target
    BY DEF SearchState
  <2>. HIDE DEF t
  <2>3. Golden!Asked = [term |-> t.term, type |-> t.type]
    BY <1>a, <1>3, <2>2
  <2>. QED
    BY <1>v, <1>3, <2>1, <2>2, <2>3, GoldenStops
<1>4. CASE Golden!CallFails(c)
  <2>. DEFINE s == [goldenSearch EXCEPT !.failed = TRUE]
  <2>1. /\ s \in SearchState /\ s.term = goldenSearch.term /\ s.type = goldenSearch.type
        /\ s.candidates = goldenSearch.candidates /\ s.result = goldenSearch.result
        /\ s.target = goldenSearch.target
    BY <1>v DEF SearchState
  <2>2. Golden!Settle(c, s) /\ Golden!current(c.version)
    BY <1>4 DEF Golden!CallFails
  <2>. HIDE DEF s
  <2>. QED
    BY <1>3, <1>a, <2>1, <2>2
<1>5. CASE Golden!RetrieveAnswers(c)
  <2>. DEFINE s == [goldenSearch EXCEPT !.result = c.ref, !.target = NoRecord]
  <2>1. /\ s \in SearchState /\ s.term = goldenSearch.term /\ s.type = goldenSearch.type
        /\ s.candidates = goldenSearch.candidates /\ s.result = c.ref /\ s.target = NoRecord
    BY <1>v, <1>c DEF SearchState
  <2>2. Golden!Settle(c, s) /\ Golden!current(c.version) /\ c.ref # NoRecord
    BY <1>5 DEF Golden!RetrieveAnswers
  <2>. HIDE DEF s
  <2>3. c.ref \in Golden!Matching(Golden!Asked)
    BY <1>c, <1>v, <2>2
  <2>. QED
    BY <1>3, <1>a, <2>1, <2>2, <2>3
<1>6. ASSUME NEW r \in Golden!Record, Golden!SearchMatches(c, r) PROVE GoldenInv'
  <2>. DEFINE s == [Golden!Selection(Golden!Asked) EXCEPT !.retrieving = TRUE, !.target = r]
  <2>1. /\ Golden!current(c.version) /\ r \in Golden!Matching(c.ask)
        /\ Golden!retrieve(r, c.version, goldenCalls \ {c})
        /\ UNCHANGED <<goldenActive, goldenVersion, Golden!navigation>>
    BY <1>6 DEF Golden!SearchMatches
  <2>2. /\ goldenPending' = TRUE /\ goldenSearch' = s
        /\ goldenCalls' = (goldenCalls \ {c}) \cup {[version |-> goldenVersion, ask |-> Golden!Asked, ref |-> r]}
        /\ r \in Golden!Matching(Golden!Asked)
    BY <1>v, <2>1 DEF Golden!retrieve
  <2>3. /\ s \in SearchState /\ s.retrieving /\ s.candidates = {}
        /\ s.result = NoRecord /\ s.target = r /\ s.term = goldenSearch.term
        /\ s.type = goldenSearch.type
    BY <1>a, GoldenSelection DEF SearchState
  <2>. HIDE DEF s
  <2>. QED
    BY <1>v, <2>1, <2>2, <2>3, GoldenLaunch
<1>7. ASSUME NEW R \in SUBSET Golden!Record, Golden!SearchIsAmbiguous(c, R) PROVE GoldenInv'
  <2>. DEFINE s == [goldenSearch EXCEPT !.candidates = R]
  <2>1. /\ s \in SearchState /\ s.term = goldenSearch.term /\ s.type = goldenSearch.type
        /\ s.candidates = R /\ s.result = goldenSearch.result /\ s.target = goldenSearch.target
    BY <1>v DEF SearchState
  <2>2. Golden!Settle(c, s) /\ Golden!current(c.version) /\ R \subseteq Golden!Matching(c.ask)
    BY <1>7 DEF Golden!SearchIsAmbiguous
  <2>. HIDE DEF s
  <2>3. R \subseteq Golden!Matching(Golden!Asked)
    BY <1>v, <2>2
  <2>. QED
    BY <1>3, <1>a, <2>1, <2>2, <2>3
<1>. QED
  BY <1>1, <1>2, <1>4, <1>5, <1>6, <1>7

-----------------------------------------------------------------------------
(* The pages.                                                               *)

\* A page that goes takes the search with it.
LEMMA GoldenUnmounts ==
    ASSUME GoldenAssumption, Golden!Unmount
    PROVE  /\ goldenSearch' \in SearchState /\ goldenActive' = FALSE /\ goldenVersion' = 0
           /\ goldenPending' = FALSE
           /\ goldenCalls' = {} /\ CallsNumbered' /\ Golden!BusyIsOneCall' /\ Golden!ShownIsAsked'
<1>1. Golden!NewQuery \in Golden!Query
  BY DEF Golden!NewQuery, Golden!Query, GoldenAssumption
<1>2. /\ goldenSearch' = Golden!Selection(Golden!NewQuery) /\ goldenActive' = FALSE
      /\ goldenVersion' = 0 /\ goldenPending' = FALSE
      /\ goldenCalls' = {}
  BY DEF Golden!Unmount
<1>3. /\ goldenSearch' \in SearchState /\ ~goldenSearch'.searching /\ ~goldenSearch'.retrieving
      /\ goldenSearch'.candidates = {} /\ goldenSearch'.result = NoRecord
      /\ goldenSearch'.target = NoRecord
  BY <1>1, <1>2, GoldenSelection
<1>4. CallsNumbered'
  BY <1>2 DEF CallsNumbered
<1>5. Golden!BusyIsOneCall'
  BY <1>2, <1>3 DEF Golden!BusyIsOneCall
<1>6. Golden!ShownIsAsked'
  BY <1>3 DEF Golden!ShownIsAsked
<1>. QED
  BY <1>2, <1>3, <1>4, <1>5, <1>6

LEMMA GoldenToWorkflow ==
    ASSUME GoldenAssumption, GoldenInv, NEW r \in Golden!Record \cup {NoRecord},
           Golden!ToWorkflow(r)
    PROVE  GoldenInv'
<1>0. PICK s, e : /\ s = (IF scope = 0 THEN goldenGeneration ELSE scope)
                  /\ e = [record |-> r, type |-> goldenSearch.type, by |-> goldenGeneration, scope |-> s]
  OBVIOUS
<1>1. /\ goldenPage' = "workflow" /\ scope' = s /\ history' = history \cup {e} /\ here' = e
      /\ buyer' = e
      /\ Golden!Unmount /\ UNCHANGED goldenGeneration
  BY <1>0 DEF Golden!ToWorkflow
<1>2. s = goldenGeneration /\ goldenGeneration \in Nat /\ goldenSearch \in SearchState
  BY <1>0 DEF GoldenInv, GoldenTyped, EntriesBound
<1>3. e \in Golden!Entry /\ e.by = goldenGeneration /\ e.scope = goldenGeneration
  BY <1>0, <1>2 DEF Golden!Entry, SearchState
<1>4. GoldenTyped'
  BY <1>1, <1>2, <1>3, GoldenUnmounts DEF GoldenInv, GoldenTyped
<1>5. EntriesBound'
  BY <1>1, <1>2, <1>3 DEF GoldenInv, EntriesBound, Golden!BuyerOfSession
<1>. QED
  BY <1>1, <1>4, <1>5, GoldenUnmounts DEF GoldenInv

LEMMA GoldenPages ==
    ASSUME GoldenAssumption, GoldenInv,
           \/ Golden!OpenNewTransfer \/ Golden!handleContinueToSearch \/ Golden!Leave
           \/ Golden!handleContinueWithRecord \/ Golden!handleContinueWithoutRecord
           \/ \E e \in history : Golden!Revisit(e)
           \/ Golden!clearSession \/ Golden!Login \/ Golden!Remount
    PROVE  GoldenInv'
<1>1. CASE Golden!OpenNewTransfer
  <2>1. /\ goldenPage = "elsewhere" /\ goldenPage' = "matter"
        /\ UNCHANGED <<goldenSearch, goldenActive, goldenVersion, goldenPending, goldenCalls, goldenGeneration, scope, history, here, buyer>>
    BY <1>1 DEF Golden!OpenNewTransfer, Golden!guard
  <2>2. CallsNumbered' /\ Golden!BusyIsOneCall' /\ Golden!ShownIsAsked'
    BY <2>1 DEF GoldenInv, CallsNumbered, Golden!BusyIsOneCall, Golden!ShownIsAsked,
       Golden!Asked, Golden!Matching, Golden!current
  <2>. QED
    BY <2>1, <2>2 DEF GoldenInv, GoldenTyped, EntriesBound, Golden!BuyerOfSession
<1>2. CASE Golden!handleContinueToSearch
  <2>1. /\ goldenPage' = "search" /\ goldenActive' = TRUE
        /\ UNCHANGED <<goldenSearch, goldenVersion, goldenPending, goldenCalls, goldenGeneration, scope, history, here, buyer>>
    BY <1>2 DEF Golden!handleContinueToSearch
  <2>2. ~goldenActive => goldenCalls = {}
    BY DEF GoldenInv, CallsNumbered
  <2>3. {c \in goldenCalls' : Golden!current(c.version)'} = {c \in goldenCalls : Golden!current(c.version)}
    BY <2>1, <2>2 DEF Golden!current, GoldenInv, GoldenTyped
  <2>4. Golden!BusyIsOneCall'
    BY <2>1, <2>3 DEF GoldenInv, Golden!BusyIsOneCall
  <2>5. CallsNumbered' /\ Golden!ShownIsAsked'
    BY <2>1 DEF GoldenInv, CallsNumbered, Golden!ShownIsAsked, Golden!Asked, Golden!Matching
  <2>. QED
    BY <2>1, <2>4, <2>5 DEF GoldenInv, GoldenTyped, EntriesBound, Golden!BuyerOfSession
<1>3. CASE Golden!Leave
  <2>1. /\ goldenPage' = "elsewhere" /\ here' = NoRecord /\ buyer' = NoRecord /\ Golden!Unmount
        /\ UNCHANGED <<goldenGeneration, scope, history>>
    BY <1>3 DEF Golden!Leave
  <2>. QED
    BY <2>1, GoldenUnmounts DEF GoldenInv, GoldenTyped, EntriesBound, Golden!BuyerOfSession
<1>4. CASE Golden!handleContinueWithRecord \/ Golden!handleContinueWithoutRecord
  <2>1. goldenSearch.result \in Golden!Record \cup {NoRecord}
    BY DEF GoldenInv, GoldenTyped, SearchState
  <2>. QED
    BY <1>4, <2>1, GoldenToWorkflow DEF Golden!handleContinueWithRecord,
       Golden!handleContinueWithoutRecord
<1>5. ASSUME NEW e \in history, Golden!Revisit(e) PROVE GoldenInv'
  <2>1. /\ goldenPage' = "workflow" /\ here' = e /\ Golden!Unmount
        /\ UNCHANGED <<goldenGeneration, scope, history>>
        /\ buyer' = IF buyer = NoRecord /\ Golden!readNavigationState(e) THEN e ELSE buyer
    BY <1>5 DEF Golden!Revisit
  <2>2. Golden!readNavigationState(e) => e.by = goldenGeneration
    BY DEF Golden!readNavigationState, GoldenInv, EntriesBound
  <2>3. Golden!BuyerOfSession'
    BY <2>1, <2>2 DEF GoldenInv, EntriesBound, Golden!BuyerOfSession
  <2>4. GoldenTyped'
    BY <2>1, GoldenUnmounts DEF GoldenInv, GoldenTyped
  <2>. QED
    BY <2>1, <2>3, <2>4, GoldenUnmounts DEF GoldenInv, EntriesBound
<1>6. CASE Golden!clearSession
  <2>1. /\ goldenPage' = "login" /\ here' = NoRecord /\ buyer' = NoRecord /\ Golden!Unmount
        /\ goldenGeneration' = goldenGeneration + 1 /\ scope' = 0 /\ UNCHANGED history
    BY <1>6 DEF Golden!clearSession
  <2>. QED
    BY <2>1, GoldenUnmounts DEF GoldenInv, GoldenTyped, EntriesBound, Golden!BuyerOfSession
<1>7. CASE Golden!Login
  <2>1. /\ goldenPage = "login" /\ goldenPage' = "elsewhere"
        /\ goldenGeneration' = goldenGeneration + 1 /\ scope' = 0
        /\ UNCHANGED <<goldenSearch, goldenActive, goldenVersion, goldenPending, goldenCalls, history, here, buyer>>
    BY <1>7 DEF Golden!Login, Golden!guard
  <2>2. CallsNumbered' /\ Golden!BusyIsOneCall' /\ Golden!ShownIsAsked'
    BY <2>1 DEF GoldenInv, CallsNumbered, Golden!BusyIsOneCall, Golden!ShownIsAsked,
       Golden!Asked, Golden!Matching, Golden!current
  <2>. QED
    BY <2>1, <2>2 DEF GoldenInv, GoldenTyped, EntriesBound, Golden!BuyerOfSession
<1>8. CASE Golden!Remount
  <2>1. /\ goldenPage # "login"
        /\ goldenPage' = (IF goldenPage = "search" THEN "matter" ELSE goldenPage)
        /\ buyer' = NoRecord /\ Golden!Unmount
        /\ goldenGeneration' = goldenGeneration + 1 /\ scope' = 0 /\ UNCHANGED <<history, here>>
    BY <1>8 DEF Golden!Remount
  <2>. QED
    BY <2>1, GoldenUnmounts DEF GoldenInv, GoldenTyped, EntriesBound, Golden!BuyerOfSession
<1>. QED
  BY <1>1, <1>2, <1>3, <1>4, <1>5, <1>6, <1>7, <1>8

LEMMA GoldenStep == ASSUME GoldenAssumption, GoldenInv, [Golden!Next]_(Golden!vars) PROVE GoldenInv'
<1>1. CASE UNCHANGED Golden!vars
  <2>1. UNCHANGED <<goldenSearch, goldenActive, goldenVersion, goldenPending, goldenCalls, goldenPage, goldenGeneration, scope, history, here, buyer>>
    BY <1>1 DEF Golden!vars, Golden!guard, Golden!navigation
  <2>. QED
    BY <2>1 DEF GoldenInv, GoldenTyped, EntriesBound, Golden!BuyerOfSession, CallsNumbered,
       Golden!BusyIsOneCall,
         Golden!ShownIsAsked, Golden!Asked, Golden!Matching, Golden!current
<1>. QED
  BY <1>1, GoldenSearchSteps, GoldenAnswers, GoldenPages DEF Golden!Next

LEMMA GoldenInit == ASSUME GoldenAssumption, Golden!Init PROVE GoldenInv
<1>1. Golden!NewQuery \in Golden!Query
  BY DEF Golden!NewQuery, Golden!Query, GoldenAssumption
<1>2. /\ goldenSearch = Golden!Selection(Golden!NewQuery) /\ goldenActive = FALSE
      /\ goldenVersion = 0 /\ goldenPending = FALSE /\ goldenCalls = {}
      /\ goldenPage = "elsewhere" /\ goldenGeneration = 1 /\ scope = 0
      /\ history = {} /\ here = NoRecord /\ buyer = NoRecord
  BY DEF Golden!Init
<1>3. /\ goldenSearch \in SearchState /\ ~goldenSearch.searching /\ ~goldenSearch.retrieving
      /\ goldenSearch.candidates = {} /\ goldenSearch.result = NoRecord
      /\ goldenSearch.target = NoRecord
  BY <1>1, <1>2, GoldenSelection
<1>4. Golden!BusyIsOneCall
  BY <1>2, <1>3 DEF Golden!BusyIsOneCall
<1>. QED
  BY <1>2, <1>3, <1>4 DEF GoldenInv, GoldenTyped, EntriesBound, Golden!BuyerOfSession,
     CallsNumbered, Golden!ShownIsAsked

-----------------------------------------------------------------------------

\* The invariant of the search and of what the history keeps.
THEOREM GoldenKeep == ASSUME GoldenAssumption PROVE Golden!Spec => []GoldenInv
<1>1. Golden!Init => GoldenInv
  BY GoldenInit
<1>2. GoldenInv /\ [Golden!Next]_(Golden!vars) => GoldenInv'
  BY GoldenStep
<1>. QED
  BY <1>1, <1>2, PTL DEF Golden!Spec

\* What the page shows and fetches is of the query in its fields, and it is busy exactly
\* while one call of its current request is under way.
THEOREM GoldenShownIsAsked ==
    ASSUME GoldenAssumption
    PROVE  Golden!Spec => [](Golden!ShownIsAsked /\ Golden!BusyIsOneCall)
<1>1. GoldenInv => Golden!ShownIsAsked /\ Golden!BusyIsOneCall
  BY DEF GoldenInv
<1>. QED
  BY <1>1, GoldenKeep, PTL

\* The buyer that appears in the workflow was chosen in the session that shows it.
THEOREM GoldenBuyerOfSession == ASSUME GoldenAssumption PROVE Golden!Spec => []Golden!BuyerOfSession
<1>1. GoldenInv => Golden!BuyerOfSession
  BY DEF GoldenInv, EntriesBound
<1>. QED
  BY <1>1, GoldenKeep, PTL

\* The search, its calls and the history keep their types.
THEOREM GoldenTypeOK == ASSUME GoldenAssumption PROVE Golden!Spec => []Golden!TypeOK
<1>1. GoldenInv => Golden!TypeOK
  BY DEF GoldenInv, GoldenTyped, SearchState, Call, Golden!TypeOK
<1>. QED
  BY <1>1, GoldenKeep, PTL

-----------------------------------------------------------------------------
(***************************************************************************)
(* The documents on a matter's page, for any documents, calls and sessions.*)
(* A verdict is final, so rows that were read earlier never say "clean" of *)
(* a file that is not; a dialog that is open is the target's.              *)
(***************************************************************************)
PanelAssumption == Asked \in Doc /\ MaxPanelSession \in Nat \ {0}

\* What was read before: on the page, or in a read under way.
ReadBefore(r) == \A d \in Doc : r[d] = "clean" => docPanelRow[d] = "clean"
OlderReads == ReadBefore(docPanelShown) /\ \A c \in docPanelCalls : c.rows # NoRow => ReadBefore(c.rows)

DialogOfTarget == dialog = NoRow \/ dialog = uploadTarget

\* The file of a call, from the dialog on.
PickedFor(c) == c.stage \in {"create", "upload"} =>
                    c.picked = c.doc \/ (c.picked = Requirement /\ c.doc = Asked)
FilesPicked == \A c \in docPanelCalls : PickedFor(c)

\* A call that may be under way.
DocPanelInOrder(c) == c \in DocPanel!Call /\ PickedFor(c) /\ (c.rows # NoRow => ReadBefore(c.rows))

PanelInv == DocPanel!TypeOK /\ DocPanel!SavedInItsSession /\ OlderReads /\ DialogOfTarget /\ FilesPicked

-----------------------------------------------------------------------------

LEMMA PanelTypes ==
    ASSUME PanelInv
    PROVE  /\ docPanelRow \in [Doc -> DocPanel!Status] /\ docPanelShown \in [Doc -> DocPanel!Status]
           /\ busyKey \in DocPanel!Target \cup {Recalculate, NoRow}
           /\ dialog \in DocPanel!Target \cup {NoRow}
           /\ uploadTarget \in DocPanel!Target \cup {NoRow}
           /\ docPanelCalls \subseteq DocPanel!Call /\ docPanelGeneration \in 1 .. MaxPanelSession
           /\ saved \subseteq [asked: Nat, at: Nat]
BY DEF PanelInv, DocPanel!TypeOK

\* A step that takes a call away, or has another in its place, and reads no rows.
LEMMA PanelCalls ==
    ASSUME PanelAssumption, PanelInv,
           \A c \in docPanelCalls' : c \in docPanelCalls \/ DocPanelInOrder(c),
           busyKey' \in DocPanel!Target \cup {Recalculate, NoRow},
           UNCHANGED <<docPanelRow, docPanelShown, docPanelGeneration, saved>>,
           dialog' \in DocPanel!Target \cup {NoRow}, uploadTarget' \in DocPanel!Target \cup {NoRow},
           dialog' = NoRow \/ dialog' = uploadTarget'
    PROVE  PanelInv'
<1>1. DocPanel!TypeOK'
  BY PanelTypes DEF DocPanel!TypeOK, DocPanelInOrder
<1>2. OlderReads'
  BY DEF PanelInv, OlderReads, ReadBefore, DocPanelInOrder
<1>3. FilesPicked'
  BY DEF PanelInv, FilesPicked, PickedFor, DocPanelInOrder
<1>. QED
  BY <1>1, <1>2, <1>3 DEF PanelInv, DocPanel!SavedInItsSession, DialogOfTarget

LEMMA PanelNewCall ==
    ASSUME PanelAssumption, PanelInv,
           NEW key \in DocPanel!Target \cup {Recalculate, NoRow}, NEW d \in Doc, NEW stage \in DocPanel!Stage,
           NEW picked \in DocPanel!Target \cup {NoRow},
           stage \in {"create", "upload"} => picked = d \/ (picked = Requirement /\ d = Asked),
           DocPanel!Begin(key, d, stage, picked),
           UNCHANGED <<docPanelRow, docPanelShown, docPanelGeneration, saved>>,
           dialog' \in DocPanel!Target \cup {NoRow}, uploadTarget' \in DocPanel!Target \cup {NoRow},
           dialog' = NoRow \/ dialog' = uploadTarget'
    PROVE  PanelInv'
<1>0. PICK c : c = [stage |-> stage, key |-> key, doc |-> d, picked |-> picked,
                    by |-> docPanelGeneration, rows |-> NoRow]
  OBVIOUS
<1>1. DocPanelInOrder(c)
  BY <1>0, PanelTypes DEF DocPanel!Call, PickedFor, DocPanelInOrder
<1>2. docPanelCalls' = docPanelCalls \cup {c} /\ busyKey' = key
  BY <1>0 DEF DocPanel!Begin
<1>. QED
  BY <1>1, <1>2, PanelCalls

LEMMA PanelUser ==
    ASSUME PanelAssumption, PanelInv,
           \/ DocPanel!pickFileForRequirement \/ DocPanel!CancelDialog \/ DocPanel!handleFileChosen \/ DocPanel!handleRecalculate
           \/ \E d \in Doc : DocPanel!pickFileForDocument(d) \/ DocPanel!handleRescan(d) \/ DocPanel!handleDownload(d)
    PROVE  PanelInv'
<1>1. ASSUME NEW t \in DocPanel!Target, DocPanel!PickFile(t) PROVE PanelInv'
  <2>1. /\ dialog' = t /\ uploadTarget' = t /\ docPanelCalls' = docPanelCalls
        /\ UNCHANGED <<docPanelRow, docPanelShown, busyKey, docPanelGeneration, saved>>
    BY <1>1 DEF DocPanel!PickFile
  <2>. QED
    BY <2>1, PanelTypes, PanelCalls
<1>2. CASE DocPanel!CancelDialog
  <2>1. dialog' = NoRow /\ docPanelCalls' = docPanelCalls
        /\ UNCHANGED <<docPanelRow, docPanelShown, busyKey, uploadTarget, docPanelGeneration, saved>>
    BY <1>2 DEF DocPanel!CancelDialog
  <2>. QED
    BY <2>1, PanelTypes, PanelCalls
<1>3. CASE DocPanel!handleFileChosen
  <2>1. /\ dialog # NoRow /\ dialog = uploadTarget /\ dialog \in DocPanel!Target
        /\ dialog' = NoRow /\ uploadTarget' = NoRow
        /\ UNCHANGED <<docPanelRow, docPanelShown, docPanelGeneration, saved>>
    BY <1>3, PanelTypes DEF DocPanel!handleFileChosen, PanelInv, DialogOfTarget
  <2>2. CASE uploadTarget = Requirement
    <3>1. DocPanel!Begin(Requirement, Asked, "create", dialog)
      BY <1>3, <2>2 DEF DocPanel!handleFileChosen
    <3>2. Requirement \in DocPanel!Target /\ "create" \in DocPanel!Stage /\ Asked \in Doc
      BY DEF DocPanel!Target, DocPanel!Stage, PanelAssumption
    <3>. QED
      BY <2>1, <2>2, <3>1, <3>2, PanelNewCall
  <2>3. CASE uploadTarget # Requirement
    <3>1. DocPanel!Begin(uploadTarget, uploadTarget, "upload", dialog)
      BY <1>3, <2>3 DEF DocPanel!handleFileChosen
    <3>2. uploadTarget \in Doc /\ uploadTarget \in DocPanel!Target /\ "upload" \in DocPanel!Stage
      BY <2>1, <2>3 DEF DocPanel!Target, DocPanel!Stage
    <3>. QED
      BY <2>1, <3>1, <3>2, PanelNewCall
  <2>. QED
    BY <2>2, <2>3
<1>4. CASE DocPanel!handleRecalculate
  <2>1. /\ DocPanel!Begin(Recalculate, Asked, "recalculate", NoRow)
        /\ UNCHANGED <<docPanelRow, docPanelShown, dialog, uploadTarget, docPanelGeneration, saved>>
        /\ "recalculate" \in DocPanel!Stage /\ Asked \in Doc
    BY <1>4 DEF DocPanel!handleRecalculate, DocPanel!Stage, PanelAssumption
  <2>. QED
    BY <2>1, PanelTypes, PanelNewCall DEF PanelInv, DialogOfTarget
<1>5. ASSUME NEW d \in Doc, DocPanel!handleRescan(d) \/ DocPanel!handleDownload(d) PROVE PanelInv'
  <2>1. PICK stage \in {"rescan", "link"} :
           /\ DocPanel!Begin(d, d, stage, NoRow)
           /\ UNCHANGED <<docPanelRow, docPanelShown, dialog, uploadTarget, docPanelGeneration, saved>>
    BY <1>5 DEF DocPanel!handleRescan, DocPanel!handleDownload
  <2>2. d \in DocPanel!Target /\ stage \in DocPanel!Stage
    BY DEF DocPanel!Target, DocPanel!Stage
  <2>. QED
    BY <2>1, <2>2, PanelTypes, PanelNewCall DEF PanelInv, DialogOfTarget
<1>6. Requirement \in DocPanel!Target /\ \A d \in Doc : d \in DocPanel!Target
  BY DEF DocPanel!Target
<1>. QED
  BY <1>1, <1>2, <1>3, <1>4, <1>5, <1>6 DEF DocPanel!pickFileForRequirement,
     DocPanel!pickFileForDocument

\* A row moves on, and never from "clean".
LEMMA PanelRow ==
    ASSUME PanelAssumption, PanelInv, NEW d \in Doc, NEW v \in DocPanel!Status,
           docPanelRow[d] # "clean",
           docPanelRow' = [docPanelRow EXCEPT ![d] = v],
           \A c \in docPanelCalls' : c \in docPanelCalls \/ DocPanelInOrder(c),
           UNCHANGED <<docPanelShown, busyKey, dialog, uploadTarget, docPanelGeneration, saved>>
    PROVE  PanelInv'
<1>1. DocPanel!TypeOK'
  BY PanelTypes DEF DocPanel!TypeOK, DocPanelInOrder
<1>2. \A e \in Doc : docPanelRow[e] = "clean" => docPanelRow'[e] = "clean"
  BY PanelTypes
<1>3. OlderReads'
  BY <1>2 DEF PanelInv, OlderReads, ReadBefore, DocPanelInOrder
<1>4. FilesPicked'
  BY DEF PanelInv, FilesPicked, PickedFor, DocPanelInOrder
<1>. QED
  BY <1>1, <1>3, <1>4 DEF PanelInv, DocPanel!SavedInItsSession, DialogOfTarget

LEMMA PanelServer ==
    ASSUME PanelAssumption, PanelInv,
           \/ \E d \in Doc : DocPanel!Verdict(d)
           \/ \E c \in docPanelCalls : DocPanel!Store(c) \/ DocPanel!ReadRows(c)
    PROVE  PanelInv'
<1>1. ASSUME NEW d \in Doc, DocPanel!Verdict(d) PROVE PanelInv'
  <2>1. PICK v \in {"clean", "infected"} : docPanelRow' = [docPanelRow EXCEPT ![d] = v]
    BY <1>1 DEF DocPanel!Verdict
  <2>2. /\ docPanelRow[d] # "clean" /\ v \in DocPanel!Status /\ docPanelCalls' = docPanelCalls
        /\ UNCHANGED <<docPanelShown, busyKey, dialog, uploadTarget, docPanelGeneration, saved>>
    BY <1>1 DEF DocPanel!Verdict, DocPanel!Status
  <2>. QED
    BY <2>1, <2>2, PanelRow
<1>2. ASSUME NEW c \in docPanelCalls, DocPanel!Store(c) PROVE PanelInv'
  <2>1. /\ c.doc \in Doc /\ docPanelRow[c.doc] # "clean"
        /\ docPanelRow' = [docPanelRow EXCEPT ![c.doc] = "pending"]
        /\ "pending" \in DocPanel!Status /\ docPanelCalls' = docPanelCalls
        /\ UNCHANGED <<docPanelShown, busyKey, dialog, uploadTarget, docPanelGeneration, saved>>
    BY <1>2, PanelTypes DEF DocPanel!Store, DocPanel!Status, DocPanel!Call
  <2>. QED
    BY <2>1, PanelRow
<1>3. ASSUME NEW c \in docPanelCalls, DocPanel!ReadRows(c) PROVE PanelInv'
  <2>0. PICK e : e = [c EXCEPT !.rows = docPanelRow]
    OBVIOUS
  <2>1. /\ docPanelCalls' = (docPanelCalls \ {c}) \cup {e}
        /\ UNCHANGED <<docPanelRow, docPanelShown, busyKey, dialog, uploadTarget, docPanelGeneration, saved>>
    BY <1>3, <2>0 DEF DocPanel!ReadRows
  <2>2. DocPanelInOrder(e)
    BY <1>3, <2>0, PanelTypes DEF DocPanel!ReadRows, DocPanel!Call, PickedFor, ReadBefore,
       DocPanelInOrder
  <2>. QED
    BY <2>1, <2>2, PanelTypes, PanelCalls DEF PanelInv, DialogOfTarget
<1>. QED
  BY <1>1, <1>2, <1>3

\* A call goes on to its next stage; only an upload comes after a file was picked.
LEMMA PanelNext ==
    ASSUME PanelAssumption, PanelInv, NEW c \in docPanelCalls, NEW stage \in DocPanel!Stage,
           stage \in {"create", "upload"} => c.stage \in {"create", "upload"}
    PROVE  DocPanelInOrder([c EXCEPT !.stage = stage])
<1>1. c \in DocPanel!Call /\ PickedFor(c) /\ (c.rows # NoRow => ReadBefore(c.rows))
  BY PanelTypes DEF PanelInv, FilesPicked, OlderReads
<1>. QED
  BY <1>1 DEF DocPanel!Call, PickedFor, DocPanelInOrder

LEMMA PanelAnswers ==
    ASSUME PanelAssumption, PanelInv, NEW c \in docPanelCalls,
           \/ DocPanel!Fails(c) \/ DocPanel!Created(c) \/ DocPanel!Answered(c) \/ DocPanel!Refreshed(c)
           \/ DocPanel!LinkAnswers(c) \/ DocPanel!FileAnswers(c) \/ DocPanel!BlobRead(c)
    PROVE  PanelInv'
<1>1. CASE DocPanel!Fails(c)
  <2>1. /\ docPanelCalls' = docPanelCalls \ {c} /\ busyKey' \in {NoRow, busyKey}
        /\ UNCHANGED <<docPanelRow, docPanelShown, dialog, uploadTarget, docPanelGeneration, saved>>
    BY <1>1 DEF DocPanel!Fails
  <2>. QED
    BY <2>1, PanelTypes, PanelCalls DEF PanelInv, DialogOfTarget
<1>2. CASE DocPanel!Created(c)
  <2>1. /\ c.doc \in Doc /\ docPanelRow[c.doc] # "clean"
        /\ docPanelRow' = [docPanelRow EXCEPT ![c.doc] = "empty"]
        /\ "empty" \in DocPanel!Status /\ "upload" \in DocPanel!Stage /\ c.stage = "create"
        /\ docPanelCalls' = (docPanelCalls \ {c}) \cup {[c EXCEPT !.stage = "upload"]}
        /\ UNCHANGED <<docPanelShown, busyKey, dialog, uploadTarget, docPanelGeneration, saved>>
    BY <1>2, PanelTypes DEF DocPanel!Created, DocPanel!Next1, DocPanel!Status,
       DocPanel!Stage, DocPanel!Call
  <2>. QED
    BY <2>1, PanelNext, PanelRow
<1>3. CASE DocPanel!Answered(c) \/ DocPanel!LinkAnswers(c) \/ DocPanel!FileAnswers(c)
  <2>1. PICK stage \in {"refresh", "file", "blob"} :
           docPanelCalls' = (docPanelCalls \ {c}) \cup {[c EXCEPT !.stage = stage]}
    BY <1>3 DEF DocPanel!Answered, DocPanel!LinkAnswers, DocPanel!FileAnswers,
       DocPanel!Next1
  <2>2. /\ stage \in DocPanel!Stage /\ stage \notin {"create", "upload"}
        /\ UNCHANGED <<docPanelRow, docPanelShown, busyKey, dialog, uploadTarget, docPanelGeneration, saved>>
    BY <1>3 DEF DocPanel!Answered, DocPanel!LinkAnswers, DocPanel!FileAnswers,
       DocPanel!Stage
  <2>. QED
    BY <2>1, <2>2, PanelNext, PanelTypes, PanelCalls DEF PanelInv, DialogOfTarget
<1>4. CASE DocPanel!Refreshed(c)
  <2>1. /\ c.rows \in [Doc -> DocPanel!Status] /\ ReadBefore(c.rows) /\ docPanelShown' = c.rows
        /\ docPanelCalls' = docPanelCalls \ {c} /\ busyKey' \in {NoRow, busyKey}
        /\ UNCHANGED <<docPanelRow, dialog, uploadTarget, docPanelGeneration, saved>>
    BY <1>4, PanelTypes DEF DocPanel!Refreshed, DocPanel!Call, PanelInv, OlderReads
  <2>2. DocPanel!TypeOK'
    BY <2>1, PanelTypes DEF DocPanel!TypeOK
  <2>3. OlderReads' /\ FilesPicked'
    BY <2>1 DEF PanelInv, OlderReads, ReadBefore, FilesPicked, PickedFor
  <2>. QED
    BY <2>1, <2>2, <2>3 DEF PanelInv, DocPanel!SavedInItsSession, DialogOfTarget
<1>5. CASE DocPanel!BlobRead(c)
  <2>1. /\ c.by = docPanelGeneration
        /\ saved' = saved \cup {[asked |-> c.by, at |-> docPanelGeneration]}
        /\ docPanelCalls' = docPanelCalls \ {c} /\ busyKey' = NoRow
        /\ UNCHANGED <<docPanelRow, docPanelShown, dialog, uploadTarget, docPanelGeneration>>
    BY <1>5 DEF DocPanel!BlobRead, DocPanel!assertDownloadSession
  <2>2. docPanelGeneration \in Nat
    BY PanelTypes DEF PanelAssumption
  <2>3. DocPanel!TypeOK'
    BY <2>1, <2>2, PanelTypes DEF DocPanel!TypeOK
  <2>4. DocPanel!SavedInItsSession'
    BY <2>1 DEF PanelInv, DocPanel!SavedInItsSession
  <2>5. OlderReads' /\ FilesPicked' /\ DialogOfTarget'
    BY <2>1 DEF PanelInv, OlderReads, ReadBefore, FilesPicked, PickedFor, DialogOfTarget
  <2>. QED
    BY <2>3, <2>4, <2>5 DEF PanelInv
<1>. QED
  BY <1>1, <1>2, <1>3, <1>4, <1>5

LEMMA PanelSession == ASSUME PanelAssumption, PanelInv, DocPanel!SessionChanges PROVE PanelInv'
<1>1. PICK c : c = DocPanel!RefreshBy(docPanelGeneration + 1)
  OBVIOUS
<1>2. /\ docPanelGeneration < MaxPanelSession /\ docPanelGeneration' = docPanelGeneration + 1
      /\ docPanelCalls' = docPanelCalls \cup {c}
      /\ docPanelShown' = [d \in Doc |-> "absent"] /\ busyKey' = NoRow
      /\ dialog' = NoRow /\ uploadTarget' = NoRow /\ UNCHANGED <<docPanelRow, saved>>
  BY <1>1 DEF DocPanel!SessionChanges
<1>3. docPanelGeneration + 1 \in 1 .. MaxPanelSession
  BY <1>2, PanelTypes DEF PanelAssumption
<1>4. c \in DocPanel!Call /\ c.stage = "refresh" /\ c.rows = NoRow
  BY <1>1, <1>3 DEF DocPanel!RefreshBy, DocPanel!Call, DocPanel!Stage, PanelAssumption
<1>5. DocPanel!TypeOK'
  BY <1>2, <1>3, <1>4, PanelTypes DEF DocPanel!TypeOK, DocPanel!Status
<1>6. OlderReads' /\ FilesPicked'
  BY <1>2, <1>4 DEF PanelInv, OlderReads, ReadBefore, FilesPicked, PickedFor
<1>. QED
  BY <1>2, <1>5, <1>6 DEF PanelInv, DocPanel!SavedInItsSession, DialogOfTarget

LEMMA PanelStep == ASSUME PanelAssumption, PanelInv, [DocPanel!Next]_(DocPanel!vars) PROVE PanelInv'
<1>1. CASE UNCHANGED DocPanel!vars
  BY <1>1 DEF DocPanel!vars, PanelInv, DocPanel!TypeOK, DocPanel!SavedInItsSession,
     OlderReads, ReadBefore, DialogOfTarget,
     FilesPicked, PickedFor
<1>. QED
  BY <1>1, PanelUser, PanelServer, PanelAnswers, PanelSession DEF DocPanel!Next

LEMMA PanelInit == ASSUME PanelAssumption, DocPanel!Init PROVE PanelInv
<1>1. PICK c : c = DocPanel!RefreshBy(1)
  OBVIOUS
<1>2. c \in DocPanel!Call /\ c.stage = "refresh" /\ c.rows = NoRow
  BY <1>1 DEF DocPanel!RefreshBy, DocPanel!Call, DocPanel!Stage, PanelAssumption
<1>3. /\ docPanelRow = [d \in Doc |-> IF d = Asked THEN "absent" ELSE "empty"]
      /\ docPanelShown = [d \in Doc |-> "absent"] /\ docPanelCalls = {c} /\ docPanelGeneration = 1
      /\ saved = {}
      /\ busyKey = NoRow /\ dialog = NoRow /\ uploadTarget = NoRow
  BY <1>1 DEF DocPanel!Init
<1>4. DocPanel!TypeOK
  BY <1>2, <1>3 DEF DocPanel!TypeOK, DocPanel!Status, PanelAssumption
<1>. QED
  BY <1>2, <1>3, <1>4 DEF PanelInv, DocPanel!SavedInItsSession, OlderReads, ReadBefore,
     DialogOfTarget,
     FilesPicked, PickedFor

-----------------------------------------------------------------------------

\* The invariant of the panel.
THEOREM PanelKeep == ASSUME PanelAssumption PROVE DocPanel!Spec => []PanelInv
<1>1. DocPanel!Init => PanelInv
  BY PanelInit
<1>2. PanelInv /\ [DocPanel!Next]_(DocPanel!vars) => PanelInv'
  BY PanelStep
<1>. QED
  BY <1>1, <1>2, PTL DEF DocPanel!Spec

\* A file is saved in the session that asked for it, however many requests lie between.
THEOREM PanelSavedInItsSession ==
    ASSUME PanelAssumption
    PROVE  DocPanel!Spec => []DocPanel!SavedInItsSession
<1>1. PanelInv => DocPanel!SavedInItsSession
  BY DEF PanelInv
<1>. QED
  BY <1>1, PanelKeep, PTL

\* A download is offered of released files only, and a file chosen in a dialog goes to
\* the row, or to the requirement's document, that the dialog was opened for.
THEOREM PanelOffersAndUploads ==
    ASSUME PanelAssumption PROVE DocPanel!Spec => [](DocPanel!OfferedIsReleased /\ DocPanel!FileReachesItsRow)
<1>1. PanelInv => DocPanel!OfferedIsReleased /\ DocPanel!FileReachesItsRow
  BY DEF PanelInv, OlderReads, ReadBefore, DocPanel!OfferedIsReleased,
     DocPanel!downloadable, FilesPicked,
     PickedFor, DocPanel!FileReachesItsRow
<1>. QED
  BY <1>1, PanelKeep, PTL

\* The rows, the calls and what was saved keep their types.
THEOREM PanelTypeOK == ASSUME PanelAssumption PROVE DocPanel!Spec => []DocPanel!TypeOK
<1>1. PanelInv => DocPanel!TypeOK
  BY DEF PanelInv
<1>. QED
  BY <1>1, PanelKeep, PTL

-----------------------------------------------------------------------------
(***************************************************************************)
(* The properties of a matter on its page, for any matters, texts and      *)
(* calls.  Links are only ever added, so what a call was told of them stays*)
(* true; the click under way and the load behind it are one chain.         *)
(***************************************************************************)
LinksAssumption ==
    /\ NoProperty \notin Property /\ Matter # {} /\ MaxVisits \in Nat
    /\ matching \in [Text -> SUBSET Property]

Panel ==
    [links: SUBSET LinkPanel!Link, loading: BOOLEAN, failed: BOOLEAN, attaching: BOOLEAN,
     text: Text \cup {Short}, results: SUBSET LinkPanel!Result, searching: BOOLEAN,
     pending: Property \cup {NoProperty}]

\* A call, and what it was told of the links.
Told(c) ==
    /\ c \in LinkPanel!Load \cup LinkPanel!Attach \cup LinkPanel!Search
    /\ c.kind = "attach" => (c.stored => [matter |-> c.matter, property |-> c.property] \in linked)
    /\ c.kind = "load" =>
        /\ c.after # NoProperty => [matter |-> c.matter, property |-> c.after] \in linked
        /\ c.rows # NoRows => c.rows \subseteq linked

\* The calls that block the results.
OfClick(c) == \/ c.kind = "attach" /\ c.awaited
              \/ c.kind = "load" /\ c.after # NoProperty
Chain == {c \in linkPanelCalls : OfClick(c)}

OneClick ==
    /\ panel.pending # NoProperty <=> Chain # {}
    /\ \A c, d \in Chain : c = d

LinksInv == LinkPanel!TypeOK /\ LinkPanel!ReportedIsStored /\ (\A c \in linkPanelCalls : Told(c)) /\ OneClick

-----------------------------------------------------------------------------

LEMMA LinksTypes ==
    ASSUME LinksInv
    PROVE  /\ linkPanelMatter \in Matter /\ panel \in Panel /\ timer \in Text \cup {Short}
           /\ linked \subseteq LinkPanel!Link /\ linkPanelActive \subseteq Property
           /\ reported \subseteq linked
           /\ panel.links \subseteq linked /\ linkPanelMoves \in 0 .. MaxVisits
           /\ \A c \in linkPanelCalls : Told(c) /\ c \in LinkPanel!Load \cup LinkPanel!Attach \cup LinkPanel!Search
BY DEF LinksInv, LinkPanel!TypeOK, LinkPanel!ReportedIsStored, Panel, Told

\* What a step has to keep: links are added, and what is told of them is so.
LEMMA LinksGrow ==
    ASSUME LinksAssumption, LinksInv,
           linkPanelMatter' \in Matter, panel' \in Panel, timer' \in Text \cup {Short},
           linked \subseteq linked', linked' \subseteq LinkPanel!Link, linkPanelActive' \subseteq linkPanelActive,
           reported' \subseteq linked', panel'.links \subseteq linked', linkPanelMoves' \in 0 .. MaxVisits,
           \A c \in linkPanelCalls' : c \in linkPanelCalls \/ Told(c)',
           OneClick'
    PROVE  LinksInv'
<1>1. \A c : Told(c) => Told(c)'
  BY DEF Told
<1>2. \A c \in linkPanelCalls' : Told(c)'
  BY <1>1, LinksTypes
<1>3. linkPanelCalls' \subseteq LinkPanel!Load \cup LinkPanel!Attach \cup LinkPanel!Search
  BY <1>2 DEF Told
<1>4. linkPanelActive' \subseteq Property
  BY LinksTypes
<1>5. LinkPanel!TypeOK'
  BY <1>3, <1>4 DEF LinkPanel!TypeOK, Panel
<1>. QED
  BY <1>2, <1>5 DEF LinksInv, LinkPanel!ReportedIsStored

\* The page changes, or other calls than the click's.
LEMMA LinksBeside ==
    ASSUME LinksAssumption, LinksInv,
           linkPanelMatter' \in Matter, panel' \in Panel, timer' \in Text \cup {Short},
           UNCHANGED <<linked, reported>>, linkPanelActive' \subseteq linkPanelActive, linkPanelMoves' \in 0 .. MaxVisits,
           panel'.links \subseteq linked, panel'.pending = panel.pending,
           \A c \in linkPanelCalls' : c \in linkPanelCalls \/ (Told(c) /\ ~OfClick(c)),
           \A c \in linkPanelCalls : OfClick(c) => c \in linkPanelCalls'
    PROVE  LinksInv'
<1>1. Chain' = Chain
  BY DEF Chain, OfClick
<1>2. OneClick'
  BY <1>1 DEF LinksInv, OneClick
<1>3. \A c : Told(c) => Told(c)'
  BY DEF Told
<1>. QED
  BY <1>2, <1>3, LinksTypes, LinksGrow

LEMMA LinksSearching ==
    ASSUME LinksInv, NEW attaching \in BOOLEAN, NEW text \in Text \cup {Short},
           LinkPanel!Searching(attaching, text)
    PROVE  /\ panel' \in Panel /\ timer' \in Text \cup {Short}
           /\ panel'.links = panel.links /\ panel'.pending = panel.pending
BY LinksTypes DEF LinkPanel!Searching, Panel

LEMMA LinksUser ==
    ASSUME LinksAssumption, LinksInv,
           \/ LinkPanel!Open \/ LinkPanel!Cancel \/ LinkPanel!TimerFires
           \/ \E t \in Text \cup {Short} : LinkPanel!Type(t)
           \/ \E m \in Matter : LinkPanel!Move(m)
           \/ \E r \in LinkPanel!Result : LinkPanel!attach(r)
    PROVE  LinksInv'
<1>t. /\ linkPanelMatter \in Matter /\ panel \in Panel /\ timer \in Text \cup {Short}
      /\ panel.links \subseteq linked /\ linkPanelMoves \in 0 .. MaxVisits /\ MaxVisits \in Nat
      /\ NoProperty \notin Property
  BY LinksTypes DEF LinksAssumption
<1>1. ASSUME NEW attaching \in BOOLEAN, NEW text \in Text \cup {Short},
             LinkPanel!Searching(attaching, text),
             UNCHANGED <<linkPanelMatter, linkPanelCalls, linked, linkPanelActive, reported, linkPanelMoves>>
      PROVE  LinksInv'
  BY <1>t, <1>1, LinksSearching, LinksBeside
<1>2. CASE LinkPanel!Open \/ LinkPanel!Cancel \/ \E t \in Text \cup {Short} : LinkPanel!Type(t)
  <2>1. panel.text \in Text \cup {Short}
    BY <1>t DEF Panel
  <2>. QED
    BY <1>1, <1>2, <2>1 DEF LinkPanel!Open, LinkPanel!Cancel, LinkPanel!Type
<1>3. CASE LinkPanel!TimerFires
  <2>1. PICK c : c = [kind |-> "search", text |-> timer]
    OBVIOUS
  <2>2. /\ timer # Short /\ timer' = Short /\ linkPanelCalls' = linkPanelCalls \cup {c}
        /\ UNCHANGED <<linkPanelMatter, panel, linked, linkPanelActive, reported, linkPanelMoves>>
    BY <1>3, <2>1 DEF LinkPanel!TimerFires
  <2>3. Told(c) /\ ~OfClick(c)
    BY <1>t, <2>1, <2>2 DEF Told, OfClick, LinkPanel!Search
  <2>. QED
    BY <1>t, <2>2, <2>3, LinksBeside
<1>4. ASSUME NEW m \in Matter, LinkPanel!Move(m) PROVE LinksInv'
  <2>1. PICK c : c = LinkPanel!LoadOf(m, NoProperty)
    OBVIOUS
  <2>2. /\ linkPanelMoves < MaxVisits /\ linkPanelMoves' = linkPanelMoves + 1
        /\ linkPanelMatter' = m /\ linkPanelCalls' = linkPanelCalls \cup {c}
        /\ panel' = [panel EXCEPT !.loading = TRUE, !.failed = FALSE]
        /\ UNCHANGED <<timer, linked, linkPanelActive, reported>>
    BY <1>4, <2>1 DEF LinkPanel!Move
  <2>3. Told(c) /\ ~OfClick(c)
    BY <2>1 DEF LinkPanel!LoadOf, Told, OfClick, LinkPanel!Load
  <2>4. panel' \in Panel /\ panel'.links = panel.links /\ panel'.pending = panel.pending
    BY <1>t, <2>2 DEF Panel
  <2>5. linkPanelMoves' \in 0 .. MaxVisits
    BY <1>t, <2>2
  <2>. QED
    BY <1>t, <2>2, <2>3, <2>4, <2>5, LinksBeside
<1>5. ASSUME NEW r \in LinkPanel!Result, LinkPanel!attach(r) PROVE LinksInv'
  <2>1. PICK c : c = [kind |-> "attach", matter |-> linkPanelMatter, property |-> r.property,
                      stored |-> FALSE, awaited |-> TRUE]
    OBVIOUS
  <2>2. /\ panel.pending = NoProperty /\ linkPanelCalls' = linkPanelCalls \cup {c}
        /\ r.property \in Property
        /\ panel' = [panel EXCEPT !.pending = r.property]
        /\ UNCHANGED <<linkPanelMatter, timer, linked, linkPanelActive, reported, linkPanelMoves>>
    BY <1>5, <2>1 DEF LinkPanel!attach, LinkPanel!Idle, LinkPanel!Result
  <2>3. Told(c)' /\ OfClick(c)
    BY <1>t, <2>1, <2>2 DEF Told, OfClick, LinkPanel!Attach
  <2>4. panel' \in Panel /\ panel'.links = panel.links /\ panel'.pending = r.property
    BY <1>t, <2>2 DEF Panel
  <2>5. Chain' = {c}
    BY <2>2, <2>3 DEF Chain, OfClick, LinksInv, OneClick
  <2>6. OneClick'
    BY <1>t, <2>2, <2>4, <2>5 DEF OneClick
  <2>. QED
    BY <1>t, <2>2, <2>3, <2>4, <2>6, LinksTypes, LinksGrow
<1>. QED
  BY <1>2, <1>3, <1>4, <1>5

LEMMA LinksServer ==
    ASSUME LinksAssumption, LinksInv,
           \/ \E p \in Property : LinkPanel!Deactivate(p)
           \/ \E c \in linkPanelCalls : LinkPanel!Serve(c) \/ LinkPanel!ReadLinks(c)
    PROVE  LinksInv'
<1>t. /\ linkPanelMatter \in Matter /\ panel \in Panel /\ timer \in Text \cup {Short}
      /\ linked \subseteq LinkPanel!Link /\ linkPanelActive \subseteq Property
      /\ reported \subseteq linked
      /\ panel.links \subseteq linked /\ linkPanelMoves \in 0 .. MaxVisits /\ MaxVisits \in Nat
  BY LinksTypes DEF LinksAssumption
<1>1. ASSUME NEW p \in Property, LinkPanel!Deactivate(p) PROVE LinksInv'
  <2>1. /\ linkPanelMoves < MaxVisits /\ linkPanelMoves' = linkPanelMoves + 1
        /\ linkPanelActive' = linkPanelActive \ {p}
        /\ UNCHANGED <<linkPanelMatter, panel, timer, linkPanelCalls, linked, reported>>
    BY <1>1 DEF LinkPanel!Deactivate
  <2>. QED
    BY <1>t, <2>1, LinksBeside
<1>2. ASSUME NEW c \in linkPanelCalls, LinkPanel!Serve(c) PROVE LinksInv'
  <2>0. PICK l, d : l = [matter |-> c.matter, property |-> c.property] /\ d = [c EXCEPT !.stored = TRUE]
    OBVIOUS
  <2>1. /\ c.kind = "attach" /\ linked' = linked \cup {l}
        /\ linkPanelCalls' = (linkPanelCalls \ {c}) \cup (IF c.awaited THEN {d} ELSE {})
        /\ UNCHANGED <<linkPanelMatter, panel, timer, linkPanelActive, reported, linkPanelMoves>>
    BY <1>2, <2>0 DEF LinkPanel!Serve
  <2>2. c \in LinkPanel!Attach
    BY <2>1, LinksTypes DEF LinkPanel!Load, LinkPanel!Search
  <2>3. /\ l \in LinkPanel!Link /\ d \in LinkPanel!Attach /\ d.matter = c.matter
        /\ d.property = c.property
        /\ d.awaited = c.awaited /\ d.kind = "attach"
    BY <2>0, <2>2 DEF LinkPanel!Link, LinkPanel!Attach
  <2>4. Told(d)'
    BY <2>0, <2>1, <2>3 DEF Told
  <2>5. OneClick'
    <3>1. CASE c.awaited
      <4>1. Chain = {c}
        BY <2>1, <3>1 DEF Chain, OfClick, LinksInv, OneClick
      <4>2. Chain' = {d}
        BY <2>1, <2>3, <3>1, <4>1 DEF Chain, OfClick
      <4>. QED
        BY <2>1, <4>1, <4>2 DEF LinksInv, OneClick
    <3>2. CASE ~c.awaited
      <4>1. Chain' = Chain
        BY <2>1, <3>2 DEF Chain, OfClick
      <4>. QED
        BY <2>1, <4>1 DEF LinksInv, OneClick
    <3>. QED
      BY <3>1, <3>2
  <2>6. linked \subseteq linked' /\ linked' \subseteq LinkPanel!Link
    BY <1>t, <2>1, <2>3
  <2>7. \A e \in linkPanelCalls' : e \in linkPanelCalls \/ Told(e)'
    BY <2>1, <2>4
  <2>. QED
    BY <1>t, <2>1, <2>5, <2>6, <2>7, LinksGrow
<1>3. ASSUME NEW c \in linkPanelCalls, LinkPanel!ReadLinks(c) PROVE LinksInv'
  <2>0. PICK d : d = [c EXCEPT !.rows = {l \in linked : l.matter = c.matter}]
    OBVIOUS
  <2>1. /\ c.kind = "load" /\ linkPanelCalls' = (linkPanelCalls \ {c}) \cup {d}
        /\ UNCHANGED <<linkPanelMatter, panel, timer, linked, linkPanelActive, reported, linkPanelMoves>>
    BY <1>3, <2>0 DEF LinkPanel!ReadLinks
  <2>2. c \in LinkPanel!Load
    BY <2>1, LinksTypes DEF LinkPanel!Attach, LinkPanel!Search
  <2>3. /\ d \in LinkPanel!Load /\ d.matter = c.matter /\ d.after = c.after
        /\ d.rows \subseteq linked /\ d.kind = "load"
    BY <1>t, <2>0, <2>2 DEF LinkPanel!Load
  <2>4. Told(d)'
    BY <2>1, <2>3, LinksTypes DEF Told
  <2>5. OneClick'
    <3>1. CASE c.after # NoProperty
      <4>1. Chain = {c}
        BY <2>1, <3>1 DEF Chain, OfClick, LinksInv, OneClick
      <4>2. Chain' = {d}
        BY <2>1, <2>3, <3>1, <4>1 DEF Chain, OfClick
      <4>. QED
        BY <2>1, <4>1, <4>2 DEF LinksInv, OneClick
    <3>2. CASE c.after = NoProperty
      <4>1. Chain' = Chain
        BY <2>1, <2>3, <3>2 DEF Chain, OfClick
      <4>. QED
        BY <2>1, <4>1 DEF LinksInv, OneClick
    <3>. QED
      BY <3>1, <3>2
  <2>. QED
    BY <1>t, <2>1, <2>4, <2>5, LinksGrow
<1>. QED
  BY <1>1, <1>2, <1>3

-----------------------------------------------------------------------------
(* The answers.                                                             *)

LEMMA LinksAnswers ==
    ASSUME LinksAssumption, LinksInv, NEW c \in linkPanelCalls,
           LinkPanel!SearchAnswers(c) \/ LinkPanel!SearchFails(c) \/ LinkPanel!AttachAnswers(c) \/ LinkPanel!AttachFails(c) \/ LinkPanel!NeverServed(c)
    PROVE  LinksInv'
<1>t. /\ linkPanelMatter \in Matter /\ panel \in Panel /\ timer \in Text \cup {Short}
      /\ linked \subseteq LinkPanel!Link /\ reported \subseteq linked
      /\ panel.links \subseteq linked /\ linkPanelMoves \in 0 .. MaxVisits /\ MaxVisits \in Nat
      /\ Told(c) /\ c \in LinkPanel!Load \cup LinkPanel!Attach \cup LinkPanel!Search
      /\ NoProperty \notin Property
  BY LinksTypes DEF LinksAssumption
<1>1. CASE LinkPanel!SearchAnswers(c) \/ LinkPanel!SearchFails(c)
  <2>1. PICK P \in SUBSET Property :
           panel' = [panel EXCEPT !.searching = FALSE,
                                  !.results = {[property |-> p, active |-> p \in linkPanelActive] : p \in P}]
    <3>1. CASE LinkPanel!SearchAnswers(c)
      <4>1. c \in LinkPanel!Search /\ matching[c.text] \in SUBSET Property
        BY <1>t, <3>1 DEF LinkPanel!SearchAnswers, LinkPanel!Load, LinkPanel!Attach,
           LinkPanel!Search, LinksAssumption
      <4>. QED
        BY <3>1, <4>1 DEF LinkPanel!SearchAnswers
    <3>2. CASE LinkPanel!SearchFails(c)
      <4>1. {[property |-> p, active |-> p \in linkPanelActive] : p \in {}} = {}
        OBVIOUS
      <4>2. panel' = [panel EXCEPT !.searching = FALSE,
                             !.results = {[property |-> p, active |-> p \in linkPanelActive] : p \in {}}]
        BY <3>2, <4>1 DEF LinkPanel!SearchFails
      <4>. QED
        BY <4>2
    <3>. QED
      BY <1>1, <3>1, <3>2
  <2>2. \A p \in P : [property |-> p, active |-> p \in linkPanelActive] \in LinkPanel!Result
    BY DEF LinkPanel!Result
  <2>3. panel' \in Panel /\ panel'.links = panel.links /\ panel'.pending = panel.pending
    BY <1>t, <2>1, <2>2 DEF Panel
  <2>4. /\ ~OfClick(c) /\ linkPanelCalls' = linkPanelCalls \ {c}
        /\ UNCHANGED <<linkPanelMatter, timer, linked, linkPanelActive, reported, linkPanelMoves>>
    BY <1>1 DEF LinkPanel!SearchAnswers, LinkPanel!SearchFails, OfClick
  <2>. QED
    BY <1>t, <2>3, <2>4, LinksBeside
<1>2. CASE LinkPanel!AttachAnswers(c)
  <2>0. PICK d : d = LinkPanel!LoadOf(c.matter, c.property)
    OBVIOUS
  <2>1. /\ c.kind = "attach" /\ c.awaited /\ c.stored
        /\ linkPanelCalls' = (linkPanelCalls \ {c}) \cup {d}
        /\ panel' = [panel EXCEPT !.failed = FALSE]
        /\ UNCHANGED <<linkPanelMatter, timer, linked, linkPanelActive, reported, linkPanelMoves>>
    BY <1>2, <2>0 DEF LinkPanel!AttachAnswers
  <2>2. c \in LinkPanel!Attach /\ c.property \in Property
    BY <1>t, <2>1 DEF LinkPanel!Load, LinkPanel!Attach, LinkPanel!Search
  <2>3. Told(d)' /\ OfClick(d)
    BY <1>t, <2>0, <2>1, <2>2 DEF Told, LinkPanel!LoadOf, LinkPanel!Load, LinkPanel!Attach,
       OfClick
  <2>4. panel' \in Panel /\ panel'.links = panel.links /\ panel'.pending = panel.pending
    BY <1>t, <2>1 DEF Panel
  <2>5. Chain = {c}
    BY <2>1 DEF Chain, OfClick, LinksInv, OneClick
  <2>6. Chain' = {d}
    BY <2>1, <2>3, <2>5 DEF Chain, OfClick
  <2>7. OneClick'
    BY <2>4, <2>5, <2>6 DEF LinksInv, OneClick
  <2>. QED
    BY <1>t, <2>1, <2>3, <2>4, <2>7, LinksGrow
<1>3. CASE LinkPanel!AttachFails(c)
  <2>0. PICK d : d = [c EXCEPT !.awaited = FALSE]
    OBVIOUS
  <2>1. /\ c.kind = "attach" /\ c.awaited /\ panel' = [panel EXCEPT !.pending = NoProperty]
        /\ linkPanelCalls' = linkPanelCalls \ {c} \/ (~c.stored /\ linkPanelCalls' = (linkPanelCalls \ {c}) \cup {d})
        /\ UNCHANGED <<linkPanelMatter, timer, linked, linkPanelActive, reported, linkPanelMoves>>
    BY <1>3, <2>0 DEF LinkPanel!AttachFails
  <2>2. c \in LinkPanel!Attach
    BY <1>t, <2>1 DEF LinkPanel!Load, LinkPanel!Search
  <2>3. (Told(d)' /\ ~OfClick(d)) \/ c.stored
    BY <1>t, <2>0, <2>1, <2>2 DEF Told, LinkPanel!Attach, OfClick
  <2>4. panel' \in Panel /\ panel'.links = panel.links /\ panel'.pending = NoProperty
    BY <1>t, <2>1 DEF Panel
  <2>5. Chain = {c}
    BY <2>1 DEF Chain, OfClick, LinksInv, OneClick
  <2>6. Chain' = {}
    BY <2>1, <2>3, <2>5 DEF Chain, OfClick
  <2>7. OneClick'
    BY <2>4, <2>6 DEF OneClick
  <2>. QED
    BY <1>t, <2>1, <2>3, <2>4, <2>7, LinksGrow
<1>4. CASE LinkPanel!NeverServed(c)
  <2>1. /\ ~OfClick(c) /\ linkPanelCalls' = linkPanelCalls \ {c}
        /\ UNCHANGED <<linkPanelMatter, panel, timer, linked, linkPanelActive, reported, linkPanelMoves>>
    BY <1>4 DEF LinkPanel!NeverServed, OfClick
  <2>. QED
    BY <1>t, <2>1, LinksBeside
<1>. QED
  BY <1>1, <1>2, <1>3, <1>4

\* A load ends, its own or the one behind a click.
LEMMA LinksConcludes ==
    ASSUME LinksAssumption, LinksInv, NEW c \in linkPanelCalls, c.kind = "load",
           NEW p \in Panel, p.links \subseteq linked, p.pending = panel.pending, LinkPanel!Conclude(c, p)
    PROVE  LinksInv'
<1>t. /\ linkPanelMatter \in Matter /\ timer \in Text \cup {Short}
      /\ linked \subseteq LinkPanel!Link /\ reported \subseteq linked
      /\ linkPanelMoves \in 0 .. MaxVisits
      /\ Told(c) /\ c \in LinkPanel!Load
  BY LinksTypes DEF LinkPanel!Attach, LinkPanel!Search
<1>1. /\ linkPanelCalls' = linkPanelCalls \ {c}
      /\ UNCHANGED <<linkPanelMatter, linked, linkPanelActive, linkPanelMoves>>
  BY DEF LinkPanel!Conclude
<1>2. CASE c.after = NoProperty
  <2>1. ~OfClick(c) /\ panel' = [p EXCEPT !.loading = FALSE] /\ UNCHANGED <<timer, reported>>
    BY <1>2 DEF LinkPanel!Conclude, OfClick
  <2>2. panel' \in Panel /\ panel'.links = p.links /\ panel'.pending = p.pending
    BY <2>1 DEF Panel
  <2>. QED
    BY <1>t, <1>1, <2>1, <2>2, LinksBeside
<1>3. CASE c.after # NoProperty
  <2>1. /\ panel' = [p EXCEPT !.loading = FALSE, !.attaching = FALSE, !.text = Short,
                              !.results = {}, !.pending = NoProperty]
        /\ timer' = Short
        /\ reported' = reported \cup {[matter |-> c.matter, property |-> c.after]}
    BY <1>3 DEF LinkPanel!Conclude
  <2>2. panel' \in Panel /\ panel'.links = p.links /\ panel'.pending = NoProperty
    BY <2>1 DEF Panel
  <2>3. reported' \subseteq linked
    BY <1>t, <1>3, <2>1 DEF Told
  <2>4. Chain' = {}
    BY <1>1, <1>3 DEF Chain, OfClick, LinksInv, OneClick
  <2>5. OneClick'
    BY <2>2, <2>4 DEF OneClick
  <2>. QED
    BY <1>t, <1>1, <2>1, <2>2, <2>3, <2>5, LinksGrow
<1>. QED
  BY <1>2, <1>3

LEMMA LinksLoads ==
    ASSUME LinksAssumption, LinksInv, NEW c \in linkPanelCalls, LinkPanel!LoadAnswers(c) \/ LinkPanel!LoadFails(c)
    PROVE  LinksInv'
<1>t. /\ panel \in Panel /\ panel.links \subseteq linked /\ Told(c) /\ c.kind = "load"
      /\ c \in LinkPanel!Load
      /\ linked \subseteq LinkPanel!Link
  BY LinksTypes DEF LinkPanel!LoadAnswers, LinkPanel!LoadFails, LinkPanel!Attach,
     LinkPanel!Search
<1>1. CASE LinkPanel!LoadAnswers(c)
  <2>1. PICK p : p = [panel EXCEPT !.links = c.rows]
    OBVIOUS
  <2>2. c.rows # NoRows /\ c.rows \subseteq linked /\ LinkPanel!Conclude(c, p)
    BY <1>t, <1>1, <2>1 DEF LinkPanel!LoadAnswers, Told
  <2>3. p \in Panel /\ p.links = c.rows /\ p.pending = panel.pending
    BY <1>t, <2>1, <2>2 DEF Panel
  <2>. QED
    BY <1>t, <2>2, <2>3, LinksConcludes
<1>2. CASE LinkPanel!LoadFails(c)
  <2>1. PICK p : p = [panel EXCEPT !.failed = TRUE]
    OBVIOUS
  <2>2. /\ p \in Panel /\ p.links = panel.links /\ p.pending = panel.pending
        /\ LinkPanel!Conclude(c, p)
    BY <1>t, <1>2, <2>1 DEF Panel, LinkPanel!LoadFails
  <2>. QED
    BY <1>t, <2>2, LinksConcludes
<1>. QED
  BY <1>1, <1>2

LEMMA LinksStep ==
    ASSUME LinksAssumption, LinksInv, [LinkPanel!Next]_(LinkPanel!vars)
    PROVE  LinksInv'
<1>1. CASE UNCHANGED LinkPanel!vars
  BY <1>1 DEF LinkPanel!vars, LinksInv, LinkPanel!TypeOK, LinkPanel!ReportedIsStored, Told,
     OneClick, Chain, OfClick
<1>. QED
  BY <1>1, LinksUser, LinksServer, LinksAnswers, LinksLoads DEF LinkPanel!Next

LEMMA LinksInit == ASSUME LinksAssumption, LinkPanel!Init PROVE LinksInv
<1>1. PICK c : c = LinkPanel!LoadOf(linkPanelMatter, NoProperty)
  OBVIOUS
<1>2. /\ linkPanelMatter \in Matter /\ timer = Short /\ linkPanelCalls = {c}
      /\ panel = [links |-> {}, loading |-> TRUE, failed |-> FALSE, attaching |-> FALSE,
                  text |-> Short, results |-> {}, searching |-> FALSE, pending |-> NoProperty]
      /\ linked = {} /\ linkPanelActive = Property /\ reported = {} /\ linkPanelMoves = 0
  BY <1>1 DEF LinkPanel!Init
<1>3. c \in LinkPanel!Load /\ c.kind = "load" /\ c.after = NoProperty /\ c.rows = NoRows
  BY <1>1, <1>2 DEF LinkPanel!LoadOf, LinkPanel!Load
<1>4. panel \in Panel /\ panel.links = {} /\ panel.pending = NoProperty
  BY <1>2 DEF Panel
<1>5. LinkPanel!TypeOK
  BY <1>2, <1>3, <1>4 DEF LinkPanel!TypeOK, Panel, LinksAssumption
<1>6. Chain = {}
  BY <1>2, <1>3 DEF Chain, OfClick
<1>. QED
  BY <1>2, <1>3, <1>4, <1>5, <1>6 DEF LinksInv, LinkPanel!ReportedIsStored, Told, OneClick

-----------------------------------------------------------------------------

\* The invariant of the panel of properties.
THEOREM LinksKeep == ASSUME LinksAssumption PROVE LinkPanel!Spec => []LinksInv
<1>1. LinkPanel!Init => LinksInv
  BY LinksInit
<1>2. LinksInv /\ [LinkPanel!Next]_(LinkPanel!vars) => LinksInv'
  BY LinksStep
<1>. QED
  BY <1>1, <1>2, PTL DEF LinkPanel!Spec

\* The number of elements of a set is that of its definition.
LEMMA LinksCardinality == \A S : LinkPanel!Cardinality(S) = Cardinality(S)
BY DEF LinkPanel!Cardinality, Cardinality

\* What the list shows and a click reports is stored, and the results are blocked exactly
\* while the click is under way.
THEOREM LinksReported ==
    ASSUME LinksAssumption PROVE LinkPanel!Spec => [](LinkPanel!ReportedIsStored /\ LinkPanel!PendingIsOneClick)
<1>1. LinksInv => LinkPanel!ReportedIsStored /\ LinkPanel!PendingIsOneClick
  <2>. SUFFICES ASSUME LinksInv PROVE LinkPanel!ReportedIsStored /\ LinkPanel!PendingIsOneClick
    OBVIOUS
  <2>1. Chain = {c \in linkPanelCalls : \/ c.kind = "attach" /\ c.awaited
                                        \/ c.kind = "load" /\ c.after # NoProperty}
    BY DEF Chain, OfClick
  <2>2. Chain = {} \/ \E c : Chain = {c}
    BY DEF LinksInv, OneClick
  <2>3. Cardinality(Chain) <= 1
    <3>1. CASE Chain = {}
      BY <3>1, FS_EmptySet, LinksCardinality
    <3>2. CASE \E c : Chain = {c}
      <4>1. Cardinality(Chain) = 1
        BY <3>2, FS_Singleton, LinksCardinality
      <4>. QED
        BY <4>1
    <3>. QED
      BY <2>2, <3>1, <3>2
  <2>4. panel.pending # NoProperty <=> Chain # {}
    BY DEF LinksInv, OneClick
  <2>. QED
    BY <2>1, <2>3, <2>4, LinksCardinality DEF LinksInv, LinkPanel!PendingIsOneClick
<1>. QED
  BY <1>1, LinksKeep, PTL

\* The panel, its calls and the links keep their types.
THEOREM LinksTypeOK == ASSUME LinksAssumption PROVE LinkPanel!Spec => []LinkPanel!TypeOK
<1>1. LinksInv => LinkPanel!TypeOK
  BY DEF LinksInv
<1>. QED
  BY <1>1, LinksKeep, PTL

-----------------------------------------------------------------------------
(***************************************************************************)
(* The steps before there is a session, for any identities, accounts and   *)
(* codes.  The one call under way is why the page is busy; a resend is for *)
(* the account of the form, wherever the user has gone meanwhile.          *)
(***************************************************************************)
LoginAssumption ==
    /\ NoUser \notin User /\ MaxCodes \in Nat
    /\ accountsOf \in [Identity -> SUBSET User]

LoginPage ==
    [step: {"credentials", "accounts", "otp"}, identifier: Identity, accounts: SUBSET User,
     userId: User \cup {NoUser}, pin: Login!Code \cup {0}, busy: BOOLEAN]

LoginTyped ==
    /\ loginPage \in LoginPage /\ loginCalls \subseteq Login!Call
    /\ loginSent \in Seq(User) /\ Len(loginSent) <= MaxCodes /\ spent \subseteq Login!Code
    /\ session \in User \cup {NoUser}

\* Whom a call is for.
ForAccount(c) ==
    /\ c.kind = "initiate" => c.from # "otp"
    /\ c.kind # "initiate" => c.user \in User
    /\ c.kind = "login" => c.code \in Login!Code
    /\ c.kind = "otp" /\ c.from = "otp" /\ loginPage.step = "otp" => c.user = loginPage.userId

FormOfAccount ==
    loginPage.step = "otp" =>
             /\ loginPage.userId \in User /\ loginPage.pin \in 1 .. Len(loginSent)
             /\ loginSent[loginPage.pin] = loginPage.userId

LoginInv == LoginTyped /\ Login!BusyIsOneCall /\ (\A c \in loginCalls : ForAccount(c)) /\ FormOfAccount

-----------------------------------------------------------------------------

LEMMA LoginTypes ==
    ASSUME LoginInv
    PROVE  /\ loginPage \in LoginPage /\ loginCalls \subseteq Login!Call /\ loginSent \in Seq(User)
           /\ Len(loginSent) \in Nat /\ Len(loginSent) <= MaxCodes /\ spent \subseteq Login!Code
           /\ session \in User \cup {NoUser}
           /\ \A c \in loginCalls : ForAccount(c) /\ loginPage.busy /\ \A d \in loginCalls : d = c
BY DEF LoginInv, LoginTyped, Login!BusyIsOneCall

\* The page is idle, its call over; the form, if it is shown, is of an account.
LEMMA LoginIdle ==
    ASSUME LoginAssumption, LoginInv, loginCalls' = {}, loginPage' \in LoginPage,
           ~loginPage'.busy,
           loginSent' \in Seq(User), Len(loginSent') <= MaxCodes, spent' \subseteq Login!Code,
           session' \in User \cup {NoUser}, FormOfAccount'
    PROVE  LoginInv'
BY DEF LoginInv, LoginTyped, Login!BusyIsOneCall

\* One call is under way.
LEMMA LoginBusy ==
    ASSUME LoginAssumption, LoginInv, NEW c \in Login!Call, loginCalls' = {c},
           loginPage' \in LoginPage, loginPage'.busy,
           ForAccount(c)', UNCHANGED <<loginSent, spent, session>>, FormOfAccount'
    PROVE  LoginInv'
BY DEF LoginInv, LoginTyped, Login!BusyIsOneCall

LEMMA LoginSubmit ==
    ASSUME LoginAssumption, LoginInv, NEW kind \in {"initiate", "otp", "login"},
           NEW user \in User \cup {NoUser}, NEW code \in Login!Code \cup {0}, Login!Submit(kind, user, code),
           kind = "initiate" => loginPage.step # "otp", kind # "initiate" => user = loginPage.userId /\ user \in User,
           kind = "login" => code \in Login!Code
    PROVE  LoginInv'
<1>1. PICK c : c = [kind |-> kind, from |-> loginPage.step, id |-> loginPage.identifier,
                    user |-> user, code |-> code]
  OBVIOUS
<1>2. /\ loginCalls' = {c} /\ loginPage' = [loginPage EXCEPT !.busy = TRUE]
      /\ UNCHANGED <<loginSent, spent, session>>
  BY <1>1 DEF Login!Submit, Login!blocked, LoginInv, Login!BusyIsOneCall
<1>3. c \in Login!Call
  BY <1>1, LoginTypes DEF LoginPage, Login!Call
<1>4. /\ loginPage' \in LoginPage /\ loginPage'.busy /\ loginPage'.step = loginPage.step
      /\ loginPage'.userId = loginPage.userId
      /\ loginPage'.pin = loginPage.pin
  BY <1>2, LoginTypes DEF LoginPage
<1>5. ForAccount(c)'
  BY <1>1, <1>4 DEF ForAccount
<1>6. FormOfAccount'
  BY <1>2, <1>4 DEF LoginInv, FormOfAccount
<1>. QED
  BY <1>2, <1>3, <1>4, <1>5, <1>6, LoginBusy

LEMMA LoginUser ==
    ASSUME LoginAssumption, LoginInv,
           \/ \E i \in Identity : Login!Type(i)
           \/ Login!handleCredentials \/ Login!handleResend \/ Login!Back \/ Login!StartOver \/ Login!Logout
           \/ \E u \in User : Login!handleAccountSelect(u)
           \/ \E n \in Login!Code : Login!handleOtp(n)
    PROVE  LoginInv'
<1>0. loginPage \in LoginPage /\ NoUser \notin User
  BY LoginTypes DEF LoginAssumption
<1>1. CASE Login!handleCredentials
  BY <1>0, <1>1, LoginSubmit DEF Login!handleCredentials
<1>2. CASE Login!handleResend
  <2>1. loginPage.userId \in User /\ Login!Submit("otp", loginPage.userId, 0)
    BY <1>0, <1>2 DEF Login!handleResend, LoginPage
  <2>. QED
    BY <2>1, LoginSubmit
<1>3. ASSUME NEW u \in User, Login!handleAccountSelect(u) PROVE LoginInv'
  BY <1>3, LoginSubmit DEF Login!handleAccountSelect
<1>4. ASSUME NEW n \in Login!Code, Login!handleOtp(n) PROVE LoginInv'
  <2>1. loginPage.userId \in User /\ Login!Submit("login", loginPage.userId, n)
    BY <1>0, <1>4 DEF Login!handleOtp, LoginPage
  <2>. QED
    BY <2>1, LoginSubmit
\* The user moves about; the call goes on.
<1>5. ASSUME loginPage' \in LoginPage, loginPage'.busy = loginPage.busy,
             loginPage'.step # "otp",
             UNCHANGED <<loginCalls, loginSent, spent, session>>
      PROVE  LoginInv'
  BY <1>5 DEF LoginInv, LoginTyped, Login!BusyIsOneCall, ForAccount, FormOfAccount
<1>6. ASSUME NEW i \in Identity, Login!Type(i) PROVE LoginInv'
  <2>1. loginPage.step = "credentials" /\ loginPage' = [loginPage EXCEPT !.identifier = i]
        /\ UNCHANGED <<loginCalls, loginSent, spent, session>>
    BY <1>6 DEF Login!Type
  <2>2. loginPage' \in LoginPage /\ loginPage'.busy = loginPage.busy /\ loginPage'.step # "otp"
    BY <1>0, <2>1 DEF LoginPage
  <2>. QED
    BY <1>5, <2>1, <2>2
<1>7. CASE Login!Back \/ Login!StartOver
  <2>1. /\ UNCHANGED <<loginCalls, loginSent, spent, session>>
        /\ \/ loginPage' = [loginPage EXCEPT !.step = "credentials"]
           \/ loginPage' = [loginPage EXCEPT !.step = "credentials", !.userId = NoUser]
    BY <1>7 DEF Login!Back, Login!StartOver
  <2>2. loginPage' \in LoginPage /\ loginPage'.busy = loginPage.busy /\ loginPage'.step # "otp"
    BY <1>0, <2>1 DEF LoginPage
  <2>. QED
    BY <1>5, <2>1, <2>2
<1>8. CASE Login!Logout
  BY <1>8 DEF Login!Logout, LoginInv, LoginTyped, Login!BusyIsOneCall, ForAccount,
     FormOfAccount
<1>. QED
  BY <1>1, <1>2, <1>3, <1>4, <1>6, <1>7, <1>8

-----------------------------------------------------------------------------
(* The answers.                                                             *)

\* A code that is sent has the next number, and the earlier ones keep theirs.
LEMMA LoginAppend ==
    ASSUME LoginAssumption, LoginInv, NEW u \in User, Len(loginSent) < MaxCodes,
           loginSent' = Append(loginSent, u)
    PROVE  /\ loginSent' \in Seq(User) /\ Len(loginSent') = Len(loginSent) + 1
           /\ Len(loginSent') <= MaxCodes
           /\ loginSent'[Len(loginSent) + 1] = u /\ Len(loginSent) + 1 \in Login!Code
           /\ \A n \in 1 .. Len(loginSent) : n \in 1 .. Len(loginSent') /\ loginSent'[n] = loginSent[n]
<1>1. loginSent \in Seq(User) /\ Len(loginSent) \in Nat /\ MaxCodes \in Nat
  BY LoginTypes DEF LoginAssumption
<1>2. /\ loginSent' \in Seq(User) /\ Len(loginSent') = Len(loginSent) + 1
      /\ loginSent'[Len(loginSent) + 1] = u
      /\ \A n \in 1 .. Len(loginSent) : loginSent'[n] = loginSent[n]
  BY <1>1, AppendProperties
<1>. QED
  BY <1>1, <1>2 DEF Login!Code

\* The call is over without a form for another account.
LEMMA LoginEnds ==
    ASSUME LoginAssumption, LoginInv, NEW c \in loginCalls, loginCalls' = loginCalls \ {c},
           loginPage' \in LoginPage, ~loginPage'.busy,
           loginPage'.step = "otp" => loginPage.step = "otp" /\ loginPage'.userId = loginPage.userId /\ loginPage'.pin = loginPage.pin,
           loginSent' \in Seq(User), Len(loginSent') <= MaxCodes,
           \A n \in 1 .. Len(loginSent) : n \in 1 .. Len(loginSent') /\ loginSent'[n] = loginSent[n],
           spent' \subseteq Login!Code, UNCHANGED session
    PROVE  LoginInv'
<1>1. loginCalls' = {}
  BY LoginTypes
<1>2. FormOfAccount'
  BY DEF LoginInv, FormOfAccount
<1>. QED
  BY <1>1, <1>2, LoginTypes, LoginIdle

LEMMA LoginAnswers ==
    ASSUME LoginAssumption, LoginInv, NEW c \in loginCalls,
           \/ Login!Fails(c) \/ Login!SeveralAccounts(c) \/ Login!StillSeveral(c) \/ Login!OtpSent(c) \/ Login!OtpReplyLost(c)
           \/ Login!LoginSucceeds(c) \/ Login!LoginReplyLost(c) \/ \E u \in User : Login!Resolved(c, u)
    PROVE  LoginInv'
<1>0. /\ loginPage \in LoginPage /\ c \in Login!Call /\ ForAccount(c) /\ loginPage.busy
      /\ loginCalls = {c}
      /\ loginSent \in Seq(User) /\ Len(loginSent) \in Nat /\ Len(loginSent) <= MaxCodes
      /\ spent \subseteq Login!Code
      /\ NoUser \notin User /\ MaxCodes \in Nat
  BY LoginTypes DEF LoginAssumption
<1>1. CASE Login!Fails(c)
  <2>1. /\ loginCalls' = loginCalls \ {c} /\ UNCHANGED <<loginSent, spent, session>>
        /\ loginPage' = [loginPage EXCEPT !.busy = FALSE,
                                          !.step = IF c.from = "accounts" THEN "credentials" ELSE @]
    BY <1>1 DEF Login!Fails
  <2>2. loginPage' \in LoginPage /\ ~loginPage'.busy
        /\ (loginPage'.step = "otp" => loginPage.step = "otp")
        /\ loginPage'.userId = loginPage.userId /\ loginPage'.pin = loginPage.pin
    BY <1>0, <2>1 DEF LoginPage
  <2>. QED
    BY <1>0, <2>1, <2>2, LoginEnds
<1>2. CASE Login!StillSeveral(c)
  <2>1. /\ loginCalls' = loginCalls \ {c} /\ UNCHANGED <<loginSent, spent, session>>
        /\ loginPage' = [loginPage EXCEPT !.busy = FALSE]
    BY <1>2 DEF Login!StillSeveral
  <2>2. loginPage' \in LoginPage /\ ~loginPage'.busy
        /\ loginPage'.step = loginPage.step /\ loginPage'.userId = loginPage.userId
        /\ loginPage'.pin = loginPage.pin
    BY <1>0, <2>1 DEF LoginPage
  <2>. QED
    BY <1>0, <2>1, <2>2, LoginEnds
<1>3. ASSUME NEW u \in User, Login!Resolved(c, u) PROVE LoginInv'
  <2>1. PICK d : d = [c EXCEPT !.kind = "otp", !.user = u]
    OBVIOUS
  <2>2. /\ c.kind = "initiate" /\ loginCalls' = {d}
        /\ UNCHANGED <<loginPage, loginSent, spent, session>>
    BY <1>0, <1>3, <2>1 DEF Login!Resolved
  <2>3. d \in Login!Call /\ d.user \in User /\ d.kind = "otp" /\ d.from # "otp"
    BY <1>0, <2>1, <2>2 DEF Login!Call, ForAccount
  <2>4. ForAccount(d)' /\ FormOfAccount'
    BY <2>2, <2>3 DEF ForAccount, LoginInv, FormOfAccount
  <2>. QED
    BY <1>0, <2>2, <2>3, <2>4, LoginBusy
<1>4. CASE Login!SeveralAccounts(c)
  <2>1. /\ loginCalls' = loginCalls \ {c} /\ UNCHANGED <<loginSent, spent, session>>
        /\ loginPage' = [loginPage EXCEPT !.accounts = accountsOf[c.id], !.step = "accounts", !.busy = FALSE]
    BY <1>4 DEF Login!SeveralAccounts
  <2>2. accountsOf[c.id] \in SUBSET User
    BY <1>0 DEF LoginAssumption, Login!Call
  <2>3. loginPage' \in LoginPage /\ ~loginPage'.busy /\ loginPage'.step # "otp"
    BY <1>0, <2>1, <2>2 DEF LoginPage
  <2>. QED
    BY <1>0, <2>1, <2>3, LoginEnds
<1>5. CASE Login!OtpSent(c)
  <2>1. /\ c.kind = "otp" /\ Len(loginSent) < MaxCodes /\ loginSent' = Append(loginSent, c.user)
        /\ loginCalls' = {}
        /\ UNCHANGED <<spent, session>>
    BY <1>0, <1>5 DEF Login!OtpSent
  <2>2. c.user \in User
    BY <1>0, <2>1 DEF ForAccount
  <2>3. /\ loginSent' \in Seq(User) /\ Len(loginSent') = Len(loginSent) + 1
        /\ Len(loginSent') <= MaxCodes
        /\ loginSent'[Len(loginSent) + 1] = c.user /\ Len(loginSent) + 1 \in Login!Code
    BY <2>1, <2>2, LoginAppend
  <2>4. CASE c.from = "otp"
    <3>1. loginPage' = [loginPage EXCEPT !.pin = Len(loginSent) + 1, !.busy = FALSE]
      BY <1>5, <2>4 DEF Login!OtpSent
    <3>2. loginPage' \in LoginPage /\ ~loginPage'.busy /\ loginPage'.pin = Len(loginSent) + 1
          /\ loginPage'.step = loginPage.step /\ loginPage'.userId = loginPage.userId
      BY <1>0, <2>3, <3>1 DEF LoginPage
    <3>3. loginPage.step = "otp" => c.user = loginPage.userId
      BY <1>0, <2>1, <2>4 DEF ForAccount
    <3>4. FormOfAccount'
      BY <1>0, <2>2, <2>3, <3>2, <3>3 DEF FormOfAccount
    <3>. QED
      BY <2>1, <2>3, <3>2, <3>4, LoginTypes, LoginIdle
  <2>5. CASE c.from # "otp"
    <3>1. loginPage' = [loginPage EXCEPT !.userId = c.user, !.pin = Len(loginSent) + 1, !.step = "otp", !.busy = FALSE]
      BY <1>5, <2>5 DEF Login!OtpSent
    <3>2. /\ loginPage' \in LoginPage /\ ~loginPage'.busy /\ loginPage'.pin = Len(loginSent) + 1
          /\ loginPage'.userId = c.user
      BY <1>0, <2>2, <2>3, <3>1 DEF LoginPage
    <3>3. FormOfAccount'
      BY <1>0, <2>2, <2>3, <3>2 DEF FormOfAccount
    <3>. QED
      BY <2>1, <2>3, <3>2, <3>3, LoginTypes, LoginIdle
  <2>. QED
    BY <2>4, <2>5
<1>6. CASE Login!OtpReplyLost(c)
  <2>1. /\ c.kind = "otp" /\ Len(loginSent) < MaxCodes /\ loginSent' = Append(loginSent, c.user)
        /\ loginCalls' = loginCalls \ {c} /\ UNCHANGED <<spent, session>>
        /\ loginPage' = [loginPage EXCEPT !.busy = FALSE,
                                          !.step = IF c.from = "accounts" THEN "credentials" ELSE @]
    BY <1>6 DEF Login!OtpReplyLost
  <2>2. c.user \in User
    BY <1>0, <2>1 DEF ForAccount
  <2>3. loginPage' \in LoginPage /\ ~loginPage'.busy
        /\ (loginPage'.step = "otp" => loginPage.step = "otp")
        /\ loginPage'.userId = loginPage.userId /\ loginPage'.pin = loginPage.pin
    BY <1>0, <2>1 DEF LoginPage
  <2>4. /\ loginSent' \in Seq(User) /\ Len(loginSent') <= MaxCodes
        /\ \A n \in 1 .. Len(loginSent) : n \in 1 .. Len(loginSent') /\ loginSent'[n] = loginSent[n]
    BY <2>1, <2>2, LoginAppend
  <2>. QED
    BY <1>0, <2>1, <2>3, <2>4, LoginEnds
<1>7. CASE Login!LoginSucceeds(c)
  <2>1. /\ c.kind = "login" /\ spent' = spent \cup {c.code} /\ session' = c.user
        /\ loginPage' = Login!Mounted(c.id) /\ loginCalls' = {} /\ UNCHANGED loginSent
    BY <1>7 DEF Login!LoginSucceeds
  <2>2. loginPage' \in LoginPage /\ ~loginPage'.busy /\ loginPage'.step # "otp" /\ c.user \in User
    BY <1>0, <2>1 DEF Login!Mounted, LoginPage, Login!Call, ForAccount
  <2>3. spent' \subseteq Login!Code
    BY <1>0, <2>1 DEF ForAccount
  <2>. QED
    BY <1>0, <2>1, <2>2, <2>3, LoginIdle DEF FormOfAccount
<1>8. CASE Login!LoginReplyLost(c)
  <2>1. /\ c.kind = "login" /\ spent' = spent \cup {c.code} /\ loginCalls' = loginCalls \ {c}
        /\ loginPage' = [loginPage EXCEPT !.busy = FALSE] /\ UNCHANGED <<loginSent, session>>
    BY <1>8 DEF Login!LoginReplyLost
  <2>2. loginPage' \in LoginPage /\ ~loginPage'.busy
        /\ loginPage'.step = loginPage.step /\ loginPage'.userId = loginPage.userId
        /\ loginPage'.pin = loginPage.pin
    BY <1>0, <2>1 DEF LoginPage
  <2>3. spent' \subseteq Login!Code
    BY <1>0, <2>1 DEF ForAccount
  <2>. QED
    BY <1>0, <2>1, <2>2, <2>3, LoginEnds
<1>. QED
  BY <1>1, <1>2, <1>3, <1>4, <1>5, <1>6, <1>7, <1>8

LEMMA LoginElsewhere ==
    ASSUME LoginAssumption, LoginInv, NEW u \in User, Login!SentElsewhere(u)
    PROVE  LoginInv'
<1>1. /\ Len(loginSent) < MaxCodes /\ loginSent' = Append(loginSent, u)
      /\ UNCHANGED <<loginPage, loginCalls, spent, session>>
  BY DEF Login!SentElsewhere
<1>2. /\ loginSent' \in Seq(User) /\ Len(loginSent') <= MaxCodes
      /\ \A n \in 1 .. Len(loginSent) : n \in 1 .. Len(loginSent') /\ loginSent'[n] = loginSent[n]
  BY <1>1, LoginAppend
<1>3. FormOfAccount'
  BY <1>1, <1>2 DEF LoginInv, FormOfAccount
<1>. QED
  BY <1>1, <1>2, <1>3 DEF LoginInv, LoginTyped, Login!BusyIsOneCall, ForAccount

LEMMA LoginStep == ASSUME LoginAssumption, LoginInv, [Login!Next]_(Login!vars) PROVE LoginInv'
<1>1. CASE UNCHANGED Login!vars
  BY <1>1 DEF Login!vars, LoginInv, LoginTyped, Login!BusyIsOneCall, ForAccount,
     FormOfAccount
<1>. QED
  BY <1>1, LoginUser, LoginAnswers, LoginElsewhere DEF Login!Next

LEMMA LoginInit == ASSUME LoginAssumption, Login!Init PROVE LoginInv
<1>1. PICK i \in Identity : loginPage = Login!Mounted(i)
  BY DEF Login!Init
<1>2. loginPage \in LoginPage /\ ~loginPage.busy /\ loginPage.step # "otp"
  BY <1>1 DEF Login!Mounted, LoginPage
<1>3. loginCalls = {} /\ loginSent = <<>> /\ spent = {} /\ session = NoUser
  BY DEF Login!Init
<1>4. loginSent \in Seq(User) /\ Len(loginSent) <= MaxCodes
  BY <1>3 DEF LoginAssumption
<1>. QED
  BY <1>2, <1>3, <1>4 DEF LoginInv, LoginTyped, Login!BusyIsOneCall, FormOfAccount

-----------------------------------------------------------------------------

\* The invariant of the login page.
THEOREM LoginKeep == ASSUME LoginAssumption PROVE Login!Spec => []LoginInv
<1>1. Login!Init => LoginInv
  BY LoginInit
<1>2. LoginInv /\ [Login!Next]_(Login!vars) => LoginInv'
  BY LoginStep
<1>. QED
  BY <1>1, <1>2, PTL DEF Login!Spec

\* The PIN beside the field was sent to the account of the form, and the page is busy
\* exactly while one call is under way.
THEOREM LoginPinOfAccount ==
    ASSUME LoginAssumption PROVE Login!Spec => [](Login!PinOfAccount /\ Login!BusyIsOneCall)
<1>1. LoginInv => Login!PinOfAccount /\ Login!BusyIsOneCall
  BY DEF LoginInv, FormOfAccount, Login!PinOfAccount, LoginAssumption
<1>. QED
  BY <1>1, LoginKeep, PTL

\* The gate passes the own pages of a current browser, and no foreign request with cookies.
THEOREM LoginGate == Login!GateTrustsOwnPages
<1>. SUFFICES ASSUME NEW production \in BOOLEAN, NEW allowlist \in BOOLEAN
              PROVE  /\ \A h \in Login!FromOwnPage : Login!trustedAuthOrigin(h, production, allowlist)
                     /\ \A h \in Login!FromForeignPage : h.cookie => ~Login!trustedAuthOrigin(h, production, allowlist)
  BY DEF Login!GateTrustsOwnPages
<1>1. ASSUME NEW h \in Login!FromOwnPage PROVE Login!trustedAuthOrigin(h, production, allowlist)
  BY DEF Login!FromOwnPage, Login!trustedAuthOrigin
<1>2. ASSUME NEW h \in Login!FromForeignPage, h.cookie
      PROVE  ~Login!trustedAuthOrigin(h, production, allowlist)
  BY <1>2 DEF Login!FromForeignPage, Login!trustedAuthOrigin
<1>. QED
  BY <1>1, <1>2

\* The page, its calls and the codes keep their types.
THEOREM LoginTypeOK == ASSUME LoginAssumption PROVE Login!Spec => []Login!TypeOK
<1>1. LoginInv => Login!TypeOK
  BY DEF LoginInv, LoginTyped, LoginPage, Login!TypeOK
<1>. QED
  BY <1>1, LoginKeep, PTL

-----------------------------------------------------------------------------
(***************************************************************************)
(* The list of transfers, for any number of transfers, rows of a page and  *)
(* requests.  The newest request asks what the buttons show, and it is the *)
(* only one whose answer is taken; a page of the order by age is no longer *)
(* than its limit, for ranks are distinct.                                 *)
(***************************************************************************)
ListAssumption ==
    /\ MaxTransfer \in Nat /\ MaxListChanges \in Nat
    /\ Limit \in Nat \ {0} /\ MaxRequest \in Nat \ {0}

Shown ==
    [mounted: BOOLEAN, filter: List!Filter, page: List!Pages, transfers: List!Rows,
     pagination: List!Pagination \cup {NoTotals}, statusTotals: List!Totals \cup {NoTotals},
     isLoading: BOOLEAN, error: BOOLEAN]

\* What may stand as rows of an answer.
RowsFor(rows, filter) ==
    /\ rows \in List!Rows /\ \A t \in DOMAIN rows : List!Matches(filter, rows[t])
    /\ Cardinality(DOMAIN rows) <= Limit

\* How far a request has come, and what the newest one asks.
ListInOrder(c) ==
    /\ c \in List!Call /\ c.request <= listRequest
    /\ c.rows # Unread => c.total \in 0 .. MaxTransfer /\ RowsFor(c.rows, c.filter)
    /\ c.totals # Unread => c.rows # Unread
    /\ listPage.mounted /\ List!Current(c) => c.filter = listPage.filter /\ c.page = listPage.page

NumberedApart == \A c, d \in listCalls : c.request = d.request => c = d

ListInv ==
    /\ List!TypeOK /\ listPage.page <= listRequest /\ (\A c \in listCalls : ListInOrder(c))
    /\ NumberedApart
    /\ List!ListIsSelected /\ List!LoadingIsNewest

-----------------------------------------------------------------------------

LEMMA ListTypes ==
    ASSUME ListAssumption, ListInv
    PROVE  /\ listPage \in Shown /\ listRequest \in 0 .. MaxRequest /\ listCalls \subseteq List!Call
           /\ status \in [List!Transfer -> List!Stored \cup {"none"}]
           /\ changes \in 0 .. MaxListChanges
           /\ MaxTransfer \in Nat /\ MaxListChanges \in Nat /\ Limit \in Nat /\ Limit # 0
           /\ MaxRequest \in Nat
           /\ \A c \in listCalls : ListInOrder(c)
BY DEF ListAssumption, ListInv, List!TypeOK, Shown

\* The number of elements of a set is that of its definition.
LEMMA ListCardinality == \A S : List!Cardinality(S) = Cardinality(S)
BY DEF List!Cardinality, Cardinality

LEMMA ListDivision ==
    ASSUME NEW a \in Nat, NEW b \in Nat \ {0}
    PROVE  /\ a % b \in 0 .. b - 1
           /\ \A c \in Nat : a \div b = c \div b /\ a % b = c % b => a = c
<1>1. a % b \in 0 .. b - 1
  BY SMT
<1>2. ASSUME NEW c \in Nat, a \div b = c \div b, a % b = c % b PROVE a = c
  BY <1>2, SMT
<1>. QED
  BY <1>1, <1>2

\* A set of transfers is finite, and counts no more than there are.
LEMMA ListCount ==
    ASSUME MaxTransfer \in Nat, NEW S \in SUBSET List!Transfer
    PROVE  IsFiniteSet(S) /\ Cardinality(S) \in 0 .. MaxTransfer
<1>1. IsFiniteSet(1 .. MaxTransfer) /\ Cardinality(1 .. MaxTransfer) = MaxTransfer
  BY FS_Interval, ListCardinality
<1>2. IsFiniteSet(S) /\ Cardinality(S) <= MaxTransfer
  BY <1>1, FS_Subset, ListCardinality DEF List!Transfer
<1>. QED
  BY <1>2, FS_CardinalityType, ListCardinality

\* The older of two transfers has more newer ones, of any selection that holds the younger.
LEMMA ListRanks ==
    ASSUME MaxTransfer \in Nat, NEW S \in SUBSET List!Transfer, NEW t \in S, NEW u \in S,
           t < u
    PROVE  Cardinality({v \in S : v > u}) # Cardinality({v \in S : v > t})
<1>1. PICK T, U : T = {v \in S : v > t} /\ U = {v \in S : v > u}
  OBVIOUS
<1>. \A v \in S : v \in Nat
  BY DEF List!Transfer
<1>2. T \in SUBSET List!Transfer /\ U \in SUBSET T /\ u \in T /\ u \notin U
  <2>1. \A v \in U : v \in S /\ v > t
    BY <1>1
  <2>. QED
    BY <1>1, <2>1
<1>3. IsFiniteSet(T)
  BY <1>2, ListCount
<1>4. Cardinality(T) = Cardinality(U) => T = U
  BY <1>2, <1>3, FS_Subset, ListCardinality
<1>. QED
  BY <1>1, <1>2, <1>4

\* A page of the selection in the order of age.
LEMMA ListPage ==
    ASSUME MaxTransfer \in Nat, Limit \in Nat \ {0}, NEW S \in SUBSET List!Transfer, NEW k,
           NEW P \in SUBSET S, \A t \in P : Cardinality({u \in S : u > t}) \div Limit = k
    PROVE  Cardinality(P) <= Limit
<1>1. PICK rank : rank = [t \in S |-> Cardinality({u \in S : u > t})]
  OBVIOUS
<1>2. \A t \in S : rank[t] \in Nat /\ t \in Nat
  <2>. SUFFICES ASSUME NEW t \in S PROVE rank[t] \in Nat /\ t \in Nat
    OBVIOUS
  <2>1. {u \in S : u > t} \in SUBSET List!Transfer
    OBVIOUS
  <2>. QED
    BY <1>1, <2>1, ListCount DEF List!Transfer
<1>3. \A t, u \in S : rank[t] = rank[u] => t = u
  <2>. SUFFICES ASSUME NEW t \in S, NEW u \in S, rank[t] = rank[u], t # u PROVE FALSE
    OBVIOUS
  <2>1. t < u \/ u < t
    BY <1>2
  <2>. QED
    BY <1>1, <2>1, ListRanks
<1>4. PICK f : f = [t \in P |-> rank[t] % Limit]
  OBVIOUS
<1>5. f \in [P -> 0 .. Limit - 1]
  BY <1>2, <1>4, ListDivision
<1>6. \A t, u \in P : f[t] = f[u] => t = u
  <2>. SUFFICES ASSUME NEW t \in P, NEW u \in P, f[t] = f[u] PROVE t = u
    OBVIOUS
  <2>1. rank[t] \div Limit = rank[u] \div Limit /\ rank[t] % Limit = rank[u] % Limit
    BY <1>1, <1>4
  <2>2. rank[t] = rank[u]
    BY <1>2, <2>1, ListDivision
  <2>. QED
    BY <1>3, <2>2
<1>7. f \in Injection(P, 0 .. Limit - 1)
  BY <1>5, <1>6 DEF Injection, IsInjective
<1>8. IsFiniteSet(0 .. Limit - 1) /\ Cardinality(0 .. Limit - 1) = Limit
  BY FS_Interval, ListCardinality
<1>. QED
  BY <1>7, <1>8, FS_Injection, ListCardinality

-----------------------------------------------------------------------------
(* The page.                                                                *)

LEMMA ListFetching ==
    ASSUME ListAssumption, ListInv, NEW f \in List!Filter, NEW p \in List!Pages,
           p <= listRequest + 1, List!Fetching(f, p)
    PROVE  ListInv'
<1>1. PICK c : c = [request |-> listRequest + 1, filter |-> f, page |-> p,
                    total |-> Unread, rows |-> Unread, totals |-> Unread]
  OBVIOUS
<1>2. /\ listRequest < MaxRequest /\ listRequest' = listRequest + 1
      /\ listCalls' = listCalls \cup {c}
      /\ listPage' = [mounted |-> TRUE, filter |-> f, page |-> p, transfers |-> List!None,
                      pagination |-> NoTotals, statusTotals |-> NoTotals, isLoading |-> TRUE, error |-> FALSE]
      /\ UNCHANGED <<status, changes>>
  BY <1>1 DEF List!Fetching
<1>t. /\ listRequest \in 0 .. MaxRequest /\ listCalls \subseteq List!Call /\ MaxRequest \in Nat
      /\ status \in [List!Transfer -> List!Stored \cup {"none"}] /\ changes \in 0 .. MaxListChanges
      /\ \A d \in listCalls : ListInOrder(d)
  BY ListTypes
<1>3. listRequest' \in 1 .. MaxRequest
  BY <1>t, <1>2
<1>4. c \in List!Call /\ c.request = listRequest' /\ c.rows = Unread /\ c.totals = Unread
      /\ c.filter = f /\ c.page = p
  BY <1>1, <1>2, <1>3 DEF List!Call
<1>5. List!None \in List!Rows /\ DOMAIN List!None = {}
  <2>1. List!None \in [{} -> List!Stored] /\ {} \in SUBSET List!Transfer
    BY DEF List!None
  <2>. QED
    BY <2>1 DEF List!Rows, List!None
<1>6. listPage' \in Shown /\ listPage'.mounted /\ listPage'.filter = f /\ listPage'.page = p
      /\ listPage'.isLoading /\ listPage'.pagination = NoTotals
  BY <1>2, <1>5 DEF Shown
<1>7. List!TypeOK'
  BY <1>t, <1>2, <1>3, <1>4, <1>6 DEF List!TypeOK, Shown
<1>8. \A d \in listCalls : d.request \in Nat /\ d.request < listRequest'
  BY <1>t, <1>2 DEF ListInOrder, List!Call
<1>9. \A d \in listCalls' : ListInOrder(d)'
  <2>1. ListInOrder(c)'
    BY <1>4, <1>6, <1>3 DEF ListInOrder, List!Current
  <2>2. ASSUME NEW d \in listCalls PROVE ListInOrder(d)'
    BY <1>t, <1>8, <1>3 DEF ListInOrder, List!Current, RowsFor, List!Matches
  <2>. QED
    BY <1>2, <2>1, <2>2
<1>10. NumberedApart'
  BY <1>2, <1>4, <1>8 DEF ListInv, NumberedApart
<1>11. List!LoadingIsNewest' /\ List!ListIsSelected'
  BY <1>2, <1>4, <1>6 DEF List!LoadingIsNewest, List!ListIsSelected, List!Current
<1>. QED
  BY <1>2, <1>6, <1>7, <1>9, <1>10, <1>11 DEF ListInv

LEMMA ListUser ==
    ASSUME ListAssumption, ListInv,
           \/ \E f \in List!Filter : List!selectStatus(f)
           \/ List!PreviousPage \/ List!NextPage \/ List!Leave
    PROVE  ListInv'
<1>t. /\ listPage \in Shown /\ listRequest \in 0 .. MaxRequest /\ MaxRequest \in Nat
      /\ MaxRequest # 0
      /\ listPage.page \in List!Pages /\ listPage.filter \in List!Filter
      /\ listPage.page <= listRequest
      /\ \A d \in listCalls : ListInOrder(d) /\ d \in List!Call
  BY ListTypes DEF ListAssumption, ListInv, Shown
<1>1. ASSUME NEW f \in List!Filter, List!selectStatus(f) PROVE ListInv'
  <2>1. 1 \in List!Pages /\ 1 <= listRequest + 1
    BY <1>t DEF List!Pages
  <2>. QED
    BY <1>1, <2>1, ListFetching DEF List!selectStatus
<1>2. CASE List!PreviousPage
  <2>1. listPage.page > 1
    BY <1>2 DEF List!PreviousPage
  <2>2. listPage.page - 1 \in List!Pages /\ listPage.page - 1 <= listRequest + 1
    BY <1>t, <2>1 DEF List!Pages
  <2>. QED
    BY <1>t, <1>2, <2>2, ListFetching DEF List!PreviousPage
<1>3. CASE List!NextPage
  <2>1. List!Fetching(listPage.filter, listPage.page + 1) /\ listRequest < MaxRequest
    BY <1>3 DEF List!NextPage, List!Fetching
  <2>2. listPage.page + 1 \in List!Pages /\ listPage.page + 1 <= listRequest + 1
    BY <1>t, <2>1 DEF List!Pages
  <2>. QED
    BY <1>t, <2>1, <2>2, ListFetching
<1>4. CASE List!Leave
  <2>1. /\ listRequest < MaxRequest /\ listRequest' = listRequest + 1
        /\ listPage' = [listPage EXCEPT !.mounted = FALSE]
        /\ UNCHANGED <<listCalls, status, changes>>
    BY <1>4 DEF List!Leave
  <2>2. listPage' \in Shown /\ ~listPage'.mounted /\ listPage'.page = listPage.page
    BY <1>t, <2>1 DEF Shown
  <2>. listRequest' \in 0 .. MaxRequest /\ listPage'.page <= listRequest'
    BY <1>t, <2>1, <2>2 DEF List!Pages
  <2>3. List!TypeOK'
    BY <2>1, <2>2, ListTypes DEF List!TypeOK, Shown
  <2>4. \A d \in listCalls : d.request \in Nat /\ d.request < listRequest'
    BY <1>t, <2>1 DEF ListInOrder, List!Call
  <2>5. ASSUME NEW d \in listCalls' PROVE ListInOrder(d)'
    BY <1>t, <2>1, <2>2, <2>4 DEF ListInOrder, RowsFor, List!Matches
  <2>. QED
    BY <2>1, <2>2, <2>3, <2>5 DEF ListInv, NumberedApart, List!LoadingIsNewest,
       List!ListIsSelected
<1>. QED
  BY <1>1, <1>2, <1>3, <1>4

-----------------------------------------------------------------------------
(* The route.                                                               *)

\* A statement of a request is done.
LEMMA ListAdvances ==
    ASSUME ListAssumption, ListInv, NEW c \in listCalls, NEW d, ListInOrder(d),
           d.request = c.request, d.filter = c.filter, d.page = c.page,
           listCalls' = (listCalls \ {c}) \cup {d}, UNCHANGED <<listPage, listRequest, status, changes>>
    PROVE  ListInv'
<1>1. \A e \in listCalls' : ListInOrder(e)'
  BY ListTypes DEF ListInOrder, List!Current, RowsFor, List!Matches
<1>2. NumberedApart'
  BY DEF ListInv, NumberedApart
<1>3. List!LoadingIsNewest' /\ List!ListIsSelected'
  BY DEF ListInv, List!LoadingIsNewest, List!ListIsSelected, List!Current, List!Matches
<1>4. List!TypeOK'
  BY ListTypes DEF List!TypeOK, Shown, ListInOrder
<1>. QED
  BY <1>1, <1>2, <1>3, <1>4 DEF ListInv

LEMMA ListSelection == ASSUME NEW f PROVE List!Selected(f) \in SUBSET List!Transfer
BY DEF List!Selected

LEMMA ListServer ==
    ASSUME ListAssumption, ListInv,
           \/ \E c \in listCalls : List!Total(c) \/ List!Select(c) \/ List!TotalInstitution(c)
           \/ \E t \in List!Transfer, s \in List!Stored \cup {"none"} : List!Change(t, s)
    PROVE  ListInv'
<1>t. /\ MaxTransfer \in Nat /\ Limit \in Nat \ {0} /\ MaxListChanges \in Nat
      /\ status \in [List!Transfer -> List!Stored \cup {"none"}] /\ changes \in 0 .. MaxListChanges
      /\ \A c \in listCalls : c \in List!Call /\ ListInOrder(c)
  BY ListTypes DEF ListAssumption
<1>c. \A f : List!Count(f) \in 0 .. MaxTransfer
  BY <1>t, ListSelection, ListCount, ListCardinality DEF List!Count
<1>1. ASSUME NEW c \in listCalls, List!Total(c) PROVE ListInv'
  <2>0. PICK d : d = [c EXCEPT !.total = List!Count(c.filter)]
    OBVIOUS
  <2>1. /\ listCalls' = (listCalls \ {c}) \cup {d}
        /\ UNCHANGED <<listPage, listRequest, status, changes>>
    BY <1>1, <2>0 DEF List!Total
  <2>2. d.request = c.request /\ d.filter = c.filter /\ d.page = c.page /\ ListInOrder(d)
    BY <1>t, <1>c, <2>0 DEF ListInOrder, List!Call, List!Current
  <2>. QED
    BY <2>1, <2>2, ListAdvances
<1>2. ASSUME NEW c \in listCalls, List!Select(c) PROVE ListInv'
  <2>0. PICK S, P : /\ S = List!Selected(c.filter)
                    /\ P = {t \in S : Cardinality({u \in S : u > t}) \div Limit = c.page - 1}
    OBVIOUS
  <2>1. PICK rows : rows = [t \in P |-> status[t]]
    OBVIOUS
  <2>2. PICK d : d = [c EXCEPT !.rows = rows]
    OBVIOUS
  <2>3. /\ c.total # Unread /\ listCalls' = (listCalls \ {c}) \cup {d}
        /\ UNCHANGED <<listPage, listRequest, status, changes>>
    BY <1>2, <2>0, <2>1, <2>2, ListCardinality DEF List!Select
  <2>4. S \in SUBSET List!Transfer /\ P \in SUBSET S
    BY <2>0, ListSelection
  <2>5. \A t \in P : Cardinality({u \in S : u > t}) \div Limit = c.page - 1
    BY <2>0
  <2>6. Cardinality(P) <= Limit
    BY <1>t, <2>4, <2>5, ListPage
  <2>7. \A t \in P : status[t] \in List!Stored /\ List!Matches(c.filter, status[t])
    BY <1>t, <2>0, <2>4 DEF List!Selected, List!Matches, List!Stored
  <2>8. rows \in [P -> List!Stored] /\ DOMAIN rows = P /\ P \in SUBSET List!Transfer
    BY <2>1, <2>4, <2>7
  <2>9. RowsFor(rows, c.filter)
    BY <2>1, <2>6, <2>7, <2>8 DEF RowsFor, List!Rows
  <2>10. d.request = c.request /\ d.filter = c.filter /\ d.page = c.page /\ ListInOrder(d)
    <3>1. /\ d \in List!Call /\ d.rows = rows /\ d.total = c.total /\ d.totals = c.totals
          /\ d.request = c.request /\ d.filter = c.filter /\ d.page = c.page
      BY <1>t, <2>2, <2>9 DEF List!Call, RowsFor
    <3>2. c.total \in 0 .. MaxTransfer
      BY <1>t, <2>3 DEF List!Call
    <3>3. rows # Unread \/ c.totals = Unread \/ c.rows # Unread
      BY <1>t DEF ListInOrder
    <3>4. c.rows = Unread
      BY <1>2 DEF List!Select
    <3>. QED
      BY <1>t, <2>9, <3>1, <3>2, <3>4 DEF ListInOrder, List!Current
  <2>. QED
    BY <2>3, <2>10, ListAdvances
<1>3. ASSUME NEW c \in listCalls, List!TotalInstitution(c) PROVE ListInv'
  <2>0. PICK n : n = [total |-> List!Count("all"), inProgress |-> List!Count("in_progress"),
                      completed |-> List!Count("complete")]
    OBVIOUS
  <2>1. PICK d : d = [c EXCEPT !.totals = n]
    OBVIOUS
  <2>2. c.rows # Unread /\ listCalls' = (listCalls \ {c}) \cup {d}
        /\ UNCHANGED <<listPage, listRequest, status, changes>>
    BY <1>3, <2>0, <2>1 DEF List!TotalInstitution
  <2>3. n \in List!Totals
    BY <1>c, <2>0 DEF List!Totals
  <2>4. d.request = c.request /\ d.filter = c.filter /\ d.page = c.page /\ ListInOrder(d)
    BY <1>t, <2>1, <2>2, <2>3 DEF ListInOrder, List!Call, List!Current
  <2>. QED
    BY <2>2, <2>4, ListAdvances
<1>4. ASSUME NEW t \in List!Transfer, NEW s \in List!Stored \cup {"none"}, List!Change(t, s)
      PROVE  ListInv'
  <2>1. /\ changes < MaxListChanges /\ changes' = changes + 1 /\ status' = [status EXCEPT ![t] = s]
        /\ UNCHANGED <<listPage, listRequest, listCalls>>
    BY <1>4 DEF List!Change
  <2>2. List!TypeOK'
    BY <1>t, <2>1, ListTypes DEF List!TypeOK, Shown
  <2>. QED
    BY <2>1, <2>2 DEF ListInv, ListInOrder, RowsFor, List!Matches, List!Current,
       NumberedApart, List!ListIsSelected, List!LoadingIsNewest
<1>. QED
  BY <1>1, <1>2, <1>3, <1>4

-----------------------------------------------------------------------------
(* The answer.                                                              *)

LEMMA ListAnswers ==
    ASSUME ListAssumption, ListInv, NEW c \in listCalls, List!Answer(c) \/ List!Fails(c)
    PROVE  ListInv'
<1>t. /\ listPage \in Shown /\ c \in List!Call /\ ListInOrder(c) /\ listRequest \in 0 .. MaxRequest
      /\ \A d \in listCalls : ListInOrder(d) /\ (d.request = c.request => d = c)
  BY ListTypes DEF ListInv, NumberedApart
<1>1. listCalls' = listCalls \ {c} /\ UNCHANGED <<listRequest, status, changes>>
  BY DEF List!Answer, List!Fails
<1>2. CASE ~List!Current(c)
  <2>1. listPage' = listPage
    BY <1>2 DEF List!Answer, List!Fails
  <2>2. List!TypeOK'
    BY <1>1, <2>1, ListTypes DEF List!TypeOK, Shown
  <2>3. List!LoadingIsNewest'
    BY <1>1, <1>2, <2>1 DEF ListInv, List!LoadingIsNewest, List!Current
  <2>4. List!ListIsSelected' /\ NumberedApart' /\ \A d \in listCalls' : ListInOrder(d)'
    BY <1>1, <1>t, <2>1 DEF ListInv, List!ListIsSelected, NumberedApart, ListInOrder,
       RowsFor, List!Matches, List!Current
  <2>. QED
    BY <1>1, <2>1, <2>2, <2>3, <2>4 DEF ListInv
<1>3. ASSUME List!Current(c), listPage' \in Shown, ~listPage'.isLoading,
             listPage'.mounted = listPage.mounted,
             listPage'.filter = listPage.filter, listPage'.page = listPage.page, List!ListIsSelected'
      PROVE  ListInv'
  <2>1. List!TypeOK'
    BY <1>1, <1>3, ListTypes DEF List!TypeOK, Shown
  <2>2. \A d \in listCalls' : ~List!Current(d)'
    BY <1>1, <1>t, <1>3 DEF List!Current
  <2>3. List!LoadingIsNewest'
    BY <1>3, <2>2 DEF List!LoadingIsNewest
  <2>4. NumberedApart' /\ \A d \in listCalls' : ListInOrder(d)'
    BY <1>1, <1>t, <1>3 DEF ListInv, NumberedApart, ListInOrder, RowsFor, List!Matches,
       List!Current
  <2>. QED
    BY <1>1, <1>3, <2>1, <2>3, <2>4 DEF ListInv
<1>4. CASE List!Current(c) /\ List!Answer(c)
  <2>0. PICK n : n = [page |-> c.page, total |-> c.total]
    OBVIOUS
  <2>1. /\ c.totals # Unread
        /\ listPage' = [listPage EXCEPT !.transfers = c.rows, !.isLoading = FALSE, !.error = FALSE,
                                        !.pagination = n, !.statusTotals = c.totals]
    BY <1>4, <2>0 DEF List!Answer
  <2>2. /\ c.totals \in List!Totals /\ c.total \in 0 .. MaxTransfer /\ RowsFor(c.rows, c.filter)
        /\ c.page \in List!Pages
    BY <1>t, <2>1 DEF ListInOrder, List!Call
  <2>3. n \in List!Pagination
    BY <2>0, <2>2 DEF List!Pagination
  <2>4. /\ listPage' \in Shown /\ ~listPage'.isLoading /\ listPage'.mounted = listPage.mounted
        /\ listPage'.filter = listPage.filter /\ listPage'.page = listPage.page
        /\ listPage'.transfers = c.rows /\ listPage'.pagination = n
    BY <1>t, <2>1, <2>2, <2>3 DEF Shown, RowsFor
  <2>5. listPage.mounted => c.filter = listPage.filter /\ c.page = listPage.page
    BY <1>4, <1>t DEF ListInOrder
  <2>6. List!ListIsSelected'
    BY <2>0, <2>2, <2>4, <2>5, ListCardinality DEF List!ListIsSelected, RowsFor,
       List!Matches
  <2>. QED
    BY <1>3, <1>4, <2>4, <2>6
<1>5. CASE List!Current(c) /\ List!Fails(c)
  <2>1. listPage' = [listPage EXCEPT !.isLoading = FALSE, !.error = TRUE]
    BY <1>5 DEF List!Fails
  <2>2. /\ listPage' \in Shown /\ ~listPage'.isLoading /\ listPage'.mounted = listPage.mounted
        /\ listPage'.filter = listPage.filter /\ listPage'.page = listPage.page
        /\ listPage'.transfers = listPage.transfers /\ listPage'.pagination = listPage.pagination
    BY <1>t, <2>1 DEF Shown
  <2>3. List!ListIsSelected'
    BY <2>2 DEF ListInv, List!ListIsSelected, List!Matches
  <2>. QED
    BY <1>3, <1>5, <2>2, <2>3
<1>. QED
  BY <1>2, <1>4, <1>5

LEMMA ListStep == ASSUME ListAssumption, ListInv, [List!Next]_(List!vars) PROVE ListInv'
<1>1. CASE UNCHANGED List!vars
  BY <1>1 DEF List!vars, ListInv, List!TypeOK, ListInOrder, RowsFor, List!Matches,
     List!Current, NumberedApart, List!ListIsSelected,
     List!LoadingIsNewest
<1>. QED
  BY <1>1, ListUser, ListServer, ListAnswers DEF List!Next

LEMMA ListInit == ASSUME ListAssumption, List!Init PROVE ListInv
<1>1. PICK c : c = [request |-> 1, filter |-> "all", page |-> 1,
                    total |-> Unread, rows |-> Unread, totals |-> Unread]
  OBVIOUS
<1>2. /\ listRequest = 1 /\ listCalls = {c} /\ changes = 0
      /\ listPage = [mounted |-> TRUE, filter |-> "all", page |-> 1, transfers |-> List!None,
                     pagination |-> NoTotals, statusTotals |-> NoTotals, isLoading |-> TRUE, error |-> FALSE]
      /\ status \in [List!Transfer -> {"none", "in_progress", "complete"}]
  BY <1>1 DEF List!Init
<1>3. 1 \in 1 .. MaxRequest /\ 1 \in 0 .. MaxRequest /\ 0 \in 0 .. MaxListChanges
  BY DEF ListAssumption
<1>4. c \in List!Call /\ c.request = 1 /\ c.rows = Unread /\ c.totals = Unread
      /\ c.filter = "all" /\ c.page = 1
  BY <1>1, <1>3 DEF List!Call, List!Filter, List!Pages
<1>5. List!None \in List!Rows
  <2>1. List!None \in [{} -> List!Stored] /\ {} \in SUBSET List!Transfer
    BY DEF List!None
  <2>. QED
    BY <2>1 DEF List!Rows
<1>6. listPage \in Shown /\ listPage.mounted /\ listPage.filter = "all" /\ listPage.page = 1
      /\ listPage.isLoading /\ listPage.pagination = NoTotals
  BY <1>2, <1>3, <1>5 DEF Shown, List!Filter, List!Pages
<1>7. List!TypeOK
  BY <1>2, <1>3, <1>4, <1>6 DEF List!TypeOK, Shown, List!Stored
<1>8. ListInOrder(c)
  BY <1>2, <1>4, <1>6 DEF ListInOrder, List!Current
<1>. QED
  BY <1>2, <1>4, <1>6, <1>7, <1>8 DEF ListInv, NumberedApart, List!ListIsSelected,
     List!LoadingIsNewest, List!Current

-----------------------------------------------------------------------------

\* The invariant of the list.
THEOREM ListKeep == ASSUME ListAssumption PROVE List!Spec => []ListInv
<1>1. List!Init => ListInv
  BY ListInit
<1>2. ListInv /\ [List!Next]_(List!vars) => ListInv'
  BY ListStep
<1>. QED
  BY <1>1, <1>2, PTL DEF List!Spec

\* A list on the page answers the filter and the page its buttons show, in whatever order
\* the requests were answered, and the page is loading exactly as long as the newest runs.
THEOREM ListSelected ==
    ASSUME ListAssumption
    PROVE  List!Spec => [](List!ListIsSelected /\ List!LoadingIsNewest)
<1>1. ListInv => List!ListIsSelected /\ List!LoadingIsNewest
  BY DEF ListInv
<1>. QED
  BY <1>1, ListKeep, PTL

\* The page, its requests and the transfers keep their types.
THEOREM ListTypeOK == ASSUME ListAssumption PROVE List!Spec => []List!TypeOK
<1>1. ListInv => List!TypeOK
  BY DEF ListInv
<1>. QED
  BY <1>1, ListKeep, PTL

-----------------------------------------------------------------------------
(***************************************************************************)
(* The statement of account, for any transfers, contents and calls.  Each  *)
(* call has a version of its own, so at most one is the tab's newest; every*)
(* statement that is anywhere keeps the transfer its id was generated for, *)
(* so one transaction never takes the row of another transfer's figures.   *)
(***************************************************************************)
ProformaAssumption ==
    /\ NoStatement \notin Proforma!Statement /\ Generated \in Content
    /\ MaxStatementVersion \in Nat \ {0} /\ MaxIds \in Nat /\ MaxFaults \in Nat

FineCall(c) ==
    /\ c \in Proforma!Call /\ c.version <= proformaVersion
    /\ c.kind = "load" => c.stage \in {"sent", "generate", "answered"}
    /\ c.kind = "save" => /\ c.stage # "generate" /\ c.statement \in Proforma!Statement
                          /\ c.statement.transfer = c.transfer
                          /\ c.stage # "sent" => c.began \in 1 .. MaxStatementVersion
    /\ c.stage = "answered" => c.statement \in Proforma!Statement /\ c.statement.transfer = c.transfer /\ c.awaited

\* The saves that have not arrived, each with an instant left for it.
Ahead == {c \in proformaCalls : c.kind = "save" /\ c.stage = "sent"}

CallsFine ==
    /\ IsFiniteSet(proformaCalls) /\ \A c \in proformaCalls : FineCall(c)
    /\ \A c, d \in proformaCalls : c.version = d.version => c = d
    /\ \A b \in Proforma!Begun : b + Cardinality(Ahead) < proformaVersion

\* The tab has the statement of the transfer it was loaded for, and saves that.
OfLoaded ==
    /\ tab.statement # NoStatement => tab.statement.transfer = tab.loadedFor
    /\ \A c \in proformaCalls : c.kind = "save" /\ Proforma!Current(c) => c.transfer = tab.loadedFor

Stored ==
    \A t \in Transfer :
        /\ cache[t] # NoStatement => cache[t].transfer = t
        /\ \A f \in Proforma!Figure : figures[t][f] # NoStatement => figures[t][f].transfer = t

\* Every statement there is: an id was generated for one transfer.
Known == ({c.statement : c \in proformaCalls} \cup {cache[t] : t \in Transfer} \cup {r.statement : r \in proformaRows}
            \cup {tab.statement} \cup {figures[t][f] : t \in Transfer, f \in Proforma!Figure}) \ {NoStatement}
KnownOnce ==
    /\ \A s, u \in Known : s.id = u.id => s.transfer = u.transfer
    /\ \A s \in Known : s.id <= ids

ProformaInv ==
    /\ Proforma!TypeOK /\ CallsFine /\ OfLoaded /\ Stored /\ KnownOnce /\ Proforma!BusyIsNewest
    /\ Proforma!FiguresOfStatement

-----------------------------------------------------------------------------

ProformaTab == [transfer: Transfer, due: BOOLEAN, statement: Proforma!Statement \cup {NoStatement},
                loadedFor: Transfer \cup {NoStatement}, isLoading: BOOLEAN, isSaving: BOOLEAN,
                savedSuccess: BOOLEAN, error: BOOLEAN]

LEMMA ProformaTypes ==
    ASSUME ProformaInv, ProformaAssumption
    PROVE  /\ tab \in ProformaTab /\ proformaVersion \in Nat /\ 1 <= proformaVersion
           /\ proformaVersion <= MaxStatementVersion
           /\ MaxStatementVersion \in Nat /\ MaxIds \in Nat /\ MaxFaults \in Nat
           /\ proformaCalls \subseteq Proforma!Call /\ IsFiniteSet(proformaCalls)
           /\ cache \in [Transfer -> Proforma!Statement \cup {NoStatement}]
           /\ proformaRows \subseteq Proforma!Row
           /\ figures \in [Transfer -> [Proforma!Figure -> Proforma!Statement \cup {NoStatement}]]
           /\ ids \in Nat /\ ids <= MaxIds /\ proformaFaults \in Nat /\ proformaFaults <= MaxFaults
           /\ \A c \in proformaCalls : /\ c \in Proforma!Call /\ FineCall(c) /\ c.version \in Nat /\ c.transfer \in Transfer
                                       /\ c.began \in Nat /\ c.awaited \in BOOLEAN
                                       /\ c.kind \in {"load", "save"}
BY DEF ProformaInv, ProformaAssumption, Proforma!TypeOK, ProformaTab, CallsFine,
   Proforma!Call

LEMMA ProformaGreatest ==
    ASSUME NEW n \in Nat, NEW S \in SUBSET (0 .. n), S # {}
    PROVE  \E m \in S : \A k \in S : k <= m
<1>1. PICK T : T = {n - k : k \in S}
  OBVIOUS
<1>2. T \subseteq Nat /\ T # {}
  <2>1. \A k \in S : n - k \in Nat
    OBVIOUS
  <2>. QED
    BY <1>1, <2>1
<1>3. PICK t \in T : \A u \in T : ~(<<u, t>> \in OpToRel(<, Nat))
  BY <1>2, NatLessThanWellFounded, WFMin
<1>4. \A u \in T : ~(u < t)
  BY <1>2, <1>3 DEF OpToRel
<1>5. PICK m \in S : t = n - m
  BY <1>1
<1>6. ASSUME NEW k \in S PROVE k <= m
  <2>1. n - k \in T /\ ~(n - k < n - m)
    BY <1>1, <1>4, <1>5
  <2>. QED
    BY <2>1
<1>. QED
  BY <1>6

\* The transaction of a save that arrives starts later than those there are, and
\* leaves an instant for each save still on its way.
LEMMA ProformaClock ==
    ASSUME ProformaInv, ProformaAssumption, NEW c \in Ahead
    PROVE  /\ Proforma!Clock \in 1 .. MaxStatementVersion
           /\ Proforma!Clock + Cardinality(Ahead) <= proformaVersion
<1>t. /\ proformaVersion \in Nat /\ proformaVersion <= MaxStatementVersion
      /\ MaxStatementVersion \in Nat /\ c \in proformaCalls
      /\ \A d \in proformaCalls : d.began \in 0 .. MaxStatementVersion
      /\ \A r \in proformaRows : r.updated \in 1 .. MaxStatementVersion
      /\ \A b \in Proforma!Begun : b + Cardinality(Ahead) < proformaVersion
  BY ProformaTypes DEF Ahead, Proforma!Call, Proforma!Row, ProformaInv, CallsFine
<1>1. Proforma!Begun \in SUBSET (0 .. MaxStatementVersion) /\ Proforma!Begun # {}
  BY <1>t DEF Proforma!Begun
<1>2. PICK m \in Proforma!Begun : \A b \in Proforma!Begun : b <= m
  BY <1>1, <1>t, ProformaGreatest
<1>3. Cardinality(Ahead) \in Nat
  BY ProformaTypes, FS_Subset, FS_CardinalityType DEF Ahead
<1>4. /\ m + 1 \in 1 .. MaxStatementVersion /\ (m + 1) - 1 \in Proforma!Begun
      /\ \A b \in Proforma!Begun : b < m + 1
  BY <1>t, <1>1, <1>2, <1>3
<1>5. PICK k : k = Proforma!Clock
  OBVIOUS
<1>6. k \in 1 .. MaxStatementVersion /\ k - 1 \in Proforma!Begun
  BY <1>4, <1>5 DEF Proforma!Clock
<1>7. (k - 1) + Cardinality(Ahead) < proformaVersion
  BY <1>t, <1>6
<1>. QED
  BY <1>t, <1>3, <1>5, <1>6, <1>7

LEMMA ProformaAheadFew ==
    ASSUME ProformaInv, ProformaAssumption
    PROVE  Cardinality(Ahead) \in Nat /\ Cardinality(Ahead) < proformaVersion /\ IsFiniteSet(Ahead)
<1>1. Cardinality(Ahead) \in Nat /\ IsFiniteSet(Ahead)
  BY ProformaTypes, FS_Subset, FS_CardinalityType DEF Ahead
<1>2. CASE Ahead = {}
  BY <1>2, FS_EmptySet, ProformaTypes
<1>3. CASE Ahead # {}
  <2>1. PICK c \in Ahead : c \in proformaCalls
    BY <1>3 DEF Ahead
  <2>2. c.began \in Proforma!Begun /\ c.began \in Nat
    BY <2>1, ProformaTypes DEF Proforma!Begun
  <2>3. c.began + Cardinality(Ahead) < proformaVersion
    BY <2>2 DEF ProformaInv, CallsFine
  <2>. QED
    BY <1>1, <2>2, <2>3, ProformaTypes
<1>. QED
  BY <1>1, <1>2, <1>3

LEMMA ProformaKnown ==
    ASSUME ProformaInv, ProformaAssumption
    PROVE  Known \subseteq Proforma!Statement /\ \A s \in Known : s.id \in Nat
<1>1. \A c \in proformaCalls : c.statement \in Proforma!Statement \cup {NoStatement}
  BY ProformaTypes DEF Proforma!Call
<1>2. \A t \in Transfer : /\ cache[t] \in Proforma!Statement \cup {NoStatement}
                          /\ \A f \in Proforma!Figure : figures[t][f] \in Proforma!Statement \cup {NoStatement}
  BY ProformaTypes
<1>3. \A r \in proformaRows : r.statement \in Proforma!Statement
  BY ProformaTypes DEF Proforma!Row
<1>4. tab.statement \in Proforma!Statement \cup {NoStatement}
  BY ProformaTypes DEF ProformaTab
<1>5. Known \subseteq Proforma!Statement
  BY <1>1, <1>2, <1>3, <1>4 DEF Known
<1>. QED
  BY <1>5, ProformaTypes DEF Proforma!Statement

\* Nothing is known afterwards that was not, or only with another content.
LEMMA ProformaKnownOnce ==
    ASSUME ProformaInv, ProformaAssumption, ids' = ids,
           \A s \in Known' : \E u \in Known : s.id = u.id /\ s.transfer = u.transfer
    PROVE  KnownOnce'
<1>1. KnownOnce
  BY DEF ProformaInv
<1>2. \A s, u \in Known' : s.id = u.id => s.transfer = u.transfer
  BY <1>1 DEF KnownOnce
<1>3. \A s \in Known' : s.id <= ids'
  BY <1>1 DEF KnownOnce
<1>. QED
  BY <1>2, <1>3 DEF KnownOnce

LEMMA ProformaKnownOf ==
    ASSUME ProformaInv, ProformaAssumption, ids' = ids,
           \A c \in proformaCalls' : c.statement \in Known \cup {NoStatement},
           \A t \in Transfer : cache'[t] \in Known \cup {NoStatement},
           \A r \in proformaRows' : r.statement \in Known \cup {NoStatement},
           tab'.statement \in Known \cup {NoStatement},
           \A t \in Transfer, f \in Proforma!Figure : figures'[t][f] \in Known \cup {NoStatement}
    PROVE  KnownOnce'
<1>1. Known' \subseteq Known
  BY DEF Known, Proforma!Figure
<1>. QED
  BY <1>1, ProformaKnownOnce

LEMMA ProformaFiguresKept ==
    ASSUME ProformaInv, UNCHANGED <<proformaRows, figures>>
    PROVE  /\ Proforma!FiguresOfStatement'
           /\ cache' = cache \/ cache' = [t \in Transfer |-> NoStatement] => Stored'
<1>1. UNCHANGED <<Proforma!Figure, figures, proformaRows>>
  BY DEF Proforma!Figure
<1>2. \A t \in Transfer : Proforma!TakenFrom(t)' = Proforma!TakenFrom(t)
  BY <1>1 DEF Proforma!TakenFrom
<1>3. Proforma!FiguresOfStatement'
  BY <1>1, <1>2 DEF ProformaInv, Proforma!FiguresOfStatement
<1>4. ASSUME cache' = cache \/ cache' = [t \in Transfer |-> NoStatement] PROVE Stored'
  BY <1>1, <1>4 DEF ProformaInv, Stored
<1>. QED
  BY <1>3, <1>4

LEMMA ProformaKnows ==
    ASSUME ProformaInv, ProformaAssumption
    PROVE  /\ \A c \in proformaCalls : c.statement \in Known \cup {NoStatement}
           /\ \A t \in Transfer : cache[t] \in Known \cup {NoStatement}
           /\ \A r \in proformaRows : r.statement \in Known \cup {NoStatement}
           /\ tab.statement \in Known \cup {NoStatement}
           /\ \A t \in Transfer, f \in Proforma!Figure : figures[t][f] \in Known \cup {NoStatement}
BY DEF Known

-----------------------------------------------------------------------------

\* What the server does for a call leaves the call the version, the kind and
\* the transfer it has, and lets it be.
Serves(c, d) ==
    /\ d \in Proforma!Call /\ d.version = c.version /\ d.kind = c.kind /\ d.transfer = c.transfer
    /\ FineCall(d) \/ (d.stage = "answered" /\ ~d.awaited)
    /\ \/ d.began = c.began /\ (d.stage = "sent" => c.stage = "sent")
       \/ c \in Ahead /\ d.stage # "sent" /\ d.began = Proforma!Clock

LEMMA ProformaCalls ==
    ASSUME ProformaInv, ProformaAssumption, NEW c \in proformaCalls, NEW d, Serves(c, d),
           proformaCalls' = (proformaCalls \ {c}) \cup {d} \/ proformaCalls' = proformaCalls \ {c},
           proformaCalls' = proformaCalls \ {c} \/ FineCall(d),
           proformaVersion' = proformaVersion, \A r \in proformaRows' : r.updated \in Proforma!Begun
    PROVE  CallsFine'
<1>t. /\ proformaVersion \in Nat /\ IsFiniteSet(proformaCalls) /\ c.began \in Nat
      /\ c.began \in Proforma!Begun
      /\ Cardinality(Ahead) \in Nat /\ IsFiniteSet(Ahead)
      /\ \A b \in Proforma!Begun : b \in Nat /\ b + Cardinality(Ahead) < proformaVersion
  <2>1. \A b \in Proforma!Begun : b \in Nat
    BY ProformaTypes DEF Proforma!Begun, Proforma!Row
  <2>. QED
    BY <2>1, ProformaTypes, ProformaAheadFew DEF ProformaInv, CallsFine, Proforma!Begun
<1>1. IsFiniteSet(proformaCalls')
  <2>1. PICK R : R = proformaCalls \ {c}
    OBVIOUS
  <2>2. IsFiniteSet(R)
    BY <1>t, <2>1, FS_RemoveElement
  <2>3. IsFiniteSet(R \cup {d})
    BY <2>2, FS_AddElement
  <2>. QED
    BY <2>1, <2>2, <2>3
<1>2. \A e \in proformaCalls' : FineCall(e)'
  BY DEF FineCall, ProformaInv, CallsFine
<1>3. \A e, f \in proformaCalls' : e.version = f.version => e = f
  BY DEF ProformaInv, CallsFine, Serves
<1>4. Proforma!Begun' \subseteq Proforma!Begun \cup {d.began}
  BY DEF Proforma!Begun
<1>5. CASE d.began = c.began /\ (d.stage = "sent" => c.stage = "sent")
  <2>1. CASE d \in proformaCalls' /\ d.kind = "save" /\ d.stage = "sent"
    <3>1. c \in Ahead /\ Ahead' \subseteq (Ahead \ {c}) \cup {d}
      BY <1>5, <2>1 DEF Ahead, Serves
    <3>2. PICK R : R = Ahead \ {c}
      OBVIOUS
    <3>3. IsFiniteSet(R) /\ Cardinality(R) = Cardinality(Ahead) - 1
      BY <1>t, <3>1, <3>2, FS_RemoveElement
    <3>4. IsFiniteSet(R \cup {d}) /\ Cardinality(R \cup {d}) <= Cardinality(Ahead)
      <4>1. IsFiniteSet(R \cup {d}) /\ Cardinality(R \cup {d}) = IF d \in R THEN Cardinality(R) ELSE Cardinality(R) + 1
        BY <3>3, FS_AddElement
      <4>2. Cardinality(Ahead) \in Nat
        BY <1>t
      <4>. QED
        BY <3>3, <4>1, <4>2
    <3>5. PICK A : A = Ahead'
      OBVIOUS
    <3>6. /\ Cardinality(A) <= Cardinality(R \cup {d}) /\ Cardinality(A) \in Nat
          /\ Cardinality(R \cup {d}) \in Nat
      BY <3>1, <3>2, <3>4, <3>5, FS_Subset, FS_CardinalityType
    <3>7. Cardinality(Ahead') <= Cardinality(Ahead) /\ Cardinality(Ahead') \in Nat
      BY <1>t, <3>4, <3>5, <3>6
    <3>. QED
      BY <1>t, <1>1, <1>2, <1>3, <1>4, <1>5, <3>7 DEF CallsFine
  <2>2. CASE ~(d \in proformaCalls' /\ d.kind = "save" /\ d.stage = "sent")
    <3>1. Ahead' \subseteq Ahead
      BY <2>2 DEF Ahead, Serves
    <3>3. Cardinality(Ahead') <= Cardinality(Ahead) /\ Cardinality(Ahead') \in Nat
      BY <1>t, <3>1, FS_Subset, FS_CardinalityType
    <3>. QED
      BY <1>t, <1>1, <1>2, <1>3, <1>4, <1>5, <3>3 DEF CallsFine
  <2>. QED
    BY <2>1, <2>2
<1>6. CASE c \in Ahead /\ d.stage # "sent" /\ d.began = Proforma!Clock
  <2>1. Proforma!Clock \in Nat /\ Proforma!Clock + Cardinality(Ahead) <= proformaVersion
    BY <1>6, ProformaClock, ProformaTypes
  <2>2. Ahead' \subseteq Ahead \ {c}
    BY <1>6 DEF Ahead
  <2>3. Cardinality(Ahead \ {c}) = Cardinality(Ahead) - 1 /\ IsFiniteSet(Ahead \ {c})
    BY <1>t, <1>6, FS_RemoveElement
  <2>4. Cardinality(Ahead') <= Cardinality(Ahead) - 1 /\ Cardinality(Ahead') \in Nat
    BY <2>2, <2>3, FS_Subset, FS_CardinalityType
  <2>. QED
    BY <1>t, <1>1, <1>2, <1>3, <1>4, <1>6, <2>1, <2>4 DEF CallsFine
<1>. QED
  BY <1>5, <1>6 DEF Serves

LEMMA ProformaServes ==
    ASSUME ProformaInv, ProformaAssumption, NEW c \in proformaCalls, NEW d, Serves(c, d),
           Proforma!Put(c, d),
           d.awaited = c.awaited,
           UNCHANGED <<tab, proformaVersion>>, \A r \in proformaRows' : r.updated \in Proforma!Begun
    PROVE  /\ CallsFine' /\ OfLoaded' /\ Proforma!BusyIsNewest'
           /\ proformaCalls' \subseteq Proforma!Call
<1>0. \/ proformaCalls' = proformaCalls \ {c} /\ d.stage = "answered" /\ ~d.awaited
      \/ proformaCalls' = (proformaCalls \ {c}) \cup {d} /\ ~(d.stage = "answered" /\ ~d.awaited)
  <2>1. CASE d.stage = "answered" /\ ~d.awaited
    BY <2>1 DEF Proforma!Put
  <2>2. CASE ~(d.stage = "answered" /\ ~d.awaited)
    BY <2>2 DEF Proforma!Put
  <2>. QED
    BY <2>1, <2>2
<1>1. CallsFine'
  BY <1>0, ProformaCalls DEF Serves
<1>2. OfLoaded'
  BY <1>0 DEF ProformaInv, OfLoaded, Serves, Proforma!Current
<1>3. Proforma!BusyIsNewest'
  <2>1. \A k : (\E e \in proformaCalls' : e.kind = k /\ e.awaited /\ e.version = proformaVersion)
                 <=> (\E e \in proformaCalls : e.kind = k /\ e.awaited /\ e.version = proformaVersion)
    BY <1>0 DEF Serves
  <2>2. tab' = tab /\ proformaVersion' = proformaVersion
    OBVIOUS
  <2>. QED
    BY <2>1, <2>2 DEF ProformaInv, Proforma!BusyIsNewest, Proforma!Current
<1>. QED
  BY <1>0, <1>1, <1>2, <1>3, ProformaTypes DEF Serves

LEMMA ProformaServed ==
    ASSUME ProformaInv, ProformaAssumption, NEW c \in proformaCalls, NEW d, Serves(c, d),
           Proforma!Put(c, d),
           d.awaited = c.awaited,
           d.statement \in Known \cup {NoStatement},
           UNCHANGED <<tab, proformaVersion, proformaRows, figures, ids>>,
           \/ cache' = cache
           \/ cache' = [cache EXCEPT ![c.transfer] = c.statement] /\ c.kind = "save",
           proformaFaults' \in Nat /\ proformaFaults' <= MaxFaults
    PROVE  ProformaInv'
<1>t. /\ c \in Proforma!Call /\ c.transfer \in Transfer /\ FineCall(c)
      /\ \A r \in proformaRows : r.updated \in Proforma!Begun
      /\ proformaCalls' \subseteq proformaCalls \cup {d}
  BY ProformaTypes DEF Proforma!Begun, Proforma!Put
<1>1. CallsFine' /\ OfLoaded' /\ Proforma!BusyIsNewest' /\ proformaCalls' \subseteq Proforma!Call
  BY <1>t, ProformaServes
<1>c. c.kind = "save" => c.statement \in Proforma!Statement /\ c.statement.transfer = c.transfer
  BY <1>t DEF FineCall
<1>k. cache \in [Transfer -> Proforma!Statement \cup {NoStatement}]
  BY ProformaTypes
<1>2. cache' \in [Transfer -> Proforma!Statement \cup {NoStatement}]
  BY <1>c, <1>k
<1>3. Proforma!TypeOK'
  BY <1>1, <1>2, ProformaTypes DEF ProformaInv, Proforma!TypeOK
<1>4. \A t \in Transfer : cache'[t] = cache[t] \/ (cache'[t] = c.statement /\ c.statement.transfer = t)
  <2>1. CASE cache' = cache
    BY <2>1
  <2>2. CASE cache' = [cache EXCEPT ![c.transfer] = c.statement] /\ c.kind = "save"
    <3>1. \A t \in Transfer : cache'[t] = IF t = c.transfer THEN c.statement ELSE cache[t]
      BY <1>k, <2>2
    <3>. QED
      BY <1>c, <2>2, <3>1
  <2>. QED
    BY <2>1, <2>2
<1>5. Stored'
  BY <1>4 DEF ProformaInv, Stored
<1>6. KnownOnce'
  BY <1>t, <1>4, ProformaKnows, ProformaKnownOf
<1>7. Proforma!FiguresOfStatement'
  <2>1. proformaRows' = proformaRows /\ figures' = figures
    OBVIOUS
  <2>2. \A t \in Transfer : Proforma!TakenFrom(t)' = Proforma!TakenFrom(t)
    BY <2>1 DEF Proforma!TakenFrom
  <2>. QED
    BY <2>1, <2>2 DEF ProformaInv, Proforma!FiguresOfStatement
<1>. QED
  BY <1>1, <1>3, <1>5, <1>6, <1>7 DEF ProformaInv

LEMMA ProformaFindRow ==
    ASSUME ProformaInv, ProformaAssumption, NEW c \in proformaCalls, Proforma!FindRow(c)
    PROVE  ProformaInv'
<1>1. PICK r \in Proforma!Newest(c.transfer) : Proforma!Answer(c, r.statement)
  BY DEF Proforma!FindRow
<1>2. r \in proformaRows /\ r.statement.transfer = c.transfer /\ r.statement \in Proforma!Statement
  BY <1>1, ProformaTypes DEF Proforma!Newest, Proforma!Row
<1>3. PICK d : d = [c EXCEPT !.stage = "answered", !.statement = r.statement]
  OBVIOUS
<1>4. Proforma!Put(c, d)
  BY <1>1, <1>3 DEF Proforma!Answer
<1>t. c \in Proforma!Call /\ FineCall(c) /\ c.kind = "load" /\ c.stage = "sent"
  BY ProformaTypes DEF Proforma!FindRow
<1>5. /\ d \in Proforma!Call /\ d.version = c.version /\ d.kind = c.kind /\ d.transfer = c.transfer
      /\ d.awaited = c.awaited /\ d.stage = "answered" /\ d.began = c.began
      /\ d.statement = r.statement
      /\ d.awaited \in BOOLEAN
  BY <1>2, <1>3, <1>t DEF Proforma!Call, Proforma!Stage
<1>6. Serves(c, d)
  BY <1>2, <1>5, <1>t DEF Serves, FineCall
<1>7. d.statement \in Known \cup {NoStatement}
  BY <1>2, <1>5, ProformaKnows
<1>. QED
  BY <1>5, <1>4, <1>6, <1>7, ProformaServed, ProformaTypes DEF Proforma!FindRow,
     Proforma!server

LEMMA ProformaFindCached ==
    ASSUME ProformaInv, ProformaAssumption, NEW c \in proformaCalls, Proforma!FindCached(c)
    PROVE  ProformaInv'
<1>t. /\ c \in Proforma!Call /\ FineCall(c) /\ c.kind = "load" /\ c.stage = "sent"
      /\ c.transfer \in Transfer
      /\ cache[c.transfer] \in Proforma!Statement \cup {NoStatement}
      /\ (cache[c.transfer] # NoStatement => cache[c.transfer].transfer = c.transfer)
  BY ProformaTypes DEF Proforma!FindCached, ProformaInv, Stored
<1>f. /\ UNCHANGED <<tab, proformaVersion, proformaRows, figures, ids, cache>>
      /\ proformaFaults' \in Nat /\ proformaFaults' <= MaxFaults
  BY ProformaTypes DEF Proforma!FindCached, Proforma!server
<1>1. CASE cache[c.transfer] # NoStatement
  <2>3. PICK d : d = [c EXCEPT !.stage = "answered", !.statement = cache[c.transfer]]
    OBVIOUS
  <2>4. Proforma!Put(c, d)
    BY <1>1, <2>3 DEF Proforma!Answer, Proforma!FindCached
  <2>5. /\ d \in Proforma!Call /\ d.version = c.version /\ d.kind = c.kind
        /\ d.transfer = c.transfer
        /\ d.awaited = c.awaited /\ d.stage = "answered" /\ d.began = c.began
        /\ d.statement = cache[c.transfer] /\ d.awaited \in BOOLEAN
    BY <2>3, <1>t DEF Proforma!Call, Proforma!Stage
  <2>6. Serves(c, d)
    BY <1>1, <2>5, <1>t DEF Serves, FineCall
  <2>7. d.statement \in Known \cup {NoStatement}
    BY <1>t, <2>5, ProformaKnows
  <2>. QED
    BY <2>5, <1>f, <2>4, <2>6, <2>7, ProformaServed
<1>2. CASE cache[c.transfer] = NoStatement
  <2>3. PICK d : d = [c EXCEPT !.stage = "generate"]
    OBVIOUS
  <2>4. Proforma!Put(c, d)
    BY <1>2, <2>3 DEF Proforma!FindCached
  <2>5. /\ d \in Proforma!Call /\ d.version = c.version /\ d.kind = c.kind
        /\ d.transfer = c.transfer
        /\ d.awaited = c.awaited /\ d.stage = "generate" /\ d.began = c.began
        /\ d.statement = c.statement
    BY <2>3, <1>t DEF Proforma!Call, Proforma!Stage
  <2>6. Serves(c, d)
    BY <2>5, <1>t DEF Serves, FineCall
  <2>7. d.statement \in Known \cup {NoStatement}
    BY <1>t, <2>5, ProformaKnows
  <2>. QED
    BY <2>5, <1>f, <2>4, <2>6, <2>7, ProformaServed
<1>. QED
  BY <1>1, <1>2

LEMMA ProformaSaveArrives ==
    ASSUME ProformaInv, ProformaAssumption, NEW c \in proformaCalls, Proforma!SaveArrives(c)
    PROVE  ProformaInv'
<1>t. c \in Proforma!Call /\ FineCall(c) /\ c.kind = "save" /\ c.stage = "sent" /\ c \in Ahead
  BY ProformaTypes DEF Proforma!SaveArrives, Ahead
<1>1. Proforma!Clock \in 1 .. MaxStatementVersion
  BY <1>t, ProformaClock
<1>2. PICK n : n = Proforma!Clock
  OBVIOUS
<1>3. PICK d : d = [c EXCEPT !.stage = "open", !.began = n]
  OBVIOUS
<1>4. Proforma!Put(c, d)
  BY <1>2, <1>3 DEF Proforma!SaveArrives
<1>5. /\ d \in Proforma!Call /\ d.version = c.version /\ d.kind = c.kind /\ d.transfer = c.transfer
      /\ d.awaited = c.awaited /\ d.stage = "open" /\ d.began = n /\ d.statement = c.statement
  <2>1. n \in 1 .. MaxStatementVersion /\ n \in 0 .. MaxStatementVersion
    BY <1>1, <1>2, ProformaTypes
  <2>. QED
    BY <2>1, <1>3, <1>t DEF Proforma!Call, Proforma!Stage
<1>6. Serves(c, d)
  <2>1. FineCall(d)
    BY <1>1, <1>2, <1>5, <1>t DEF FineCall
  <2>. QED
    BY <1>2, <1>5, <1>t, <2>1 DEF Serves
<1>7. d.statement \in Known \cup {NoStatement}
  BY <1>5, ProformaKnows
<1>. QED
  BY <1>5, <1>4, <1>6, <1>7, <1>t, ProformaServed, ProformaTypes DEF Proforma!SaveArrives

LEMMA ProformaWrites ==
    ASSUME ProformaInv, ProformaAssumption, NEW c \in proformaCalls, Proforma!WriteRow(c) \/ Proforma!WriteFigures(c)
    PROVE  ProformaInv'
<1>t. c \in Proforma!Call /\ FineCall(c) /\ c.stage \in {"open", "row"} /\ c.kind = "save"
  BY ProformaTypes DEF Proforma!WriteRow, Proforma!WriteFigures, FineCall
<1>3. PICK g \in {"row", "figures"} : Proforma!Put(c, [c EXCEPT !.stage = g])
  BY DEF Proforma!WriteRow, Proforma!WriteFigures
<1>4. PICK d : d = [c EXCEPT !.stage = g]
  OBVIOUS
<1>5. /\ d \in Proforma!Call /\ d.version = c.version /\ d.kind = c.kind /\ d.transfer = c.transfer
      /\ d.awaited = c.awaited /\ d.stage = g /\ d.began = c.began /\ d.statement = c.statement
  BY <1>4, <1>t DEF Proforma!Call, Proforma!Stage
<1>6. Serves(c, d)
  BY <1>5, <1>t DEF Serves, FineCall
<1>7. d.statement \in Known \cup {NoStatement}
  BY <1>5, ProformaKnows
<1>. QED
  BY <1>5, <1>3, <1>4, <1>6, <1>7, ProformaServed, ProformaTypes DEF Proforma!WriteRow,
     Proforma!WriteFigures, Proforma!server

LEMMA ProformaAnswered ==
    ASSUME ProformaInv, ProformaAssumption, NEW c \in proformaCalls, c.stage \in {"open", "row", "figures"}
    PROVE  /\ Serves(c, [c EXCEPT !.stage = "answered", !.statement = c.statement])
           /\ [c EXCEPT !.stage = "answered", !.statement = c.statement].awaited = c.awaited
           /\ [c EXCEPT !.stage = "answered", !.statement = c.statement].statement = c.statement
           /\ c.statement \in Proforma!Statement /\ c.statement.transfer = c.transfer
           /\ c.transfer \in Transfer
<1>t. /\ c \in Proforma!Call /\ FineCall(c) /\ c.kind = "save" /\ c.statement \in Proforma!Statement
      /\ c.transfer \in Transfer
  BY ProformaTypes DEF FineCall
<1>4. PICK d : d = [c EXCEPT !.stage = "answered", !.statement = c.statement]
  OBVIOUS
<1>5. /\ d \in Proforma!Call /\ d.version = c.version /\ d.kind = c.kind /\ d.transfer = c.transfer
      /\ d.awaited = c.awaited /\ d.stage = "answered" /\ d.began = c.began
      /\ d.statement = c.statement
      /\ d.awaited \in BOOLEAN
  BY <1>4, <1>t DEF Proforma!Call, Proforma!Stage
<1>. QED
  BY <1>4, <1>5, <1>t DEF Serves, FineCall

LEMMA ProformaRollsBack ==
    ASSUME ProformaInv, ProformaAssumption, NEW c \in proformaCalls, Proforma!RollsBack(c)
    PROVE  ProformaInv'
<1>1. PICK d : d = [c EXCEPT !.stage = "answered", !.statement = c.statement]
  OBVIOUS
<1>2. Serves(c, d) /\ d.awaited = c.awaited /\ d.statement = c.statement
  BY <1>1, ProformaAnswered DEF Proforma!RollsBack
<1>3. Proforma!Put(c, d)
  BY <1>1 DEF Proforma!RollsBack, Proforma!Answer
<1>4. d.statement \in Known \cup {NoStatement}
  BY <1>2, ProformaKnows
<1>. QED
  BY <1>2, <1>3, <1>4, ProformaServed, ProformaTypes DEF Proforma!RollsBack, Proforma!server

LEMMA ProformaGenerate ==
    ASSUME ProformaInv, ProformaAssumption, NEW c \in proformaCalls, Proforma!Generate(c)
    PROVE  ProformaInv'
<1>t. /\ c \in Proforma!Call /\ FineCall(c) /\ c.kind = "load" /\ c.transfer \in Transfer
      /\ ids \in Nat
      /\ ids + 1 \in 1 .. MaxIds /\ c.stage = "generate"
  BY ProformaTypes DEF Proforma!Generate, FineCall
<1>s. PICK s : s = [id |-> ids + 1, transfer |-> c.transfer, content |-> Generated]
  OBVIOUS
<1>1. s \in Proforma!Statement /\ s.id = ids + 1 /\ s.transfer = c.transfer /\ s # NoStatement
  BY <1>t, <1>s DEF Proforma!Statement, ProformaAssumption
<1>2. PICK d : d = [c EXCEPT !.stage = "answered", !.statement = s]
  OBVIOUS
<1>3. Proforma!Put(c, d) /\ cache' = [cache EXCEPT ![c.transfer] = s]
  BY <1>s, <1>2 DEF Proforma!Generate, Proforma!Answer
<1>4. /\ d \in Proforma!Call /\ d.version = c.version /\ d.kind = c.kind /\ d.transfer = c.transfer
      /\ d.awaited = c.awaited /\ d.stage = "answered" /\ d.began = c.began /\ d.statement = s
      /\ d.awaited \in BOOLEAN
  BY <1>1, <1>2, <1>t DEF Proforma!Call, Proforma!Stage
<1>5. Serves(c, d)
  BY <1>1, <1>4, <1>t DEF Serves, FineCall
<1>f. /\ UNCHANGED <<tab, proformaVersion, proformaRows, figures, proformaFaults>> /\ ids' = ids + 1
      /\ proformaCalls' \subseteq proformaCalls \cup {d}
  BY <1>3 DEF Proforma!Generate, Proforma!Put
<1>6. CallsFine' /\ OfLoaded' /\ Proforma!BusyIsNewest' /\ proformaCalls' \subseteq Proforma!Call
  BY <1>3, <1>4, <1>5, <1>f, ProformaServes DEF Proforma!Begun
<1>7. Proforma!TypeOK'
  BY <1>1, <1>3, <1>6, <1>f, <1>t, ProformaTypes DEF ProformaInv, Proforma!TypeOK
<1>8. \A t \in Transfer : cache'[t] = cache[t] \/ (cache'[t] = s /\ s.transfer = t)
  <2>1. cache \in [Transfer -> Proforma!Statement \cup {NoStatement}]
    BY ProformaTypes
  <2>. QED
    BY <1>1, <1>3, <1>t, <2>1
<1>9. Stored'
  BY <1>8, <1>f DEF ProformaInv, Stored
<1>10. Known' \subseteq Known \cup {s}
  BY <1>4, <1>8, <1>f DEF Known
<1>11. KnownOnce'
  <2>1. KnownOnce /\ \A u \in Known : u.id \in Nat /\ u.id <= ids
    BY ProformaKnown DEF ProformaInv, KnownOnce
  <2>2. \A u \in Known' : u.id <= ids + 1
    BY <1>1, <1>10, <1>t, <2>1
  <2>3. \A u, w \in Known' : u.id = w.id => u.transfer = w.transfer
    BY <1>1, <1>10, <1>t, <2>1 DEF KnownOnce
  <2>. QED
    BY <1>f, <2>2, <2>3 DEF KnownOnce
<1>12. Proforma!FiguresOfStatement'
  BY <1>f, ProformaFiguresKept
<1>. QED
  BY <1>6, <1>7, <1>9, <1>11, <1>12 DEF ProformaInv

\* The row that a transaction replaces is of the statement it writes, and so of
\* the transfer whose figures it writes: no other's lose theirs.
LEMMA ProformaCommit ==
    ASSUME ProformaInv, ProformaAssumption, NEW c \in proformaCalls, Proforma!Commit(c)
    PROVE  ProformaInv'
<1>1. PICK d : d = [c EXCEPT !.stage = "answered", !.statement = c.statement]
  OBVIOUS
<1>2. /\ Serves(c, d) /\ d.awaited = c.awaited /\ d.statement = c.statement
      /\ c.statement \in Proforma!Statement
      /\ c.statement.transfer = c.transfer /\ c.transfer \in Transfer /\ c.statement # NoStatement
  BY <1>1, ProformaAnswered DEF Proforma!Commit, ProformaAssumption
<1>3. Proforma!Put(c, d)
  BY <1>1 DEF Proforma!Commit, Proforma!Answer
<1>4. PICK r : r = [statement |-> c.statement, updated |-> c.began]
  OBVIOUS
<1>f. /\ proformaRows' = {o \in proformaRows : o.statement.id # c.statement.id} \cup {r}
      /\ figures' = [figures EXCEPT ![c.transfer] = Proforma!Taken(c.statement)]
      /\ UNCHANGED <<tab, proformaVersion, cache, ids, proformaFaults>> /\ c.stage = "figures"
  BY <1>4 DEF Proforma!Commit
<1>5. c.began \in Proforma!Begun /\ c.began \in 1 .. MaxStatementVersion
  BY <1>2, <1>f, ProformaTypes DEF Proforma!Begun, FineCall
<1>6. r \in Proforma!Row /\ r.statement = c.statement /\ r.updated = c.began
  BY <1>2, <1>4, <1>5 DEF Proforma!Row
<1>7. CallsFine' /\ OfLoaded' /\ Proforma!BusyIsNewest' /\ proformaCalls' \subseteq Proforma!Call
  <2>1. \A o \in proformaRows' : o.updated \in Proforma!Begun
    BY <1>f, <1>5, <1>6 DEF Proforma!Begun
  <2>. QED
    BY <1>2, <1>3, <1>f, <2>1, ProformaServes
<1>8. Proforma!TypeOK'
  <2>1. /\ proformaRows' \subseteq Proforma!Row
        /\ \A o, p \in proformaRows' : o.statement.id = p.statement.id => o = p
    BY <1>f, <1>6, ProformaTypes DEF ProformaInv, Proforma!TypeOK
  <2>2. figures' \in [Transfer -> [Proforma!Figure -> Proforma!Statement \cup {NoStatement}]]
    <3>1. Proforma!Taken(c.statement) \in [Proforma!Figure -> Proforma!Statement \cup {NoStatement}]
      BY <1>2 DEF Proforma!Taken
    <3>. QED
      BY <1>f, <1>2, <3>1, ProformaTypes
  <2>. QED
    BY <1>7, <1>f, <2>1, <2>2, ProformaTypes DEF ProformaInv, Proforma!TypeOK
<1>9. \A t \in Transfer : /\ t # c.transfer => figures'[t] = figures[t]
                          /\ t = c.transfer => \A f \in Proforma!Figure : figures'[t][f] = c.statement
  BY <1>f, <1>2, ProformaTypes DEF Proforma!Taken
<1>10. Stored'
  BY <1>2, <1>9, <1>f DEF ProformaInv, Stored
<1>11. KnownOnce'
  <2>1. proformaCalls' \subseteq proformaCalls \cup {d}
    BY <1>3 DEF Proforma!Put
  <2>2. c.statement \in Known
    BY <1>2, ProformaKnows
  <2>3. /\ \A e \in proformaCalls' : e.statement \in Known \cup {NoStatement}
        /\ \A o \in proformaRows' : o.statement \in Known \cup {NoStatement}
        /\ \A t \in Transfer, f \in Proforma!Figure : figures'[t][f] \in Known \cup {NoStatement}
    BY <1>2, <1>6, <1>9, <1>f, <2>1, <2>2, ProformaKnows
  <2>. QED
    BY <1>f, <2>3, ProformaKnows, ProformaKnownOf
<1>12. Proforma!FiguresOfStatement'
  <2> SUFFICES ASSUME NEW t \in Transfer, Proforma!TakenFrom(t)' # {}
               PROVE  \E o \in proformaRows' : Proforma!TakenFrom(t)' = {o.statement}
    BY DEF Proforma!FiguresOfStatement
  <2>1. CASE t = c.transfer
    <3>1. Proforma!TakenFrom(t)' = {c.statement}
      BY <1>2, <1>9, <2>1 DEF Proforma!TakenFrom
    <3>. QED
      BY <1>6, <1>f, <3>1
  <2>2. CASE t # c.transfer
    <3>1. Proforma!TakenFrom(t)' = Proforma!TakenFrom(t)
      <4>1. figures'[t] = figures[t]
        BY <1>9, <2>2
      <4>. QED
        BY <4>1 DEF Proforma!TakenFrom
    <3>2. PICK o \in proformaRows : Proforma!TakenFrom(t) = {o.statement}
      BY <3>1 DEF ProformaInv, Proforma!FiguresOfStatement
    <3>3. PICK f \in Proforma!Figure : figures[t][f] = o.statement /\ figures[t][f] # NoStatement
      BY <3>2 DEF Proforma!TakenFrom
    <3>4. o.statement.transfer = t /\ o.statement \in Known /\ c.statement \in Known
      BY <1>2, <3>3, ProformaKnows DEF ProformaInv, Stored
    <3>5. o.statement.id # c.statement.id
      BY <1>2, <2>2, <3>4 DEF ProformaInv, KnownOnce
    <3>. QED
      BY <1>f, <3>1, <3>2, <3>5
  <2>. QED
    BY <2>1, <2>2
<1>. QED
  BY <1>7, <1>8, <1>10, <1>11, <1>12 DEF ProformaInv

-----------------------------------------------------------------------------

LEMMA ProformaFewer ==
    ASSUME ProformaInv, ProformaAssumption, proformaCalls' \subseteq proformaCalls,
           proformaVersion' = proformaVersion, proformaRows' = proformaRows
    PROVE  CallsFine'
<1>t. /\ proformaVersion \in Nat /\ IsFiniteSet(proformaCalls) /\ Cardinality(Ahead) \in Nat
      /\ IsFiniteSet(Ahead)
      /\ \A b \in Proforma!Begun : b \in Nat /\ b + Cardinality(Ahead) < proformaVersion
  <2>1. \A b \in Proforma!Begun : b \in Nat
    BY ProformaTypes DEF Proforma!Begun, Proforma!Row
  <2>. QED
    BY <2>1, ProformaTypes, ProformaAheadFew DEF ProformaInv, CallsFine, Proforma!Begun
<1>1. Ahead' \subseteq Ahead /\ Proforma!Begun' \subseteq Proforma!Begun
  BY DEF Ahead, Proforma!Begun
<1>2. Cardinality(Ahead') <= Cardinality(Ahead) /\ Cardinality(Ahead') \in Nat
  BY <1>t, <1>1, FS_Subset, FS_CardinalityType
<1>3. IsFiniteSet(proformaCalls')
  BY <1>t, FS_Subset
<1>4. \A e \in proformaCalls' : FineCall(e)'
  BY DEF FineCall, ProformaInv, CallsFine
<1>. QED
  BY <1>t, <1>1, <1>2, <1>3, <1>4 DEF ProformaInv, CallsFine

LEMMA ProformaSent ==
    ASSUME ProformaInv, ProformaAssumption, NEW d \in Proforma!Call,
           d.version = proformaVersion + 1, d.began = 0,
           FineCall(d)', proformaCalls' = proformaCalls \cup {d}, proformaVersion' = proformaVersion + 1, proformaRows' = proformaRows
    PROVE  CallsFine'
<1>t. /\ proformaVersion \in Nat /\ IsFiniteSet(proformaCalls) /\ Cardinality(Ahead) \in Nat
      /\ IsFiniteSet(Ahead)
      /\ \A b \in Proforma!Begun : b \in Nat /\ b + Cardinality(Ahead) < proformaVersion
      /\ Cardinality(Ahead) < proformaVersion
      /\ \A c \in proformaCalls : c.version \in Nat /\ c.version <= proformaVersion
  <2>1. \A b \in Proforma!Begun : b \in Nat
    BY ProformaTypes DEF Proforma!Begun, Proforma!Row
  <2>2. \A c \in proformaCalls : c.version \in Nat /\ c.version <= proformaVersion
    BY ProformaTypes DEF FineCall
  <2>. QED
    BY <2>1, <2>2, ProformaTypes, ProformaAheadFew DEF ProformaInv, CallsFine,
       Proforma!Begun
<1>1. Ahead' \subseteq Ahead \cup {d} /\ Proforma!Begun' \subseteq Proforma!Begun \cup {0}
  BY DEF Ahead, Proforma!Begun
<1>2. Cardinality(Ahead') <= Cardinality(Ahead) + 1 /\ Cardinality(Ahead') \in Nat
  <2>1. IsFiniteSet(Ahead \cup {d})
        /\ Cardinality(Ahead \cup {d}) = IF d \in Ahead THEN Cardinality(Ahead) ELSE Cardinality(Ahead) + 1
    BY <1>t, FS_AddElement
  <2>2. Cardinality(Ahead \cup {d}) <= Cardinality(Ahead) + 1 /\ Cardinality(Ahead \cup {d}) \in Nat
    BY <1>t, <2>1
  <2>3. Cardinality(Ahead') <= Cardinality(Ahead \cup {d}) /\ Cardinality(Ahead') \in Nat
    BY <1>1, <2>1, FS_Subset, FS_CardinalityType
  <2>. QED
    BY <1>t, <2>2, <2>3
<1>3. IsFiniteSet(proformaCalls')
  BY <1>t, FS_AddElement
<1>4. \A e \in proformaCalls' : FineCall(e)'
  <2>1. \A e \in proformaCalls : FineCall(e)'
    BY <1>t, ProformaTypes DEF FineCall
  <2>. QED
    BY <2>1
<1>5. \A e, f \in proformaCalls' : e.version = f.version => e = f
  BY <1>t DEF ProformaInv, CallsFine
<1>6. \A b \in Proforma!Begun' : b + Cardinality(Ahead') < proformaVersion'
  BY <1>t, <1>1, <1>2
<1>. QED
  BY <1>3, <1>4, <1>5, <1>6 DEF CallsFine

\* Figures that are the transfer's own take none of the others' from a statement.
LEMMA ProformaOwnFigures ==
    ASSUME ProformaInv, ProformaAssumption, NEW t \in Transfer,
           NEW given \in SUBSET Proforma!Figure,
           Proforma!OwnFigures(t, given)
    PROVE  ProformaInv'
<1>1. /\ figures' = [figures EXCEPT ![t] = [f \in Proforma!Figure |-> IF f \in given THEN NoStatement ELSE @[f]]]
      /\ tab' = tab /\ proformaVersion' = proformaVersion /\ proformaCalls' = proformaCalls
      /\ cache' = cache /\ proformaRows' = proformaRows /\ ids' = ids
      /\ proformaFaults' = proformaFaults
  BY DEF Proforma!OwnFigures
<1>2. /\ figures' \in [Transfer -> [Proforma!Figure -> Proforma!Statement \cup {NoStatement}]]
      /\ \A u \in Transfer, f \in Proforma!Figure : figures'[u][f] \in {figures[u][f], NoStatement}
  BY <1>1, ProformaTypes
<1>3. CallsFine'
  BY <1>1, ProformaFewer
<1>4. Proforma!TypeOK'
  BY <1>1, <1>2 DEF ProformaInv, Proforma!TypeOK
<1>5. OfLoaded' /\ Proforma!BusyIsNewest'
  BY <1>1 DEF ProformaInv, OfLoaded, Proforma!BusyIsNewest, Proforma!Current
<1>6. Stored'
  BY <1>1, <1>2 DEF ProformaInv, Stored
<1>7. KnownOnce'
  BY <1>1, <1>2, ProformaKnows, ProformaKnownOf
<1>8. Proforma!FiguresOfStatement'
  <2> SUFFICES ASSUME NEW u \in Transfer, Proforma!TakenFrom(u)' # {}
               PROVE  \E o \in proformaRows' : Proforma!TakenFrom(u)' = {o.statement}
    BY DEF Proforma!FiguresOfStatement
  <2>1. Proforma!TakenFrom(u)' \subseteq Proforma!TakenFrom(u)
    BY <1>2 DEF Proforma!TakenFrom
  <2>2. PICK o \in proformaRows : Proforma!TakenFrom(u) = {o.statement}
    BY <2>1 DEF ProformaInv, Proforma!FiguresOfStatement
  <2>. QED
    BY <1>1, <2>1, <2>2
<1>. QED
  BY <1>3, <1>4, <1>5, <1>6, <1>7, <1>8 DEF ProformaInv

\* No other call has the newest version.
LEMMA ProformaNewest ==
    ASSUME ProformaInv, ProformaAssumption, NEW c \in proformaCalls,
           c.version = proformaVersion
    PROVE  \A e \in proformaCalls : e.version = proformaVersion => e = c
BY DEF ProformaInv, CallsFine

LEMMA ProformaTurns ==
    ASSUME ProformaInv, ProformaAssumption, NEW t \in Transfer, Proforma!Rerender(t) \/ Proforma!SavedMessageEnds
    PROVE  ProformaInv'
<1>t. tab \in ProformaTab
  BY ProformaTypes
<1>1. /\ tab' \in ProformaTab /\ tab'.statement = tab.statement /\ tab'.loadedFor = tab.loadedFor
      /\ tab'.isLoading = tab.isLoading /\ tab'.isSaving = tab.isSaving
      /\ UNCHANGED <<proformaVersion, proformaCalls, cache, proformaRows, figures, ids, proformaFaults>>
  BY <1>t DEF Proforma!Rerender, Proforma!SavedMessageEnds, Proforma!server, ProformaTab
<1>2. CallsFine'
  BY <1>1, ProformaFewer
<1>3. Proforma!TypeOK'
  BY <1>1 DEF ProformaInv, Proforma!TypeOK, ProformaTab
<1>4. OfLoaded' /\ Proforma!BusyIsNewest'
  BY <1>1 DEF ProformaInv, OfLoaded, Proforma!BusyIsNewest, Proforma!Current
<1>5. Stored' /\ Proforma!FiguresOfStatement'
  BY <1>1, ProformaFiguresKept
<1>6. KnownOnce'
  BY <1>1, ProformaKnows, ProformaKnownOf
<1>. QED
  BY <1>2, <1>3, <1>4, <1>5, <1>6 DEF ProformaInv

LEMMA ProformaLoads ==
    ASSUME ProformaInv, ProformaAssumption, Proforma!loadAccounts
    PROVE  ProformaInv'
<1>t. /\ tab \in ProformaTab /\ proformaVersion \in Nat
      /\ proformaVersion + 1 \in 1 .. MaxStatementVersion /\ tab.transfer \in Transfer
      /\ MaxStatementVersion \in Nat
  BY ProformaTypes DEF Proforma!loadAccounts, Proforma!Room, ProformaTab
<1>d. PICK d : d = Proforma!LoadOf(tab.transfer, proformaVersion + 1)
  OBVIOUS
<1>1. /\ d \in Proforma!Call /\ d.version = proformaVersion + 1 /\ d.began = 0 /\ d.kind = "load"
      /\ d.awaited
      /\ d.stage = "sent" /\ d.statement = NoStatement
  BY <1>t, <1>d DEF Proforma!LoadOf, Proforma!Call, Proforma!Stage
<1>2. /\ tab' \in ProformaTab /\ tab'.statement = NoStatement /\ tab'.isLoading = TRUE
      /\ tab'.isSaving = FALSE
      /\ proformaCalls' = proformaCalls \cup {d} /\ proformaVersion' = proformaVersion + 1
      /\ tab'.loadedFor = tab.loadedFor
      /\ UNCHANGED <<cache, proformaRows, figures, ids, proformaFaults>>
  BY <1>t, <1>d DEF Proforma!loadAccounts, Proforma!server, ProformaTab
<1>3. CallsFine'
  <2>1. FineCall(d)'
    BY <1>1, <1>2, <1>t DEF FineCall
  <2>. QED
    BY <1>1, <1>2, <2>1, ProformaSent
<1>4. Proforma!TypeOK'
  BY <1>1, <1>2, <1>t DEF ProformaInv, Proforma!TypeOK, ProformaTab
<1>5. \A c \in proformaCalls : c.version # proformaVersion + 1
  BY <1>t, ProformaTypes DEF FineCall
<1>6. OfLoaded' /\ Proforma!BusyIsNewest'
  BY <1>1, <1>2, <1>5 DEF OfLoaded, Proforma!BusyIsNewest, Proforma!Current
<1>7. Stored' /\ Proforma!FiguresOfStatement'
  BY <1>2, ProformaFiguresKept
<1>8. KnownOnce'
  BY <1>1, <1>2, ProformaKnows, ProformaKnownOf
<1>. QED
  BY <1>3, <1>4, <1>6, <1>7, <1>8 DEF ProformaInv

LEMMA ProformaUpdates ==
    ASSUME ProformaInv, ProformaAssumption, NEW content \in Content,
           Proforma!handleUpdateStatement(content)
    PROVE  ProformaInv'
<1>t. /\ tab \in ProformaTab /\ proformaVersion \in Nat
      /\ proformaVersion + 1 \in 1 .. MaxStatementVersion /\ MaxStatementVersion \in Nat
      /\ tab.statement \in Proforma!Statement /\ tab.statement.transfer = tab.loadedFor
      /\ tab.isLoading = FALSE /\ tab.statement \in Known
  BY ProformaTypes, ProformaKnows DEF Proforma!handleUpdateStatement, Proforma!Drawn,
     Proforma!Room, ProformaTab, ProformaInv, OfLoaded
<1>s. PICK s : s = [tab.statement EXCEPT !.content = content]
  OBVIOUS
<1>d. PICK d : d = [kind |-> "save", version |-> proformaVersion + 1, transfer |-> tab.statement.transfer,
                    statement |-> s, stage |-> "sent", awaited |-> TRUE, began |-> 0]
  OBVIOUS
<1>0. /\ s \in Proforma!Statement /\ s.transfer = tab.statement.transfer /\ s.id = tab.statement.id
      /\ s.transfer \in Transfer
  BY <1>t, <1>s DEF Proforma!Statement
<1>1. /\ d \in Proforma!Call /\ d.version = proformaVersion + 1 /\ d.began = 0 /\ d.kind = "save"
      /\ d.awaited
      /\ d.stage = "sent" /\ d.statement = s /\ d.transfer = s.transfer
  BY <1>0, <1>t, <1>d DEF Proforma!Call, Proforma!Stage
<1>2. /\ tab' \in ProformaTab /\ tab'.statement = tab.statement /\ tab'.isLoading = FALSE
      /\ tab'.isSaving = TRUE /\ proformaCalls' = proformaCalls \cup {d}
      /\ proformaVersion' = proformaVersion + 1
      /\ tab'.loadedFor = tab.loadedFor
      /\ UNCHANGED <<cache, proformaRows, figures, ids, proformaFaults>>
  BY <1>t, <1>s, <1>d DEF Proforma!handleUpdateStatement, Proforma!server, ProformaTab
<1>3. CallsFine'
  <2>1. FineCall(d)'
    BY <1>0, <1>1, <1>2, <1>t DEF FineCall
  <2>. QED
    BY <1>1, <1>2, <2>1, ProformaSent
<1>4. Proforma!TypeOK'
  BY <1>1, <1>2, <1>t DEF ProformaInv, Proforma!TypeOK, ProformaTab
<1>5. \A c \in proformaCalls : c.version # proformaVersion + 1
  BY <1>t, ProformaTypes DEF FineCall
<1>6. OfLoaded' /\ Proforma!BusyIsNewest'
  BY <1>0, <1>1, <1>2, <1>5, <1>t DEF OfLoaded, Proforma!BusyIsNewest, Proforma!Current
<1>7. Stored' /\ Proforma!FiguresOfStatement'
  BY <1>2, ProformaFiguresKept
<1>8. KnownOnce'
  <2>1. Known' \subseteq Known \cup {s}
    BY <1>1, <1>2 DEF Known
  <2>. QED
    BY <1>0, <1>2, <1>t, <2>1, ProformaKnownOnce
<1>. QED
  BY <1>3, <1>4, <1>6, <1>7, <1>8 DEF ProformaInv

LEMMA ProformaAnswers ==
    ASSUME ProformaInv, ProformaAssumption, NEW c \in proformaCalls, Proforma!LoadAnswers(c) \/ Proforma!SaveAnswers(c)
    PROVE  ProformaInv'
<1>t. /\ tab \in ProformaTab /\ proformaVersion \in Nat /\ c.transfer \in Transfer
      /\ c.statement \in Proforma!Statement
      /\ c.statement.transfer = c.transfer /\ c.awaited /\ c.kind \in {"load", "save"}
      /\ c.statement \in Known \cup {NoStatement}
  BY ProformaTypes, ProformaKnows DEF Proforma!LoadAnswers, Proforma!SaveAnswers, FineCall
<1>1. /\ proformaCalls' = proformaCalls \ {c}
      /\ UNCHANGED <<proformaVersion, cache, proformaRows, figures, ids, proformaFaults>>
  BY DEF Proforma!LoadAnswers, Proforma!SaveAnswers, Proforma!server
<1>2. CallsFine'
  BY <1>1, ProformaFewer
<1>3. CASE c.version = proformaVersion
  <2>1. \A e \in proformaCalls' : e.version # proformaVersion
    BY <1>1, <1>3, ProformaNewest
  <2>2. /\ c.kind = "load" => tab.isSaving = FALSE
        /\ c.kind = "save" => tab.isLoading = FALSE /\ c.transfer = tab.loadedFor
    BY <1>3, <1>t, ProformaNewest DEF ProformaInv, Proforma!BusyIsNewest, OfLoaded,
       Proforma!Current, ProformaTab
  <2>3. /\ tab' \in ProformaTab /\ tab'.statement = c.statement /\ tab'.isLoading = FALSE
        /\ tab'.isSaving = FALSE /\ tab'.loadedFor = c.transfer
    <3>1. CASE Proforma!LoadAnswers(c)
      BY <1>3, <1>t, <2>2, <3>1 DEF Proforma!LoadAnswers, Proforma!Current, ProformaTab
    <3>2. CASE Proforma!SaveAnswers(c)
      BY <1>3, <1>t, <2>2, <3>2 DEF Proforma!SaveAnswers, Proforma!Current, ProformaTab
    <3>. QED
      BY <3>1, <3>2
  <2>4. Proforma!TypeOK'
    BY <1>1, <2>3 DEF ProformaInv, Proforma!TypeOK, ProformaTab
  <2>5. OfLoaded' /\ Proforma!BusyIsNewest'
    BY <1>1, <1>t, <2>1, <2>3 DEF OfLoaded, Proforma!BusyIsNewest, Proforma!Current
  <2>6. Stored' /\ Proforma!FiguresOfStatement'
    BY <1>1, ProformaFiguresKept
  <2>7. KnownOnce'
    BY <1>1, <1>t, <2>3, ProformaKnows, ProformaKnownOf
  <2>. QED
    BY <1>2, <2>4, <2>5, <2>6, <2>7 DEF ProformaInv
<1>4. CASE c.version # proformaVersion
  <2>1. tab' = tab
    BY <1>4 DEF Proforma!LoadAnswers, Proforma!SaveAnswers, Proforma!Current
  <2>4. Proforma!TypeOK'
    BY <1>1, <2>1 DEF ProformaInv, Proforma!TypeOK
  <2>5. OfLoaded' /\ Proforma!BusyIsNewest'
    BY <1>1, <1>4, <2>1 DEF ProformaInv, OfLoaded, Proforma!BusyIsNewest, Proforma!Current
  <2>6. Stored' /\ Proforma!FiguresOfStatement'
    BY <1>1, ProformaFiguresKept
  <2>7. KnownOnce'
    BY <1>1, <2>1, ProformaKnows, ProformaKnownOf
  <2>. QED
    BY <1>2, <2>4, <2>5, <2>6, <2>7 DEF ProformaInv
<1>. QED
  BY <1>3, <1>4

\* What goes with a failed page of calls: the newest is awaited no more, or
\* nothing on the page changes.
Stays ==
    /\ tab' = tab
    /\ \A k : (\E e \in proformaCalls' : e.kind = k /\ e.awaited /\ e.version = proformaVersion)
                  <=> (\E e \in proformaCalls : e.kind = k /\ e.awaited /\ e.version = proformaVersion)
Fails ==
    /\ tab' = [tab EXCEPT !.error = TRUE, !.isLoading = FALSE, !.isSaving = FALSE,
                          !.statement = NoStatement]
    /\ \A e \in proformaCalls' : e.version = proformaVersion => ~e.awaited

LEMMA ProformaGone ==
    ASSUME ProformaInv, ProformaAssumption, UNCHANGED <<proformaVersion, proformaRows,
           figures, ids>>, CallsFine',
           proformaCalls' \subseteq Proforma!Call, proformaFaults' \in Nat, proformaFaults' <= MaxFaults,
           cache' = cache \/ cache' = [t \in Transfer |-> NoStatement],
           \A e \in proformaCalls' : \E c \in proformaCalls : /\ e.version = c.version /\ e.kind = c.kind
                                                              /\ e.transfer = c.transfer /\ e.statement = c.statement,
           Stays \/ Fails
    PROVE  ProformaInv'
<1>t. tab \in ProformaTab
  BY ProformaTypes
<1>3. Proforma!BusyIsNewest'
  <2>1. CASE Stays
    <3>1. \A k : (\E e \in proformaCalls' : e.kind = k /\ e.awaited /\ e.version = proformaVersion)
                   <=> (\E e \in proformaCalls : e.kind = k /\ e.awaited /\ e.version = proformaVersion)
      BY <2>1 DEF Stays
    <3>2. tab' = tab /\ proformaVersion' = proformaVersion
      BY <2>1 DEF Stays
    <3>. QED
      BY <3>1, <3>2 DEF ProformaInv, Proforma!BusyIsNewest, Proforma!Current
  <2>2. CASE Fails
    <3>1. \A e \in proformaCalls' : e.version = proformaVersion' => ~e.awaited
      BY <2>2 DEF Fails
    <3>2. tab'.isLoading = FALSE /\ tab'.isSaving = FALSE
      BY <2>2, <1>t DEF Fails, ProformaTab
    <3>. QED
      BY <3>1, <3>2 DEF Proforma!BusyIsNewest, Proforma!Current
  <2>. QED
    BY <2>1, <2>2
<1>4. /\ tab' \in ProformaTab /\ tab'.loadedFor = tab.loadedFor
      /\ tab'.statement = tab.statement \/ tab'.statement = NoStatement
  BY <1>t DEF ProformaTab, Stays, Fails
<1>5. cache' \in [Transfer -> Proforma!Statement \cup {NoStatement}]
  BY ProformaTypes
<1>6. Proforma!TypeOK'
  BY <1>4, <1>5, ProformaTypes DEF ProformaInv, Proforma!TypeOK, ProformaTab
<1>7. OfLoaded'
  BY <1>4 DEF ProformaInv, OfLoaded, Proforma!Current
<1>8. Stored' /\ Proforma!FiguresOfStatement'
  BY ProformaFiguresKept
<1>9. KnownOnce'
  <2>1. \A e \in proformaCalls' : e.statement \in Known \cup {NoStatement}
    BY ProformaKnows
  <2>2. \A t \in Transfer : cache'[t] \in Known \cup {NoStatement}
    BY ProformaKnows
  <2>. QED
    BY <1>4, <2>1, <2>2, ProformaKnows, ProformaKnownOf
<1>. QED
  BY <1>3, <1>6, <1>7, <1>8, <1>9 DEF ProformaInv

LEMMA ProformaCallFails ==
    ASSUME ProformaInv, ProformaAssumption, NEW c \in proformaCalls, Proforma!CallFails(c)
    PROVE  ProformaInv'
<1>t. c \in Proforma!Call /\ FineCall(c) /\ c.awaited
  BY ProformaTypes DEF Proforma!CallFails
<1>d. PICK d : d = [c EXCEPT !.awaited = FALSE]
  OBVIOUS
<1>1. /\ d \in Proforma!Call /\ d.version = c.version /\ d.kind = c.kind /\ d.transfer = c.transfer
      /\ d.stage = c.stage /\ d.statement = c.statement /\ d.began = c.began /\ d.awaited = FALSE
  BY <1>t, <1>d DEF Proforma!Call
<1>2. Serves(c, d) /\ (d.stage # "answered" => FineCall(d))
  BY <1>t, <1>1 DEF Serves, FineCall
<1>3. /\ UNCHANGED <<proformaVersion, cache, proformaRows, figures, ids>> /\ proformaFaults' \in Nat
      /\ proformaFaults' <= MaxFaults
      /\ proformaCalls' = proformaCalls \ {c} \/ proformaCalls' = (proformaCalls \ {c}) \cup {d}
      /\ proformaCalls' = proformaCalls \ {c} \/ FineCall(d)
  <2>1. CASE d.stage = "answered"
    BY <1>1, <1>d, <2>1, ProformaTypes DEF Proforma!CallFails, Proforma!Put, Proforma!server
  <2>2. CASE d.stage # "answered"
    BY <1>1, <1>2, <1>d, <2>2, ProformaTypes DEF Proforma!CallFails, Proforma!Put,
       Proforma!server
  <2>. QED
    BY <2>1, <2>2
<1>4. CallsFine' /\ proformaCalls' \subseteq Proforma!Call
  BY <1>1, <1>2, <1>3, ProformaCalls, ProformaTypes DEF Proforma!Begun
<1>5. \A e \in proformaCalls' : \E b \in proformaCalls : /\ e.version = b.version /\ e.kind = b.kind
                                                         /\ e.transfer = b.transfer
                                                         /\ e.statement = b.statement
  BY <1>1, <1>3
<1>6. CASE c.version = proformaVersion
  <2>1. tab' = [tab EXCEPT !.error = TRUE, !.isLoading = FALSE, !.isSaving = FALSE,
                           !.statement = NoStatement]
    BY <1>6 DEF Proforma!CallFails, Proforma!Current
  <2>2. \A e \in proformaCalls' : e.version = proformaVersion => ~e.awaited
    BY <1>1, <1>3, <1>6, ProformaNewest
  <2>. QED
    BY <1>3, <1>4, <1>5, <2>1, <2>2, ProformaGone DEF Stays, Fails
<1>7. CASE c.version # proformaVersion
  <2>1. tab' = tab
    BY <1>7 DEF Proforma!CallFails, Proforma!Current
  <2>2. \A k : (\E e \in proformaCalls' : e.kind = k /\ e.awaited /\ e.version = proformaVersion)
                            <=> (\E e \in proformaCalls : e.kind = k /\ e.awaited /\ e.version = proformaVersion)
    BY <1>1, <1>3, <1>7
  <2>. QED
    BY <1>3, <1>4, <1>5, <2>1, <2>2, ProformaGone DEF Stays, Fails
<1>. QED
  BY <1>6, <1>7

LEMMA ProformaRestart ==
    ASSUME ProformaInv, ProformaAssumption, Proforma!Restart
    PROVE  ProformaInv'
<1>1. /\ UNCHANGED <<proformaVersion, proformaRows, figures, ids>> /\ proformaFaults' \in Nat
      /\ proformaFaults' <= MaxFaults
      /\ proformaCalls' \subseteq proformaCalls /\ cache' = [t \in Transfer |-> NoStatement]
  BY ProformaTypes DEF Proforma!Restart
<1>2. CallsFine' /\ proformaCalls' \subseteq Proforma!Call
  BY <1>1, ProformaFewer, ProformaTypes
<1>3. PICK lost : lost = {c \in proformaCalls : c.awaited /\ c.version = proformaVersion} \ proformaCalls'
  OBVIOUS
<1>4. tab' = IF lost = {} THEN tab
             ELSE [tab EXCEPT !.statement = NoStatement, !.isLoading = FALSE,
                              !.isSaving = FALSE, !.error = TRUE]
  BY <1>3 DEF Proforma!Restart
<1>5. CASE lost = {}
  <2>1. \A k : (\E e \in proformaCalls' : e.kind = k /\ e.awaited /\ e.version = proformaVersion)
                            <=> (\E e \in proformaCalls : e.kind = k /\ e.awaited /\ e.version = proformaVersion)
    BY <1>1, <1>3, <1>5
  <2>. QED
    BY <1>1, <1>2, <1>4, <1>5, <2>1, ProformaGone DEF Stays
<1>6. CASE lost # {}
  <2>1. PICK c \in lost : c \in proformaCalls /\ c.version = proformaVersion /\ c \notin proformaCalls'
    BY <1>3, <1>6
  <2>2. \A e \in proformaCalls' : e.version = proformaVersion => ~e.awaited
    BY <1>1, <2>1, ProformaNewest
  <2>3. tab' = [tab EXCEPT !.error = TRUE, !.isLoading = FALSE, !.isSaving = FALSE,
                           !.statement = NoStatement]
    BY <1>4, <1>6, ProformaTypes DEF ProformaTab
  <2>. QED
    BY <1>1, <1>2, <2>2, <2>3, ProformaGone DEF Fails
<1>. QED
  BY <1>5, <1>6

-----------------------------------------------------------------------------

LEMMA ProformaInit ==
    ASSUME Proforma!Init, ProformaAssumption
    PROVE  ProformaInv
<1>1. PICK t \in Transfer :
         /\ tab = [transfer |-> t, due |-> FALSE, statement |-> NoStatement, loadedFor |-> NoStatement,
                   isLoading |-> TRUE, isSaving |-> FALSE, savedSuccess |-> FALSE, error |-> FALSE]
         /\ proformaCalls = {Proforma!LoadOf(t, 1)}
  BY DEF Proforma!Init
<1>2. PICK c : c = Proforma!LoadOf(t, 1)
  OBVIOUS
<1>t. /\ proformaVersion = 1 /\ cache = [u \in Transfer |-> NoStatement] /\ proformaRows = {}
      /\ figures = [u \in Transfer |-> Proforma!Taken(NoStatement)] /\ ids = 0 /\ proformaFaults = 0
      /\ MaxStatementVersion \in Nat /\ 1 <= MaxStatementVersion /\ MaxIds \in Nat
      /\ MaxFaults \in Nat
  BY DEF Proforma!Init, ProformaAssumption
<1>3. /\ c \in Proforma!Call /\ c.version = 1 /\ c.began = 0 /\ c.kind = "load" /\ c.awaited = TRUE
      /\ c.stage = "sent" /\ c.statement = NoStatement /\ proformaCalls = {c}
  BY <1>1, <1>2, <1>t DEF Proforma!LoadOf, Proforma!Call, Proforma!Stage
<1>4. Proforma!TypeOK
  BY <1>1, <1>3, <1>t DEF Proforma!TypeOK, Proforma!Taken
<1>5. CallsFine
  <2>1. IsFiniteSet(proformaCalls)
    BY <1>3, FS_Singleton
  <2>2. Ahead = {} /\ Proforma!Begun = {0}
    BY <1>3, <1>t DEF Ahead, Proforma!Begun
  <2>3. Cardinality(Ahead) = 0
    BY <2>2, FS_EmptySet
  <2>4. \A e \in proformaCalls : FineCall(e)
    BY <1>3, <1>t DEF FineCall
  <2>. QED
    BY <1>3, <1>t, <2>1, <2>2, <2>3, <2>4 DEF CallsFine
<1>6. OfLoaded /\ Proforma!BusyIsNewest
  BY <1>1, <1>3, <1>t DEF OfLoaded, Proforma!BusyIsNewest, Proforma!Current
<1>7. Stored /\ Proforma!FiguresOfStatement
  BY <1>t DEF Stored, Proforma!FiguresOfStatement, Proforma!Taken, Proforma!TakenFrom
<1>8. KnownOnce
  <2>1. Known = {}
    BY <1>1, <1>3, <1>t DEF Known, Proforma!Taken
  <2>. QED
    BY <2>1 DEF KnownOnce
<1>. QED
  BY <1>4, <1>5, <1>6, <1>7, <1>8 DEF ProformaInv

LEMMA ProformaStep ==
    ASSUME ProformaInv, ProformaAssumption, [Proforma!Next]_(Proforma!vars)
    PROVE  ProformaInv'
<1>1. CASE UNCHANGED Proforma!vars
  <2>1. /\ tab' = tab /\ proformaVersion' = proformaVersion /\ proformaCalls' = proformaCalls
        /\ cache' = cache /\ proformaRows' = proformaRows
        /\ figures' = figures /\ ids' = ids /\ proformaFaults' = proformaFaults
    BY <1>1 DEF Proforma!vars
  <2>2. CallsFine'
    BY <2>1, ProformaFewer
  <2>3. Proforma!TypeOK'
    BY <2>1 DEF ProformaInv, Proforma!TypeOK
  <2>4. OfLoaded' /\ Proforma!BusyIsNewest'
    BY <2>1 DEF ProformaInv, OfLoaded, Proforma!BusyIsNewest, Proforma!Current
  <2>5. Stored' /\ Proforma!FiguresOfStatement'
    BY <2>1, ProformaFiguresKept
  <2>6. KnownOnce'
    BY <2>1, ProformaKnows, ProformaKnownOf
  <2>. QED
    BY <2>2, <2>3, <2>4, <2>5, <2>6 DEF ProformaInv
<1>2. ASSUME NEW t \in Transfer, Proforma!Rerender(t) PROVE ProformaInv'
  BY <1>2, ProformaTurns
<1>3. ASSUME Proforma!SavedMessageEnds PROVE ProformaInv'
  <2>1. tab.transfer \in Transfer
    BY ProformaTypes DEF ProformaTab
  <2>. QED
    BY <1>3, <2>1, ProformaTurns
<1>4. ASSUME NEW content \in Content,
             Proforma!handleUpdateStatement(content) PROVE ProformaInv'
  BY <1>4, ProformaUpdates
<1>5. ASSUME NEW c \in proformaCalls,
             \/ Proforma!FindRow(c) \/ Proforma!FindCached(c) \/ Proforma!Generate(c)
             \/ Proforma!SaveArrives(c) \/ Proforma!WriteRow(c) \/ Proforma!WriteFigures(c) \/ Proforma!Commit(c) \/ Proforma!RollsBack(c)
             \/ Proforma!LoadAnswers(c) \/ Proforma!SaveAnswers(c) \/ Proforma!CallFails(c)
      PROVE  ProformaInv'
  BY <1>5, ProformaFindRow, ProformaFindCached, ProformaGenerate, ProformaSaveArrives,
     ProformaWrites,
     ProformaCommit, ProformaRollsBack, ProformaAnswers, ProformaCallFails
<1>6. ASSUME NEW t \in Transfer, NEW given \in SUBSET Proforma!Figure,
             Proforma!OwnFigures(t, given) PROVE ProformaInv'
  BY <1>6, ProformaOwnFigures
<1>. QED
  BY <1>1, <1>2, <1>3, <1>4, <1>5, <1>6, ProformaLoads, ProformaRestart DEF Proforma!Next

\* The inductive invariant.
THEOREM ProformaKeep ==
    ASSUME ProformaAssumption PROVE Proforma!Spec => []ProformaInv
<1>1. Proforma!Init => ProformaInv
  BY ProformaInit
<1>2. ProformaInv /\ [Proforma!Next]_(Proforma!vars) => ProformaInv'
  BY ProformaStep
<1>. QED
  BY <1>1, <1>2, PTL DEF Proforma!Spec

\* What the tab shows, and would send back whole, is the statement of the
\* transfer it is drawn for (TransferAccountsTab's loadedFor), and the tab is
\* busy exactly while its newest call is under way, for any transfers and however
\* many calls are answered late, lost or dropped by a restart.
THEOREM ProformaDrawn ==
    ASSUME ProformaAssumption PROVE Proforma!Spec => [](Proforma!DrawnIsOfTransfer /\ Proforma!BusyIsNewest)
<1>1. ProformaInv => Proforma!DrawnIsOfTransfer /\ Proforma!BusyIsNewest
  BY DEF ProformaInv, OfLoaded, Proforma!DrawnIsOfTransfer, Proforma!Drawn
<1>. QED
  BY <1>1, ProformaKeep, PTL

\* The figures a transfer has from statements are those of one, stored for it
\* (accounts.ts writes both in one transaction), whatever saves overlap or fail and
\* whichever figures the transfer's own routes replace in between.
THEOREM ProformaFigures ==
    ASSUME ProformaAssumption PROVE Proforma!Spec => []Proforma!FiguresOfStatement
<1>1. ProformaInv => Proforma!FiguresOfStatement
  BY DEF ProformaInv
<1>. QED
  BY <1>1, ProformaKeep, PTL

\* The tab, its calls and the stores keep their types.
THEOREM ProformaTypeOK ==
    ASSUME ProformaAssumption PROVE Proforma!Spec => []Proforma!TypeOK
<1>1. ProformaInv => Proforma!TypeOK
  BY DEF ProformaInv
<1>. QED
  BY <1>1, ProformaKeep, PTL

-----------------------------------------------------------------------------
(***************************************************************************)
(* The settings and schedules of a firm, for any schedules and faults.  The*)
(* page's one call says how far its save has come; while nothing failed and*)
(* nobody else called, what it has stored so far is what it was sent.      *)
(***************************************************************************)
FirmAssumption == Active \in Preset /\ MaxFaults \in Nat

FirmCall == [kind: Firm!Kind, stage: Firm!Stage, settings: Firm!Settings \cup {NoSettings},
             tariff: Firm!Tariff \cup {NoTariff}, offered: SUBSET Firm!Tariff]

FirmPage == [state: {"loading", "failed", "ready", "settings", "schedule"},
             settings: Firm!Settings \cup {NoSettings}, tariffs: SUBSET Firm!Tariff,
             activeTariff: Firm!Tariff \cup {NoTariff}, selected: Preset \cup Custom,
             sent: Firm!Settings \cup {NoSettings}, tariff: Firm!Tariff \cup {NoTariff},
             saveSuccess: BOOLEAN, error: BOOLEAN]

FirmTyped ==
    /\ settings \in Firm!Settings \cup {NoSettings} /\ firmRow \in Firm!Settings \cup {NoSettings}
    /\ tariffs \subseteq Firm!Tariff /\ schedules \subseteq Firm!Tariff
    /\ firmCalls \in [Firm!Caller -> FirmCall] /\ firmPage \in FirmPage
    /\ touched \in BOOLEAN /\ firmFaults \in 0 .. MaxFaults

\* The official schedules as issued, and no two schedules of one id.
Listed(S) ==
    /\ \A t \in S : t.id \in Preset => t \in Firm!AsIssued
    /\ \A t, u \in S : t.id = u.id => t = u

\* What a call is about, and what it carries.
CallOf(c, r) ==
    /\ c = "settings" =>
        /\ r.kind \in {"none", "get", "put", "post"}
        /\ r.kind = "get" => firmPage.state = "loading"
        /\ r.kind = "put" => firmPage.state = "settings" /\ r.settings = firmPage.sent
        /\ r.kind = "post" => firmPage.state = "schedule" /\ r.tariff = firmPage.tariff
    /\ c = "tariffs" =>
        /\ r.kind \in {"none", "list"}
        /\ r.kind = "list" => firmPage.state = "loading"
    /\ c = "other" =>
        /\ r.kind \in {"none", "put", "post", "reset"}
        /\ ~touched => r.kind = "none"
    /\ r.kind = "put" \/ (r.kind = "get" /\ r.stage = "answered") => r.settings \in Firm!Settings
    /\ r.kind = "post" => r.tariff \in Firm!Tariff
    /\ r.kind = "post" /\ r.stage = "memory" => r.tariff.id \notin Preset
    /\ Listed(r.offered)

PageHolds ==
    /\ Firm!Drawn => firmPage.settings \in Firm!Settings /\ firmPage.activeTariff \in Firm!Tariff
    /\ firmPage.state \in {"settings", "schedule"} => firmPage.sent \in Firm!Settings /\ firmPage.tariff \in Firm!Tariff
    /\ firmPage.state = "loading" => ~firmPage.saveSuccess

\* How far the save has come, by its call.
Progress(r) ==
    /\ r.kind = "put" /\ r.stage \in {"memory", "answered"} => settings = firmPage.sent
    /\ r.kind = "put" /\ r.stage = "answered" => firmRow = firmPage.sent
    /\ r.kind = "post" => settings = firmPage.sent /\ firmRow = firmPage.sent
    /\ r.kind = "post" /\ r.stage \in {"memory", "answered"} => firmPage.tariff \in tariffs
    /\ r.kind = "post" /\ r.stage = "answered" => firmPage.tariff \in schedules

Undisturbed == firmFaults = 0 /\ ~touched

FirmInv ==
    /\ FirmTyped /\ PageHolds /\ (\A c \in Firm!Caller : CallOf(c, firmCalls[c]))
    /\ Listed(schedules) /\ Listed(tariffs) /\ Listed(firmPage.tariffs)
    /\ Firm!SavedIsStored /\ (Undisturbed => Progress(firmCalls["settings"]))

-----------------------------------------------------------------------------

LEMMA FirmIssued ==
    ASSUME FirmAssumption
    PROVE  /\ Firm!AsIssued \subseteq Firm!Tariff /\ Listed(Firm!AsIssued) /\ Listed({})
           /\ \E t \in Firm!AsIssued : t.id = Active
           /\ Firm!Default \in Firm!Settings
<1>0. \A t \in Firm!AsIssued : \E i \in Preset : t = [id |-> i, edited |-> FALSE]
  BY DEF Firm!AsIssued
<1>1. Firm!AsIssued \subseteq Firm!Tariff
  <2>. SUFFICES ASSUME NEW t \in Firm!AsIssued PROVE t \in Firm!Tariff
    OBVIOUS
  <2>1. PICK i \in Preset : t = [id |-> i, edited |-> FALSE]
    BY <1>0
  <2>. QED
    BY <2>1 DEF Firm!Tariff
<1>2. Listed(Firm!AsIssued) /\ Listed({})
  <2>1. \A t, u \in Firm!AsIssued : t.id = u.id => t = u
    <3>. SUFFICES ASSUME NEW t \in Firm!AsIssued, NEW u \in Firm!AsIssued, t.id = u.id PROVE t = u
      OBVIOUS
    <3>1. PICK i \in Preset : t = [id |-> i, edited |-> FALSE]
      BY <1>0
    <3>2. PICK j \in Preset : u = [id |-> j, edited |-> FALSE]
      BY <1>0
    <3>. QED
      BY <3>1, <3>2
  <2>. QED
    BY <2>1 DEF Listed
<1>3. PICK t : t = [id |-> Active, edited |-> FALSE]
  OBVIOUS
<1>4. t \in Firm!AsIssued /\ t.id = Active
  BY <1>3 DEF Firm!AsIssued, FirmAssumption
<1>5. Firm!Default \in Firm!Settings
  BY DEF Firm!Default, Firm!Settings, Firm!Value, FirmAssumption
<1>. QED
  BY <1>1, <1>2, <1>4, <1>5

LEMMA FirmTypes ==
    ASSUME FirmInv, FirmAssumption
    PROVE  /\ settings \in Firm!Settings \cup {NoSettings}
           /\ firmRow \in Firm!Settings \cup {NoSettings}
           /\ tariffs \subseteq Firm!Tariff /\ schedules \subseteq Firm!Tariff
           /\ firmCalls \in [Firm!Caller -> FirmCall] /\ firmPage \in FirmPage
           /\ touched \in BOOLEAN /\ firmFaults \in Nat /\ firmFaults <= MaxFaults
           /\ MaxFaults \in Nat
           /\ \A c \in Firm!Caller : CallOf(c, firmCalls[c]) /\ firmCalls[c] \in FirmCall
           /\ Listed(schedules) /\ Listed(tariffs) /\ Listed(firmPage.tariffs)
BY DEF FirmInv, FirmTyped, FirmAssumption

LEMMA FirmFaults ==
    ASSUME FirmAssumption, firmFaults \in Nat, firmFaults <= MaxFaults,
           NEW failed \in Firm!Fails, Firm!MayFail(failed)
    PROVE  /\ firmFaults' \in 0 .. MaxFaults /\ (firmFaults' = 0 => firmFaults = 0)
           /\ (failed => firmFaults' # 0)
<1>1. failed \in BOOLEAN /\ (failed => firmFaults < MaxFaults)
  BY DEF Firm!Fails
<1>2. CASE failed
  <2>1. firmFaults' = firmFaults + 1 /\ firmFaults < MaxFaults
    BY <1>1, <1>2 DEF Firm!MayFail
  <2>. QED
    BY <2>1 DEF FirmAssumption
<1>3. CASE ~failed
  <2>1. firmFaults' = firmFaults
    BY <1>3 DEF Firm!MayFail
  <2>. QED
    BY <1>3, <2>1 DEF FirmAssumption
<1>. QED
  BY <1>1, <1>2, <1>3

LEMMA FirmAdding ==
    ASSUME NEW offered \in SUBSET Firm!Tariff, NEW more \in SUBSET Firm!Tariff,
           Listed(offered), Listed(more)
    PROVE  Firm!Adding(offered, more) \in SUBSET Firm!Tariff /\ Listed(Firm!Adding(offered, more))
BY DEF Firm!Adding, Listed

LEMMA FirmWith ==
    ASSUME NEW S \in SUBSET Firm!Tariff, Listed(S), NEW t \in Firm!Tariff,
           t.id \notin Preset
    PROVE  /\ Firm!With(S, t) \in SUBSET Firm!Tariff /\ Listed(Firm!With(S, t))
           /\ t \in Firm!With(S, t)
BY DEF Firm!With, Listed

LEMMA FirmIdle ==
    ASSUME FirmAssumption, NEW c \in Firm!Caller
    PROVE  /\ Firm!Idle \in FirmCall /\ Firm!Idle.kind = "none" /\ Firm!Idle.stage = "sent"
           /\ CallOf(c, Firm!Idle)
BY FirmIssued DEF Firm!Idle, Firm!Call, FirmCall, Firm!Kind, Firm!Stage, CallOf, Listed

LEMMA FirmAnswer ==
    ASSUME FirmAssumption, FirmInv, NEW c \in Firm!Caller,
           NEW s \in Firm!Settings \cup {NoSettings},
           NEW offered \in SUBSET Firm!Tariff, Firm!Answer(c, s, offered)
    PROVE  \E r \in FirmCall :
               /\ firmCalls' = [firmCalls EXCEPT ![c] = r]
               /\ IF c = "other" THEN r = Firm!Idle
                  ELSE /\ r.kind = firmCalls[c].kind /\ r.stage = "answered"
                       /\ r.settings = s /\ r.offered = offered /\ r.tariff = firmCalls[c].tariff
<1>1. CASE c = "other"
  BY <1>1, FirmIdle DEF Firm!Answer
<1>2. CASE c # "other"
  <2>1. PICK r : r = [firmCalls[c] EXCEPT !.stage = "answered", !.settings = s, !.offered = offered]
    OBVIOUS
  <2>2. firmCalls[c] \in FirmCall /\ firmCalls \in [Firm!Caller -> FirmCall]
    BY FirmTypes
  <2>3. /\ r \in FirmCall /\ r.kind = firmCalls[c].kind /\ r.stage = "answered"
        /\ r.settings = s /\ r.offered = offered /\ r.tariff = firmCalls[c].tariff
    BY <2>1, <2>2 DEF FirmCall, Firm!Stage
  <2>4. firmCalls' = [firmCalls EXCEPT ![c] = r]
    BY <1>2, <2>1, <2>2 DEF Firm!Answer
  <2>. QED
    BY <1>2, <2>3, <2>4
<1>. QED
  BY <1>1, <1>2

\* A route goes on with a call: what it stores, and how far the call has come.
LEMMA FirmServes ==
    ASSUME FirmAssumption, FirmInv, NEW c \in Firm!Caller, firmCalls[c].kind # "none",
           NEW r \in FirmCall, CallOf(c, r), firmCalls' = [firmCalls EXCEPT ![c] = r],
           UNCHANGED <<firmPage, touched>>,
           settings' \in Firm!Settings \cup {NoSettings}, firmRow' \in Firm!Settings \cup {NoSettings},
           tariffs' \in SUBSET Firm!Tariff, schedules' \in SUBSET Firm!Tariff,
           Listed(tariffs'), Listed(schedules'),
           firmFaults' \in 0 .. MaxFaults, firmFaults' = 0 => firmFaults = 0,
           c = "tariffs" => UNCHANGED <<settings, firmRow, tariffs, schedules>>,
           c = "settings" /\ firmFaults = 0 /\ ~touched /\ firmFaults' = 0 => Progress(r)'
    PROVE  FirmInv'
<1>t. firmCalls \in [Firm!Caller -> FirmCall] /\ \A d \in Firm!Caller : CallOf(d, firmCalls[d])
  BY FirmTypes
<1>1. FirmTyped'
  BY <1>t, FirmTypes DEF FirmTyped
<1>2. \A d \in Firm!Caller : firmCalls'[d] = IF d = c THEN r ELSE firmCalls[d]
  BY <1>t
<1>3. \A d \in Firm!Caller : CallOf(d, firmCalls'[d])
  BY <1>t, <1>2
<1>4. \A d \in Firm!Caller : CallOf(d, firmCalls[d])'
  BY <1>3 DEF CallOf, Listed, Firm!AsIssued
<1>5. PageHolds' /\ Listed(firmPage.tariffs)'
  BY DEF FirmInv, PageHolds, Firm!Drawn, Listed, Firm!AsIssued
<1>6. Listed(schedules)' /\ Listed(tariffs)'
  BY DEF Listed, Firm!AsIssued
<1>7. /\ c = "settings" => firmPage.state # "ready"
      /\ c = "other" => touched
  <2>1. CallOf(c, firmCalls[c])
    BY <1>t
  <2>. QED
    BY <2>1 DEF CallOf
<1>8. Firm!SavedIsStored'
  BY <1>7 DEF FirmInv, Firm!SavedIsStored, Firm!Caller
<1>9. (Undisturbed => Progress(firmCalls["settings"]))'
  <2>. SUFFICES ASSUME Undisturbed' PROVE Progress(firmCalls["settings"])'
    OBVIOUS
  <2>1. Undisturbed /\ firmFaults' = 0 /\ c # "other"
    BY <1>7 DEF Undisturbed
  <2>2. CASE c = "settings"
    <3>1. firmCalls'["settings"] = r /\ Progress(r)'
      BY <1>2, <2>1, <2>2 DEF Undisturbed
    <3>. QED
      BY <3>1 DEF Progress
  <2>3. CASE c = "tariffs"
    <3>1. firmCalls'["settings"] = firmCalls["settings"]
      BY <1>2, <2>3 DEF Firm!Caller
    <3>. QED
      BY <2>1, <2>3, <3>1 DEF FirmInv, Progress
  <2>. QED
    BY <2>1, <2>2, <2>3 DEF Firm!Caller
<1>. QED
  BY <1>1, <1>4, <1>5, <1>6, <1>8, <1>9 DEF FirmInv

-----------------------------------------------------------------------------
(* The routes.                                                              *)

LEMMA FirmReads ==
    ASSUME FirmAssumption, FirmInv, NEW c \in Firm!Caller, Firm!getTenantSettings(c) \/ Firm!ListTariffs(c)
    PROVE  FirmInv'
<1>t. /\ settings \in Firm!Settings \cup {NoSettings} /\ firmRow \in Firm!Settings \cup {NoSettings}
      /\ tariffs \subseteq Firm!Tariff /\ schedules \subseteq Firm!Tariff
      /\ firmFaults \in Nat /\ firmFaults <= MaxFaults /\ MaxFaults \in Nat
      /\ CallOf(c, firmCalls[c]) /\ Listed(schedules) /\ Listed(tariffs)
  BY FirmTypes
<1>f. ASSUME NEW failed \in Firm!Fails, Firm!MayFail(failed)
      PROVE  firmFaults' \in 0 .. MaxFaults /\ (firmFaults' = 0 => firmFaults = 0)
  BY <1>f, <1>t, FirmFaults
<1>1. CASE Firm!getTenantSettings(c)
  <2>1. PICK failed \in Firm!Fails :
           /\ Firm!MayFail(failed)
           /\ IF firmRow # NoSettings /\ ~failed
              THEN Firm!Answer(c, Firm!FromRow(firmRow), {}) /\ UNCHANGED settings
              ELSE LET s == IF settings = NoSettings THEN Firm!Default ELSE settings
                   IN  Firm!Answer(c, s, {}) /\ settings' = s
    BY <1>1 DEF Firm!getTenantSettings
  <2>2. firmRow # NoSettings => Firm!FromRow(firmRow) \in Firm!Settings
    BY <1>t DEF Firm!FromRow, Firm!Settings, Firm!Value
  <2>3. PICK s \in Firm!Settings : Firm!Answer(c, s, {}) /\ settings' \in Firm!Settings \cup {NoSettings}
    BY <1>t, <2>1, <2>2, FirmIssued
  <2>4. PICK r \in FirmCall :
               /\ firmCalls' = [firmCalls EXCEPT ![c] = r]
               /\ IF c = "other" THEN r = Firm!Idle
                  ELSE /\ r.kind = firmCalls[c].kind /\ r.stage = "answered"
                       /\ r.settings = s /\ r.offered = {} /\ r.tariff = firmCalls[c].tariff
    BY <2>3, FirmAnswer
  <2>5. /\ firmCalls[c].kind = "get" /\ UNCHANGED <<firmRow, tariffs, schedules, firmPage, touched>>
        /\ c = "settings"
    BY <1>1, <1>t DEF Firm!getTenantSettings, Firm!Is, CallOf, Firm!Caller
  <2>6. CallOf(c, r) /\ Progress(r)'
    BY <1>t, <2>4, <2>5, FirmIssued DEF CallOf, Progress
  <2>. QED
    BY <1>f, <1>t, <2>1, <2>3, <2>4, <2>5, <2>6, FirmServes
<1>2. CASE Firm!ListTariffs(c)
  <2>1. PICK failed \in Firm!Fails :
           /\ Firm!MayFail(failed)
           /\ Firm!Answer(c, NoSettings, Firm!Adding(Firm!Adding(Firm!AsIssued, IF failed THEN {} ELSE schedules), tariffs))
    BY <1>2 DEF Firm!ListTariffs
  <2>2. PICK offered : offered = Firm!Adding(Firm!Adding(Firm!AsIssued, IF failed THEN {} ELSE schedules), tariffs)
    OBVIOUS
  <2>3. offered \in SUBSET Firm!Tariff /\ Listed(offered)
    <3>1. PICK found : found = (IF failed THEN {} ELSE schedules)
      OBVIOUS
    <3>2. found \in SUBSET Firm!Tariff /\ Listed(found)
      BY <1>t, <3>1, FirmIssued
    <3>3. /\ Firm!Adding(Firm!AsIssued, found) \in SUBSET Firm!Tariff
          /\ Listed(Firm!Adding(Firm!AsIssued, found))
      BY <3>2, FirmIssued, FirmAdding
    <3>. QED
      BY <1>t, <2>2, <3>1, <3>3, FirmAdding
  <2>4. PICK r \in FirmCall :
               /\ firmCalls' = [firmCalls EXCEPT ![c] = r]
               /\ IF c = "other" THEN r = Firm!Idle
                  ELSE /\ r.kind = firmCalls[c].kind /\ r.stage = "answered"
                       /\ r.settings = NoSettings /\ r.offered = offered
                       /\ r.tariff = firmCalls[c].tariff
    BY <2>1, <2>2, <2>3, FirmAnswer
  <2>5. firmCalls[c].kind = "list" /\ c = "tariffs"
        /\ UNCHANGED <<settings, firmRow, tariffs, schedules, firmPage, touched>>
    BY <1>2, <1>t DEF Firm!ListTariffs, Firm!Is, CallOf, Firm!Caller
  <2>6. CallOf(c, r)
    BY <1>t, <2>3, <2>4, <2>5 DEF CallOf
  <2>. QED
    BY <1>f, <1>t, <2>1, <2>4, <2>5, <2>6, FirmServes
<1>. QED
  BY <1>1, <1>2

\* A call that goes on to its next statement.
LEMMA FirmStages ==
    ASSUME FirmAssumption, FirmInv, NEW c \in Firm!Caller, NEW stage \in Firm!Stage
    PROVE  \E r \in FirmCall :
               /\ [firmCalls EXCEPT ![c].stage = stage] = [firmCalls EXCEPT ![c] = r]
               /\ r.kind = firmCalls[c].kind /\ r.stage = stage
               /\ r.settings = firmCalls[c].settings
               /\ r.tariff = firmCalls[c].tariff /\ r.offered = firmCalls[c].offered
<1>1. PICK r : r = [firmCalls[c] EXCEPT !.stage = stage]
  OBVIOUS
<1>2. firmCalls[c] \in FirmCall /\ firmCalls \in [Firm!Caller -> FirmCall]
  BY FirmTypes
<1>3. /\ r \in FirmCall /\ r.kind = firmCalls[c].kind /\ r.stage = stage
      /\ r.settings = firmCalls[c].settings /\ r.offered = firmCalls[c].offered
      /\ r.tariff = firmCalls[c].tariff
  BY <1>1, <1>2 DEF FirmCall
<1>4. [firmCalls EXCEPT ![c].stage = stage] = [firmCalls EXCEPT ![c] = r]
  BY <1>1, <1>2
<1>. QED
  BY <1>3, <1>4

LEMMA FirmSaves ==
    ASSUME FirmAssumption, FirmInv, NEW c \in Firm!Caller,
           Firm!PutMemory(c) \/ Firm!PutRow(c) \/ Firm!PostRefused(c) \/ Firm!PostMemory(c) \/ Firm!PostRow(c)
    PROVE  FirmInv'
<1>t. /\ settings \in Firm!Settings \cup {NoSettings} /\ firmRow \in Firm!Settings \cup {NoSettings}
      /\ tariffs \subseteq Firm!Tariff /\ schedules \subseteq Firm!Tariff
      /\ firmFaults \in Nat /\ firmFaults <= MaxFaults /\ MaxFaults \in Nat
      /\ firmFaults \in 0 .. MaxFaults
      /\ firmCalls[c] \in FirmCall /\ CallOf(c, firmCalls[c]) /\ Listed(schedules)
      /\ Listed(tariffs)
  BY FirmTypes
<1>f. ASSUME NEW failed \in Firm!Fails, Firm!MayFail(failed)
      PROVE  /\ firmFaults' \in 0 .. MaxFaults /\ (firmFaults' = 0 => firmFaults = 0)
             /\ failed => firmFaults' # 0
  BY <1>f, <1>t, FirmFaults
<1>p. c = "settings" /\ Undisturbed => Progress(firmCalls[c])
  BY DEF FirmInv
<1>s. /\ {"memory", "answered", "refused"} \subseteq Firm!Stage /\ Firm!Idle \in FirmCall
      /\ Firm!Idle.kind = "none"
  BY FirmIdle DEF Firm!Stage
<1>1. CASE Firm!PutMemory(c)
  <2>1. PICK r \in FirmCall :
               /\ [firmCalls EXCEPT ![c].stage = "memory"] = [firmCalls EXCEPT ![c] = r]
               /\ r.kind = firmCalls[c].kind /\ r.stage = "memory"
               /\ r.settings = firmCalls[c].settings
               /\ r.tariff = firmCalls[c].tariff /\ r.offered = firmCalls[c].offered
    BY <1>s, FirmStages
  <2>2. /\ firmCalls[c].kind = "put" /\ settings' = firmCalls[c].settings
        /\ firmCalls' = [firmCalls EXCEPT ![c] = r]
        /\ UNCHANGED <<firmRow, tariffs, schedules, firmPage, touched, firmFaults>>
    BY <1>1, <2>1 DEF Firm!PutMemory, Firm!Is
  <2>3. c # "tariffs" /\ firmCalls[c].settings \in Firm!Settings /\ CallOf(c, r)
    BY <1>t, <2>1, <2>2 DEF CallOf
  <2>4. c = "settings" => Progress(r)'
    BY <1>t, <2>1, <2>2 DEF CallOf, Progress
  <2>. QED
    BY <1>t, <2>1, <2>2, <2>3, <2>4, FirmServes
<1>2. CASE Firm!PutRow(c)
  <2>1. PICK failed \in Firm!Fails :
           Firm!MayFail(failed) /\ firmRow' = IF failed THEN firmRow ELSE firmCalls[c].settings
    BY <1>2 DEF Firm!PutRow
  <2>2. /\ firmCalls[c].kind = "put" /\ firmCalls[c].stage = "memory"
        /\ Firm!Answer(c, firmCalls[c].settings, {})
        /\ UNCHANGED <<settings, tariffs, schedules, firmPage, touched>>
    BY <1>2 DEF Firm!PutRow, Firm!Is
  <2>3. c # "tariffs" /\ firmCalls[c].settings \in Firm!Settings
    BY <1>t, <2>2 DEF CallOf
  <2>4. PICK r \in FirmCall :
               /\ firmCalls' = [firmCalls EXCEPT ![c] = r]
               /\ IF c = "other" THEN r = Firm!Idle
                  ELSE /\ r.kind = firmCalls[c].kind /\ r.stage = "answered"
                       /\ r.settings = firmCalls[c].settings /\ r.offered = {}
                       /\ r.tariff = firmCalls[c].tariff
    BY <2>2, <2>3, FirmAnswer
  <2>5. CallOf(c, r)
    <3>1. CASE c = "other"
      BY <2>4, <3>1, FirmIdle
    <3>2. CASE c # "other"
      BY <1>t, <2>2, <2>3, <2>4, <3>2, FirmIssued DEF CallOf
    <3>. QED
      BY <3>1, <3>2
  <2>6. c = "settings" /\ firmFaults = 0 /\ ~touched /\ firmFaults' = 0 => Progress(r)'
    <3>. SUFFICES ASSUME c = "settings", firmFaults = 0, ~touched, firmFaults' = 0 PROVE Progress(r)'
      OBVIOUS
    <3>1. /\ firmRow' = firmCalls[c].settings /\ firmCalls[c].settings = firmPage.sent
          /\ settings = firmPage.sent
      BY <1>f, <1>p, <1>t, <2>1, <2>2 DEF Undisturbed, Progress, CallOf
    <3>. QED
      BY <2>2, <2>4, <3>1 DEF Progress
  <2>. QED
    BY <1>f, <1>t, <2>1, <2>2, <2>3, <2>4, <2>5, <2>6, FirmServes
<1>3. CASE Firm!PostRefused(c)
  <2>1. /\ firmCalls[c].kind = "post"
        /\ UNCHANGED <<settings, firmRow, tariffs, schedules, firmPage, touched, firmFaults>>
    BY <1>3 DEF Firm!PostRefused, Firm!Is
  <2>2. PICK r \in FirmCall :
           /\ firmCalls' = [firmCalls EXCEPT ![c] = r]
           /\ IF c = "other" THEN r = Firm!Idle
              ELSE /\ r.kind = firmCalls[c].kind /\ r.stage = "refused" /\ r.settings = firmCalls[c].settings
                   /\ r.tariff = firmCalls[c].tariff /\ r.offered = firmCalls[c].offered
    <3>1. CASE c = "other"
      BY <1>3, <1>s, <3>1 DEF Firm!PostRefused
    <3>2. CASE c # "other"
      <4>1. firmCalls' = [firmCalls EXCEPT ![c].stage = "refused"]
        BY <1>3, <3>2 DEF Firm!PostRefused
      <4>2. PICK r \in FirmCall :
               /\ [firmCalls EXCEPT ![c].stage = "refused"] = [firmCalls EXCEPT ![c] = r]
               /\ r.kind = firmCalls[c].kind /\ r.stage = "refused"
               /\ r.settings = firmCalls[c].settings
               /\ r.tariff = firmCalls[c].tariff /\ r.offered = firmCalls[c].offered
        BY <1>s, FirmStages
      <4>. QED
        BY <3>2, <4>1, <4>2
    <3>. QED
      BY <3>1, <3>2
  <2>3. CallOf(c, r)
    <3>1. CASE c = "other"
      BY <2>2, <3>1, FirmIdle
    <3>2. CASE c # "other"
      BY <1>t, <2>1, <2>2, <3>2 DEF CallOf
    <3>. QED
      BY <3>1, <3>2
  <2>4. c # "tariffs" /\ (c = "settings" /\ firmFaults = 0 /\ ~touched => Progress(r)')
    BY <1>p, <1>t, <2>1, <2>2 DEF Undisturbed, Progress, CallOf
  <2>. QED
    BY <1>t, <2>1, <2>2, <2>3, <2>4, FirmServes
<1>4. CASE Firm!PostMemory(c)
  <2>1. PICK r \in FirmCall :
               /\ [firmCalls EXCEPT ![c].stage = "memory"] = [firmCalls EXCEPT ![c] = r]
               /\ r.kind = firmCalls[c].kind /\ r.stage = "memory"
               /\ r.settings = firmCalls[c].settings
               /\ r.tariff = firmCalls[c].tariff /\ r.offered = firmCalls[c].offered
    BY <1>s, FirmStages
  <2>2. /\ firmCalls[c].kind = "post" /\ firmCalls[c].tariff.id \notin Preset
        /\ tariffs' = Firm!With(tariffs, firmCalls[c].tariff)
        /\ firmCalls' = [firmCalls EXCEPT ![c] = r]
        /\ UNCHANGED <<settings, firmRow, schedules, firmPage, touched, firmFaults>>
    BY <1>4, <2>1 DEF Firm!PostMemory, Firm!Is
  <2>3. firmCalls[c].tariff \in Firm!Tariff /\ c # "tariffs"
    BY <1>t, <2>2 DEF CallOf
  <2>4. tariffs' \in SUBSET Firm!Tariff /\ Listed(tariffs') /\ firmCalls[c].tariff \in tariffs'
    BY <1>t, <2>2, <2>3, FirmWith
  <2>5. CallOf(c, r)
    BY <1>t, <2>1, <2>2, <2>3 DEF CallOf
  <2>6. c = "settings" /\ firmFaults = 0 /\ ~touched => Progress(r)'
    BY <1>p, <1>t, <2>1, <2>2, <2>4 DEF Undisturbed, Progress, CallOf
  <2>. QED
    BY <1>t, <2>1, <2>2, <2>3, <2>4, <2>5, <2>6, FirmServes
<1>5. CASE Firm!PostRow(c)
  <2>1. PICK failed \in Firm!Fails :
           Firm!MayFail(failed) /\ schedules' = IF failed THEN schedules ELSE Firm!With(schedules, firmCalls[c].tariff)
    BY <1>5 DEF Firm!PostRow
  <2>2. /\ firmCalls[c].kind = "post" /\ firmCalls[c].stage = "memory"
        /\ Firm!Answer(c, NoSettings, {})
        /\ UNCHANGED <<settings, firmRow, tariffs, firmPage, touched>>
    BY <1>5 DEF Firm!PostRow, Firm!Is
  <2>3. firmCalls[c].tariff \in Firm!Tariff /\ firmCalls[c].tariff.id \notin Preset /\ c # "tariffs"
    BY <1>t, <2>2 DEF CallOf
  <2>4. /\ schedules' \in SUBSET Firm!Tariff /\ Listed(schedules')
        /\ (failed \/ firmCalls[c].tariff \in schedules')
    BY <1>t, <2>1, <2>3, FirmWith
  <2>5. PICK r \in FirmCall :
               /\ firmCalls' = [firmCalls EXCEPT ![c] = r]
               /\ IF c = "other" THEN r = Firm!Idle
                  ELSE /\ r.kind = firmCalls[c].kind /\ r.stage = "answered"
                       /\ r.settings = NoSettings /\ r.offered = {}
                       /\ r.tariff = firmCalls[c].tariff
    BY <2>2, FirmAnswer
  <2>6. CallOf(c, r)
    <3>1. CASE c = "other"
      BY <2>5, <3>1, FirmIdle
    <3>2. CASE c # "other"
      BY <1>t, <2>2, <2>3, <2>5, <3>2, FirmIssued DEF CallOf
    <3>. QED
      BY <3>1, <3>2
  <2>7. c = "settings" /\ firmFaults = 0 /\ ~touched /\ firmFaults' = 0 => Progress(r)'
    <3>. SUFFICES ASSUME c = "settings", firmFaults = 0, ~touched, firmFaults' = 0 PROVE Progress(r)'
      OBVIOUS
    <3>1. /\ ~failed /\ firmCalls[c].tariff = firmPage.tariff /\ settings = firmPage.sent
          /\ firmRow = firmPage.sent
          /\ firmPage.tariff \in tariffs
      BY <1>f, <1>p, <1>t, <2>1, <2>2 DEF Undisturbed, Progress, CallOf
    <3>. QED
      BY <2>2, <2>4, <2>5, <3>1 DEF Progress
  <2>. QED
    BY <1>f, <1>t, <2>1, <2>2, <2>3, <2>4, <2>5, <2>6, <2>7, FirmServes
<1>. QED
  BY <1>1, <1>2, <1>3, <1>4, <1>5

LEMMA FirmResets ==
    ASSUME FirmAssumption, FirmInv, NEW c \in Firm!Caller,
           Firm!ResetMemory(c) \/ Firm!ResetSettings(c) \/ Firm!ResetSchedules(c) \/ Firm!ResetFails(c)
    PROVE  FirmInv'
<1>t. /\ settings \in Firm!Settings \cup {NoSettings} /\ firmRow \in Firm!Settings \cup {NoSettings}
      /\ tariffs \subseteq Firm!Tariff /\ schedules \subseteq Firm!Tariff
      /\ firmFaults \in Nat /\ firmFaults <= MaxFaults /\ MaxFaults \in Nat
      /\ firmFaults \in 0 .. MaxFaults
      /\ firmCalls[c] \in FirmCall /\ CallOf(c, firmCalls[c]) /\ Listed(schedules)
      /\ Listed(tariffs)
  BY FirmTypes
<1>0. firmCalls[c].kind = "reset" /\ c = "other" /\ touched /\ UNCHANGED <<firmPage, touched>>
  <2>1. firmCalls[c].kind = "reset" /\ UNCHANGED <<firmPage, touched>>
    BY DEF Firm!ResetMemory, Firm!ResetSettings, Firm!ResetSchedules, Firm!ResetFails,
       Firm!Is
  <2>. QED
    BY <1>t, <2>1 DEF CallOf, Firm!Caller
<1>s. {"memory", "row"} \subseteq Firm!Stage /\ Listed({}) /\ Firm!Default \in Firm!Settings
  BY FirmIssued DEF Firm!Stage
<1>1. PICK r \in FirmCall : firmCalls' = [firmCalls EXCEPT ![c] = r] /\ CallOf(c, r)
  <2>1. CASE Firm!ResetMemory(c)
    <3>1. PICK r \in FirmCall :
               /\ [firmCalls EXCEPT ![c].stage = "memory"] = [firmCalls EXCEPT ![c] = r]
               /\ r.kind = firmCalls[c].kind /\ r.stage = "memory"
               /\ r.settings = firmCalls[c].settings
               /\ r.tariff = firmCalls[c].tariff /\ r.offered = firmCalls[c].offered
      BY <1>s, FirmStages
    <3>2. CallOf(c, r)
      BY <1>t, <1>0, <3>1 DEF CallOf
    <3>. QED
      BY <2>1, <3>1, <3>2 DEF Firm!ResetMemory
  <2>2. CASE Firm!ResetSettings(c)
    <3>1. PICK r \in FirmCall :
               /\ [firmCalls EXCEPT ![c].stage = "row"] = [firmCalls EXCEPT ![c] = r]
               /\ r.kind = firmCalls[c].kind /\ r.stage = "row"
               /\ r.settings = firmCalls[c].settings
               /\ r.tariff = firmCalls[c].tariff /\ r.offered = firmCalls[c].offered
      BY <1>s, FirmStages
    <3>2. CallOf(c, r)
      BY <1>t, <1>0, <3>1 DEF CallOf
    <3>. QED
      BY <2>2, <3>1, <3>2 DEF Firm!ResetSettings
  <2>3. CASE Firm!ResetSchedules(c) \/ Firm!ResetFails(c)
    <3>1. firmCalls' = [firmCalls EXCEPT ![c] = Firm!Idle]
      BY <1>0, <2>3 DEF Firm!ResetSchedules, Firm!ResetFails, Firm!Answer
    <3>. QED
      BY <3>1, FirmIdle
  <2>. QED
    BY <2>1, <2>2, <2>3
<1>2. /\ settings' \in Firm!Settings \cup {NoSettings}
      /\ firmRow' \in Firm!Settings \cup {NoSettings}
      /\ tariffs' = tariffs /\ schedules' \in {schedules, {}}
  BY <1>t, <1>s DEF Firm!ResetMemory, Firm!ResetSettings, Firm!ResetSchedules,
     Firm!ResetFails
<1>3. firmFaults' \in 0 .. MaxFaults /\ (firmFaults' = 0 => firmFaults = 0)
  <2>1. firmFaults' = firmFaults \/ (firmFaults < MaxFaults /\ firmFaults' = firmFaults + 1)
    BY DEF Firm!ResetMemory, Firm!ResetSettings, Firm!ResetSchedules, Firm!ResetFails
  <2>. QED
    BY <1>t, <2>1
<1>4. Listed(schedules') /\ Listed(tariffs')
  BY <1>t, <1>s, <1>2
<1>5. schedules' \in SUBSET Firm!Tariff /\ tariffs' \in SUBSET Firm!Tariff
  BY <1>t, <1>2
<1>. QED
  BY <1>t, <1>0, <1>1, <1>2, <1>3, <1>4, <1>5, FirmServes

LEMMA FirmCallFails ==
    ASSUME FirmAssumption, FirmInv, NEW c \in Firm!Caller, Firm!CallFails(c)
    PROVE  FirmInv'
<1>t. /\ settings \in Firm!Settings \cup {NoSettings} /\ firmRow \in Firm!Settings \cup {NoSettings}
      /\ tariffs \subseteq Firm!Tariff /\ schedules \subseteq Firm!Tariff
      /\ firmFaults \in Nat /\ firmFaults <= MaxFaults /\ MaxFaults \in Nat
      /\ CallOf(c, firmCalls[c]) /\ Listed(schedules) /\ Listed(tariffs)
  BY FirmTypes
<1>1. /\ firmFaults < MaxFaults /\ firmFaults' = firmFaults + 1
      /\ firmCalls' = [firmCalls EXCEPT ![c].stage = "refused"]
      /\ UNCHANGED <<settings, firmRow, tariffs, schedules, firmPage, touched>>
      /\ firmCalls[c].kind # "none" /\ firmCalls[c].stage \in {"sent", "answered"}
  BY DEF Firm!CallFails
<1>2. PICK r \in FirmCall :
               /\ [firmCalls EXCEPT ![c].stage = "refused"] = [firmCalls EXCEPT ![c] = r]
               /\ r.kind = firmCalls[c].kind /\ r.stage = "refused"
               /\ r.settings = firmCalls[c].settings
               /\ r.tariff = firmCalls[c].tariff /\ r.offered = firmCalls[c].offered
  BY FirmStages DEF Firm!Stage
<1>3. CallOf(c, r)
  BY <1>t, <1>2 DEF CallOf
<1>4. firmFaults' \in 0 .. MaxFaults /\ firmFaults' # 0
  BY <1>t, <1>1
<1>. QED
  BY <1>t, <1>1, <1>2, <1>3, <1>4, FirmServes

\* Neither a restart nor the call of a second user leaves the firm undisturbed.
LEMMA FirmDisturbed ==
    ASSUME FirmAssumption, FirmInv, UNCHANGED firmPage,
           settings' \in Firm!Settings \cup {NoSettings}, firmRow' \in Firm!Settings \cup {NoSettings},
           tariffs' \in SUBSET Firm!Tariff, schedules' \in SUBSET Firm!Tariff,
           Listed(tariffs'), Listed(schedules'), touched' \in BOOLEAN,
           firmFaults' \in 0 .. MaxFaults, firmFaults' # 0 \/ touched',
           firmCalls' \in [Firm!Caller -> FirmCall],
           \A c \in Firm!Caller : CallOf(c, firmCalls[c])'
    PROVE  FirmInv'
<1>1. FirmTyped'
  BY FirmTypes DEF FirmTyped
<1>2. PageHolds' /\ Listed(firmPage.tariffs)'
  BY DEF FirmInv, PageHolds, Firm!Drawn, Listed, Firm!AsIssued
<1>3. Listed(schedules)' /\ Listed(tariffs)'
  BY DEF Listed, Firm!AsIssued
<1>. QED
  BY <1>1, <1>2, <1>3 DEF FirmInv, Firm!SavedIsStored, Undisturbed

LEMMA FirmRestart ==
    ASSUME FirmAssumption, FirmInv, Firm!Restart
    PROVE  FirmInv'
<1>t. /\ firmRow \in Firm!Settings \cup {NoSettings} /\ schedules \subseteq Firm!Tariff
      /\ firmCalls \in [Firm!Caller -> FirmCall] /\ touched \in BOOLEAN
      /\ firmFaults \in Nat /\ MaxFaults \in Nat
      /\ \A c \in Firm!Caller : CallOf(c, firmCalls[c]) /\ firmCalls[c] \in FirmCall
      /\ Listed(schedules) /\ Listed({})
  BY FirmTypes, FirmIssued
<1>1. /\ firmFaults < MaxFaults /\ firmFaults' = firmFaults + 1 /\ settings' = NoSettings
      /\ tariffs' = {}
      /\ UNCHANGED <<firmRow, schedules, firmPage, touched>>
      /\ firmCalls' = [c \in Firm!Caller |->
           IF firmCalls[c].kind = "none" \/ firmCalls[c].stage \in {"sent", "answered"} THEN firmCalls[c]
           ELSE IF c = "other" THEN Firm!Idle ELSE [firmCalls[c] EXCEPT !.stage = "refused"]]
  BY DEF Firm!Restart
<1>2. \A c \in Firm!Caller : firmCalls'[c] \in FirmCall /\ CallOf(c, firmCalls'[c])
  <2>. SUFFICES ASSUME NEW c \in Firm!Caller PROVE firmCalls'[c] \in FirmCall /\ CallOf(c, firmCalls'[c])
    OBVIOUS
  <2>1. firmCalls'[c] \in {firmCalls[c], Firm!Idle, [firmCalls[c] EXCEPT !.stage = "refused"]}
    BY <1>1
  <2>2. CASE firmCalls'[c] \in {firmCalls[c], Firm!Idle}
    BY <1>t, <2>2, FirmIdle
  <2>3. CASE firmCalls'[c] = [firmCalls[c] EXCEPT !.stage = "refused"]
    <3>1. PICK r : r = [firmCalls[c] EXCEPT !.stage = "refused"]
      OBVIOUS
    <3>2. /\ r \in FirmCall /\ r.kind = firmCalls[c].kind /\ r.stage = "refused"
          /\ r.settings = firmCalls[c].settings /\ r.tariff = firmCalls[c].tariff
          /\ r.offered = firmCalls[c].offered
      BY <1>t, <3>1 DEF FirmCall, Firm!Stage
    <3>3. CallOf(c, r)
      BY <1>t, <3>2 DEF CallOf
    <3>. QED
      BY <2>3, <3>1, <3>2, <3>3
  <2>. QED
    BY <2>1, <2>2, <2>3
<1>3. firmCalls' \in [Firm!Caller -> FirmCall]
  BY <1>1, <1>2
<1>4. \A c \in Firm!Caller : CallOf(c, firmCalls[c])'
  BY <1>1, <1>2 DEF CallOf, Listed, Firm!AsIssued
<1>5. firmFaults' \in 0 .. MaxFaults /\ firmFaults' # 0
  BY <1>t, <1>1
<1>6. Listed(tariffs') /\ Listed(schedules')
  BY <1>t, <1>1
<1>. QED
  BY <1>t, <1>1, <1>3, <1>4, <1>5, <1>6, FirmDisturbed

LEMMA FirmOther ==
    ASSUME FirmAssumption, FirmInv,
           NEW kind \in {"put", "reset", "post"},
           NEW s \in Firm!Settings \cup {NoSettings}, NEW t \in Firm!Tariff \cup {NoTariff},
           kind = "put" => s \in Firm!Settings, kind = "post" => t \in Firm!Tariff,
           Firm!OtherCalls(kind, s, t)
    PROVE  FirmInv'
<1>t. /\ settings \in Firm!Settings \cup {NoSettings} /\ firmRow \in Firm!Settings \cup {NoSettings}
      /\ tariffs \subseteq Firm!Tariff /\ schedules \subseteq Firm!Tariff
      /\ firmCalls \in [Firm!Caller -> FirmCall] /\ firmFaults \in 0 .. MaxFaults
      /\ \A c \in Firm!Caller : CallOf(c, firmCalls[c])
      /\ Listed(schedules) /\ Listed(tariffs) /\ Listed({})
  BY FirmTypes, FirmIssued
<1>1. /\ touched' = TRUE /\ firmCalls' = [firmCalls EXCEPT !["other"] = Firm!Call(kind, s, t)]
      /\ UNCHANGED <<settings, firmRow, tariffs, schedules, firmPage, firmFaults>>
  BY DEF Firm!OtherCalls
<1>2. PICK r : r = Firm!Call(kind, s, t)
  OBVIOUS
<1>3. /\ r \in FirmCall /\ r.kind = kind /\ r.stage = "sent" /\ r.settings = s
      /\ r.tariff = t /\ r.offered = {}
  BY <1>2 DEF Firm!Call, FirmCall, Firm!Kind, Firm!Stage
<1>4. \A c \in Firm!Caller : firmCalls'[c] = IF c = "other" THEN r ELSE firmCalls[c]
  BY <1>t, <1>1, <1>2
<1>5. firmCalls' \in [Firm!Caller -> FirmCall]
  BY <1>t, <1>1, <1>2, <1>3
<1>6. ASSUME NEW c \in Firm!Caller PROVE CallOf(c, firmCalls[c])'
  <2>1. CASE c = "other"
    <3>1. firmCalls'[c] = r
      BY <1>4, <2>1
    <3>. QED
      BY <1>1, <1>3, <1>t, <2>1, <3>1 DEF CallOf, Listed
  <2>2. CASE c # "other"
    <3>1. firmCalls'[c] = firmCalls[c] /\ CallOf(c, firmCalls[c])
      BY <1>t, <1>4, <2>2
    <3>. QED
      BY <1>1, <2>2, <3>1 DEF CallOf, Listed, Firm!AsIssued
  <2>. QED
    BY <2>1, <2>2
<1>. QED
  BY <1>t, <1>1, <1>5, <1>6, FirmDisturbed

-----------------------------------------------------------------------------
(* The page.                                                                *)

\* A step of the page: what it shows, and the call it sends or takes back.
LEMMA FirmPageStep ==
    ASSUME FirmAssumption, FirmInv, UNCHANGED <<settings, firmRow, tariffs, schedules,
           touched, firmFaults>>,
           firmPage' \in FirmPage, firmCalls' \in [Firm!Caller -> FirmCall],
           PageHolds', Listed(firmPage'.tariffs), \A c \in Firm!Caller : CallOf(c, firmCalls[c])',
           Firm!SavedIsStored', Undisturbed => Progress(firmCalls["settings"])'
    PROVE  FirmInv'
<1>1. FirmTyped'
  BY FirmTypes DEF FirmTyped, FirmInv
<1>2. Listed(firmPage.tariffs)' /\ Listed(schedules)' /\ Listed(tariffs)'
  BY FirmTypes DEF Listed, Firm!AsIssued
<1>. QED
  BY <1>1, <1>2 DEF FirmInv, Undisturbed

\* What the user types or chooses, and the message that goes away, leave the calls
\* and what was sent alone.
LEMMA FirmEdits ==
    ASSUME FirmAssumption, FirmInv,
           \/ \E v \in Firm!Value : Firm!handleUpdateSettings(v)
           \/ \E t \in Firm!Tariff : Firm!handleTariffChange(t)
           \/ Firm!handleBracketChange \/ Firm!SavedMessageEnds
    PROVE  FirmInv'
<1>t. /\ firmPage \in FirmPage /\ firmCalls \in [Firm!Caller -> FirmCall] /\ PageHolds
      /\ \A c \in Firm!Caller : CallOf(c, firmCalls[c]) /\ firmCalls[c] \in FirmCall
      /\ Listed(firmPage.tariffs)
  BY FirmTypes DEF FirmInv
<1> DEFINE Shows ==
      /\ UNCHANGED <<settings, firmRow, tariffs, schedules, touched, firmFaults, firmCalls>>
      /\ firmPage'.state = firmPage.state /\ firmPage'.sent = firmPage.sent
      /\ firmPage'.tariff = firmPage.tariff
      /\ firmPage'.error = firmPage.error /\ firmPage'.tariffs = firmPage.tariffs
      /\ firmPage'.saveSuccess \in {firmPage.saveSuccess, FALSE} /\ firmPage' \in FirmPage
      /\ Firm!Drawn => firmPage'.settings \in Firm!Settings /\ firmPage'.activeTariff \in Firm!Tariff
<1>1. Shows
  <2>1. ASSUME NEW v \in Firm!Value, Firm!handleUpdateSettings(v) PROVE Shows
    <3>1. firmPage.settings \in Firm!Settings
      BY <1>t, <2>1 DEF Firm!handleUpdateSettings, PageHolds
    <3>2. PICK s : s = [firmPage.settings EXCEPT !.value = v]
      OBVIOUS
    <3>3. s \in Firm!Settings
      BY <3>1, <3>2 DEF Firm!Settings
    <3>4. firmPage' = [firmPage EXCEPT !.settings = s]
      BY <1>t, <2>1, <3>2 DEF Firm!handleUpdateSettings, FirmPage
    <3>5. Firm!Drawn => firmPage.activeTariff \in Firm!Tariff
      BY <1>t DEF PageHolds
    <3>. QED
      BY <1>t, <2>1, <3>3, <3>4, <3>5 DEF Firm!handleUpdateSettings, FirmPage
  <2>2. ASSUME NEW t \in Firm!Tariff, Firm!handleTariffChange(t) PROVE Shows
    <3>1. Firm!Drawn => firmPage.settings \in Firm!Settings
      BY <1>t DEF PageHolds
    <3>2. t.id \in Preset \cup Custom
      BY DEF Firm!Tariff
    <3>. QED
      BY <1>t, <2>2, <3>1, <3>2 DEF Firm!handleTariffChange, FirmPage
  <2>3. ASSUME Firm!handleBracketChange PROVE Shows
    <3>1. firmPage.activeTariff \in Firm!Tariff /\ firmPage.settings \in Firm!Settings
      BY <1>t, <2>3 DEF Firm!handleBracketChange, PageHolds
    <3>2. PICK u : u = [firmPage.activeTariff EXCEPT !.edited = ~@]
      OBVIOUS
    <3>3. u \in Firm!Tariff
      BY <3>1, <3>2 DEF Firm!Tariff
    <3>4. firmPage' = [firmPage EXCEPT !.activeTariff = u]
      BY <1>t, <2>3, <3>2 DEF Firm!handleBracketChange, FirmPage
    <3>. QED
      BY <1>t, <2>3, <3>1, <3>3, <3>4 DEF Firm!handleBracketChange, FirmPage
  <2>4. ASSUME Firm!SavedMessageEnds PROVE Shows
    BY <1>t, <2>4 DEF Firm!SavedMessageEnds, FirmPage, PageHolds
  <2>. QED
    BY <2>1, <2>2, <2>3, <2>4
<1>2. PageHolds'
  BY <1>t, <1>1 DEF PageHolds, Firm!Drawn, FirmPage
<1>3. ASSUME NEW c \in Firm!Caller PROVE CallOf(c, firmCalls[c])'
  <2>1. CallOf(c, firmCalls[c]) /\ firmCalls'[c] = firmCalls[c]
    BY <1>t, <1>1
  <2>. QED
    BY <1>1, <2>1 DEF CallOf, Listed, Firm!AsIssued
<1>4. Firm!SavedIsStored'
  BY <1>t, <1>1 DEF FirmInv, Firm!SavedIsStored, FirmPage
<1>5. Undisturbed => Progress(firmCalls["settings"])'
  BY <1>1 DEF FirmInv, Progress
<1>. QED
  BY <1>t, <1>1, <1>2, <1>3, <1>4, <1>5, FirmPageStep

\* The page takes the answer of its first two calls, or their failure.
LEMMA FirmLoads ==
    ASSUME FirmAssumption, FirmInv, Firm!Loaded \/ Firm!LoadFails
    PROVE  FirmInv'
<1>t. /\ firmPage \in FirmPage /\ firmCalls \in [Firm!Caller -> FirmCall] /\ PageHolds
      /\ \A c \in Firm!Caller : CallOf(c, firmCalls[c]) /\ firmCalls[c] \in FirmCall
      /\ Listed(firmPage.tariffs)
  BY FirmTypes DEF FirmInv
<1>1. /\ UNCHANGED <<settings, firmRow, tariffs, schedules, touched, firmFaults>>
      /\ firmPage.state = "loading"
      /\ firmCalls' = [firmCalls EXCEPT !["settings"] = Firm!Idle, !["tariffs"] = Firm!Idle]
  BY DEF Firm!Loaded, Firm!LoadFails
<1>2. \A c \in Firm!Caller : firmCalls'[c] = IF c = "other" THEN firmCalls[c] ELSE Firm!Idle
  BY <1>t, <1>1 DEF Firm!Caller
<1>3. /\ firmPage' \in FirmPage /\ PageHolds' /\ Listed(firmPage'.tariffs) /\ ~firmPage'.saveSuccess
  <2>1. CASE Firm!Loaded
    <3>1. /\ firmCalls["settings"].kind = "get" /\ firmCalls["settings"].stage = "answered"
      BY <2>1 DEF Firm!Loaded, Firm!Answered
    <3>2. /\ firmCalls["settings"].settings \in Firm!Settings
          /\ firmCalls["tariffs"].offered \in SUBSET Firm!Tariff
          /\ Listed(firmCalls["tariffs"].offered)
      <4>1. "settings" \in Firm!Caller /\ "tariffs" \in Firm!Caller
        BY DEF Firm!Caller
      <4>. QED
        BY <1>t, <3>1, <4>1 DEF CallOf, FirmCall
    <3>3. PICK fetched \in Firm!Settings : fetched = firmCalls["settings"].settings
      BY <3>2
    <3>4. PICK offered \in SUBSET Firm!Tariff : offered = firmCalls["tariffs"].offered
      BY <3>2
    <3>5. PICK found : found = {t \in offered : t.id = fetched.active}
      OBVIOUS
    <3>6. PICK shown : shown = CHOOSE t \in IF found = {} THEN Firm!AsIssued ELSE found :
                                   found = {} => t.id = Active
      OBVIOUS
    <3>7. firmPage' = [firmPage EXCEPT !.state = "ready", !.settings = fetched, !.tariffs = offered,
                                       !.selected = fetched.active, !.activeTariff = shown]
      BY <2>1, <3>3, <3>4, <3>5, <3>6 DEF Firm!Loaded
    <3>8. shown \in Firm!Tariff
      <4>1. \E t \in IF found = {} THEN Firm!AsIssued ELSE found : found = {} => t.id = Active
        BY FirmIssued
      <4>2. shown \in IF found = {} THEN Firm!AsIssued ELSE found
        BY <3>6, <4>1
      <4>. QED
        BY <3>5, <4>2, FirmIssued
    <3>9. fetched.active \in Preset \cup Custom
      BY DEF Firm!Settings
    <3>10. /\ firmPage'.state = "ready" /\ firmPage'.settings = fetched
           /\ firmPage'.tariffs = offered
           /\ firmPage'.activeTariff = shown /\ firmPage'.saveSuccess = firmPage.saveSuccess
           /\ firmPage' \in FirmPage
      BY <1>t, <3>7, <3>8, <3>9 DEF FirmPage
    <3>. QED
      BY <1>t, <1>1, <3>2, <3>4, <3>8, <3>10 DEF PageHolds, Firm!Drawn
  <2>2. CASE Firm!LoadFails
    <3>1. firmPage' = [firmPage EXCEPT !.state = "failed", !.error = TRUE]
      BY <2>2 DEF Firm!LoadFails
    <3>. QED
      BY <1>t, <1>1, <3>1 DEF PageHolds, Firm!Drawn, FirmPage
  <2>. QED
    BY <2>1, <2>2
<1>4. ASSUME NEW c \in Firm!Caller PROVE CallOf(c, firmCalls[c])'
  <2>1. CASE c = "other"
    <3>1. CallOf(c, firmCalls[c]) /\ firmCalls'[c] = firmCalls[c]
      BY <1>t, <1>2, <2>1
    <3>. QED
      BY <1>1, <2>1, <3>1 DEF CallOf, Listed, Firm!AsIssued
  <2>2. CASE c # "other"
    <3>1. firmCalls'[c] = Firm!Idle
      BY <1>2, <2>2
    <3>. QED
      BY <2>2, <3>1, FirmIdle, FirmIssued DEF CallOf, Firm!Idle, Firm!Call, Listed
  <2>. QED
    BY <2>1, <2>2
<1>5. firmCalls' \in [Firm!Caller -> FirmCall]
  BY <1>t, <1>1, FirmIdle DEF Firm!Caller
<1>6. Firm!SavedIsStored'
  BY <1>3 DEF Firm!SavedIsStored
<1>7. Undisturbed => Progress(firmCalls["settings"])'
  <2>1. firmCalls'["settings"].kind = "none"
    BY <1>2, FirmIdle DEF Firm!Caller
  <2>. QED
    BY <2>1 DEF Progress
<1>. QED
  BY <1>1, <1>3, <1>4, <1>5, <1>6, <1>7, FirmPageStep

\* The save: one call for the settings, then one for the schedule.
LEMMA FirmSends ==
    ASSUME FirmAssumption, FirmInv, Firm!handleSaveSettings \/ Firm!SettingsSaved
    PROVE  FirmInv'
<1>t. /\ firmPage \in FirmPage /\ firmCalls \in [Firm!Caller -> FirmCall] /\ PageHolds
      /\ \A c \in Firm!Caller : CallOf(c, firmCalls[c]) /\ firmCalls[c] \in FirmCall
      /\ Listed(firmPage.tariffs) /\ "settings" \in Firm!Caller
  BY FirmTypes DEF FirmInv, Firm!Caller
<1>1. UNCHANGED <<settings, firmRow, tariffs, schedules, touched, firmFaults>>
  BY DEF Firm!handleSaveSettings, Firm!SettingsSaved
<1>2. PICK r \in FirmCall :
        /\ firmCalls' = [firmCalls EXCEPT !["settings"] = r] /\ Listed(r.offered)
        /\ \/ /\ r.kind = "put" /\ r.stage = "sent" /\ r.settings \in Firm!Settings
              /\ firmPage'.state = "settings" /\ firmPage'.sent = r.settings
              /\ firmPage.state = "ready"
           \/ /\ r.kind = "post" /\ r.stage = "sent" /\ r.tariff \in Firm!Tariff
              /\ firmPage'.state = "schedule" /\ firmPage'.tariff = r.tariff
              /\ firmPage.state = "settings"
              /\ firmPage'.sent = firmPage.sent
  <2>1. CASE Firm!handleSaveSettings
    <3>1. firmPage.settings \in Firm!Settings /\ firmPage.selected \in Preset \cup Custom
      BY <1>t, <2>1 DEF Firm!handleSaveSettings, PageHolds, Firm!Drawn, FirmPage
    <3>2. PICK sent : sent = [firmPage.settings EXCEPT !.active = firmPage.selected]
      OBVIOUS
    <3>3. sent \in Firm!Settings
      BY <3>1, <3>2 DEF Firm!Settings
    <3>4. /\ firmCalls' = [firmCalls EXCEPT !["settings"] = Firm!Call("put", sent, NoTariff)]
          /\ firmPage' = [firmPage EXCEPT !.state = "settings", !.error = FALSE, !.sent = sent,
                                          !.tariff = firmPage.activeTariff]
      BY <2>1, <3>2 DEF Firm!handleSaveSettings
    <3>5. PICK r : r = Firm!Call("put", sent, NoTariff)
      OBVIOUS
    <3>6. /\ r \in FirmCall /\ r.kind = "put" /\ r.stage = "sent" /\ r.settings = sent
          /\ Listed(r.offered)
      BY <3>3, <3>5, FirmIssued DEF Firm!Call, FirmCall, Firm!Kind, Firm!Stage
    <3>7. firmPage.state = "ready" /\ firmPage'.state = "settings" /\ firmPage'.sent = sent
      BY <1>t, <2>1, <3>4 DEF Firm!handleSaveSettings, FirmPage
    <3>. QED
      BY <3>3, <3>4, <3>5, <3>6, <3>7
  <2>2. CASE Firm!SettingsSaved
    <3>1. firmPage.tariff \in Firm!Tariff
      BY <1>t, <2>2 DEF Firm!SettingsSaved, PageHolds
    <3>2. PICK r : r = Firm!Call("post", NoSettings, firmPage.tariff)
      OBVIOUS
    <3>3. /\ r \in FirmCall /\ r.kind = "post" /\ r.stage = "sent" /\ r.tariff = firmPage.tariff
          /\ Listed(r.offered)
      BY <3>1, <3>2, FirmIssued DEF Firm!Call, FirmCall, Firm!Kind, Firm!Stage
    <3>4. /\ firmPage.state = "settings" /\ firmPage'.state = "schedule"
          /\ firmPage'.tariff = firmPage.tariff
          /\ firmPage'.sent = firmPage.sent
      BY <1>t, <2>2 DEF Firm!SettingsSaved, FirmPage
    <3>5. firmCalls' = [firmCalls EXCEPT !["settings"] = r]
      BY <2>2, <3>2 DEF Firm!SettingsSaved
    <3>. QED
      BY <3>1, <3>3, <3>4, <3>5
  <2>. QED
    BY <2>1, <2>2
<1>3. /\ firmPage' \in FirmPage /\ PageHolds' /\ firmPage'.tariffs = firmPage.tariffs
  <2>1. CASE Firm!handleSaveSettings
    <3>1. /\ firmPage.settings \in Firm!Settings /\ firmPage.selected \in Preset \cup Custom
          /\ firmPage.activeTariff \in Firm!Tariff
      BY <1>t, <2>1 DEF Firm!handleSaveSettings, PageHolds, Firm!Drawn, FirmPage
    <3>2. PICK sent : sent = [firmPage.settings EXCEPT !.active = firmPage.selected]
      OBVIOUS
    <3>3. sent \in Firm!Settings
      BY <3>1, <3>2 DEF Firm!Settings
    <3>4. firmPage' = [firmPage EXCEPT !.state = "settings", !.error = FALSE, !.sent = sent,
                                       !.tariff = firmPage.activeTariff]
      BY <2>1, <3>2 DEF Firm!handleSaveSettings
    <3>. QED
      BY <1>t, <3>1, <3>3, <3>4 DEF PageHolds, Firm!Drawn, FirmPage
  <2>2. CASE Firm!SettingsSaved
    BY <1>t, <2>2 DEF Firm!SettingsSaved, PageHolds, Firm!Drawn, FirmPage
  <2>. QED
    BY <2>1, <2>2
<1>4. \A c \in Firm!Caller : firmCalls'[c] = IF c = "settings" THEN r ELSE firmCalls[c]
  BY <1>t, <1>2
<1>5. ASSUME NEW c \in Firm!Caller PROVE CallOf(c, firmCalls[c])'
  <2>1. CASE c = "settings"
    <3>1. firmCalls'[c] = r
      BY <1>4, <2>1
    <3>. QED
      BY <1>2, <2>1, <3>1 DEF CallOf, Listed, Firm!AsIssued
  <2>2. CASE c # "settings"
    <3>1. CallOf(c, firmCalls[c]) /\ firmCalls'[c] = firmCalls[c]
      BY <1>t, <1>4, <2>2
    <3>2. c = "tariffs" => firmCalls[c].kind = "none"
      BY <1>2, <3>1 DEF CallOf
    <3>. QED
      BY <1>1, <2>2, <3>1, <3>2 DEF CallOf, Listed, Firm!AsIssued
  <2>. QED
    BY <2>1, <2>2
<1>6. firmCalls' \in [Firm!Caller -> FirmCall]
  BY <1>t, <1>2
<1>7. Firm!SavedIsStored'
  BY <1>2 DEF Firm!SavedIsStored
<1>8. Undisturbed => Progress(firmCalls["settings"])'
  <2>1. firmCalls'["settings"] = r
    BY <1>t, <1>4
  <2>2. CASE r.kind = "put"
    BY <1>2, <2>1, <2>2 DEF Progress
  <2>3. CASE r.kind = "post"
    <3>1. /\ r.stage = "sent" /\ firmPage'.sent = firmPage.sent
          /\ firmCalls["settings"].kind = "put" /\ firmCalls["settings"].stage = "answered"
      <4>1. /\ r.kind # "put" /\ firmPage'.state = "schedule" /\ r.stage = "sent"
            /\ firmPage'.sent = firmPage.sent
        BY <1>2, <2>3
      <4>2. Firm!SettingsSaved
        <5>1. Firm!handleSaveSettings => firmPage'.state = "settings"
          BY <1>t DEF Firm!handleSaveSettings, FirmPage
        <5>. QED
          BY <4>1, <5>1
      <4>. QED
        BY <4>1, <4>2 DEF Firm!SettingsSaved, Firm!Answered
    <3>. QED
      BY <1>1, <2>1, <2>3, <3>1 DEF FirmInv, Progress
  <2>. QED
    BY <1>2, <2>2, <2>3
<1>. QED
  BY <1>t, <1>1, <1>3, <1>5, <1>6, <1>7, <1>8, FirmPageStep

LEMMA FirmSaveEnds ==
    ASSUME FirmAssumption, FirmInv, Firm!ScheduleSaved \/ Firm!SaveFails
    PROVE  FirmInv'
<1>t. /\ firmPage \in FirmPage /\ firmCalls \in [Firm!Caller -> FirmCall] /\ PageHolds
      /\ \A c \in Firm!Caller : CallOf(c, firmCalls[c]) /\ firmCalls[c] \in FirmCall
      /\ Listed(firmPage.tariffs) /\ "settings" \in Firm!Caller
  BY FirmTypes DEF FirmInv, Firm!Caller
<1>1. /\ UNCHANGED <<settings, firmRow, tariffs, schedules, touched, firmFaults>>
      /\ firmCalls' = [firmCalls EXCEPT !["settings"] = Firm!Idle]
      /\ firmPage.state \in {"settings", "schedule"}
  BY DEF Firm!ScheduleSaved, Firm!SaveFails, Firm!Returns
<1>2. /\ firmPage' \in FirmPage /\ PageHolds' /\ firmPage'.tariffs = firmPage.tariffs
      /\ firmPage'.state = "ready" /\ firmPage'.sent = firmPage.sent
      /\ firmPage'.tariff = firmPage.tariff
      /\ Firm!SaveFails => firmPage'.error
  <2>1. /\ firmPage.sent \in Firm!Settings /\ firmPage.settings \in Firm!Settings
        /\ firmPage.activeTariff \in Firm!Tariff
    BY <1>t, <1>1 DEF PageHolds, Firm!Drawn
  <2>2. CASE Firm!ScheduleSaved
    <3>1. firmPage' = [firmPage EXCEPT !.state = "ready", !.settings = firmPage.sent, !.saveSuccess = TRUE]
      BY <2>2 DEF Firm!ScheduleSaved
    <3>2. ~Firm!SaveFails
      BY <2>2 DEF Firm!ScheduleSaved, Firm!SaveFails, Firm!Answered, Firm!Refused
    <3>. QED
      BY <1>t, <2>1, <3>1, <3>2 DEF PageHolds, Firm!Drawn, FirmPage
  <2>3. CASE Firm!SaveFails
    BY <1>t, <2>1, <2>3 DEF Firm!SaveFails, PageHolds, Firm!Drawn, FirmPage
  <2>. QED
    BY <2>2, <2>3
<1>3. \A c \in Firm!Caller : firmCalls'[c] = IF c = "settings" THEN Firm!Idle ELSE firmCalls[c]
  BY <1>t, <1>1
<1>4. ASSUME NEW c \in Firm!Caller PROVE CallOf(c, firmCalls[c])'
  <2>1. CASE c = "settings"
    <3>1. firmCalls'[c] = Firm!Idle
      BY <1>3, <2>1
    <3>. QED
      BY <2>1, <3>1, FirmIdle, FirmIssued DEF CallOf, Firm!Idle, Firm!Call, Listed
  <2>2. CASE c # "settings"
    <3>1. CallOf(c, firmCalls[c]) /\ firmCalls'[c] = firmCalls[c]
      BY <1>t, <1>3, <2>2
    <3>2. c = "tariffs" => firmCalls[c].kind = "none"
      BY <1>1, <3>1 DEF CallOf
    <3>. QED
      BY <1>1, <2>2, <3>1, <3>2 DEF CallOf, Listed, Firm!AsIssued
  <2>. QED
    BY <2>1, <2>2
<1>5. firmCalls' \in [Firm!Caller -> FirmCall]
  BY <1>t, <1>1, FirmIdle
<1>6. Firm!SavedIsStored'
  <2>. SUFFICES ASSUME ~firmPage'.error, firmFaults = 0, ~touched
                PROVE  Firm!SavedIsStored'
    BY <1>1 DEF Firm!SavedIsStored
  <2>1. /\ Firm!ScheduleSaved /\ firmCalls["settings"].kind = "post"
        /\ firmCalls["settings"].stage = "answered"
    BY <1>2 DEF Firm!ScheduleSaved, Firm!Answered
  <2>2. Progress(firmCalls["settings"])
    BY DEF FirmInv, Undisturbed
  <2>. QED
    BY <1>1, <1>2, <2>1, <2>2 DEF Progress, Firm!SavedIsStored
<1>7. Undisturbed => Progress(firmCalls["settings"])'
  <2>1. firmCalls'["settings"].kind = "none"
    BY <1>3, FirmIdle DEF Firm!Caller
  <2>. QED
    BY <2>1 DEF Progress
<1>. QED
  BY <1>t, <1>1, <1>2, <1>4, <1>5, <1>6, <1>7, FirmPageStep

-----------------------------------------------------------------------------

LEMMA FirmInitial ==
    ASSUME FirmAssumption, Firm!Init
    PROVE  FirmInv
<1>1. /\ settings = NoSettings /\ firmRow = NoSettings /\ tariffs = {}
      /\ touched = FALSE /\ firmFaults = 0
      /\ schedules \in {{}, {[id |-> c, edited |-> FALSE] : c \in Custom}}
      /\ firmPage = [state |-> "loading", settings |-> NoSettings, tariffs |-> {}, activeTariff |-> NoTariff,
                     selected |-> Active, sent |-> NoSettings, tariff |-> NoTariff,
                     saveSuccess |-> FALSE, error |-> FALSE]
      /\ firmCalls = [c \in Firm!Caller |-> CASE c = "settings" -> Firm!getFirmSettings
                                               [] c = "tariffs" -> Firm!getTariffSchedules
                                               [] OTHER -> Firm!Idle]
  BY DEF Firm!Init
<1>2. schedules \subseteq Firm!Tariff /\ Listed(schedules)
  <2>1. CASE schedules = {}
    BY <2>1, FirmIssued
  <2>2. CASE schedules = {[id |-> c, edited |-> FALSE] : c \in Custom}
    <3>1. \A t \in schedules : \E c \in Custom : t = [id |-> c, edited |-> FALSE]
      BY <2>2
    <3>2. \A t \in schedules : t \in Firm!Tariff /\ t = [id |-> t.id, edited |-> FALSE]
      <4>. SUFFICES ASSUME NEW t \in schedules
                    PROVE  t \in Firm!Tariff /\ t = [id |-> t.id, edited |-> FALSE]
        OBVIOUS
      <4>1. PICK c \in Custom : t = [id |-> c, edited |-> FALSE]
        BY <3>1
      <4>2. t.id = c
        BY <4>1
      <4>. QED
        BY <4>1, <4>2 DEF Firm!Tariff
    <3>3. \A t \in schedules : t.id \in Preset => t \in Firm!AsIssued
      BY <3>2 DEF Firm!AsIssued
    <3>4. \A t, u \in schedules : t.id = u.id => t = u
      BY <3>2
    <3>. QED
      BY <3>2, <3>3, <3>4 DEF Listed
  <2>. QED
    BY <1>1, <2>1, <2>2
<1>3. \A c \in Firm!Caller : firmCalls[c] \in FirmCall /\ CallOf(c, firmCalls[c])
  BY <1>1, FirmIssued DEF Firm!Caller, Firm!getFirmSettings, Firm!getTariffSchedules,
     Firm!Idle, Firm!Call, FirmCall, Firm!Kind, Firm!Stage,
     CallOf, Listed
<1>4. firmPage \in FirmPage /\ PageHolds /\ Listed(firmPage.tariffs) /\ Firm!SavedIsStored
  BY <1>1, FirmIssued DEF FirmPage, PageHolds, Firm!Drawn, Firm!SavedIsStored,
     FirmAssumption
<1>5. firmCalls \in [Firm!Caller -> FirmCall]
  BY <1>1, <1>3
<1>6. FirmTyped
  <2>1. firmFaults \in 0 .. MaxFaults
    BY <1>1 DEF FirmAssumption
  <2>2. touched \in BOOLEAN /\ tariffs \subseteq Firm!Tariff
    BY <1>1
  <2>. QED
    BY <1>1, <1>2, <1>4, <1>5, <2>1, <2>2 DEF FirmTyped
<1>7. firmCalls["settings"].kind = "get"
  BY <1>1 DEF Firm!getFirmSettings, Firm!Call, Firm!Caller
<1>8. Progress(firmCalls["settings"])
  BY <1>7 DEF Progress
<1>9. Listed(tariffs)
  BY <1>1, FirmIssued
<1>. QED
  BY <1>2, <1>3, <1>4, <1>6, <1>8, <1>9 DEF FirmInv

LEMMA FirmStep ==
    ASSUME FirmAssumption, FirmInv, [Firm!Next]_(Firm!vars)
    PROVE  FirmInv'
<1>1. CASE UNCHANGED Firm!vars
  BY <1>1 DEF Firm!vars, FirmInv, FirmTyped, PageHolds, Firm!Drawn, CallOf, Listed,
     Firm!AsIssued, Firm!SavedIsStored,
     Undisturbed, Progress
<1>2. CASE Firm!Loaded \/ Firm!LoadFails
  BY <1>2, FirmLoads
<1>3. CASE Firm!handleSaveSettings \/ Firm!SettingsSaved
  BY <1>3, FirmSends
<1>4. CASE Firm!ScheduleSaved \/ Firm!SaveFails
  BY <1>4, FirmSaveEnds
<1>5. CASE \/ \E v \in Firm!Value : Firm!handleUpdateSettings(v)
           \/ \E t \in Firm!Tariff : Firm!handleTariffChange(t)
           \/ Firm!handleBracketChange \/ Firm!SavedMessageEnds
  BY <1>5, FirmEdits
<1>6. CASE Firm!Restart
  BY <1>6, FirmRestart
<1>7. CASE \E kind \in {"put", "reset"} :
              Firm!OtherCalls(kind, [value |-> "cleared", active |-> Active], NoTariff)
  <2>1. PICK kind \in {"put", "reset"} :
            Firm!OtherCalls(kind, [value |-> "cleared", active |-> Active], NoTariff)
    BY <1>7
  <2>2. PICK s : s = [value |-> "cleared", active |-> Active]
    OBVIOUS
  <2>3. s \in Firm!Settings
    BY <2>2 DEF Firm!Settings, Firm!Value, FirmAssumption
  <2>4. Firm!OtherCalls(kind, s, NoTariff)
    BY <2>1, <2>2
  <2>. QED
    BY <2>3, <2>4, FirmOther
<1>8. CASE \E t \in Firm!Tariff : t.edited /\ Firm!OtherCalls("post", NoSettings, t)
  BY <1>8, FirmOther
<1>9. CASE \E c \in Firm!Caller : Firm!getTenantSettings(c) \/ Firm!ListTariffs(c)
  BY <1>9, FirmReads
<1>10. CASE \E c \in Firm!Caller : \/ Firm!PutMemory(c) \/ Firm!PutRow(c)
                                   \/ Firm!PostRefused(c) \/ Firm!PostMemory(c) \/ Firm!PostRow(c)
  BY <1>10, FirmSaves
<1>11. CASE \E c \in Firm!Caller : Firm!ResetMemory(c) \/ Firm!ResetSettings(c) \/ Firm!ResetSchedules(c) \/ Firm!ResetFails(c)
  BY <1>11, FirmResets
<1>12. CASE \E c \in Firm!Caller : Firm!CallFails(c)
  BY <1>12, FirmCallFails
<1>. QED
  BY <1>1, <1>2, <1>3, <1>4, <1>5, <1>6, <1>7, <1>8, <1>9, <1>10, <1>11, <1>12 DEF Firm!Next

\* The inductive invariant of the firm's settings and schedules.
THEOREM FirmKeep == ASSUME FirmAssumption PROVE Firm!Spec => []FirmInv
<1>1. Firm!Init => FirmInv
  BY FirmInitial
<1>2. FirmInv /\ [Firm!Next]_(Firm!vars) => FirmInv'
  BY FirmStep
<1>. QED
  BY <1>1, <1>2, PTL DEF Firm!Spec

\* What the page calls saved is stored, and official schedules stay as issued.
THEOREM FirmSaved ==
    ASSUME FirmAssumption PROVE Firm!Spec => [](Firm!SavedIsStored /\ Firm!OfficialAsIssued)
<1>1. FirmInv => Firm!SavedIsStored /\ Firm!OfficialAsIssued
  BY DEF FirmInv, Listed, Firm!OfficialAsIssued
<1>. QED
  BY <1>1, FirmKeep, PTL

\* The stored settings, the calls and the page keep their types.
THEOREM FirmTypeOK == ASSUME FirmAssumption PROVE Firm!Spec => []Firm!TypeOK
<1>1. FirmInv => Firm!TypeOK
  BY DEF FirmInv, FirmTyped, Firm!TypeOK, FirmCall, FirmPage
<1>. QED
  BY <1>1, FirmKeep, PTL

-----------------------------------------------------------------------------
(***************************************************************************)
(* The calculator page keeps the statement of what is entered, adds it up  *)
(* after every edit, and prices it as the schedules say, for any prices,   *)
(* numbers of deeds and multipliers.  What a sum over a set is, is shown   *)
(* first: Total folds over a set in an order nobody chose.                 *)
(***************************************************************************)
\* Amounts that are entered are natural numbers.
AccountsAssumption == Price \subseteq Nat /\ Deeds \subseteq Nat /\ Multiplier \subseteq Nat

LEMMA Least == ASSUME NEW N \in SUBSET Nat, N # {} PROVE \E n \in N : \A m \in N : n <= m
<1>. DEFINE R == {ss \in Nat \X Nat : ss[1] < ss[2]}
<1>1. IsWellFoundedOn(R, Nat)
  BY NatLessThanWellFounded, Zenon DEF OpToRel
<1>. HIDE DEF R
<1>2. PICK n \in N : \A m \in N : ~(<<m, n>> \in R)
  BY <1>1, WFMin
<1>3. ASSUME NEW m \in N PROVE n <= m
  <2>1. m \in Nat /\ n \in Nat /\ <<m, n>> \notin R
    BY <1>2
  <2>. QED
    BY <2>1 DEF R
<1>. QED
  BY <1>2, <1>3

Chosen(s) == CHOOSE x \in s : TRUE

LEMMA ChosenIn == ASSUME NEW s, s # {} PROVE Chosen(s) \in s
BY DEF Chosen

\* The sum of a function, one element of its domain chosen after the other.
Counts(h, g, S) ==
    h = [s \in SUBSET S |-> IF s = {} THEN 0 ELSE g[Chosen(s)] + h[s \ {Chosen(s)}]]

Few(S, n) == {s \in SUBSET S : Cardinality(s) <= n}

Upto(S, g, n) == \E h \in [Few(S, n) -> Int] : \A s \in Few(S, n) :
    h[s] = IF s = {} THEN 0 ELSE g[Chosen(s)] + h[s \ {Chosen(s)}]

LEMMA SmallerSet ==
    ASSUME NEW S, IsFiniteSet(S), NEW s \in SUBSET S, NEW x \in s
    PROVE  /\ IsFiniteSet(s) /\ Cardinality(s) \in Nat /\ s \ {x} \in SUBSET S
           /\ Cardinality(s \ {x}) = Cardinality(s) - 1 /\ Cardinality(s) > 0
BY FS_Subset, FS_RemoveElement, FS_CardinalityType, FS_EmptySet

LEMMA SumUpto ==
    ASSUME NEW S, IsFiniteSet(S), NEW g \in [S -> Int], NEW n \in Nat
    PROVE  Upto(S, g, n)
<1>. SUFFICES ASSUME ~ Upto(S, g, n) PROVE FALSE
  OBVIOUS
<1>. DEFINE N == {m \in Nat : ~ Upto(S, g, m)}
<1>1. PICK m \in N : \A k \in N : m <= k
  <2>1. N \in SUBSET Nat /\ N # {}
    OBVIOUS
  <2>. HIDE DEF N
  <2>. QED
    BY <2>1, Least
<1>2. CASE m = 0
  <2>1. \A s \in Few(S, 0) : s = {}
    BY FS_EmptySet, FS_Subset, FS_CardinalityType DEF Few
  <2>2. [s \in Few(S, 0) |-> 0] \in [Few(S, 0) -> Int]
    OBVIOUS
  <2>. QED
    BY <1>2, <2>1, <2>2 DEF Upto
<1>3. CASE m # 0
  <2>1. m \in Nat /\ m - 1 \in Nat /\ m - 1 \notin N
    BY <1>1, <1>3
  <2>2. PICK h \in [Few(S, m - 1) -> Int] : \A s \in Few(S, m - 1) :
          h[s] = IF s = {} THEN 0 ELSE g[Chosen(s)] + h[s \ {Chosen(s)}]
    BY <2>1 DEF Upto
  <2>. DEFINE k == [s \in Few(S, m) |-> IF s = {} THEN 0 ELSE g[Chosen(s)] + h[s \ {Chosen(s)}]]
  <2>3. ASSUME NEW s \in Few(S, m), s # {}
        PROVE  /\ s \ {Chosen(s)} \in Few(S, m - 1) /\ Chosen(s) \in S
    <3>1. s \in SUBSET S /\ Chosen(s) \in s /\ Cardinality(s) <= m
      BY <2>3, ChosenIn DEF Few
    <3>2. /\ Cardinality(s) \in Nat /\ s \ {Chosen(s)} \in SUBSET S
          /\ Cardinality(s \ {Chosen(s)}) = Cardinality(s) - 1
      BY <3>1, SmallerSet
    <3>. QED
      BY <2>1, <3>1, <3>2 DEF Few
  <2>4. \A s \in Few(S, m - 1) : s \in Few(S, m) /\ k[s] = h[s]
    <3>. SUFFICES ASSUME NEW s \in Few(S, m - 1) PROVE s \in Few(S, m) /\ k[s] = h[s]
      OBVIOUS
    <3>1. s \in Few(S, m)
      BY <2>1, FS_Subset, FS_CardinalityType DEF Few
    <3>. QED
      BY <2>2, <3>1
  <2>5. k \in [Few(S, m) -> Int]
    <3>. SUFFICES ASSUME NEW s \in Few(S, m), s # {}
                  PROVE g[Chosen(s)] + h[s \ {Chosen(s)}] \in Int
      OBVIOUS
    <3>. QED
      BY <2>3
  <2>6. \A s \in Few(S, m) :
          k[s] = IF s = {} THEN 0 ELSE g[Chosen(s)] + k[s \ {Chosen(s)}]
    BY <2>3, <2>4
  <2>. HIDE DEF k
  <2>. QED
    BY <1>1, <2>5, <2>6 DEF Upto
<1>. QED
  BY <1>2, <1>3

LEMMA SumExists ==
    ASSUME NEW S, IsFiniteSet(S), NEW g \in [S -> Int]
    PROVE  \E h \in [SUBSET S -> Int] : Counts(h, g, S)
<1>1. Cardinality(S) \in Nat /\ Few(S, Cardinality(S)) = SUBSET S
  BY FS_Subset, FS_CardinalityType DEF Few
<1>2. Upto(S, g, Cardinality(S))
  BY <1>1, SumUpto
<1>. QED
  BY <1>1, <1>2 DEF Upto, Counts

\* A set without one of its elements is short by that one.
OneLess(h, g, S) == \A t \in SUBSET S : \A y \in t : h[t] - h[t \ {y}] = g[y]

\* Whichever element is taken away first.
LEMMA SumAny ==
    ASSUME NEW S, IsFiniteSet(S), NEW g \in [S -> Int], NEW h \in [SUBSET S -> Int],
           Counts(h, g, S)
    PROVE  OneLess(h, g, S)
<1>. SUFFICES ASSUME NEW t \in SUBSET S, NEW y \in t PROVE h[t] - h[t \ {y}] = g[y]
  BY DEF OneLess
<1>. DEFINE Bad(n) == \E s \in SUBSET S : Cardinality(s) = n /\ \E x \in s : h[s] - h[s \ {x}] # g[x]
            N == {n \in Nat : Bad(n)}
<1>1. SUFFICES ASSUME h[t] - h[t \ {y}] # g[y] PROVE FALSE
  OBVIOUS
<1>2. Cardinality(t) \in N
  BY <1>1, SmallerSet
<1>3. PICK n \in N : \A k \in N : n <= k
  <2>1. N \in SUBSET Nat
    OBVIOUS
  <2>. HIDE DEF N
  <2>. QED
    BY <1>2, <2>1, Least
<1>4. n \in Nat /\ \A k \in Nat : k < n => ~Bad(k)
  BY <1>3
<1>5. PICK s \in SUBSET S : Cardinality(s) = n /\ \E x \in s : h[s] - h[s \ {x}] # g[x]
  BY <1>3
<1>6. PICK x \in s : h[s] - h[s \ {x}] # g[x]
  BY <1>5
<1>. HIDE DEF Bad, N
<1>7. PICK c \in s : c = Chosen(s)
  BY ChosenIn
<1>8. h[s] = g[c] + h[s \ {c}]
  BY <1>7 DEF Counts
<1>a. /\ s \ {c} \in SUBSET S /\ s \ {x} \in SUBSET S /\ g[x] \in Int /\ g[c] \in Int
      /\ h[s \ {c}] \in Int /\ h[s \ {x}] \in Int /\ h[(s \ {c}) \ {x}] \in Int
  OBVIOUS
<1>b. h[s] - h[s \ {c}] = g[c]
  BY <1>8, <1>a
<1>9. c # x
  BY <1>6, <1>b
<1>10. ASSUME NEW u \in SUBSET S, Cardinality(u) = n - 1, NEW z \in u
       PROVE  h[u] - h[u \ {z}] = g[z]
  <2>1. n \in Nat /\ Cardinality(u) \in Nat
    BY <1>4, SmallerSet
  <2>2. Cardinality(u) < n
    BY <1>10, <2>1
  <2>3. ~ Bad(Cardinality(u))
    BY <1>4, <2>1, <2>2
  <2>. QED
    BY <1>10, <2>3 DEF Bad
<1>11. /\ s \ {c} \in SUBSET S /\ Cardinality(s \ {c}) = n - 1 /\ x \in s \ {c}
       /\ s \ {x} \in SUBSET S /\ Cardinality(s \ {x}) = n - 1 /\ c \in s \ {x}
       /\ (s \ {c}) \ {x} = (s \ {x}) \ {c}
  BY <1>5, <1>9, SmallerSet
<1>12. h[s \ {c}] - h[(s \ {c}) \ {x}] = g[x]
  BY <1>10, <1>11
<1>13. h[s \ {x}] - h[(s \ {x}) \ {c}] = g[c]
  BY <1>10, <1>11
<1>14. h[s \ {x}] - h[(s \ {c}) \ {x}] = g[c]
  BY <1>11, <1>13
<1>. QED
  BY <1>6, <1>8, <1>a, <1>12, <1>14

\* A sum does not depend on what is not summed up.
LEMMA SumAgree ==
    ASSUME NEW S, IsFiniteSet(S), NEW T \in SUBSET S, NEW g, NEW e, NEW h, NEW k,
           Counts(h, g, S), Counts(k, e, T), \A x \in T : g[x] = e[x]
    PROVE  \A s \in SUBSET T : h[s] = k[s]
<1>. DEFINE Bad(n) == \E s \in SUBSET T : Cardinality(s) = n /\ h[s] # k[s]
            N == {n \in Nat : Bad(n)}
<1>0. IsFiniteSet(T) /\ \A s \in SUBSET T : s \in SUBSET S /\ Cardinality(s) \in Nat
  BY FS_Subset, FS_CardinalityType
<1>1. SUFFICES ASSUME N # {} PROVE FALSE
  BY <1>0
<1>2. PICK n \in N : \A m \in N : n <= m
  <2>1. N \in SUBSET Nat
    OBVIOUS
  <2>. HIDE DEF N
  <2>. QED
    BY <1>1, <2>1, Least
<1>3. n \in Nat /\ \A m \in Nat : m < n => ~Bad(m)
  BY <1>2
<1>4. PICK s \in SUBSET T : Cardinality(s) = n /\ h[s] # k[s]
  BY <1>2
<1>. HIDE DEF Bad, N
<1>5. s # {}
  BY <1>0, <1>4 DEF Counts
<1>6. PICK c \in s : c = Chosen(s)
  BY <1>5, ChosenIn
<1>7. h[s] = g[c] + h[s \ {c}] /\ k[s] = e[c] + k[s \ {c}]
  BY <1>0, <1>5, <1>6 DEF Counts
<1>8. /\ s \ {c} \in SUBSET T /\ Cardinality(s \ {c}) = Cardinality(s) - 1
      /\ Cardinality(s \ {c}) \in Nat
  BY <1>0, SmallerSet
<1>9. Cardinality(s \ {c}) < n
  BY <1>3, <1>4, <1>8
<1>10. ~ Bad(Cardinality(s \ {c}))
  BY <1>3, <1>8, <1>9
<1>11. h[s \ {c}] = k[s \ {c}]
  BY <1>8, <1>10 DEF Bad
<1>. QED
  BY <1>4, <1>6, <1>7, <1>11

\* What Total computes.
LEMMA TotalCounts ==
    ASSUME NEW S, IsFiniteSet(S), NEW g \in [S -> Int]
    PROVE  \E h \in [SUBSET S -> Int] : Counts(h, g, S) /\ Accounts!Total(g) = h[S]
<1>1. PICK k \in [SUBSET S -> Int] : Counts(k, g, S)
  BY SumExists
<1>2. DOMAIN g = S
  OBVIOUS
<1>3. \E h : Counts(h, g, S) /\ Accounts!Total(g) = h[S]
  <2>1. Counts(k, g, DOMAIN g)
    BY <1>1, <1>2
  <2>2. \E h : Counts(h, g, DOMAIN g) /\ Accounts!Total(g) = h[DOMAIN g]
    BY <2>1, Zenon
       DEF Counts, Chosen, Accounts!Total, Accounts!SumFunction, Accounts!SumFunctionOnSet, Accounts!FoldFunctionOnSet, Accounts!MapThenFoldSet
  <2>. QED
    BY <1>2, <2>2
<1>4. PICK h : Counts(h, g, S) /\ Accounts!Total(g) = h[S]
  BY <1>3
<1>5. \A s \in SUBSET S : h[s] = k[s]
  BY <1>1, <1>4, SumAgree
<1>6. h[S] = k[S]
  BY <1>5
<1>. QED
  BY <1>1, <1>4, <1>6

Over(g, T) == [x \in T |-> g[x]]

LEMMA OverCounts ==
    ASSUME NEW S, IsFiniteSet(S), NEW g \in [S -> Int], NEW h \in [SUBSET S -> Int],
           Counts(h, g, S),
           NEW U \in SUBSET S
    PROVE  Accounts!Total(Over(g, U)) = h[U]
<1>1. IsFiniteSet(U)
  BY FS_Subset
<1>2. Over(g, U) \in [U -> Int] /\ \A y \in U : g[y] = Over(g, U)[y]
  BY DEF Over
<1>3. PICK k \in [SUBSET U -> Int] : Counts(k, Over(g, U), U) /\ Accounts!Total(Over(g, U)) = k[U]
  BY <1>1, <1>2, TotalCounts
<1>4. \A s \in SUBSET U : h[s] = k[s]
  BY <1>2, <1>3, SumAgree
<1>. QED
  BY <1>3, <1>4

LEMMA TotalRemove ==
    ASSUME NEW S, IsFiniteSet(S), NEW g \in [S -> Int]
    PROVE  /\ Accounts!Total(g) \in Int
           /\ S = {} => Accounts!Total(g) = 0
           /\ \A x \in S : Accounts!Total(g) - Accounts!Total(Over(g, S \ {x})) = g[x]
<1>1. PICK h \in [SUBSET S -> Int] : Counts(h, g, S) /\ Accounts!Total(g) = h[S]
  BY TotalCounts
<1>2. h[{}] = 0
  BY <1>1 DEF Counts
<1>4. ASSUME NEW x \in S PROVE h[S] - h[S \ {x}] = g[x]
  <2>1. OneLess(h, g, S)
    BY <1>1, SumAny
  <2>. QED
    BY <2>1 DEF OneLess
<1>3. \A x \in S : Accounts!Total(Over(g, S \ {x})) = h[S \ {x}]
  BY <1>1, OverCounts
<1>. QED
  BY <1>1, <1>2, <1>3, <1>4

\* The sum over a set is that over a part of it and over what is left.
LEMMA TotalSplit ==
    ASSUME NEW S, IsFiniteSet(S), NEW g \in [S -> Int], NEW T \in SUBSET S
    PROVE  Accounts!Total(g) = Accounts!Total(Over(g, T)) + Accounts!Total(Over(g, S \ T))
<1>1. PICK h \in [SUBSET S -> Int] : Counts(h, g, S) /\ Accounts!Total(g) = h[S]
  BY TotalCounts
<1>2. h[{}] = 0
  BY <1>1 DEF Counts
<1>3. \A U \in SUBSET S : Accounts!Total(Over(g, U)) = h[U]
  BY <1>1, OverCounts
<1>a. \A u \in SUBSET S : \A z \in u : h[u] - h[u \ {z}] = g[z]
  <2>1. OneLess(h, g, S)
    BY <1>1, SumAny
  <2>. QED
    BY <2>1 DEF OneLess
<1>. DEFINE rest == S \ T
            Bad(n) == \E s \in SUBSET T : Cardinality(s) = n /\ h[s \cup rest] # h[s] + h[rest]
            N == {n \in Nat : Bad(n)}
<1>4. /\ IsFiniteSet(T)
      /\ \A s \in SUBSET T : s \in SUBSET S /\ s \cup rest \in SUBSET S /\ Cardinality(s) \in Nat
  BY FS_Subset, FS_CardinalityType
<1>5. ASSUME N # {} PROVE FALSE
  <2>1. PICK n \in N : \A m \in N : n <= m
    <3>1. N \in SUBSET Nat
      OBVIOUS
    <3>. HIDE DEF N
    <3>. QED
      BY <1>5, <3>1, Least
  <2>2. n \in Nat /\ \A m \in Nat : m < n => ~Bad(m)
    <3>1. n \in Nat
      BY <2>1
    <3>2. ASSUME NEW m \in Nat, m < n, Bad(m) PROVE FALSE
      <4>1. m \in N
        BY <3>2
      <4>2. n <= m
        BY <2>1, <4>1
      <4>. HIDE DEF N, Bad
      <4>. QED
        BY <3>1, <3>2, <4>2
    <3>. HIDE DEF N, Bad
    <3>. QED
      BY <3>1, <3>2
  <2>a. Bad(n)
    BY <2>1
  <2>3. PICK s \in SUBSET T : Cardinality(s) = n /\ h[s \cup rest] # h[s] + h[rest]
    BY <2>a
  <2>. HIDE DEF Bad, N
  <2>4. s # {}
    <3>1. ASSUME s = {} PROVE FALSE
      <4>1. s \cup rest = rest /\ h[rest] \in Int /\ h[s] = 0
        BY <1>1, <1>2, <3>1
      <4>2. h[s] + h[rest] = h[rest]
        BY <4>1
      <4>3. h[s \cup rest] = h[s] + h[rest]
        BY <4>1, <4>2
      <4>. QED
        BY <2>3, <4>3
    <3>. QED
      BY <3>1
  <2>5. PICK c : c \in s
    BY <2>4
  <2>6. /\ s \ {c} \in SUBSET T /\ Cardinality(s \ {c}) = Cardinality(s) - 1
        /\ Cardinality(s \ {c}) \in Nat
    BY <1>4, <2>5, SmallerSet
  <2>7. Cardinality(s \ {c}) < n
    BY <2>2, <2>3, <2>6
  <2>8. ~ Bad(Cardinality(s \ {c}))
    BY <2>2, <2>6, <2>7
  <2>9. h[(s \ {c}) \cup rest] = h[s \ {c}] + h[rest]
    BY <2>6, <2>8 DEF Bad
  <2>10. (s \cup rest) \ {c} = (s \ {c}) \cup rest
    BY <2>5
  <2>11. h[s \cup rest] - h[(s \ {c}) \cup rest] = g[c]
    BY <1>4, <1>a, <2>5, <2>10
  <2>12. h[s] - h[s \ {c}] = g[c]
    BY <1>4, <1>a, <2>5
  <2>13. /\ g[c] \in Int /\ h[s \ {c}] \in Int /\ h[rest] \in Int /\ h[s] \in Int
         /\ h[s \cup rest] \in Int
    BY <1>4, <2>5, <2>6
  <2>. QED
    BY <2>3, <2>9, <2>11, <2>12, <2>13
<1>6. h[T \cup rest] = h[T] + h[rest]
  BY <1>4, <1>5
<1>7. T \cup rest = S /\ rest \in SUBSET S
  OBVIOUS
<1>. QED
  BY <1>1, <1>3, <1>6, <1>7

-----------------------------------------------------------------------------
(* The brackets of a schedule, and transfer duty.                         *)

LEMMA MaxIs ==
    ASSUME NEW S \in SUBSET Int, NEW x \in S, \A y \in S : y <= x
    PROVE  Accounts!Max(S) = x
<1>1. \A z \in S : (\A y \in S : z >= y) => z = x
  <2>. SUFFICES ASSUME NEW z \in S, \A y \in S : z >= y PROVE z = x
    OBVIOUS
  <2>1. z >= x /\ z <= x /\ z \in Int /\ x \in Int
    OBVIOUS
  <2>. QED
    BY <2>1
<1>2. x \in S /\ \A y \in S : x >= y
  OBVIOUS
<1>3. PICK z : z = Accounts!Max(S)
  OBVIOUS
<1>4. z \in S /\ \A y \in S : z >= y
  BY <1>2, <1>3 DEF Accounts!Max
<1>. QED
  BY <1>1, <1>3, <1>4

LEMMA MinIs ==
    ASSUME NEW S \in SUBSET Int, NEW x \in S, \A y \in S : x <= y
    PROVE  Accounts!Min(S) = x
<1>1. \A z \in S : (\A y \in S : z <= y) => z = x
  <2>. SUFFICES ASSUME NEW z \in S, \A y \in S : z <= y PROVE z = x
    OBVIOUS
  <2>1. z >= x /\ z <= x /\ z \in Int /\ x \in Int
    OBVIOUS
  <2>. QED
    BY <2>1
<1>2. x \in S /\ \A y \in S : x <= y
  OBVIOUS
<1>3. PICK z : z = Accounts!Min(S)
  OBVIOUS
<1>4. z \in S /\ \A y \in S : z <= y
  BY <1>2, <1>3 DEF Accounts!Min
<1>. QED
  BY <1>1, <1>3, <1>4

\* Which bracket matches: the last that starts below the value, or the first.
LEMMA MatchedIs ==
    ASSUME NEW b, NEW n \in Nat, n > 0, DOMAIN b = 1 .. n,
           \A i \in 1 .. n : b[i].from \in Int,
           NEW v \in Int
    PROVE  \E k \in 1 .. n : /\ Accounts!Matched(b, v) = b[k] /\ (k = 1 \/ v > b[k].from)
                             /\ \A j \in 1 .. n : k < j => v <= b[j].from
<1>. DEFINE below == {1} \cup {i \in 1 .. n : v > b[i].from}
            N == {m \in Nat : n - m \in below}
<1>1. N \in SUBSET Nat /\ n - 1 \in N
  OBVIOUS
<1>2. PICK m \in N : \A l \in N : m <= l
  <2>. HIDE DEF N
  <2>. QED
    BY <1>1, Least
<1>. DEFINE k == n - m
<1>3. k \in below /\ m \in Nat
  BY <1>2
<1>4. ASSUME NEW y \in below PROVE y <= k
  <2>1. n - y \in N
    BY <1>4
  <2>2. m <= n - y
    <3>. HIDE DEF N
    <3>. QED
      BY <1>2, <2>1
  <2>3. y \in Int
    BY <1>4
  <2>. QED
    BY <1>3, <2>2, <2>3
<1>5. below \in SUBSET Int /\ k \in 1 .. n
  BY <1>3
<1>6. Accounts!Max(below) = k
  <2>. HIDE DEF below, k
  <2>. QED
    BY <1>3, <1>4, <1>5, MaxIs
<1>7. Accounts!Matched(b, v) = b[k]
  BY <1>6 DEF Accounts!Matched
<1>8. k = 1 \/ v > b[k].from
  BY <1>3
<1>9. ASSUME NEW j \in 1 .. n, k < j PROVE v <= b[j].from
  <2>1. j \notin below
    BY <1>3, <1>4, <1>9
  <2>. QED
    BY <2>1
<1>. QED
  BY <1>5, <1>7, <1>8, <1>9

-----------------------------------------------------------------------------
LEMMA SARSIs ==
    /\ DOMAIN Accounts!SARS = 1 .. 6 /\ Len(Accounts!SARS) = 6
    /\ Accounts!SARS[1] = [from |-> 0,        base |-> 0,       rate |-> 0]
    /\ Accounts!SARS[2] = [from |-> 1100000,  base |-> 0,       rate |-> 3]
    /\ Accounts!SARS[3] = [from |-> 1512500,  base |-> 12375,   rate |-> 6]
    /\ Accounts!SARS[4] = [from |-> 2117500,  base |-> 48675,   rate |-> 8]
    /\ Accounts!SARS[5] = [from |-> 2722500,  base |-> 97075,   rate |-> 11]
    /\ Accounts!SARS[6] = [from |-> 12100000, base |-> 1128600, rate |-> 13]
BY SMT DEF Accounts!SARS

\* Duty in hundredths, bracket by bracket.
Duty(v) ==
    IF v > 12100000 THEN 112860000 + 13 * (v - 12100000)
    ELSE IF v > 2722500 THEN 9707500 + 11 * (v - 2722500)
    ELSE IF v > 2117500 THEN 4867500 + 8 * (v - 2117500)
    ELSE IF v > 1512500 THEN 1237500 + 6 * (v - 1512500)
    ELSE IF v > 1100000 THEN 3 * (v - 1100000)
    ELSE 0

LEMMA DutyIs ==
    ASSUME NEW v \in Nat
    PROVE  Accounts!calculateTransferDuty(v, FALSE) = Accounts!Round(Duty(v))
<1>. DEFINE b == Accounts!SARS
<1>0. DOMAIN b = 1 .. 6 /\ \A i \in 1 .. 6 : b[i].from \in Int
  BY SARSIs, SMT
<1>1. PICK k \in 1 .. 6 : /\ Accounts!Matched(b, v) = b[k] /\ (k = 1 \/ v > b[k].from)
                          /\ \A j \in 1 .. 6 : k < j => v <= b[j].from
  <2>1. PICK n \in Nat : n = 6
    OBVIOUS
  <2>2. n > 0 /\ DOMAIN b = 1 .. n /\ (\A i \in 1 .. n : b[i].from \in Int) /\ v \in Int
    BY <1>0, <2>1, SMT
  <2>. HIDE DEF b
  <2>3. \E k \in 1 .. n : /\ Accounts!Matched(b, v) = b[k] /\ (k = 1 \/ v > b[k].from)
                         /\ \A j \in 1 .. n : k < j => v <= b[j].from
    BY <2>2, MatchedIs, Zenon
  <2>. QED
    BY <2>1, <2>3, SMT
<1>2. 100 * Accounts!SARS[k].base + Accounts!SARS[k].rate * (v - Accounts!SARS[k].from) = Duty(v)
  BY <1>1, SARSIs, SMTT(60) DEF Duty
<1>. QED
  BY <1>1, <1>2 DEF Accounts!calculateTransferDuty

LEMMA WithinIs ==
    ASSUME NEW b, NEW i \in 1 .. Len(b), NEW v \in Int, b[i].from \in Int,
           i < Len(b) => b[i + 1].from \in Int /\ b[i].from <= b[i + 1].from, Len(b) \in Nat
    PROVE  Accounts!Within(b, i, v) = IF v <= b[i].from THEN 0
                                      ELSE IF i < Len(b) /\ v > b[i + 1].from THEN b[i + 1].from - b[i].from
                                      ELSE v - b[i].from
<1>. DEFINE top == IF i < Len(b) /\ v > b[i + 1].from THEN b[i + 1].from ELSE v
<1>1. Accounts!Min({v} \cup Accounts!Upper(b, i)) = top
  <2>1. CASE i = Len(b)
    <3>1. {v} \cup Accounts!Upper(b, i) = {v} /\ top = v
      BY <2>1 DEF Accounts!Upper
    <3>2. {v} \in SUBSET Int /\ v \in {v} /\ \A y \in {v} : v <= y
      OBVIOUS
    <3>3. Accounts!Min({v}) = v
      BY <3>2, MinIs
    <3>. QED
      BY <3>1, <3>3
  <2>2. CASE i # Len(b)
    <3>1. {v} \cup Accounts!Upper(b, i) \in SUBSET Int /\ top \in {v} \cup Accounts!Upper(b, i)
      BY <2>2 DEF Accounts!Upper
    <3>2. \A y \in {v} \cup Accounts!Upper(b, i) : top <= y
      BY <2>2 DEF Accounts!Upper
    <3>. HIDE DEF top
    <3>. QED
      BY <3>1, <3>2, MinIs
  <2>. QED
    BY <2>1, <2>2
<1>2. top \in Int
  OBVIOUS
<1>. DEFINE part == IF top - b[i].from < 0 THEN 0 ELSE top - b[i].from
<1>3. Accounts!Max({0, top - b[i].from}) = part
  <2>1. {0, top - b[i].from} \in SUBSET Int /\ part \in {0, top - b[i].from}
        /\ \A y \in {0, top - b[i].from} : y <= part
    BY <1>2
  <2>. HIDE DEF top, part
  <2>. QED
    BY <2>1, MaxIs
<1>4. Accounts!Within(b, i, v) = part
  BY <1>1, <1>3 DEF Accounts!Within
<1>. QED
  BY <1>4

\* h has the sums over the subsets of a set, which grow element by element.
Sums(h, g, S) ==
    /\ h \in [SUBSET S -> Int] /\ Accounts!Total(g) = h[S] /\ h[{}] = 0
    /\ \A U \in SUBSET S : Accounts!Total(Over(g, U)) = h[U]
    /\ \A u \in SUBSET S : \A z \in u : h[u] - h[u \ {z}] = g[z]

LEMMA TotalTable ==
    ASSUME NEW S, IsFiniteSet(S), NEW g \in [S -> Int]
    PROVE  \E h : Sums(h, g, S)
<1>1. PICK h \in [SUBSET S -> Int] : Counts(h, g, S) /\ Accounts!Total(g) = h[S]
  BY TotalCounts
<1>2. h[{}] = 0
  BY <1>1 DEF Counts
<1>3. \A U \in SUBSET S : Accounts!Total(Over(g, U)) = h[U]
  BY <1>1, OverCounts
<1>4. \A u \in SUBSET S : \A z \in u : h[u] - h[u \ {z}] = g[z]
  <2>1. OneLess(h, g, S)
    BY <1>1, SumAny
  <2>. QED
    BY <2>1 DEF OneLess
<1>. QED
  BY <1>1, <1>2, <1>3, <1>4 DEF Sums

LEMMA TotalOfSix ==
    ASSUME NEW g \in [1 .. 6 -> Int]
    PROVE  Accounts!Total(g) = g[1] + g[2] + g[3] + g[4] + g[5] + g[6]
<1>. DEFINE S == 1 .. 6
<1>1. IsFiniteSet(S) /\ g \in [S -> Int]
  <2>1. PICK i \in Int, j \in Int : i = 1 /\ j = 6
    OBVIOUS
  <2>2. g \in [S -> Int] /\ S = i .. j
    BY <2>1
  <2>3. IsFiniteSet(i .. j)
    BY FS_Interval
  <2>. QED
    BY <2>2, <2>3
<1>2. PICK h : Sums(h, g, S)
  <2>. HIDE DEF S
  <2>. QED
    BY <1>1, TotalTable
<1>3. ASSUME NEW a \in S
      PROVE  h[a .. 6] - h[(a + 1) .. 6] = g[a] /\ h[a .. 6] \in Int /\ h[(a + 1) .. 6] \in Int
  <2>1. /\ a .. 6 \in SUBSET S /\ a \in a .. 6 /\ (a .. 6) \ {a} = (a + 1) .. 6
        /\ (a + 1) .. 6 \in SUBSET S
    OBVIOUS
  <2>2. h[a .. 6] - h[(a .. 6) \ {a}] = g[a]
    BY <1>2, <2>1 DEF Sums
  <2>. QED
    BY <1>2, <2>1, <2>2 DEF Sums
<1>. DEFINE H(a) == h[a .. 6]
<1>4. 7 .. 6 = {}
  OBVIOUS
<1>5. H(7) = 0 /\ Accounts!Total(g) = H(1)
  BY <1>2, <1>4 DEF Sums
<1>6. \A a \in S : H(a) - H(a + 1) = g[a] /\ H(a) \in Int /\ H(a + 1) \in Int
  BY <1>3
<1>. HIDE DEF H
<1>7. /\ H(1) - H(2) = g[1] /\ H(2) - H(3) = g[2] /\ H(3) - H(4) = g[3]
      /\ H(4) - H(5) = g[4] /\ H(5) - H(6) = g[5] /\ H(6) - H(7) = g[6]
  BY <1>6
<1>8. H(1) \in Int /\ H(2) \in Int /\ H(3) \in Int /\ H(4) \in Int /\ H(5) \in Int /\ H(6) \in Int
  BY <1>6
<1>. QED
  BY <1>5, <1>7, <1>8

LEMMA TotalOfFour ==
    ASSUME NEW g \in [2 .. 5 -> Int]
    PROVE  Accounts!Total(g) = g[2] + g[3] + g[4] + g[5]
<1>. DEFINE S == 2 .. 5
<1>1. IsFiniteSet(S) /\ g \in [S -> Int]
  <2>1. PICK i \in Int, j \in Int : i = 2 /\ j = 5
    OBVIOUS
  <2>2. g \in [S -> Int] /\ S = i .. j
    BY <2>1
  <2>3. IsFiniteSet(i .. j)
    BY FS_Interval
  <2>. QED
    BY <2>2, <2>3
<1>2. PICK h : Sums(h, g, S)
  <2>. HIDE DEF S
  <2>. QED
    BY <1>1, TotalTable
<1>3. ASSUME NEW a \in S
      PROVE  h[a .. 5] - h[(a + 1) .. 5] = g[a] /\ h[a .. 5] \in Int /\ h[(a + 1) .. 5] \in Int
  <2>1. /\ a .. 5 \in SUBSET S /\ a \in a .. 5 /\ (a .. 5) \ {a} = (a + 1) .. 5
        /\ (a + 1) .. 5 \in SUBSET S
    OBVIOUS
  <2>2. h[a .. 5] - h[(a .. 5) \ {a}] = g[a]
    BY <1>2, <2>1 DEF Sums
  <2>. QED
    BY <1>2, <2>1, <2>2 DEF Sums
<1>. DEFINE H(a) == h[a .. 5]
<1>4. 6 .. 5 = {}
  OBVIOUS
<1>5. H(6) = 0 /\ Accounts!Total(g) = H(2)
  BY <1>2, <1>4 DEF Sums
<1>6. \A a \in S : H(a) - H(a + 1) = g[a] /\ H(a) \in Int /\ H(a + 1) \in Int
  BY <1>3
<1>. HIDE DEF H
<1>7. /\ H(2) - H(3) = g[2] /\ H(3) - H(4) = g[3] /\ H(4) - H(5) = g[4] /\ H(5) - H(6) = g[5]
  BY <1>6
<1>8. H(2) \in Int /\ H(3) \in Int /\ H(4) \in Int /\ H(5) \in Int
  BY <1>6
<1>. QED
  BY <1>5, <1>7, <1>8

\* The parts of a value in the brackets of a table that rises.
LEMMA WithinAll ==
    ASSUME NEW b, NEW n \in Nat, Len(b) = n, NEW v \in Int,
           \A i \in 1 .. n : b[i].from \in Int,
           \A i \in 1 .. (n - 1) : b[i].from <= b[i + 1].from, NEW i \in 1 .. n
    PROVE  /\ Accounts!Within(b, i, v) \in Int
           /\ v <= b[i].from => Accounts!Within(b, i, v) = 0
           /\ v > b[i].from /\ (i = n \/ v <= b[i + 1].from) => Accounts!Within(b, i, v) = v - b[i].from
           /\ i < n /\ v > b[i + 1].from => Accounts!Within(b, i, v) = b[i + 1].from - b[i].from
<1>1. b[i].from \in Int /\ (i < n => b[i + 1].from \in Int /\ b[i].from <= b[i + 1].from)
  OBVIOUS
<1>2. Accounts!Within(b, i, v) = IF v <= b[i].from THEN 0
                                 ELSE IF i < n /\ v > b[i + 1].from THEN b[i + 1].from - b[i].from
                                 ELSE v - b[i].from
  BY <1>1, WithinIs
<1>. QED
  BY <1>1, <1>2

\* Duty accrues bracket by bracket.
LEMMA DutyAccrues == ASSUME NEW v \in Nat PROVE Accounts!AccruedDuty(v) = Accounts!Round(Duty(v))
<1>. DEFINE b == Accounts!SARS
            w(i) == Accounts!Within(b, i, v)
<1>1. /\ Len(b) = 6 /\ DOMAIN b = 1 .. 6
      /\ (\A i \in 1 .. 6 : b[i].from \in Int /\ b[i].rate \in Int)
      /\ \A i \in 1 .. 5 : b[i].from <= b[i + 1].from
  BY SARSIs, SMT
<1>2. ASSUME NEW i \in 1 .. 6
      PROVE  /\ w(i) \in Int
             /\ v <= b[i].from => w(i) = 0
             /\ v > b[i].from /\ (i = 6 \/ v <= b[i + 1].from) => w(i) = v - b[i].from
             /\ i < 6 /\ v > b[i + 1].from => w(i) = b[i + 1].from - b[i].from
  <2>1. PICK n \in Nat : n = 6
    OBVIOUS
  <2>2. /\ Len(b) = n /\ v \in Int /\ i \in 1 .. n /\ (\A j \in 1 .. n : b[j].from \in Int)
        /\ \A j \in 1 .. (n - 1) : b[j].from <= b[j + 1].from
    BY <1>1, <2>1, SMT
  <2>. HIDE DEF b
  <2>3. /\ Accounts!Within(b, i, v) \in Int
        /\ v <= b[i].from => Accounts!Within(b, i, v) = 0
        /\ v > b[i].from /\ (i = n \/ v <= b[i + 1].from) => Accounts!Within(b, i, v) = v - b[i].from
        /\ i < n /\ v > b[i + 1].from => Accounts!Within(b, i, v) = b[i + 1].from - b[i].from
    BY <2>2, WithinAll
  <2>. QED
    BY <2>1, <2>3, SMT
<1>3. Accounts!Total([i \in 1 .. 6 |-> b[i].rate * w(i)]) =
        b[1].rate * w(1) + b[2].rate * w(2) + b[3].rate * w(3) + b[4].rate * w(4) + b[5].rate * w(5) + b[6].rate * w(6)
  <2>. DEFINE g == [i \in 1 .. 6 |-> b[i].rate * w(i)]
  <2>. HIDE DEF w, b
  <2>1. g \in [1 .. 6 -> Int]
    BY <1>1, <1>2, SMT
  <2>2. g[1] = b[1].rate * w(1) /\ g[2] = b[2].rate * w(2) /\ g[3] = b[3].rate * w(3)
        /\ g[4] = b[4].rate * w(4) /\ g[5] = b[5].rate * w(5) /\ g[6] = b[6].rate * w(6)
    OBVIOUS
  <2>3. Accounts!Total(g) = g[1] + g[2] + g[3] + g[4] + g[5] + g[6]
    <3>. HIDE DEF g
    <3>. QED
      BY <2>1, TotalOfSix
  <2>. QED
    BY <2>2, <2>3
<1>4. /\ w(1) \in Int
      /\ w(2) = IF v <= 1100000 THEN 0 ELSE IF v <= 1512500 THEN v - 1100000 ELSE 412500
      /\ w(3) = IF v <= 1512500 THEN 0 ELSE IF v <= 2117500 THEN v - 1512500 ELSE 605000
      /\ w(4) = IF v <= 2117500 THEN 0 ELSE IF v <= 2722500 THEN v - 2117500 ELSE 605000
      /\ w(5) = IF v <= 2722500 THEN 0 ELSE IF v <= 12100000 THEN v - 2722500 ELSE 9377500
      /\ w(6) = IF v <= 12100000 THEN 0 ELSE v - 12100000
  <2>. HIDE DEF w
  <2>. QED
    BY <1>2, SARSIs, SMTT(60)
<1>5. 0 * w(1) + 3 * w(2) + 6 * w(3) + 8 * w(4) + 11 * w(5) + 13 * w(6) = Duty(v)
  <2>. HIDE DEF w
  <2>. QED
    BY <1>4, SMTT(60) DEF Duty
<1>6. /\ b[1].rate = 0 /\ b[2].rate = 3 /\ b[3].rate = 6 /\ b[4].rate = 8 /\ b[5].rate = 11
      /\ b[6].rate = 13
  BY SARSIs, SMT
<1>7. Accounts!AccruedDuty(v) = Accounts!Round(Accounts!Total([i \in 1 .. 6 |-> b[i].rate * w(i)]))
  BY <1>1 DEF Accounts!AccruedDuty
<1>. HIDE DEF b, w
<1>. QED
  BY <1>3, <1>5, <1>6, <1>7, SMT

-----------------------------------------------------------------------------
(* The fee of a guideline.                                                *)

\* The steps started in the brackets of a guideline, the first of which has none.
Steps2(v) == IF v <= 100000 THEN 0 ELSE IF v <= 500000 THEN Accounts!Ceil(v - 100000, 50000) ELSE 8
Steps3(v) == IF v <= 500000 THEN 0 ELSE IF v <= 1000000 THEN Accounts!Ceil(v - 500000, 100000) ELSE 5
Steps4(v) == IF v <= 1000000 THEN 0 ELSE IF v <= 5000000 THEN Accounts!Ceil(v - 1000000, 200000) ELSE 20
Steps5(v) == IF v <= 5000000 THEN 0 ELSE Accounts!Ceil(v - 5000000, 1000000)

\* A guideline: a first fee and the fees of a step in the later brackets.
Guideline(s, b, f, g, h, k) ==
    /\ DOMAIN s = 1 .. 5 /\ Len(s) = 5
    /\ s[1] = [from |-> 0,       base |-> b, step |-> 0, fee |-> 0]
    /\ s[2] = [from |-> 100000,  base |-> b, step |-> 50000, fee |-> f]
    /\ s[3] = [from |-> 500000,  base |-> b + f * 8, step |-> 100000, fee |-> g]
    /\ s[4] = [from |-> 1000000, base |-> b + f * 8 + g * 5, step |-> 200000, fee |-> h]
    /\ s[5] = [from |-> 5000000, base |-> b + f * 8 + g * 5 + h * 20, step |-> 1000000, fee |-> k]

Charge(v, b, f, g, h, k) == b + f * Steps2(v) + g * Steps3(v) + h * Steps4(v) + k * Steps5(v)

LEMMA Guidelines ==
    /\ Guideline(Accounts!LSSA2026, 4700, 800, 1200, 1600, 4000)
    /\ Guideline(Accounts!LSSA2025, 4400, 750, 1100, 1500, 3750)
<1>1. Guideline(Accounts!LSSA2026, 4700, 800, 1200, 1600, 4000)
  BY SMT DEF Guideline, Accounts!LSSA2026
<1>2. Guideline(Accounts!LSSA2025, 4400, 750, 1100, 1500, 3750)
  BY SMT DEF Guideline, Accounts!LSSA2025
<1>. QED
  BY <1>1, <1>2

LEMMA Stepped ==
    ASSUME NEW v \in Nat
    PROVE  Steps2(v) \in Nat /\ Steps3(v) \in Nat /\ Steps4(v) \in Nat /\ Steps5(v) \in Nat
BY SMT DEF Steps2, Steps3, Steps4, Steps5, Accounts!Ceil

LEMMA StepsRise ==
    ASSUME NEW u \in Nat, NEW v \in Nat, u <= v
    PROVE  /\ Steps2(u) <= Steps2(v) /\ Steps3(u) <= Steps3(v) /\ Steps4(u) <= Steps4(v)
           /\ Steps5(u) <= Steps5(v)
<1>1. Steps2(u) <= Steps2(v)
  BY SMT DEF Steps2, Accounts!Ceil
<1>2. Steps3(u) <= Steps3(v)
  BY SMT DEF Steps3, Accounts!Ceil
<1>3. Steps4(u) <= Steps4(v)
  BY SMT DEF Steps4, Accounts!Ceil
<1>4. Steps5(u) <= Steps5(v)
  BY SMT DEF Steps5, Accounts!Ceil
<1>. QED
  BY <1>1, <1>2, <1>3, <1>4

LEMMA Times ==
    ASSUME NEW m \in Nat, NEW x \in Nat, NEW y \in Nat, x <= y
    PROVE  m * x <= m * y /\ m * x \in Nat
BY SMT

LEMMA ChargeRises ==
    ASSUME NEW u \in Nat, NEW v \in Nat, u <= v,
           NEW b \in Nat, NEW f \in Nat, NEW g \in Nat, NEW h \in Nat, NEW k \in Nat
    PROVE  Charge(u, b, f, g, h, k) <= Charge(v, b, f, g, h, k) /\ Charge(u, b, f, g, h, k) \in Nat
<1>0. /\ Steps2(u) <= Steps2(v) /\ Steps3(u) <= Steps3(v) /\ Steps4(u) <= Steps4(v)
      /\ Steps5(u) <= Steps5(v)
      /\ Steps2(u) \in Nat /\ Steps3(u) \in Nat /\ Steps4(u) \in Nat /\ Steps5(u) \in Nat
      /\ Steps2(v) \in Nat /\ Steps3(v) \in Nat /\ Steps4(v) \in Nat /\ Steps5(v) \in Nat
  BY StepsRise, Stepped
<1>1. f * Steps2(u) <= f * Steps2(v) /\ f * Steps2(u) \in Nat /\ f * Steps2(v) \in Nat
  BY <1>0, Times
<1>2. g * Steps3(u) <= g * Steps3(v) /\ g * Steps3(u) \in Nat /\ g * Steps3(v) \in Nat
  BY <1>0, Times
<1>3. h * Steps4(u) <= h * Steps4(v) /\ h * Steps4(u) \in Nat /\ h * Steps4(v) \in Nat
  BY <1>0, Times
<1>4. k * Steps5(u) <= k * Steps5(v) /\ k * Steps5(u) \in Nat /\ k * Steps5(v) \in Nat
  BY <1>0, Times
<1>. QED
  BY <1>1, <1>2, <1>3, <1>4, SMT DEF Charge

\* What the table of a guideline charges.
LEMMA FeeIs ==
    ASSUME NEW v \in Nat, NEW m \in Nat, NEW s,
           NEW b \in Nat, NEW f \in Nat, NEW g \in Nat, NEW h \in Nat, NEW k \in Nat,
           Guideline(s, b, f, g, h, k)
    PROVE  Accounts!calculateConveyancingFee(v, s, m) = Accounts!Round(m * Charge(v, b, f, g, h, k))
<1>1. PICK i \in 1 .. 5 : /\ Accounts!Matched(s, v) = s[i] /\ (i = 1 \/ v > s[i].from)
                          /\ \A j \in 1 .. 5 : i < j => v <= s[j].from
  <2>1. PICK n \in Nat : n = 5
    OBVIOUS
  <2>2. n > 0 /\ DOMAIN s = 1 .. n /\ (\A j \in 1 .. n : s[j].from \in Int) /\ v \in Int
    BY <2>1, SMT DEF Guideline
  <2>3. \E i \in 1 .. n : /\ Accounts!Matched(s, v) = s[i] /\ (i = 1 \/ v > s[i].from)
                          /\ \A j \in 1 .. n : i < j => v <= s[j].from
    BY <2>2, MatchedIs, Zenon
  <2>. QED
    BY <2>1, <2>3, SMT
<1>. DEFINE charged == s[i].base + IF s[i].step = 0 THEN 0 ELSE s[i].fee * Accounts!Ceil(v - s[i].from, s[i].step)
<1>2. charged = Charge(v, b, f, g, h, k)
  <2>0. \A c \in Nat : c * 0 = 0
    BY SMT
  <2>1. CASE i = 1
    <3>1. charged = b /\ v <= 100000
      BY <1>1, <2>1, SMT DEF Guideline
    <3>2. Steps2(v) = 0 /\ Steps3(v) = 0 /\ Steps4(v) = 0 /\ Steps5(v) = 0
      BY <3>1, SMT DEF Steps2, Steps3, Steps4, Steps5
    <3>. QED
      BY <2>0, <3>1, <3>2, SMT DEF Charge
  <2>2. CASE i = 2
    <3>1. charged = b + f * Accounts!Ceil(v - 100000, 50000) /\ 100000 < v /\ v <= 500000
      BY <1>1, <2>2, SMT DEF Guideline
    <3>2. /\ Steps2(v) = Accounts!Ceil(v - 100000, 50000) /\ Steps3(v) = 0 /\ Steps4(v) = 0
          /\ Steps5(v) = 0
      BY <3>1, SMT DEF Steps2, Steps3, Steps4, Steps5
    <3>3. f * Steps2(v) \in Nat
      BY Stepped, Times
    <3>. QED
      BY <2>0, <3>1, <3>2, <3>3, SMT DEF Charge
  <2>3. CASE i = 3
    <3>1. charged = b + f * 8 + g * Accounts!Ceil(v - 500000, 100000) /\ 500000 < v /\ v <= 1000000
      BY <1>1, <2>3, SMT DEF Guideline
    <3>2. /\ Steps2(v) = 8 /\ Steps3(v) = Accounts!Ceil(v - 500000, 100000) /\ Steps4(v) = 0
          /\ Steps5(v) = 0
      BY <3>1, SMT DEF Steps2, Steps3, Steps4, Steps5
    <3>3. g * Steps3(v) \in Nat
      BY Stepped, Times
    <3>. QED
      BY <2>0, <3>1, <3>2, <3>3, SMT DEF Charge
  <2>4. CASE i = 4
    <3>1. /\ charged = b + f * 8 + g * 5 + h * Accounts!Ceil(v - 1000000, 200000) /\ 1000000 < v
          /\ v <= 5000000
      BY <1>1, <2>4, SMT DEF Guideline
    <3>2. /\ Steps2(v) = 8 /\ Steps3(v) = 5 /\ Steps4(v) = Accounts!Ceil(v - 1000000, 200000)
          /\ Steps5(v) = 0
      BY <3>1, SMT DEF Steps2, Steps3, Steps4, Steps5
    <3>3. h * Steps4(v) \in Nat
      BY Stepped, Times
    <3>. QED
      BY <2>0, <3>1, <3>2, <3>3, SMT DEF Charge
  <2>5. CASE i = 5
    <3>1. /\ charged = b + f * 8 + g * 5 + h * 20 + k * Accounts!Ceil(v - 5000000, 1000000)
          /\ 5000000 < v
      BY <1>1, <2>5, SMT DEF Guideline
    <3>2. /\ Steps2(v) = 8 /\ Steps3(v) = 5 /\ Steps4(v) = 20
          /\ Steps5(v) = Accounts!Ceil(v - 5000000, 1000000)
      BY <3>1, SMT DEF Steps2, Steps3, Steps4, Steps5
    <3>. QED
      BY <3>1, <3>2, SMT DEF Charge
  <2>. QED
    BY <2>1, <2>2, <2>3, <2>4, <2>5
<1>. QED
  BY <1>1, <1>2 DEF Accounts!calculateConveyancingFee

\* The fee accrues step by step.
LEMMA FeeAccrues ==
    ASSUME NEW v \in Nat, NEW m \in Nat, NEW s,
           NEW b \in Nat, NEW f \in Nat, NEW g \in Nat, NEW h \in Nat, NEW k \in Nat,
           Guideline(s, b, f, g, h, k)
    PROVE  Accounts!AccruedFee(v, s, m) = Accounts!Round(m * Charge(v, b, f, g, h, k))
<1>. DEFINE w(i) == Accounts!Within(s, i, v)
            c(i) == s[i].fee * Accounts!Ceil(w(i), s[i].step)
            charged == [i \in 2 .. 5 |-> c(i)]
<1>1. ASSUME NEW i \in 2 .. 5
      PROVE  /\ w(i) \in Int
             /\ v <= s[i].from => w(i) = 0
             /\ v > s[i].from /\ (i = 5 \/ v <= s[i + 1].from) => w(i) = v - s[i].from
             /\ i < 5 /\ v > s[i + 1].from => w(i) = s[i + 1].from - s[i].from
  <2>1. PICK n \in Nat : n = 5
    OBVIOUS
  <2>2. /\ Len(s) = n /\ v \in Int /\ i \in 1 .. n /\ (\A j \in 1 .. n : s[j].from \in Int)
        /\ \A j \in 1 .. (n - 1) : s[j].from <= s[j + 1].from
    BY <2>1, SMT DEF Guideline
  <2>3. /\ Accounts!Within(s, i, v) \in Int
        /\ v <= s[i].from => Accounts!Within(s, i, v) = 0
        /\ v > s[i].from /\ (i = n \/ v <= s[i + 1].from) => Accounts!Within(s, i, v) = v - s[i].from
        /\ i < n /\ v > s[i + 1].from => Accounts!Within(s, i, v) = s[i + 1].from - s[i].from
    BY <2>2, WithinAll
  <2>. QED
    BY <2>1, <2>3, SMT
<1>2. /\ w(2) = IF v <= 100000 THEN 0 ELSE IF v <= 500000 THEN v - 100000 ELSE 400000
      /\ w(3) = IF v <= 500000 THEN 0 ELSE IF v <= 1000000 THEN v - 500000 ELSE 500000
      /\ w(4) = IF v <= 1000000 THEN 0 ELSE IF v <= 5000000 THEN v - 1000000 ELSE 4000000
      /\ w(5) = IF v <= 5000000 THEN 0 ELSE v - 5000000
  <2>. HIDE DEF w
  <2>. QED
    BY <1>1, SMTT(60) DEF Guideline
<1>3. /\ Accounts!Ceil(w(2), 50000) = Steps2(v) /\ Accounts!Ceil(w(3), 100000) = Steps3(v)
      /\ Accounts!Ceil(w(4), 200000) = Steps4(v) /\ Accounts!Ceil(w(5), 1000000) = Steps5(v)
  <2>. HIDE DEF w
  <2>1. Accounts!Ceil(w(2), 50000) = Steps2(v)
    BY <1>2, SMT DEF Steps2, Accounts!Ceil
  <2>2. Accounts!Ceil(w(3), 100000) = Steps3(v)
    BY <1>2, SMT DEF Steps3, Accounts!Ceil
  <2>3. Accounts!Ceil(w(4), 200000) = Steps4(v)
    BY <1>2, SMT DEF Steps4, Accounts!Ceil
  <2>4. Accounts!Ceil(w(5), 1000000) = Steps5(v)
    BY <1>2, SMT DEF Steps5, Accounts!Ceil
  <2>. QED
    BY <2>1, <2>2, <2>3, <2>4
<1>4. /\ c(2) = f * Steps2(v) /\ c(3) = g * Steps3(v) /\ c(4) = h * Steps4(v)
      /\ c(5) = k * Steps5(v)
      /\ c(2) \in Nat /\ c(3) \in Nat /\ c(4) \in Nat /\ c(5) \in Nat
  <2>. HIDE DEF w
  <2>1. c(2) = f * Steps2(v) /\ c(3) = g * Steps3(v) /\ c(4) = h * Steps4(v) /\ c(5) = k * Steps5(v)
    BY <1>3, SMT DEF Guideline
  <2>2. f * Steps2(v) \in Nat
    BY Stepped, Times
  <2>3. g * Steps3(v) \in Nat
    BY Stepped, Times
  <2>4. h * Steps4(v) \in Nat
    BY Stepped, Times
  <2>5. k * Steps5(v) \in Nat
    BY Stepped, Times
  <2>. QED
    BY <2>1, <2>2, <2>3, <2>4, <2>5
<1>5. Accounts!Total(charged) = c(2) + c(3) + c(4) + c(5)
  <2>. HIDE DEF c
  <2>1. /\ charged \in [2 .. 5 -> Int] /\ charged[2] = c(2) /\ charged[3] = c(3)
        /\ charged[4] = c(4) /\ charged[5] = c(5)
    BY <1>4, SMT
  <2>. HIDE DEF charged
  <2>. QED
    BY <2>1, TotalOfFour
<1>6. DOMAIN s \ {1} = 2 .. 5 /\ s[1].base = b
  BY SMT DEF Guideline
<1>7. Accounts!AccruedFee(v, s, m) = Accounts!Round(m * (s[1].base + Accounts!Total(charged)))
  BY <1>6 DEF Accounts!AccruedFee
<1>8. b + Accounts!Total(charged) = Charge(v, b, f, g, h, k)
  <2>. HIDE DEF c, charged
  <2>. QED
    BY <1>4, <1>5, SMT DEF Charge
<1>. QED
  BY <1>6, <1>7, <1>8

-----------------------------------------------------------------------------
\* The fee of a deeds office rises with the brackets of its table.
LEMMA DeedsRise ==
    ASSUME NEW b, NEW n \in Nat, n > 0, DOMAIN b = 1 .. n, NEW u \in Nat, NEW v \in Nat,
           u <= v,
           \A i \in 1 .. n : b[i].from \in Int /\ b[i].fee \in Nat,
           \A i, j \in 1 .. n : i <= j => b[i].fee <= b[j].fee
    PROVE  /\ Accounts!Matched(b, u).fee <= Accounts!Matched(b, v).fee
           /\ Accounts!Matched(b, u).fee \in Nat /\ Accounts!Matched(b, v).fee \in Nat
<1>1. u \in Int /\ v \in Int /\ \A i \in 1 .. n : b[i].from \in Int
  OBVIOUS
<1>2. PICK i \in 1 .. n : /\ Accounts!Matched(b, u) = b[i] /\ (i = 1 \/ u > b[i].from)
                          /\ \A l \in 1 .. n : i < l => u <= b[l].from
  BY <1>1, MatchedIs, Zenon
<1>3. PICK j \in 1 .. n : /\ Accounts!Matched(b, v) = b[j] /\ (j = 1 \/ v > b[j].from)
                          /\ \A l \in 1 .. n : j < l => v <= b[l].from
  BY <1>1, MatchedIs, Zenon
<1>4. i <= j
  <2>. SUFFICES ASSUME j < i PROVE FALSE
    OBVIOUS
  <2>1. v <= b[i].from /\ u > b[i].from
    BY <1>2, <1>3
  <2>. QED
    BY <2>1
<1>. QED
  BY <1>2, <1>3, <1>4

LEMMA DeedsTables ==
    /\ DOMAIN Accounts!Item1b = 1 .. 15
    /\ (\A i \in 1 .. 15 : Accounts!Item1b[i].from \in Int /\ Accounts!Item1b[i].fee \in Nat)
    /\ \A i, j \in 1 .. 15 : i <= j => Accounts!Item1b[i].fee <= Accounts!Item1b[j].fee
    /\ DOMAIN Accounts!Item1c = 1 .. 14
    /\ (\A i \in 1 .. 14 : Accounts!Item1c[i].from \in Int /\ Accounts!Item1c[i].fee \in Nat)
    /\ \A i, j \in 1 .. 14 : i <= j => Accounts!Item1c[i].fee <= Accounts!Item1c[j].fee
<1>1. /\ DOMAIN Accounts!Item1b = 1 .. 15
      /\ (\A i \in 1 .. 15 : Accounts!Item1b[i].from \in Int /\ Accounts!Item1b[i].fee \in Nat)
  BY SMTT(60) DEF Accounts!Item1b
<1>2. \A i, j \in 1 .. 15 : i <= j => Accounts!Item1b[i].fee <= Accounts!Item1b[j].fee
  BY SMTT(60) DEF Accounts!Item1b
<1>3. /\ DOMAIN Accounts!Item1c = 1 .. 14
      /\ (\A i \in 1 .. 14 : Accounts!Item1c[i].from \in Int /\ Accounts!Item1c[i].fee \in Nat)
  BY SMTT(60) DEF Accounts!Item1c
<1>4. \A i, j \in 1 .. 14 : i <= j => Accounts!Item1c[i].fee <= Accounts!Item1c[j].fee
  BY SMTT(60) DEF Accounts!Item1c
<1>. QED
  BY <1>1, <1>2, <1>3, <1>4

-----------------------------------------------------------------------------
(* No schedule falls.                                                     *)

LEMMA Rounds ==
    ASSUME NEW x \in Nat, NEW y \in Nat, x <= y
    PROVE  /\ Accounts!Round(x) <= Accounts!Round(y) /\ Accounts!Round(x) \in Nat
           /\ Accounts!Round(y) \in Nat
BY SMT DEF Accounts!Round

LEMMA VatRises ==
    ASSUME NEW x \in Nat, NEW y \in Nat, x <= y, NEW r \in BOOLEAN
    PROVE  /\ Accounts!Vat(x, r) <= Accounts!Vat(y, r) /\ Accounts!Vat(x, r) \in Nat
           /\ Accounts!Vat(y, r) \in Nat
<1>1. 15 * x \in Nat /\ 15 * y \in Nat /\ 15 * x <= 15 * y
  BY SMT
<1>2. /\ Accounts!Round(15 * x) <= Accounts!Round(15 * y) /\ Accounts!Round(15 * x) \in Nat
      /\ Accounts!Round(15 * y) \in Nat
  BY <1>1, Rounds
<1>. QED
  BY <1>2 DEF Accounts!Vat

\* The tariff of a firm is a guideline.
LEMMA FirmTariff ==
    ASSUME AccountsAssumption, NEW x \in Accounts!Firm
    PROVE  /\ x.multiplier \in Nat /\ x.registered \in BOOLEAN
           /\ x.enabled \subseteq Accounts!Disbursement
           /\ \E b, f, g, h, k \in Nat : Guideline(x.tariff, b, f, g, h, k)
<1>1. x.multiplier \in Nat /\ x.registered \in BOOLEAN /\ x.enabled \subseteq Accounts!Disbursement
  BY DEF Accounts!Firm, AccountsAssumption
<1>2. x.tariff = Accounts!LSSA2026 \/ x.tariff = Accounts!LSSA2025
  BY DEF Accounts!Firm
<1>. DEFINE Charged(s) == \E b, f, g, h, k \in Nat : Guideline(s, b, f, g, h, k)
<1>3. Charged(Accounts!LSSA2026)
  <2>. HIDE DEF Charged
  <2>1. Guideline(Accounts!LSSA2026, 4700, 800, 1200, 1600, 4000)
    BY Guidelines
  <2>2. \A s : Guideline(s, 4700, 800, 1200, 1600, 4000) => Charged(s)
    BY SMT DEF Charged
  <2>. QED
    BY <2>1, <2>2, SMT
<1>4. Charged(Accounts!LSSA2025)
  <2>. HIDE DEF Charged
  <2>1. Guideline(Accounts!LSSA2025, 4400, 750, 1100, 1500, 3750)
    BY Guidelines
  <2>2. \A s : Guideline(s, 4400, 750, 1100, 1500, 3750) => Charged(s)
    BY SMT DEF Charged
  <2>. QED
    BY <2>1, <2>2, SMT
<1>5. Charged(x.tariff)
  <2>. HIDE DEF Charged
  <2>. QED
    BY <1>2, <1>3, <1>4
<1>. QED
  BY <1>1, <1>5

LEMMA FirmFee ==
    ASSUME AccountsAssumption, NEW x \in Accounts!Firm, NEW u \in Nat, NEW v \in Nat, u <= v
    PROVE  LET fee(w) == Accounts!calculateConveyancingFee(w, x.tariff, x.multiplier) IN
           /\ fee(u) <= fee(v) /\ fee(u) \in Nat /\ fee(v) \in Nat
           /\ fee(v) = Accounts!AccruedFee(v, x.tariff, x.multiplier)
<1>. DEFINE m == x.multiplier
            s == x.tariff
<1>1. m \in Nat
  BY FirmTariff
<1>2. PICK b \in Nat, f \in Nat, g \in Nat, h \in Nat, k \in Nat : Guideline(s, b, f, g, h, k)
  BY FirmTariff
<1>. HIDE DEF m, s
<1>. DEFINE c(w) == Charge(w, b, f, g, h, k)
<1>3. /\ Accounts!calculateConveyancingFee(v, s, m) = Accounts!Round(m * c(v))
      /\ Accounts!calculateConveyancingFee(u, s, m) = Accounts!Round(m * c(u))
      /\ Accounts!AccruedFee(v, s, m) = Accounts!Round(m * c(v))
  BY <1>1, <1>2, FeeIs, FeeAccrues
<1>4. c(u) <= c(v) /\ c(u) \in Nat /\ c(v) \in Nat
  <2>1. v <= v
    OBVIOUS
  <2>. QED
    BY <2>1, ChargeRises
<1>. HIDE DEF c
<1>5. m * c(u) <= m * c(v) /\ m * c(u) \in Nat /\ m * c(v) \in Nat
  BY <1>1, <1>4, Times
<1>6. /\ Accounts!Round(m * c(u)) <= Accounts!Round(m * c(v)) /\ Accounts!Round(m * c(u)) \in Nat
      /\ Accounts!Round(m * c(v)) \in Nat
  BY <1>5, Rounds
<1>. QED
  BY <1>3, <1>6 DEF m, s

LEMMA DutyRises ==
    ASSUME NEW u \in Nat, NEW v \in Nat, u <= v, NEW sale \in BOOLEAN
    PROVE  /\ Accounts!calculateTransferDuty(u, sale) <= Accounts!calculateTransferDuty(v, sale)
           /\ Accounts!calculateTransferDuty(u, sale) \in Nat
           /\ Accounts!calculateTransferDuty(v, sale) \in Nat
           /\ Accounts!calculateTransferDuty(v, sale) = IF sale THEN 0 ELSE Accounts!AccruedDuty(v)
<1>1. Duty(u) <= Duty(v) /\ Duty(u) \in Nat /\ Duty(v) \in Nat
  BY SMTT(60) DEF Duty
<1>2. /\ Accounts!Round(Duty(u)) <= Accounts!Round(Duty(v)) /\ Accounts!Round(Duty(u)) \in Nat
      /\ Accounts!Round(Duty(v)) \in Nat
  BY <1>1, Rounds
<1>3. /\ Accounts!calculateTransferDuty(u, FALSE) = Accounts!Round(Duty(u))
      /\ Accounts!calculateTransferDuty(v, FALSE) = Accounts!Round(Duty(v))
  BY DutyIs
<1>4. Accounts!AccruedDuty(v) = Accounts!Round(Duty(v))
  BY DutyAccrues
<1>5. CASE sale
  BY <1>5 DEF Accounts!calculateTransferDuty
<1>6. CASE ~sale
  <2>1. sale = FALSE
    BY <1>6
  <2>. QED
    BY <2>1, <1>2, <1>3, <1>4
<1>. QED
  BY <1>5, <1>6

LEMMA OfficeFee ==
    ASSUME NEW u \in Nat, NEW v \in Nat, u <= v, NEW n \in Nat
    PROVE  /\ Accounts!calculateDeedsOfficeFee(u, Accounts!Item1b, n) <= Accounts!calculateDeedsOfficeFee(v, Accounts!Item1b, n)
           /\ Accounts!calculateDeedsOfficeFee(u, Accounts!Item1c, n) <= Accounts!calculateDeedsOfficeFee(v, Accounts!Item1c, n)
           /\ Accounts!calculateDeedsOfficeFee(u, Accounts!Item1b, n) \in Nat
           /\ Accounts!calculateDeedsOfficeFee(v, Accounts!Item1b, n) \in Nat
           /\ Accounts!calculateDeedsOfficeFee(u, Accounts!Item1c, n) \in Nat
           /\ Accounts!calculateDeedsOfficeFee(v, Accounts!Item1c, n) \in Nat
<1>1. ASSUME NEW b, NEW k \in Nat, k > 0, DOMAIN b = 1 .. k,
             \A i \in 1 .. k : b[i].from \in Int /\ b[i].fee \in Nat,
             \A i, j \in 1 .. k : i <= j => b[i].fee <= b[j].fee
      PROVE  /\ Accounts!calculateDeedsOfficeFee(u, b, n) <= Accounts!calculateDeedsOfficeFee(v, b, n)
             /\ Accounts!calculateDeedsOfficeFee(u, b, n) \in Nat
             /\ Accounts!calculateDeedsOfficeFee(v, b, n) \in Nat
  <2>1. /\ Accounts!Matched(b, u).fee <= Accounts!Matched(b, v).fee
        /\ Accounts!Matched(b, u).fee \in Nat /\ Accounts!Matched(b, v).fee \in Nat
    BY <1>1, DeedsRise
  <2>2. Accounts!Max({1, n}) \in Nat
    <3>. DEFINE x == IF n > 1 THEN n ELSE 1
    <3>1. {1, n} \in SUBSET Int /\ x \in {1, n} /\ \A y \in {1, n} : y <= x
      OBVIOUS
    <3>2. Accounts!Max({1, n}) = x
      BY <3>1, MaxIs
    <3>. QED
      BY <3>2
  <2>. QED
    BY <2>1, <2>2, SMT DEF Accounts!calculateDeedsOfficeFee
<1>2. PICK k \in Nat, l \in Nat : k = 15 /\ l = 14
  OBVIOUS
<1>3. /\ k > 0 /\ DOMAIN Accounts!Item1b = 1 .. k
      /\ (\A i \in 1 .. k : Accounts!Item1b[i].from \in Int /\ Accounts!Item1b[i].fee \in Nat)
      /\ \A i, j \in 1 .. k : i <= j => Accounts!Item1b[i].fee <= Accounts!Item1b[j].fee
  BY <1>2, DeedsTables, SMT
<1>4. /\ l > 0 /\ DOMAIN Accounts!Item1c = 1 .. l
      /\ (\A i \in 1 .. l : Accounts!Item1c[i].from \in Int /\ Accounts!Item1c[i].fee \in Nat)
      /\ \A i, j \in 1 .. l : i <= j => Accounts!Item1c[i].fee <= Accounts!Item1c[j].fee
  BY <1>2, DeedsTables, SMT
<1>5. /\ Accounts!calculateDeedsOfficeFee(u, Accounts!Item1b, n) <= Accounts!calculateDeedsOfficeFee(v, Accounts!Item1b, n)
      /\ Accounts!calculateDeedsOfficeFee(u, Accounts!Item1b, n) \in Nat
      /\ Accounts!calculateDeedsOfficeFee(v, Accounts!Item1b, n) \in Nat
  BY <1>1, <1>3
<1>6. /\ Accounts!calculateDeedsOfficeFee(u, Accounts!Item1c, n) <= Accounts!calculateDeedsOfficeFee(v, Accounts!Item1c, n)
      /\ Accounts!calculateDeedsOfficeFee(u, Accounts!Item1c, n) \in Nat
      /\ Accounts!calculateDeedsOfficeFee(v, Accounts!Item1c, n) \in Nat
  BY <1>1, <1>4
<1>. QED
  BY <1>5, <1>6

-----------------------------------------------------------------------------
(* The lines of a statement.                                              *)

\* The standard disbursements, one by one.
Due(code, amount, vat, rule, office) ==
    [code |-> code, amount |-> amount, vat |-> vat, rule |-> rule, office |-> office]
Fica         == Due("FICA", 450, TRUE, "always", TRUE)
Petty        == Due("POST_PETTY", 850, TRUE, "always", TRUE)
DocGen       == Due("DOC_GEN", 650, TRUE, "always", TRUE)
DeedsSearch  == Due("DEEDS_SEARCH", 250, TRUE, "always", FALSE)
RatesCert    == Due("RATES_CERT", 1150, FALSE, "rates", FALSE)
HoaConsent   == Due("HOA_CONSENT", 950, FALSE, "sectional", TRUE)
GoldenSearch == Due("GOLDEN_RECORD_SEARCH", 350, TRUE, "golden", FALSE)
BondAdmin    == Due("BOND_ADMIN", 950, TRUE, "bond", TRUE)
Electronic   == Due("ELECTRONIC_INSTRUCTION", 450, TRUE, "bond", TRUE)

LEMMA StandardList ==
    Accounts!Disbursement = {Fica, Petty, DocGen, DeedsSearch, RatesCert, HoaConsent, GoldenSearch, BondAdmin, Electronic}
BY SMT DEF Accounts!Disbursement, Due, Fica, Petty, DocGen, DeedsSearch, RatesCert,
   HoaConsent, GoldenSearch,
       BondAdmin, Electronic

LEMMA NineFinite ==
    ASSUME NEW a, NEW b, NEW c, NEW d, NEW e, NEW f, NEW g, NEW h, NEW i
    PROVE  IsFiniteSet({a, b, c, d, e, f, g, h, i}) /\ IsFiniteSet({a, b, c, d, e})
<1>1. \A S, x : IsFiniteSet(S) => IsFiniteSet(S \cup {x})
  BY FS_AddElement
<1>2. IsFiniteSet({a})
  BY FS_Singleton
<1>3. IsFiniteSet((({a} \cup {b}) \cup {c}) \cup {d})
  BY <1>1, <1>2
<1>4. (({a} \cup {b}) \cup {c}) \cup {d} = {a, b, c, d}
  OBVIOUS
<1>5. IsFiniteSet({a, b, c, d} \cup {e})
  BY <1>1, <1>3, <1>4
<1>6. {a, b, c, d} \cup {e} = {a, b, c, d, e}
  OBVIOUS
<1>7. IsFiniteSet((({a, b, c, d, e} \cup {f}) \cup {g}) \cup {h})
  BY <1>1, <1>5, <1>6
<1>8. (({a, b, c, d, e} \cup {f}) \cup {g}) \cup {h} = {a, b, c, d, e, f, g, h}
  OBVIOUS
<1>9. IsFiniteSet({a, b, c, d, e, f, g, h} \cup {i})
  BY <1>1, <1>7, <1>8
<1>10. {a, b, c, d, e, f, g, h} \cup {i} = {a, b, c, d, e, f, g, h, i}
  OBVIOUS
<1>. QED
  BY <1>5, <1>6, <1>9, <1>10

LEMMA DisbursementFinite == IsFiniteSet(Accounts!Disbursement)
BY StandardList, NineFinite

LEMMA Disbursements == \A d \in Accounts!Disbursement : d.amount \in Nat
BY SMT DEF Accounts!Disbursement

\* A line, with the VAT a firm charges on it.
LineFine(l, r) ==
    l.amount \in Nat /\ l.charged = IF l.vat THEN Accounts!Vat(l.amount, r) ELSE 0

LEMMA LinesFine ==
    ASSUME NEW r \in BOOLEAN, NEW S \in SUBSET Accounts!Disbursement
    PROVE  LET L == {Accounts!Line(d, r) : d \in S} IN IsFiniteSet(L) /\ \A l \in L : LineFine(l, r)
<1>. DEFINE f == [d \in S |-> Accounts!Line(d, r)]
            L == {Accounts!Line(d, r) : d \in S}
<1>1. IsFiniteSet(S)
  BY DisbursementFinite, FS_Subset
<1>2. f \in Surjection(S, L)
  BY DEF Surjection
<1>3. IsFiniteSet(L)
  <2>. HIDE DEF f, L
  <2>. QED
    BY <1>1, <1>2, FS_Surjection
<1>4. ASSUME NEW d \in S PROVE LineFine(Accounts!Line(d, r), r)
  <2>1. d.amount \in Nat
    BY Disbursements
  <2>. QED
    BY <2>1 DEF LineFine, Accounts!Line
<1>. QED
  BY <1>3, <1>4

\* What lines cost, in whole and in part.
LEMMA LinesCost ==
    ASSUME NEW r \in BOOLEAN, NEW L, IsFiniteSet(L), \A l \in L : LineFine(l, r)
    PROVE  /\ Accounts!Amounts(L) \in Int /\ Accounts!Charges(L) \in Int
           /\ \A T \in SUBSET L : Accounts!Amounts(L) = Accounts!Amounts(T) + Accounts!Amounts(L \ T) /\ Accounts!Charges(L) = Accounts!Charges(T) + Accounts!Charges(L \ T)
           /\ L = {} => Accounts!Amounts(L) = 0 /\ Accounts!Charges(L) = 0
           /\ \A l \in L : Accounts!Amounts(L) - Accounts!Amounts(L \ {l}) = l.amount /\ Accounts!Charges(L) - Accounts!Charges(L \ {l}) = l.charged
<1>. DEFINE a(T) == [l \in T |-> l.amount]
            c(T) == [l \in T |-> l.charged]
<1>1. \A l \in L : l.amount \in Int /\ l.charged \in Int
  <2>. SUFFICES ASSUME NEW l \in L PROVE l.amount \in Int /\ l.charged \in Int
    OBVIOUS
  <2>1. LineFine(l, r)
    OBVIOUS
  <2>2. l.amount \in Nat /\ l.charged = IF l.vat THEN Accounts!Vat(l.amount, r) ELSE 0
    BY <2>1 DEF LineFine
  <2>3. Accounts!Vat(l.amount, r) \in Nat
    <3>1. l.amount <= l.amount
      BY <2>2
    <3>. QED
      BY <2>2, <3>1, VatRises
  <2>. QED
    BY <2>2, <2>3
<1>2. a(L) \in [L -> Int] /\ c(L) \in [L -> Int]
  BY <1>1
<1>3. \A T \in SUBSET L : Over(a(L), T) = a(T) /\ Over(c(L), T) = c(T)
  BY DEF Over
<1>4. \A T : Accounts!Amounts(T) = Accounts!Total(a(T)) /\ Accounts!Charges(T) = Accounts!Total(c(T))
  BY DEF Accounts!Amounts, Accounts!Charges
<1>5. \A l \in L : a(L)[l] = l.amount /\ c(L)[l] = l.charged
  OBVIOUS
<1>. HIDE DEF a, c
<1>6. /\ Accounts!Total(a(L)) \in Int /\ (L = {} => Accounts!Total(a(L)) = 0)
      /\ \A x \in L : Accounts!Total(a(L)) - Accounts!Total(Over(a(L), L \ {x})) = a(L)[x]
  BY <1>2, TotalRemove
<1>7. /\ Accounts!Total(c(L)) \in Int /\ (L = {} => Accounts!Total(c(L)) = 0)
      /\ \A x \in L : Accounts!Total(c(L)) - Accounts!Total(Over(c(L), L \ {x})) = c(L)[x]
  BY <1>2, TotalRemove
<1>8. ASSUME NEW T \in SUBSET L
      PROVE  /\ Accounts!Amounts(L) = Accounts!Amounts(T) + Accounts!Amounts(L \ T)
             /\ Accounts!Charges(L) = Accounts!Charges(T) + Accounts!Charges(L \ T)
  <2>1. Accounts!Total(a(L)) = Accounts!Total(Over(a(L), T)) + Accounts!Total(Over(a(L), L \ T))
    BY <1>2, TotalSplit
  <2>2. Accounts!Total(c(L)) = Accounts!Total(Over(c(L), T)) + Accounts!Total(Over(c(L), L \ T))
    BY <1>2, TotalSplit
  <2>3. L \ T \in SUBSET L
    OBVIOUS
  <2>. QED
    BY <1>3, <1>4, <2>1, <2>2, <2>3
<1>9. \A l \in L : L \ {l} \in SUBSET L
  OBVIOUS
<1>10. \A l \in L : Accounts!Amounts(L) - Accounts!Amounts(L \ {l}) = l.amount /\ Accounts!Charges(L) - Accounts!Charges(L \ {l}) = l.charged
  BY <1>3, <1>4, <1>5, <1>6, <1>7, <1>9
<1>. QED
  BY <1>4, <1>6, <1>7, <1>8, <1>10

\* A firm that is registered for VAT.
Registered(r) == r = TRUE

\* The lines of a transfer for a firm with the standard disbursements.
LEMMA FiveLines ==
    ASSUME NEW r, Registered(r)
    PROVE  /\ Accounts!Amounts(Accounts!evaluateDisbursements(Accounts!Disbursement, {"rates"}, r)) = 3350
           /\ Accounts!Charges(Accounts!evaluateDisbursements(Accounts!Disbursement, {"rates"}, r)) = 332
<1>. DEFINE l1 == Accounts!Line(Fica, r)
            l2 == Accounts!Line(Petty, r)
            l3 == Accounts!Line(DocGen, r)
            l4 == Accounts!Line(DeedsSearch, r)
            l5 == Accounts!Line(RatesCert, r)
<1>1. /\ Accounts!Vat(450, r) = 68 /\ Accounts!Vat(850, r) = 128 /\ Accounts!Vat(650, r) = 98
      /\ Accounts!Vat(250, r) = 38
  BY SMT DEF Accounts!Vat, Accounts!Round, Registered
<1>2. Accounts!evaluateDisbursements(Accounts!Disbursement, {"rates"}, r) = {l1, l2, l3, l4, l5}
  <2>1. {e \in Accounts!Disbursement :
            \/ e.rule = "always" /\ ("bond" \in {"rates"} => e.office)
            \/ e.rule = "rates" /\ "rates" \in {"rates"} /\ "bond" \notin {"rates"}
            \/ e.rule \in {"rates"} \ {"rates"}} = {Fica, Petty, DocGen, DeedsSearch, RatesCert}
    <3>1. /\ Fica.rule = "always" /\ Petty.rule = "always" /\ DocGen.rule = "always"
          /\ DeedsSearch.rule = "always"
          /\ RatesCert.rule = "rates" /\ HoaConsent.rule = "sectional"
          /\ GoldenSearch.rule = "golden"
          /\ BondAdmin.rule = "bond" /\ Electronic.rule = "bond"
      BY DEF Due, Fica, Petty, DocGen, DeedsSearch, RatesCert, HoaConsent, GoldenSearch,
         BondAdmin, Electronic
    <3>. QED
      BY <3>1, StandardList
  <2>2. {Accounts!Line(e, r) : e \in {Fica, Petty, DocGen, DeedsSearch, RatesCert}} = {l1, l2, l3, l4, l5}
    <3>. HIDE DEF l1, l2, l3, l4, l5
    <3>1. \A e : e = Fica => Accounts!Line(e, r) = l1
      BY DEF l1
    <3>2. \A e : e = Petty => Accounts!Line(e, r) = l2
      BY DEF l2
    <3>3. \A e : e = DocGen => Accounts!Line(e, r) = l3
      BY DEF l3
    <3>4. \A e : e = DeedsSearch => Accounts!Line(e, r) = l4
      BY DEF l4
    <3>5. \A e : e = RatesCert => Accounts!Line(e, r) = l5
      BY DEF l5
    <3>. QED
      BY <3>1, <3>2, <3>3, <3>4, <3>5
  <2>. QED
    BY <2>1, <2>2 DEF Accounts!evaluateDisbursements
<1>3. {Fica, Petty, DocGen, DeedsSearch, RatesCert} \subseteq Accounts!Disbursement
  BY StandardList
<1>4. /\ l1 # l2 /\ l1 # l3 /\ l1 # l4 /\ l1 # l5 /\ l2 # l3 /\ l2 # l4 /\ l2 # l5 /\ l3 # l4
      /\ l3 # l5 /\ l4 # l5
  <2>1. /\ l1.code = "FICA" /\ l2.code = "POST_PETTY" /\ l3.code = "DOC_GEN"
        /\ l4.code = "DEEDS_SEARCH" /\ l5.code = "RATES_CERT"
    BY DEF Accounts!Line, Due, Fica, Petty, DocGen, DeedsSearch, RatesCert
  <2>. HIDE DEF l1, l2, l3, l4, l5
  <2>. QED
    BY <2>1
<1>5. /\ l1.amount = 450 /\ l2.amount = 850 /\ l3.amount = 650 /\ l4.amount = 250
      /\ l5.amount = 1150
      /\ l1.charged = 68 /\ l2.charged = 128 /\ l3.charged = 98 /\ l4.charged = 38 /\ l5.charged = 0
  <2>1. /\ Fica.amount = 450 /\ Petty.amount = 850 /\ DocGen.amount = 650
        /\ DeedsSearch.amount = 250 /\ RatesCert.amount = 1150
        /\ Fica.vat = TRUE /\ Petty.vat = TRUE /\ DocGen.vat = TRUE /\ DeedsSearch.vat = TRUE
        /\ RatesCert.vat = FALSE
    BY SMT DEF Due, Fica, Petty, DocGen, DeedsSearch, RatesCert
  <2>2. ASSUME NEW d PROVE /\ Accounts!Line(d, r).amount = d.amount
                           /\ d.vat = TRUE => Accounts!Line(d, r).charged = Accounts!Vat(d.amount, r)
                           /\ d.vat = FALSE => Accounts!Line(d, r).charged = 0
    BY DEF Accounts!Line
  <2>3. l1.amount = Fica.amount /\ l1.charged = Accounts!Vat(Fica.amount, r)
    BY <2>1, <2>2
  <2>4. l2.amount = Petty.amount /\ l2.charged = Accounts!Vat(Petty.amount, r)
    BY <2>1, <2>2
  <2>5. l3.amount = DocGen.amount /\ l3.charged = Accounts!Vat(DocGen.amount, r)
    BY <2>1, <2>2
  <2>6. l4.amount = DeedsSearch.amount /\ l4.charged = Accounts!Vat(DeedsSearch.amount, r)
    BY <2>1, <2>2
  <2>7. l5.amount = RatesCert.amount /\ l5.charged = 0
    BY <2>1, <2>2
  <2>. HIDE DEF l1, l2, l3, l4, l5
  <2>. QED
    BY <1>1, <2>1, <2>3, <2>4, <2>5, <2>6, <2>7
<1>a. IsFiniteSet({l1, l2, l3, l4, l5})
  <2>. HIDE DEF l1, l2, l3, l4, l5
  <2>. QED
    BY NineFinite
<1>b. \A l \in {l1, l2, l3, l4, l5} : LineFine(l, r)
  <2>1. \A l \in {Accounts!Line(d, r) : d \in Accounts!Disbursement} : LineFine(l, r)
    BY LinesFine DEF Registered
  <2>2. {l1, l2, l3, l4, l5} \subseteq {Accounts!Line(d, r) : d \in Accounts!Disbursement}
    BY <1>3
  <2>. QED
    BY <2>1, <2>2
<1>. HIDE DEF l1, l2, l3, l4, l5
<1>6. ASSUME NEW T \in SUBSET {l1, l2, l3, l4, l5}
      PROVE  /\ Accounts!Amounts(T) \in Int /\ Accounts!Charges(T) \in Int
             /\ T = {} => Accounts!Amounts(T) = 0 /\ Accounts!Charges(T) = 0
             /\ \A l \in T : Accounts!Amounts(T) - Accounts!Amounts(T \ {l}) = l.amount /\ Accounts!Charges(T) - Accounts!Charges(T \ {l}) = l.charged
  <2>1. IsFiniteSet(T)
    BY <1>a, FS_Subset
  <2>2. r \in BOOLEAN /\ \A l \in T : LineFine(l, r)
    BY <1>b DEF Registered
  <2>. QED
    BY <2>1, <2>2, LinesCost
<1>7. /\ {l1, l2, l3, l4, l5} \ {l1} = {l2, l3, l4, l5} /\ {l2, l3, l4, l5} \ {l2} = {l3, l4, l5}
      /\ {l3, l4, l5} \ {l3} = {l4, l5} /\ {l4, l5} \ {l4} = {l5} /\ {l5} \ {l5} = {}
  BY <1>4
<1>8. /\ Accounts!Amounts({l1, l2, l3, l4, l5}) - Accounts!Amounts({l2, l3, l4, l5}) = 450
      /\ Accounts!Charges({l1, l2, l3, l4, l5}) - Accounts!Charges({l2, l3, l4, l5}) = 68
  BY <1>5, <1>6, <1>7
<1>9. /\ Accounts!Amounts({l2, l3, l4, l5}) - Accounts!Amounts({l3, l4, l5}) = 850
      /\ Accounts!Charges({l2, l3, l4, l5}) - Accounts!Charges({l3, l4, l5}) = 128
  BY <1>5, <1>6, <1>7
<1>10. /\ Accounts!Amounts({l3, l4, l5}) - Accounts!Amounts({l4, l5}) = 650
       /\ Accounts!Charges({l3, l4, l5}) - Accounts!Charges({l4, l5}) = 98
  BY <1>5, <1>6, <1>7
<1>11. /\ Accounts!Amounts({l4, l5}) - Accounts!Amounts({l5}) = 250
       /\ Accounts!Charges({l4, l5}) - Accounts!Charges({l5}) = 38
  BY <1>5, <1>6, <1>7
<1>12. /\ Accounts!Amounts({l5}) - Accounts!Amounts({}) = 1150
       /\ Accounts!Charges({l5}) - Accounts!Charges({}) = 0
       /\ Accounts!Amounts({}) = 0 /\ Accounts!Charges({}) = 0
  BY <1>5, <1>6, <1>7
<1>13. /\ Accounts!Amounts({l1, l2, l3, l4, l5}) \in Int
       /\ Accounts!Amounts({l2, l3, l4, l5}) \in Int /\ Accounts!Amounts({l3, l4, l5}) \in Int
       /\ Accounts!Amounts({l4, l5}) \in Int /\ Accounts!Amounts({l5}) \in Int
       /\ Accounts!Charges({l1, l2, l3, l4, l5}) \in Int
       /\ Accounts!Charges({l2, l3, l4, l5}) \in Int /\ Accounts!Charges({l3, l4, l5}) \in Int
       /\ Accounts!Charges({l4, l5}) \in Int /\ Accounts!Charges({l5}) \in Int
  BY <1>6
<1>14. Accounts!Amounts({l1, l2, l3, l4, l5}) = 3350 /\ Accounts!Charges({l1, l2, l3, l4, l5}) = 332
  BY <1>8, <1>9, <1>10, <1>11, <1>12, <1>13
<1>. DEFINE five == {l1, l2, l3, l4, l5}
<1>15. Accounts!evaluateDisbursements(Accounts!Disbursement, {"rates"}, r) = five
  BY <1>2
<1>16. Accounts!Amounts(five) = 3350 /\ Accounts!Charges(five) = 332
  BY <1>14
<1>. HIDE DEF five
<1>. QED
  BY <1>15, <1>16

-----------------------------------------------------------------------------
(* The inductive invariant.                                               *)

LEMMA Figures ==
    ASSUME AccountsAssumption, NEW i \in Accounts!Input, NEW x \in Accounts!Firm
    PROVE  /\ i.price \in Nat /\ i.deeds \in Nat /\ i.deposit \in Nat /\ i.vatSale \in BOOLEAN
           /\ LET fee == Accounts!calculateConveyancingFee(i.price, x.tariff, x.multiplier) IN
              /\ fee \in Nat /\ fee = Accounts!AccruedFee(i.price, x.tariff, x.multiplier)
              /\ Accounts!Vat(fee, x.registered) \in Nat
           /\ Accounts!calculateTransferDuty(i.price, i.vatSale) \in Nat
           /\ Accounts!calculateTransferDuty(i.price, i.vatSale) = IF i.vatSale THEN 0 ELSE Accounts!AccruedDuty(i.price)
           /\ Accounts!calculateDeedsOfficeFee(i.price, Accounts!Item1b, i.deeds) \in Nat
<1>1. i.price \in Nat /\ i.deeds \in Nat /\ i.deposit \in Nat /\ i.vatSale \in BOOLEAN
  <2>1. /\ Price \cup {2500000} \subseteq Nat /\ Deeds \cup {1} \subseteq Nat
        /\ {0, 250000} \subseteq Nat
    BY SMT DEF AccountsAssumption
  <2>2. /\ i.price \in Price \cup {2500000} /\ i.deposit \in {0, 250000} /\ i.vatSale \in BOOLEAN
        /\ i.deeds \in Deeds \cup {1}
    BY SMT DEF Accounts!Input
  <2>. QED
    BY <2>1, <2>2
<1>. DEFINE v == i.price
            fee == Accounts!calculateConveyancingFee(v, x.tariff, x.multiplier)
<1>2. v <= v
  BY <1>1
<1>3. fee \in Nat /\ fee = Accounts!AccruedFee(v, x.tariff, x.multiplier)
  BY <1>1, <1>2, FirmFee
<1>4. Accounts!Vat(fee, x.registered) \in Nat
  <2>1. x.registered \in BOOLEAN
    BY FirmTariff
  <2>2. fee <= fee
    BY <1>3
  <2>. HIDE DEF fee
  <2>. QED
    BY <1>3, <2>1, <2>2, VatRises
<1>5. Accounts!calculateTransferDuty(v, i.vatSale) \in Nat /\ Accounts!calculateTransferDuty(v, i.vatSale) = IF i.vatSale THEN 0 ELSE Accounts!AccruedDuty(v)
  BY <1>1, <1>2, DutyRises
<1>6. Accounts!calculateDeedsOfficeFee(v, Accounts!Item1b, i.deeds) \in Nat
  BY <1>1, <1>2, OfficeFee
<1>. QED
  BY <1>1, <1>3, <1>4, <1>5, <1>6

LEMMA CreditsCount ==
    ASSUME NEW S \in SUBSET Int, IsFiniteSet(S)
    PROVE  /\ Accounts!Credits(S) \in Int /\ (S = {} => Accounts!Credits(S) = 0)
           /\ \A c \in S : Accounts!Credits(S) - Accounts!Credits(S \ {c}) = c
<1>. DEFINE g(T) == [c \in T |-> c]
<1>1. g(S) \in [S -> Int] /\ \A T \in SUBSET S : Over(g(S), T) = g(T)
  BY DEF Over
<1>2. \A T : Accounts!Credits(T) = Accounts!Total(g(T))
  BY DEF Accounts!Credits
<1>3. \A c \in S : g(S)[c] = c /\ S \ {c} \in SUBSET S
  OBVIOUS
<1>. HIDE DEF g
<1>4. /\ Accounts!Total(g(S)) \in Int /\ (S = {} => Accounts!Total(g(S)) = 0)
      /\ \A c \in S : Accounts!Total(g(S)) - Accounts!Total(Over(g(S), S \ {c})) = g(S)[c]
  BY <1>1, TotalRemove
<1>. QED
  BY <1>1, <1>2, <1>3, <1>4

\* What is entered stands on the statement, with lines, fees and credits that can be added up.
Fields == {"input", "firm", "fee", "feeVat", "duty", "deeds", "adhoc", "lines", "credits", "totalVat",
           "totalCosts", "balanceDue", "edits"}
Drafted(p) ==
    /\ Fields \subseteq DOMAIN p
    /\ p.input = input /\ p.firm = firm
    /\ p.fee = Accounts!calculateConveyancingFee(input.price, firm.tariff, firm.multiplier)
    /\ p.duty = Accounts!calculateTransferDuty(input.price, input.vatSale)
    /\ p.deeds = Accounts!calculateDeedsOfficeFee(input.price, Accounts!Item1b, input.deeds)
    /\ IsFiniteSet(p.lines) /\ (\A l \in p.lines : LineFine(l, firm.registered))
    /\ IsFiniteSet(p.adhoc) /\ p.adhoc \in SUBSET Nat
    /\ IsFiniteSet(p.credits) /\ p.credits \in SUBSET Nat

AddedUp(p) ==
    /\ p.totalVat = p.feeVat + Accounts!Charges(p.lines)
    /\ p.totalCosts = p.fee + p.duty + p.deeds + Accounts!Credits(p.adhoc) + p.totalVat + Accounts!Amounts(p.lines)
    /\ p.balanceDue = p.totalCosts - Accounts!Credits(p.credits)

LEMMA GeneratedInOrder ==
    ASSUME AccountsAssumption, input \in Accounts!Input, firm \in Accounts!Firm, NEW p,
           p = Accounts!generateProformaStatement(input, firm, {})
    PROVE  Drafted(p) /\ AddedUp(p)
<1>. DEFINE fee    == Accounts!calculateConveyancingFee(input.price, firm.tariff, firm.multiplier)
            duty   == Accounts!calculateTransferDuty(input.price, input.vatSale)
            deeds  == Accounts!calculateDeedsOfficeFee(input.price, Accounts!Item1b, input.deeds)
            lines  == Accounts!evaluateDisbursements(firm.enabled, {} \cup {"rates"}, firm.registered)
            feeVat == Accounts!Vat(fee, firm.registered)
            costs  == fee + feeVat + duty + deeds + Accounts!Amounts(lines) + Accounts!Charges(lines)
<1>1. p = [input |-> input, firm |-> firm, fee |-> fee, feeVat |-> feeVat, duty |-> duty, deeds |-> deeds,
           adhoc |-> {}, lines |-> lines, credits |-> {input.deposit} \ {0},
           totalVat |-> feeVat + Accounts!Charges(lines), totalCosts |-> costs,
           balanceDue |-> costs - input.deposit, edits |-> {}]
  BY DEF Accounts!generateProformaStatement
<1>2. /\ fee \in Nat /\ feeVat \in Nat /\ duty \in Nat /\ deeds \in Nat /\ input.deposit \in Nat
  BY Figures
<1>3. firm.registered \in BOOLEAN /\ firm.enabled \in SUBSET Accounts!Disbursement
  BY FirmTariff
<1>4. IsFiniteSet(lines) /\ \A l \in lines : LineFine(l, firm.registered)
  <2>. DEFINE r == firm.registered
  <2>1. \A S \in SUBSET Accounts!Disbursement : IsFiniteSet({Accounts!Line(d, r) : d \in S}) /\ \A l \in {Accounts!Line(d, r) : d \in S} : LineFine(l, r)
    BY <1>3, LinesFine
  <2>2. \E S \in SUBSET Accounts!Disbursement : lines = {Accounts!Line(d, r) : d \in S}
    BY <1>3 DEF Accounts!evaluateDisbursements
  <2>. HIDE DEF lines, r
  <2>3. IsFiniteSet(lines) /\ \A l \in lines : LineFine(l, r)
    BY <2>1, <2>2
  <2>. QED
    BY <2>3 DEF r
<1>. HIDE DEF fee, duty, deeds, lines, feeVat
<1>5. Accounts!Amounts(lines) \in Int /\ Accounts!Charges(lines) \in Int
  BY <1>3, <1>4, LinesCost
<1>6. IsFiniteSet({}) /\ IsFiniteSet({input.deposit} \ {0}) /\ {input.deposit} \ {0} \in SUBSET Nat
  <2>1. IsFiniteSet({input.deposit}) /\ IsFiniteSet({})
    BY FS_Singleton, FS_EmptySet
  <2>2. IsFiniteSet({input.deposit} \ {0})
    BY <2>1, FS_Subset
  <2>. QED
    BY <1>2, <2>1, <2>2
<1>7. Accounts!Credits({}) = 0
  BY <1>6, CreditsCount
<1>8. Accounts!Credits({input.deposit} \ {0}) = input.deposit
  <2>1. CASE input.deposit = 0
    <3>1. {input.deposit} \ {0} = {}
      BY <2>1
    <3>. QED
      BY <2>1, <3>1, <1>7
  <2>2. CASE input.deposit # 0
    <3>. DEFINE S == {input.deposit} \ {0}
    <3>1. input.deposit \in S /\ S \ {input.deposit} = {} /\ S \in SUBSET Int
      BY <1>2, <2>2
    <3>2. /\ Accounts!Credits(S) - Accounts!Credits(S \ {input.deposit}) = input.deposit
          /\ Accounts!Credits(S) \in Int
      <4>. HIDE DEF S
      <4>1. IsFiniteSet(S)
        BY <1>6 DEF S
      <4>. QED
        BY <3>1, <4>1, CreditsCount
    <3>3. Accounts!Credits(S) - Accounts!Credits({}) = input.deposit
      BY <3>1, <3>2
    <3>. HIDE DEF S
    <3>. QED
      BY <1>2, <1>7, <3>2, <3>3 DEF S
  <2>. QED
    BY <2>1, <2>2
<1>. DEFINE none == {}
            paid == {input.deposit} \ {0}
<1>9. /\ p.input = input /\ p.firm = firm
      /\ p.fee = fee /\ p.feeVat = feeVat /\ p.duty = duty /\ p.deeds = deeds /\ p.adhoc = none
      /\ p.lines = lines
      /\ p.credits = paid /\ p.totalVat = feeVat + Accounts!Charges(lines)
      /\ p.totalCosts = costs /\ p.balanceDue = costs - input.deposit
  BY <1>1
<1>10. Fields \subseteq DOMAIN p
  BY <1>1 DEF Fields
<1>11. /\ IsFiniteSet(none) /\ none \in SUBSET Nat /\ Accounts!Credits(none) = 0
       /\ IsFiniteSet(paid) /\ paid \in SUBSET Nat /\ Accounts!Credits(paid) = input.deposit
  BY <1>6, <1>7, <1>8
<1>. HIDE DEF none, paid
<1>12. IsFiniteSet(p.lines) /\ \A l \in p.lines : LineFine(l, firm.registered)
  BY <1>4, <1>9
<1>13. /\ IsFiniteSet(p.adhoc) /\ p.adhoc \in SUBSET Nat /\ IsFiniteSet(p.credits)
       /\ p.credits \in SUBSET Nat
  BY <1>9, <1>11
<1>14. Drafted(p)
  BY <1>9, <1>10, <1>12, <1>13 DEF Drafted, fee, duty, deeds
<1>15. p.totalVat = p.feeVat + Accounts!Charges(p.lines)
  BY <1>9
<1>16. Accounts!Credits(p.adhoc) = 0 /\ Accounts!Credits(p.credits) = input.deposit
  BY <1>9, <1>11
<1>17. p.totalCosts = p.fee + p.duty + p.deeds + Accounts!Credits(p.adhoc) + p.totalVat + Accounts!Amounts(p.lines)
  BY <1>2, <1>5, <1>9, <1>15, <1>16
<1>18. p.balanceDue = p.totalCosts - Accounts!Credits(p.credits)
  BY <1>9, <1>16
<1>. QED
  BY <1>14, <1>15, <1>17, <1>18 DEF AddedUp

\* The statement is of what is entered, adds up, and is as it was generated until it is edited.
AccountsInOrder(p) ==
    /\ Drafted(p) /\ AddedUp(p)
    /\ p.edits = {} => p = Accounts!generateProformaStatement(input, firm, {})

AccountsInv ==
    /\ firm = Accounts!Loading \/ firm \in Accounts!Firm
    /\ input \in Accounts!Input
    /\ proforma # Accounts!Loading => AccountsInOrder(proforma) /\ firm # Accounts!Loading

\* What an edit computes anew, and what it leaves alone.
LEMMA Recalculated ==
    ASSUME NEW q, Fields \subseteq DOMAIN q
    PROVE  LET r == Accounts!recalculateAndSave(q) IN
           /\ Fields \subseteq DOMAIN r
           /\ r.input = q.input /\ r.firm = q.firm /\ r.fee = q.fee /\ r.duty = q.duty
           /\ r.deeds = q.deeds
           /\ r.adhoc = q.adhoc /\ r.lines = q.lines /\ r.credits = q.credits /\ r.edits = q.edits
           /\ r.feeVat = Accounts!Vat(q.fee, q.firm.registered)
           /\ LET vat == Accounts!Total([l \in q.lines |-> IF l.vat THEN Accounts!Vat(l.amount, q.firm.registered) ELSE 0]) IN
              /\ r.totalVat = r.feeVat + vat
              /\ r.totalCosts = q.fee + q.duty + q.deeds + Accounts!Credits(q.adhoc) + Accounts!Amounts(q.lines) + r.feeVat + vat
              /\ r.balanceDue = r.totalCosts - Accounts!Credits(q.credits)
<1>. DEFINE feeVat == Accounts!Vat(q.fee, q.firm.registered)
            vat    == Accounts!Total([l \in q.lines |-> IF l.vat THEN Accounts!Vat(l.amount, q.firm.registered) ELSE 0])
            costs  == q.fee + q.duty + q.deeds + Accounts!Credits(q.adhoc) + Accounts!Amounts(q.lines) + feeVat + vat
            due    == costs - Accounts!Credits(q.credits)
<1>1. Accounts!recalculateAndSave(q) = [q EXCEPT !.feeVat = feeVat, !.totalVat = feeVat + vat, !.totalCosts = costs,
                                                 !.balanceDue = due]
  BY DEF Accounts!recalculateAndSave
<1>. DEFINE r == [q EXCEPT !.feeVat = feeVat, !.totalVat = feeVat + vat, !.totalCosts = costs, !.balanceDue = due]
<1>. HIDE DEF feeVat, vat, costs, due
<1>2. /\ DOMAIN r = DOMAIN q
      /\ \A x \in DOMAIN q \ {"feeVat", "totalVat", "totalCosts", "balanceDue"} : r[x] = q[x]
  OBVIOUS
<1>3. /\ r.input = q.input /\ r.firm = q.firm /\ r.fee = q.fee /\ r.duty = q.duty
      /\ r.deeds = q.deeds
      /\ r.adhoc = q.adhoc /\ r.lines = q.lines /\ r.credits = q.credits /\ r.edits = q.edits
  BY <1>2 DEF Fields
<1>4. /\ r.feeVat = feeVat /\ r.totalVat = feeVat + vat /\ r.totalCosts = costs
      /\ r.balanceDue = due
  BY DEF Fields
<1>. HIDE DEF r
<1>5. Accounts!recalculateAndSave(q) = r
  BY <1>1 DEF r
<1>. QED
  BY <1>2, <1>3, <1>4, <1>5 DEF feeVat, vat, costs, due

LEMMA AccountsEdited ==
    ASSUME AccountsAssumption, AccountsInv, NEW p, NEW kind, Drafted(p),
           firm # Accounts!Loading, Accounts!Edit(kind, p)
    PROVE  AccountsInv'
<1>1. PICK q : q = [p EXCEPT !.edits = @ \cup {kind}]
  OBVIOUS
<1>2. Fields \subseteq DOMAIN p
  BY DEF Drafted
<1>3. /\ DOMAIN q = DOMAIN p /\ q.edits = p.edits \cup {kind}
      /\ \A x \in DOMAIN p \ {"edits"} : q[x] = p[x]
  BY <1>1, <1>2 DEF Fields
<1>4. /\ q.input = p.input /\ q.firm = p.firm /\ q.fee = p.fee /\ q.duty = p.duty
      /\ q.deeds = p.deeds
      /\ q.adhoc = p.adhoc /\ q.lines = p.lines /\ q.credits = p.credits
  BY <1>2, <1>3 DEF Fields
<1>5. proforma' = Accounts!recalculateAndSave(q) /\ input' = input /\ firm' = firm
  BY <1>1 DEF Accounts!Edit
<1>. DEFINE r   == Accounts!recalculateAndSave(q)
            vat == Accounts!Total([l \in q.lines |-> IF l.vat THEN Accounts!Vat(l.amount, q.firm.registered) ELSE 0])
<1>6. /\ Fields \subseteq DOMAIN r
      /\ r.input = q.input /\ r.firm = q.firm /\ r.fee = q.fee /\ r.duty = q.duty
      /\ r.deeds = q.deeds
      /\ r.adhoc = q.adhoc /\ r.lines = q.lines /\ r.credits = q.credits /\ r.edits = q.edits
      /\ r.feeVat = Accounts!Vat(q.fee, q.firm.registered) /\ r.totalVat = r.feeVat + vat
      /\ r.totalCosts = q.fee + q.duty + q.deeds + Accounts!Credits(q.adhoc) + Accounts!Amounts(q.lines) + r.feeVat + vat
      /\ r.balanceDue = r.totalCosts - Accounts!Credits(q.credits)
  BY <1>2, <1>3, Recalculated
<1>7. vat = Accounts!Charges(p.lines)
  <2>1. [l \in p.lines |-> IF l.vat THEN Accounts!Vat(l.amount, firm.registered) ELSE 0] = [l \in p.lines |-> l.charged]
    <3>1. \A l \in p.lines : LineFine(l, firm.registered)
      BY DEF Drafted
    <3>. QED
      BY <3>1 DEF LineFine
  <2>2. q.lines = p.lines /\ q.firm = firm
    BY <1>4 DEF Drafted
  <2>. QED
    BY <2>1, <2>2 DEF Accounts!Charges
<1>. HIDE DEF r, vat
<1>8. firm \in Accounts!Firm /\ input \in Accounts!Input
  BY DEF AccountsInv
<1>9. /\ p.fee \in Nat /\ p.duty \in Nat /\ p.deeds \in Nat
      /\ Accounts!Vat(p.fee, firm.registered) \in Nat
  BY <1>8, Figures DEF Drafted
<1>10. Accounts!Amounts(p.lines) \in Int /\ Accounts!Charges(p.lines) \in Int
  <2>1. firm.registered \in BOOLEAN
    BY <1>8, FirmTariff
  <2>. QED
    BY <2>1, LinesCost DEF Drafted
<1>11. Accounts!Credits(p.adhoc) \in Int
  <2>1. p.adhoc \in SUBSET Int /\ IsFiniteSet(p.adhoc)
    BY DEF Drafted
  <2>. QED
    BY <2>1, CreditsCount
<1>12. /\ r.lines = p.lines /\ r.adhoc = p.adhoc /\ r.credits = p.credits /\ r.input = p.input
       /\ r.firm = p.firm
       /\ r.fee = p.fee /\ r.duty = p.duty /\ r.deeds = p.deeds /\ r.edits = p.edits \cup {kind}
  BY <1>3, <1>4, <1>6
<1>13. Drafted(r)
  BY <1>6, <1>12 DEF Drafted
<1>14. r.feeVat = Accounts!Vat(p.fee, firm.registered)
  BY <1>4, <1>6 DEF Drafted
<1>15. AddedUp(r)
  <2>1. r.totalVat = r.feeVat + Accounts!Charges(p.lines)
    BY <1>6, <1>7
  <2>2. r.totalCosts = p.fee + p.duty + p.deeds + Accounts!Credits(p.adhoc) + Accounts!Amounts(p.lines) + r.feeVat + Accounts!Charges(p.lines)
    BY <1>4, <1>6, <1>7
  <2>3. r.totalCosts = p.fee + p.duty + p.deeds + Accounts!Credits(p.adhoc) + r.totalVat + Accounts!Amounts(p.lines)
    BY <1>9, <1>10, <1>11, <1>14, <2>1, <2>2
  <2>4. r.balanceDue = r.totalCosts - Accounts!Credits(p.credits)
    BY <1>4, <1>6
  <2>. QED
    BY <1>12, <2>1, <2>3, <2>4 DEF AddedUp
<1>16. r.edits # {}
  BY <1>12
<1>17. AccountsInOrder(r)
  BY <1>13, <1>15, <1>16 DEF AccountsInOrder
<1>18. AccountsInOrder(proforma)'
  BY <1>5, <1>17 DEF r, AccountsInOrder, Drafted, AddedUp
<1>. QED
  BY <1>5, <1>18 DEF AccountsInv

LEMMA AccountsInit == ASSUME Accounts!Init PROVE AccountsInv
BY DEF Accounts!Init, AccountsInv, Accounts!Input

\* An edit of one of the lists leaves the rest of the draft.
LEMMA Redrafted ==
    ASSUME NEW p, Drafted(p), NEW S, IsFiniteSet(S)
    PROVE  /\ (\A l \in S : LineFine(l, firm.registered)) => Drafted([p EXCEPT !.lines = S])
           /\ S \in SUBSET Nat => Drafted([p EXCEPT !.adhoc = S]) /\ Drafted([p EXCEPT !.credits = S])
<1>. DEFINE a == [p EXCEPT !.lines = S]
            b == [p EXCEPT !.adhoc = S]
            c == [p EXCEPT !.credits = S]
<1>1. Fields \subseteq DOMAIN p
  BY DEF Drafted
<1>2. /\ DOMAIN a = DOMAIN p /\ a.lines = S /\ \A x \in DOMAIN p \ {"lines"} : a[x] = p[x]
      /\ DOMAIN b = DOMAIN p /\ b.adhoc = S /\ \A x \in DOMAIN p \ {"adhoc"} : b[x] = p[x]
      /\ DOMAIN c = DOMAIN p /\ c.credits = S /\ \A x \in DOMAIN p \ {"credits"} : c[x] = p[x]
  BY <1>1 DEF Fields
<1>. HIDE DEF a, b, c
<1>3. /\ a.input = p.input /\ a.firm = p.firm /\ a.fee = p.fee /\ a.duty = p.duty
      /\ a.deeds = p.deeds
      /\ a.adhoc = p.adhoc /\ a.credits = p.credits
  BY <1>1, <1>2 DEF Fields
<1>4. /\ b.input = p.input /\ b.firm = p.firm /\ b.fee = p.fee /\ b.duty = p.duty
      /\ b.deeds = p.deeds
      /\ b.lines = p.lines /\ b.credits = p.credits
  BY <1>1, <1>2 DEF Fields
<1>5. /\ c.input = p.input /\ c.firm = p.firm /\ c.fee = p.fee /\ c.duty = p.duty
      /\ c.deeds = p.deeds
      /\ c.lines = p.lines /\ c.adhoc = p.adhoc
  BY <1>1, <1>2 DEF Fields
<1>6. (\A l \in S : LineFine(l, firm.registered)) => Drafted(a)
  BY <1>1, <1>2, <1>3 DEF Drafted
<1>7. S \in SUBSET Nat => Drafted(b)
  BY <1>1, <1>2, <1>4 DEF Drafted
<1>8. S \in SUBSET Nat => Drafted(c)
  BY <1>1, <1>2, <1>5 DEF Drafted
<1>. QED
  BY <1>6, <1>7, <1>8 DEF a, b, c

LEMMA AccountsStep ==
    ASSUME AccountsAssumption, AccountsInv, [Accounts!Next]_(Accounts!vars)
    PROVE  AccountsInv'
<1>1. ASSUME NEW f \in Accounts!Firm, Accounts!Load(f) PROVE AccountsInv'
  <2>1. proforma = Accounts!Loading
    BY <1>1 DEF Accounts!Load, AccountsInv
  <2>. QED
    BY <1>1, <2>1 DEF Accounts!Load, AccountsInv
<1>2. ASSUME NEW i \in Accounts!Input, Accounts!Enter(i) PROVE AccountsInv'
  BY <1>2 DEF Accounts!Enter, AccountsInv
<1>3. CASE Accounts!handleGenerateProforma
  <2>1. /\ firm # Accounts!Loading
        /\ proforma' = Accounts!generateProformaStatement(input, firm, {})
        /\ UNCHANGED <<firm, input>>
    BY <1>3 DEF Accounts!handleGenerateProforma
  <2>2. input \in Accounts!Input /\ firm \in Accounts!Firm
    BY <2>1 DEF AccountsInv
  <2>3. PICK p : p = Accounts!generateProformaStatement(input, firm, {})
    OBVIOUS
  <2>4. Drafted(p) /\ AddedUp(p)
    BY <2>2, <2>3, GeneratedInOrder
  <2>5. AccountsInOrder(p)
    BY <2>3, <2>4 DEF AccountsInOrder
  <2>6. AccountsInOrder(proforma)'
    BY <2>1, <2>3, <2>5 DEF AccountsInOrder, Drafted, AddedUp
  <2>. QED
    BY <2>1, <2>2, <2>6 DEF AccountsInv
<1>4. ASSUME proforma # Accounts!Loading
      PROVE  /\ firm # Accounts!Loading /\ firm \in Accounts!Firm /\ Drafted(proforma)
             /\ firm.registered \in BOOLEAN
  BY <1>4, FirmTariff DEF AccountsInv, AccountsInOrder
<1>5. ASSUME proforma # Accounts!Loading, NEW S, IsFiniteSet(S), \A l \in S : LineFine(l, firm.registered), NEW kind,
             Accounts!Edit(kind, [proforma EXCEPT !.lines = S])
      PROVE  AccountsInv'
  <2>1. Drafted([proforma EXCEPT !.lines = S])
    BY <1>4, <1>5, Redrafted
  <2>. QED
    BY <1>4, <1>5, <2>1, AccountsEdited
<1>6. ASSUME proforma # Accounts!Loading, NEW S \in SUBSET Nat, IsFiniteSet(S), NEW kind,
             Accounts!Edit(kind, [proforma EXCEPT !.credits = S]) \/ Accounts!Edit(kind, [proforma EXCEPT !.adhoc = S])
      PROVE  AccountsInv'
  <2>1. Drafted([proforma EXCEPT !.credits = S]) /\ Drafted([proforma EXCEPT !.adhoc = S])
    BY <1>4, <1>6, Redrafted
  <2>. QED
    BY <1>4, <1>6, <2>1, AccountsEdited
<1>7. ASSUME NEW vat \in BOOLEAN, proforma # Accounts!Loading,
             Accounts!handleAddDisbursement(vat) PROVE AccountsInv'
  <2>. DEFINE d == [code |-> "manual", amount |-> 333, vat |-> vat]
              l == Accounts!Line(d, firm.registered)
              S == proforma.lines \cup {l}
  <2>1. Accounts!Edit("add", [proforma EXCEPT !.lines = @ \cup {l}])
    BY <1>7 DEF Accounts!handleAddDisbursement
  <2>2. LineFine(l, firm.registered)
    BY SMT DEF LineFine, Accounts!Line
  <2>. HIDE DEF l
  <2>3. IsFiniteSet(S) /\ \A x \in S : LineFine(x, firm.registered)
    <3>1. IsFiniteSet(proforma.lines) /\ \A x \in proforma.lines : LineFine(x, firm.registered)
      BY <1>4, <1>7 DEF Drafted
    <3>2. IsFiniteSet(S)
      BY <3>1, FS_AddElement
    <3>. QED
      BY <2>2, <3>1, <3>2
  <2>4. [proforma EXCEPT !.lines = @ \cup {l}] = [proforma EXCEPT !.lines = S]
    OBVIOUS
  <2>. HIDE DEF S
  <2>5. Accounts!Edit("add", [proforma EXCEPT !.lines = S])
    BY <2>1, <2>4
  <2>. QED
    BY <1>5, <1>7, <2>3, <2>5
<1>8. ASSUME NEW l, proforma # Accounts!Loading,
             Accounts!handleRemoveDisbursement(l) PROVE AccountsInv'
  <2>. DEFINE S == proforma.lines \ {l}
  <2>1. Accounts!Edit("remove", [proforma EXCEPT !.lines = S])
    BY <1>8 DEF Accounts!handleRemoveDisbursement
  <2>2. IsFiniteSet(S) /\ \A x \in S : LineFine(x, firm.registered)
    <3>1. IsFiniteSet(proforma.lines) /\ \A x \in proforma.lines : LineFine(x, firm.registered)
      BY <1>4, <1>8 DEF Drafted
    <3>2. IsFiniteSet(S)
      BY <3>1, FS_Subset
    <3>. QED
      BY <3>1, <3>2
  <2>. HIDE DEF S
  <2>. QED
    BY <1>5, <1>8, <2>1, <2>2
<1>9. ASSUME NEW c, NEW x \in Nat, proforma # Accounts!Loading
      PROVE  LET A == proforma.adhoc
                 C == proforma.credits IN
             /\ A \cup {x} \in SUBSET Nat /\ A \ {c} \in SUBSET Nat /\ C \cup {x} \in SUBSET Nat
             /\ C \ {c} \in SUBSET Nat
             /\ IsFiniteSet(A \cup {x}) /\ IsFiniteSet(A \ {c}) /\ IsFiniteSet(C \cup {x})
             /\ IsFiniteSet(C \ {c})
  <2>1. ASSUME NEW T, IsFiniteSet(T), T \in SUBSET Nat
        PROVE  /\ T \cup {x} \in SUBSET Nat /\ T \ {c} \in SUBSET Nat
               /\ IsFiniteSet(T \cup {x}) /\ IsFiniteSet(T \ {c})
    <3>1. IsFiniteSet(T \cup {x})
      BY <2>1, FS_AddElement
    <3>2. IsFiniteSet(T \ {c})
      BY <2>1, FS_Subset
    <3>. QED
      BY <2>1, <3>1, <3>2
  <2>2. /\ IsFiniteSet(proforma.adhoc) /\ proforma.adhoc \in SUBSET Nat
        /\ IsFiniteSet(proforma.credits) /\ proforma.credits \in SUBSET Nat
    BY <1>4, <1>9 DEF Drafted
  <2>. QED
    BY <2>1, <2>2
<1>10. ASSUME proforma # Accounts!Loading, Accounts!handleAddCredit PROVE AccountsInv'
  <2>. DEFINE S == proforma.credits \cup {1000}
  <2>1. PICK x \in Nat : x = 1000
    OBVIOUS
  <2>a. proforma.credits \cup {x} \in SUBSET Nat /\ IsFiniteSet(proforma.credits \cup {x})
    BY <1>9, <1>10
  <2>2. S \in SUBSET Nat /\ IsFiniteSet(S)
    <3>. DEFINE U == proforma.credits \cup {x}
    <3>1. S = U
      BY <2>1
    <3>. HIDE DEF S, U
    <3>. QED
      BY <2>a, <3>1 DEF U
  <2>3. [proforma EXCEPT !.credits = @ \cup {1000}] = [proforma EXCEPT !.credits = S]
    OBVIOUS
  <2>4. Accounts!Edit("credit", [proforma EXCEPT !.credits = S])
    BY <1>10, <2>3 DEF Accounts!handleAddCredit
  <2>. HIDE DEF S
  <2>. QED
    BY <1>6, <1>10, <2>2, <2>4
<1>11. ASSUME NEW c, proforma # Accounts!Loading,
              Accounts!handleRemoveCredit(c) PROVE AccountsInv'
  <2>. DEFINE S == proforma.credits \ {c}
  <2>1. S \in SUBSET Nat /\ IsFiniteSet(S)
    BY <1>9, <1>11
  <2>2. Accounts!Edit("refund", [proforma EXCEPT !.credits = S])
    BY <1>11 DEF Accounts!handleRemoveCredit
  <2>. HIDE DEF S
  <2>. QED
    BY <1>6, <1>11, <2>1, <2>2
<1>12. ASSUME NEW fee \in Accounts!AdhocFees, proforma # Accounts!Loading,
              Accounts!handleAddAdhocDeedsFee(fee) PROVE AccountsInv'
  <2>. DEFINE S == proforma.adhoc \cup {fee}
  <2>1. fee \in Nat
    BY SMT DEF Accounts!AdhocFees
  <2>2. S \in SUBSET Nat /\ IsFiniteSet(S)
    BY <1>9, <1>12, <2>1
  <2>3. [proforma EXCEPT !.adhoc = @ \cup {fee}] = [proforma EXCEPT !.adhoc = S]
    OBVIOUS
  <2>4. Accounts!Edit("deeds", [proforma EXCEPT !.adhoc = S])
    BY <1>12, <2>3 DEF Accounts!handleAddAdhocDeedsFee
  <2>. HIDE DEF S
  <2>. QED
    BY <1>6, <1>12, <2>2, <2>4
<1>13. ASSUME NEW fee, proforma # Accounts!Loading,
              Accounts!handleRemoveDeedsAdhocFee(fee) PROVE AccountsInv'
  <2>. DEFINE S == proforma.adhoc \ {fee}
  <2>1. S \in SUBSET Nat /\ IsFiniteSet(S)
    BY <1>9, <1>13
  <2>2. Accounts!Edit("undeeds", [proforma EXCEPT !.adhoc = S])
    BY <1>13 DEF Accounts!handleRemoveDeedsAdhocFee
  <2>. HIDE DEF S
  <2>. QED
    BY <1>6, <1>13, <2>1, <2>2
<1>14. CASE UNCHANGED Accounts!vars
  BY <1>14 DEF Accounts!vars, AccountsInv, AccountsInOrder, Drafted, AddedUp
<1>. QED
  BY <1>1, <1>2, <1>3, <1>7, <1>8, <1>10, <1>11, <1>12, <1>13, <1>14 DEF Accounts!Next

\* What the page shows is of one settings and one input, and a statement adds up.
THEOREM AccountsKeep == ASSUME AccountsAssumption PROVE Accounts!Spec => []AccountsInv
BY AccountsInit, AccountsStep, PTL DEF Accounts!Spec

\* A statement is that of the settings and of the input that are shown with it, whatever
\* is edited in it.
THEOREM AccountsTypeOK == ASSUME AccountsAssumption PROVE Accounts!Spec => []Accounts!TypeOK
<1>1. AccountsInv => Accounts!TypeOK
  BY DEF AccountsInv, AccountsInOrder, Drafted, Accounts!TypeOK
<1>. QED
  BY <1>1, AccountsKeep, PTL

-----------------------------------------------------------------------------
(* What the invariant says of the amounts.                                *)

\* What a generated statement comes to.
LEMMA GeneratedCosts ==
    ASSUME NEW i, NEW x
    PROVE  LET p == Accounts!generateProformaStatement(i, x, {})
               L == Accounts!evaluateDisbursements(x.enabled, {"rates"}, x.registered) IN
           /\ p.lines = L
           /\ p.totalCosts = p.fee + Accounts!Vat(p.fee, x.registered) + p.duty + p.deeds + Accounts!Amounts(L) + Accounts!Charges(L)
           /\ p.fee = Accounts!calculateConveyancingFee(i.price, x.tariff, x.multiplier)
           /\ p.duty = Accounts!calculateTransferDuty(i.price, i.vatSale)
           /\ p.deeds = Accounts!calculateDeedsOfficeFee(i.price, Accounts!Item1b, i.deeds)
<1>. DEFINE fee   == Accounts!calculateConveyancingFee(i.price, x.tariff, x.multiplier)
            duty  == Accounts!calculateTransferDuty(i.price, i.vatSale)
            deeds == Accounts!calculateDeedsOfficeFee(i.price, Accounts!Item1b, i.deeds)
            L     == Accounts!evaluateDisbursements(x.enabled, {} \cup {"rates"}, x.registered)
            vat   == Accounts!Vat(fee, x.registered)
            costs == fee + vat + duty + deeds + Accounts!Amounts(L) + Accounts!Charges(L)
            p     == Accounts!generateProformaStatement(i, x, {})
<1>1. p = [input |-> i, firm |-> x, fee |-> fee, feeVat |-> vat, duty |-> duty, deeds |-> deeds,
           adhoc |-> {}, lines |-> L, credits |-> {i.deposit} \ {0},
           totalVat |-> vat + Accounts!Charges(L), totalCosts |-> costs, balanceDue |-> costs - i.deposit, edits |-> {}]
  BY DEF Accounts!generateProformaStatement
<1>2. {} \cup {"rates"} = {"rates"}
  OBVIOUS
<1>3. L = Accounts!evaluateDisbursements(x.enabled, {"rates"}, x.registered)
  BY <1>2, Zenon
<1>. HIDE DEF fee, duty, deeds, L, vat, p
<1>4. p.lines = L /\ p.totalCosts = costs /\ p.fee = fee /\ p.duty = duty /\ p.deeds = deeds
  BY <1>1
<1>. QED
  BY <1>3, <1>4, Zenon DEF fee, duty, deeds, vat, p

LEMMA AccountsFees == ASSUME AccountsAssumption, AccountsInv PROVE Accounts!FeesAccrue
<1>. SUFFICES ASSUME proforma # Accounts!Loading
              PROVE  /\ proforma.fee = Accounts!AccruedFee(input.price, firm.tariff, firm.multiplier)
                     /\ proforma.duty = IF input.vatSale THEN 0 ELSE Accounts!AccruedDuty(input.price)
  BY DEF Accounts!FeesAccrue
<1>1. Drafted(proforma) /\ firm \in Accounts!Firm /\ input \in Accounts!Input
  BY DEF AccountsInv, AccountsInOrder
<1>. QED
  BY <1>1, Figures DEF Drafted

LEMMA AccountsAddUp == ASSUME AccountsInv PROVE Accounts!StatementAddsUp
BY DEF AccountsInv, AccountsInOrder, AddedUp, Accounts!StatementAddsUp

\* The rounding of five amounts of VAT.
LEMMA RoundedTogether ==
    ASSUME NEW fee \in Nat
    PROVE  /\ Accounts!Round(15 * (fee + 850 + 450 + 650 + 250)) = Accounts!Round(15 * fee) + 330
           /\ Accounts!Round(15 * fee) \in Nat
BY SMT DEF Accounts!Round

\* The firm the wizard's amounts are those of, and a sale that bears duty.
Standard(x) == x = [tariff |-> Accounts!LSSA2026, multiplier |-> 100, registered |-> TRUE, enabled |-> Accounts!Disbursement]
Dutiable(i) == i.vatSale = FALSE

LEMMA StandardFirm ==
    ASSUME NEW x, Standard(x)
    PROVE  /\ x.tariff = Accounts!LSSA2026 /\ x.multiplier = 100 /\ Registered(x.registered)
           /\ x.enabled = Accounts!Disbursement
BY DEF Standard, Registered

LEMMA EstimateOf ==
    ASSUME AccountsAssumption, NEW i \in Accounts!Input, NEW x \in Accounts!Firm,
           Standard(x), Dutiable(i), i.deeds = 1
    PROVE  Accounts!generateProformaStatement(i, x, {}).totalCosts + 2000 - Accounts!calculateTotalTransferCosts(i.price) = 2
<1>. DEFINE v     == i.price
            r     == x.registered
            fee   == Accounts!calculateConveyancingFee(v, Accounts!LSSA2026, 100)
            duty  == Accounts!calculateTransferDuty(v, FALSE)
            deeds == Accounts!calculateDeedsOfficeFee(v, Accounts!Item1b, 1)
            L     == Accounts!evaluateDisbursements(Accounts!Disbursement, {"rates"}, r)
            p     == Accounts!generateProformaStatement(i, x, {})
<1>1. /\ x.tariff = Accounts!LSSA2026 /\ x.multiplier = 100 /\ Registered(r)
      /\ x.enabled = Accounts!Disbursement
  BY StandardFirm
<1>2. Accounts!Amounts(L) = 3350 /\ Accounts!Charges(L) = 332
  BY <1>1, FiveLines
<1>3. v \in Nat
  BY Figures
<1>4. p.totalCosts = fee + Accounts!Vat(fee, r) + duty + deeds + Accounts!Amounts(L) + Accounts!Charges(L)
  <2>1. LET D == Accounts!evaluateDisbursements(x.enabled, {"rates"}, x.registered) IN
        /\ p.totalCosts = p.fee + Accounts!Vat(p.fee, x.registered) + p.duty + p.deeds + Accounts!Amounts(D) + Accounts!Charges(D)
        /\ p.fee = Accounts!calculateConveyancingFee(i.price, x.tariff, x.multiplier)
        /\ p.duty = Accounts!calculateTransferDuty(i.price, i.vatSale)
        /\ p.deeds = Accounts!calculateDeedsOfficeFee(i.price, Accounts!Item1b, i.deeds)
    BY GeneratedCosts
  <2>2. Accounts!calculateTransferDuty(i.price, i.vatSale) = duty
    BY Zenon DEF Dutiable
  <2>. QED
    BY <1>1, <2>1, <2>2, Zenon
<1>5. fee \in Nat
  BY <1>1, Figures
<1>6. duty \in Nat
  <2>1. FALSE \in BOOLEAN /\ v <= v
    BY <1>3
  <2>. QED
    BY <1>3, <2>1, DutyRises, Zenon
<1>7. deeds \in Nat
  <2>1. Accounts!calculateDeedsOfficeFee(i.price, Accounts!Item1b, i.deeds) \in Nat
    BY Figures
  <2>. QED
    BY <2>1, Zenon
<1>8. Accounts!Vat(fee, r) = Accounts!Round(15 * fee)
  <2>. HIDE DEF fee, r
  <2>. QED
    BY <1>1, SMT DEF Accounts!Vat, Registered
<1>. DEFINE sum == fee + 850 + 450 + 650 + 250
            u   == Accounts!Vat(sum, TRUE)
            e   == Accounts!calculateTotalTransferCosts(v)
<1>9. e = fee + duty + deeds + u + 850 + 450 + 650 + 250 + 1150 + 2000
  BY DEF Accounts!calculateTotalTransferCosts
<1>10. u = Accounts!Round(15 * sum)
  <2>. HIDE DEF sum
  <2>. QED
    BY Zenon DEF Accounts!Vat
<1>. DEFINE t == p.totalCosts
            w == Accounts!Round(15 * fee)
<1>11. t = fee + w + duty + deeds + 3350 + 332
  <2>. HIDE DEF fee, duty, deeds, L, r, w, p
  <2>. QED
    BY <1>2, <1>4, <1>8, SMT DEF w
<1>. HIDE DEF fee, duty, deeds, L, r, p, t, e, u
<1>12. Accounts!Round(15 * sum) = w + 330 /\ w \in Nat
  BY <1>5, RoundedTogether, SMT
<1>. HIDE DEF sum, w
<1>13. t + 2000 - e = 2
  BY <1>5, <1>6, <1>7, <1>9, <1>10, <1>11, <1>12, SMT
<1>. QED
  BY <1>13 DEF t, e, p

LEMMA AccountsEstimate ==
    ASSUME AccountsAssumption, AccountsInv
    PROVE  Accounts!EstimateNearStatement
<1>1. ASSUME proforma # Accounts!Loading, proforma.edits = {}, Dutiable(input),
             input.deeds = 1, Standard(firm)
      PROVE  proforma.totalCosts + 2000 - Accounts!calculateTotalTransferCosts(input.price) = 2
  <2>1. AccountsInOrder(proforma) /\ firm \in Accounts!Firm /\ input \in Accounts!Input
    BY <1>1 DEF AccountsInv
  <2>2. proforma = Accounts!generateProformaStatement(input, firm, {})
    BY <1>1, <2>1 DEF AccountsInOrder
  <2>. QED
    BY <1>1, <2>1, <2>2, EstimateOf
<1>2. ASSUME proforma # Accounts!Loading, proforma.edits = {}, Dutiable(input),
             input.deeds = 1, Standard(firm)
      PROVE  proforma.totalCosts + 2000 - Accounts!calculateTotalTransferCosts(input.price) \in 0 .. 2
  <2>1. PICK k : k = proforma.totalCosts + 2000 - Accounts!calculateTotalTransferCosts(input.price)
    OBVIOUS
  <2>2. k = 2
    BY <1>1, <1>2, <2>1
  <2>. QED
    BY <2>1, <2>2
<1>3. ~input.vatSale => Dutiable(input)
  <2>1. input \in Accounts!Input
    BY DEF AccountsInv
  <2>2. input.vatSale \in BOOLEAN
    BY <2>1, SMT DEF Accounts!Input
  <2>. QED
    BY <2>2 DEF Dutiable
<1>. QED
  BY <1>2, <1>3 DEF Accounts!EstimateNearStatement, Standard

LEMMA RouteIs ==
    ASSUME NEW i, NEW x
    PROVE  /\ Accounts!calculate(i, x, "transfer").fee = Accounts!calculateConveyancingFee(i.price, x.tariff, x.multiplier)
           /\ Accounts!calculate(i, x, "transfer").duty = Accounts!calculateTransferDuty(i.price, i.vatSale)
           /\ Accounts!calculate(i, x, "transfer").transferDeeds = Accounts!calculateDeedsOfficeFee(i.price, Accounts!Item1b, i.deeds)
           /\ Accounts!calculate(i, x, "transfer").disbursements = Accounts!evaluateDisbursements(Accounts!Disbursement, {"rates"}, x.registered)
           /\ Accounts!calculate(i, x, "bond").disbursements = Accounts!evaluateDisbursements(Accounts!Disbursement, {"bond"}, x.registered)
<1>. DEFINE fee   == Accounts!calculateConveyancingFee(i.price, x.tariff, x.multiplier)
            duty  == Accounts!calculateTransferDuty(i.price, i.vatSale)
            deeds == Accounts!calculateDeedsOfficeFee(i.price, Accounts!Item1b, i.deeds)
            bond  == Accounts!calculateDeedsOfficeFee(i.price, Accounts!Item1c, i.deeds)
            D(c)  == Accounts!evaluateDisbursements(Accounts!Disbursement, c, x.registered)
<1>1. \A type : Accounts!calculate(i, x, type) =
         [fee |-> fee, duty |-> duty, transferDeeds |-> deeds, bondDeeds |-> bond,
          disbursements |-> D(IF type = "bond" THEN {"bond"} ELSE {"rates"})]
  BY DEF Accounts!calculate
<1>. HIDE DEF fee, duty, deeds, bond, D
<1>2. /\ (IF "transfer" = "bond" THEN {"bond"} ELSE {"rates"}) = {"rates"}
      /\ (IF "bond" = "bond" THEN {"bond"} ELSE {"rates"}) = {"bond"}
  OBVIOUS
<1>3. /\ \A type : Accounts!calculate(i, x, type).fee = fee /\ Accounts!calculate(i, x, type).duty = duty /\ Accounts!calculate(i, x, type).transferDeeds = deeds
      /\ \A type : Accounts!calculate(i, x, type).disbursements = D(IF type = "bond" THEN {"bond"} ELSE {"rates"})
  BY <1>1
<1>4. /\ Accounts!calculate(i, x, "transfer").disbursements = D({"rates"})
      /\ Accounts!calculate(i, x, "bond").disbursements = D({"bond"})
  BY <1>2, <1>3, Zenon
<1>. QED
  BY <1>3, <1>4, Zenon DEF fee, duty, deeds, D

\* The lines of a context are among those of every disbursement.
LEMMA LinesWithin ==
    ASSUME NEW S \in SUBSET Accounts!Disbursement, NEW c, NEW r
    PROVE  /\ Accounts!evaluateDisbursements(S, c, r) \subseteq {Accounts!Line(d, r) : d \in Accounts!Disbursement}
           /\ Accounts!evaluateDisbursements(S, c, r) \subseteq Accounts!evaluateDisbursements(Accounts!Disbursement, c, r)
BY Zenon DEF Accounts!evaluateDisbursements

LEMMA BondLines ==
    ASSUME NEW x, x.enabled = Accounts!Disbursement
    PROVE  Accounts!evaluateDisbursements(Accounts!Disbursement, {"bond"}, x.registered) \subseteq Accounts!bondDisb(x)
<1>1. \A e \in Accounts!Disbursement :
        (\/ e.rule = "always" /\ ("bond" \in {"bond"} => e.office)
         \/ e.rule = "rates" /\ "rates" \in {"bond"} /\ "bond" \notin {"bond"}
         \/ e.rule \in {"bond"} \ {"rates"}) => e.rule = "bond" \/ e.office
  BY Zenon
<1>. QED
  BY <1>1, Zenon DEF Accounts!evaluateDisbursements, Accounts!bondDisb

\* What the page's own total consists of.
LEMMA OwnTotal ==
    ASSUME AccountsAssumption, NEW i \in Accounts!Input, NEW x \in Accounts!Firm
    PROVE  LET all == {Accounts!Line(d, x.registered) : d \in Accounts!Disbursement}
               fee == Accounts!calculateConveyancingFee(i.price, x.tariff, x.multiplier)
               duty == Accounts!calculateTransferDuty(i.price, i.vatSale)
               deeds == Accounts!calculateDeedsOfficeFee(i.price, Accounts!Item1b, i.deeds) IN
           /\ Accounts!transferCalculation(i, x) = fee + Accounts!Vat(fee, x.registered) + duty + deeds + Accounts!Amounts(all) + Accounts!Charges(all)
           /\ fee \in Nat /\ Accounts!Vat(fee, x.registered) \in Nat /\ duty \in Nat
           /\ deeds \in Nat
           /\ Accounts!Amounts(all) \in Int /\ Accounts!Charges(all) \in Int
           /\ \A T \in SUBSET all : /\ Accounts!Amounts(all) = Accounts!Amounts(T) + Accounts!Amounts(all \ T) /\ Accounts!Charges(all) = Accounts!Charges(T) + Accounts!Charges(all \ T)
                                    /\ Accounts!Amounts(T) \in Int /\ Accounts!Charges(T) \in Int
<1>. DEFINE r == x.registered
            all == {Accounts!Line(d, r) : d \in Accounts!Disbursement}
<1>1. r \in BOOLEAN /\ Accounts!Disbursement \in SUBSET Accounts!Disbursement
  BY FirmTariff
<1>2. IsFiniteSet(all) /\ \A l \in all : LineFine(l, r)
  BY <1>1, LinesFine
<1>3. /\ Accounts!Amounts(all) \in Int /\ Accounts!Charges(all) \in Int
      /\ \A T \in SUBSET all : Accounts!Amounts(all) = Accounts!Amounts(T) + Accounts!Amounts(all \ T) /\ Accounts!Charges(all) = Accounts!Charges(T) + Accounts!Charges(all \ T)
  <2>. HIDE DEF all, r
  <2>. QED
    BY <1>1, <1>2, LinesCost
<1>4. ASSUME NEW T \in SUBSET all PROVE Accounts!Amounts(T) \in Int /\ Accounts!Charges(T) \in Int
  <2>. HIDE DEF all, r
  <2>1. IsFiniteSet(T) /\ \A l \in T : LineFine(l, r)
    BY <1>2, FS_Subset
  <2>. QED
    BY <1>1, <2>1, LinesCost
<1>5. Accounts!transferCalculation(i, x) =
        Accounts!calculateConveyancingFee(i.price, x.tariff, x.multiplier)
        + Accounts!Vat(Accounts!calculateConveyancingFee(i.price, x.tariff, x.multiplier), r) + Accounts!calculateTransferDuty(i.price, i.vatSale)
        + Accounts!calculateDeedsOfficeFee(i.price, Accounts!Item1b, i.deeds) + Accounts!Amounts(all) + Accounts!Charges(all)
  BY DEF Accounts!transferCalculation
<1>. HIDE DEF all
<1>. QED
  BY <1>3, <1>4, <1>5, Figures, Zenon DEF all

LEMMA AccountsCalculators == ASSUME AccountsAssumption, AccountsInv PROVE Accounts!CalculatorsAgree
<1>. DEFINE all == {Accounts!Line(d, firm.registered) : d \in Accounts!Disbursement}
            left == all \ proforma.lines
            route == Accounts!calculate(input, firm, "transfer")
<1>1. ASSUME proforma # Accounts!Loading, proforma.edits = {}
      PROVE  /\ Accounts!transferCalculation(input, firm) - proforma.totalCosts = Accounts!Amounts(left) + Accounts!Charges(left)
             /\ <<route.fee, route.duty, route.transferDeeds>> = <<proforma.fee, proforma.duty, proforma.deeds>>
             /\ proforma.lines \subseteq route.disbursements
  <2>. DEFINE L == Accounts!evaluateDisbursements(firm.enabled, {"rates"}, firm.registered)
              p == Accounts!generateProformaStatement(input, firm, {})
  <2>1. firm \in Accounts!Firm /\ input \in Accounts!Input /\ AccountsInOrder(proforma)
    BY <1>1 DEF AccountsInv
  <2>2. proforma = p
    BY <1>1, <2>1 DEF AccountsInOrder
  <2>3. /\ p.lines = L
        /\ p.totalCosts = p.fee + Accounts!Vat(p.fee, firm.registered) + p.duty + p.deeds + Accounts!Amounts(L) + Accounts!Charges(L)
        /\ p.fee = Accounts!calculateConveyancingFee(input.price, firm.tariff, firm.multiplier)
        /\ p.duty = Accounts!calculateTransferDuty(input.price, input.vatSale)
        /\ p.deeds = Accounts!calculateDeedsOfficeFee(input.price, Accounts!Item1b, input.deeds)
    BY GeneratedCosts
  <2>4. firm.enabled \in SUBSET Accounts!Disbursement
    BY <2>1, FirmTariff
  <2>5. L \in SUBSET all
    BY <2>4, LinesWithin
  <2>6. /\ Accounts!transferCalculation(input, firm) = p.fee + Accounts!Vat(p.fee, firm.registered) + p.duty + p.deeds + Accounts!Amounts(all) + Accounts!Charges(all)
        /\ p.fee \in Nat /\ Accounts!Vat(p.fee, firm.registered) \in Nat /\ p.duty \in Nat
        /\ p.deeds \in Nat
        /\ Accounts!Amounts(all) \in Int /\ Accounts!Charges(all) \in Int
        /\ \A T \in SUBSET all : /\ Accounts!Amounts(all) = Accounts!Amounts(T) + Accounts!Amounts(all \ T) /\ Accounts!Charges(all) = Accounts!Charges(T) + Accounts!Charges(all \ T)
                                 /\ Accounts!Amounts(T) \in Int /\ Accounts!Charges(T) \in Int
    <3>. HIDE DEF p
    <3>1. LET fee == Accounts!calculateConveyancingFee(input.price, firm.tariff, firm.multiplier)
              duty == Accounts!calculateTransferDuty(input.price, input.vatSale)
              deeds == Accounts!calculateDeedsOfficeFee(input.price, Accounts!Item1b, input.deeds) IN
          /\ Accounts!transferCalculation(input, firm) = fee + Accounts!Vat(fee, firm.registered) + duty + deeds + Accounts!Amounts(all) + Accounts!Charges(all)
          /\ fee \in Nat /\ Accounts!Vat(fee, firm.registered) \in Nat /\ duty \in Nat
          /\ deeds \in Nat
          /\ Accounts!Amounts(all) \in Int /\ Accounts!Charges(all) \in Int
          /\ \A T \in SUBSET all : /\ Accounts!Amounts(all) = Accounts!Amounts(T) + Accounts!Amounts(all \ T) /\ Accounts!Charges(all) = Accounts!Charges(T) + Accounts!Charges(all \ T)
                                   /\ Accounts!Amounts(T) \in Int /\ Accounts!Charges(T) \in Int
      BY <2>1, OwnTotal
    <3>. HIDE DEF all
    <3>. QED
      BY <2>3, <3>1, Zenon
  <2>7. left = all \ L
    BY <2>2, <2>3, Zenon
  <2>8. Accounts!transferCalculation(input, firm) - p.totalCosts = Accounts!Amounts(left) + Accounts!Charges(left)
    <3>1. /\ Accounts!Amounts(all) = Accounts!Amounts(L) + Accounts!Amounts(left)
          /\ Accounts!Charges(all) = Accounts!Charges(L) + Accounts!Charges(left)
          /\ Accounts!Amounts(L) \in Int /\ Accounts!Charges(L) \in Int
          /\ Accounts!Amounts(left) \in Int /\ Accounts!Charges(left) \in Int
      <4>1. left \in SUBSET all
        OBVIOUS
      <4>. HIDE DEF left, all
      <4>. QED
        BY <2>5, <2>6, <2>7, <4>1, Zenon
    <3>. HIDE DEF all, left, L, p
    <3>. QED
      BY <2>3, <2>6, <3>1, SMT
  <2>9. route.fee = p.fee /\ route.duty = p.duty /\ route.transferDeeds = p.deeds
    <3>. HIDE DEF p
    <3>. QED
      BY <2>3, RouteIs, Zenon
  <2>10. p.lines \subseteq route.disbursements
    <3>1. L \subseteq Accounts!evaluateDisbursements(Accounts!Disbursement, {"rates"}, firm.registered)
      BY <2>4, LinesWithin, Zenon
    <3>2. route.disbursements = Accounts!evaluateDisbursements(Accounts!Disbursement, {"rates"}, firm.registered)
      BY RouteIs, Zenon
    <3>. HIDE DEF L, p, route
    <3>. QED
      BY <2>3, <3>1, <3>2
  <2>. HIDE DEF left, route, p
  <2>. QED
    BY <2>2, <2>8, <2>9, <2>10
<1>2. ASSUME firm # Accounts!Loading, firm.enabled = Accounts!Disbursement
      PROVE  Accounts!calculate(input, firm, "bond").disbursements \subseteq Accounts!bondDisb(firm)
  BY <1>2, BondLines, RouteIs, Zenon
<1>. QED
  BY <1>1, <1>2, Zenon DEF Accounts!CalculatorsAgree

LEMMA AccountsRise == ASSUME AccountsAssumption, AccountsInv PROVE Accounts!NothingCheaperAbove
<1>. SUFFICES ASSUME firm # Accounts!Loading, NEW lower \in Price, lower <= input.price
              PROVE  /\ Accounts!transferCalculation([input EXCEPT !.price = lower], firm) <= Accounts!transferCalculation(input, firm)
                     /\ Accounts!bondCalculation(lower, firm) <= Accounts!bondCalculation(input.price, firm)
  BY DEF Accounts!NothingCheaperAbove
<1>1. firm \in Accounts!Firm /\ input \in Accounts!Input
  BY DEF AccountsInv
<1>2. PICK below : below = [input EXCEPT !.price = lower]
  OBVIOUS
<1>3. /\ below \in Accounts!Input /\ below.price = lower /\ below.vatSale = input.vatSale
      /\ below.deeds = input.deeds
  <2>1. below \in Accounts!Input /\ below.price = lower
    BY <1>1, <1>2, SMT DEF Accounts!Input
  <2>2. DOMAIN input = {"price", "deposit", "vatSale", "deeds"}
    BY <1>1, SMT DEF Accounts!Input
  <2>. QED
    BY <1>2, <2>1, <2>2
<1>. DEFINE v == input.price
            r == firm.registered
            fee(w) == Accounts!calculateConveyancingFee(w, firm.tariff, firm.multiplier)
            vat(w) == Accounts!Vat(fee(w), r)
            duty(w) == Accounts!calculateTransferDuty(w, input.vatSale)
            deeds(w) == Accounts!calculateDeedsOfficeFee(w, Accounts!Item1b, input.deeds)
            bond(w) == Accounts!calculateDeedsOfficeFee(w, Accounts!Item1c, 1)
<1>4. v \in Nat /\ lower \in Nat /\ input.deeds \in Nat /\ 1 \in Nat /\ input.vatSale \in BOOLEAN
  BY <1>1, <1>3, Figures
<1>5. fee(lower) <= fee(v) /\ fee(lower) \in Nat /\ fee(v) \in Nat
  BY <1>1, <1>4, FirmFee
<1>6. vat(lower) <= vat(v) /\ vat(lower) \in Nat /\ vat(v) \in Nat
  <2>1. r \in BOOLEAN
    BY <1>1, FirmTariff
  <2>. HIDE DEF fee, r
  <2>. QED
    BY <1>5, <2>1, VatRises
<1>7. duty(lower) <= duty(v) /\ duty(lower) \in Nat /\ duty(v) \in Nat
  BY <1>4, DutyRises
<1>8. deeds(lower) <= deeds(v) /\ deeds(lower) \in Nat /\ deeds(v) \in Nat
  BY <1>4, OfficeFee
<1>9. bond(lower) <= bond(v) /\ bond(lower) \in Nat /\ bond(v) \in Nat
  BY <1>4, OfficeFee
<1>. DEFINE A == Accounts!Amounts({Accounts!Line(d, r) : d \in Accounts!Disbursement})
            C == Accounts!Charges({Accounts!Line(d, r) : d \in Accounts!Disbursement})
            a == Accounts!Amounts(Accounts!bondDisb(firm))
            c == Accounts!Charges(Accounts!bondDisb(firm))
<1>10. /\ Accounts!transferCalculation(input, firm) = fee(v) + vat(v) + duty(v) + deeds(v) + A + C
       /\ Accounts!transferCalculation(below, firm) = fee(lower) + vat(lower) + duty(lower) + deeds(lower) + A + C
       /\ A \in Int /\ C \in Int
  <2>1. /\ Accounts!transferCalculation(input, firm) = fee(v) + vat(v) + duty(v) + deeds(v) + A + C
        /\ A \in Int /\ C \in Int
    BY <1>1, OwnTotal
  <2>2. Accounts!transferCalculation(below, firm) =
          fee(below.price) + vat(below.price) + Accounts!calculateTransferDuty(below.price, below.vatSale)
          + Accounts!calculateDeedsOfficeFee(below.price, Accounts!Item1b, below.deeds) + A + C
    BY <1>1, <1>3, OwnTotal
  <2>. QED
    BY <1>3, <2>1, <2>2, Zenon
<1>11. a \in Int /\ c \in Int
  <2>1. Accounts!bondDisb(firm) \subseteq {Accounts!Line(d, r) : d \in Accounts!Disbursement}
    <3>1. firm.enabled \in SUBSET Accounts!Disbursement
      BY <1>1, FirmTariff
    <3>. QED
      BY <3>1, Zenon DEF Accounts!bondDisb
  <2>2. \A T \in SUBSET {Accounts!Line(d, r) : d \in Accounts!Disbursement} : Accounts!Amounts(T) \in Int /\ Accounts!Charges(T) \in Int
    BY <1>1, OwnTotal
  <2>. QED
    BY <2>1, <2>2, Zenon
<1>12. /\ Accounts!bondCalculation(v, firm) = fee(v) + vat(v) + bond(v) + a + c
       /\ Accounts!bondCalculation(lower, firm) = fee(lower) + vat(lower) + bond(lower) + a + c
  BY DEF Accounts!bondCalculation
<1>. HIDE DEF v, r, fee, vat, duty, deeds, bond, A, C, a, c
<1>13. Accounts!transferCalculation(below, firm) <= Accounts!transferCalculation(input, firm)
  BY <1>5, <1>6, <1>7, <1>8, <1>10, SMT
<1>14. Accounts!bondCalculation(lower, firm) <= Accounts!bondCalculation(v, firm)
  BY <1>5, <1>6, <1>9, <1>11, <1>12, SMT
<1>. QED
  BY <1>2, <1>13, <1>14 DEF v

\* What the calculator page shows agrees with the schedules, with itself after every
\* edit, with the server's calculation and with the wizard's estimate, whatever the
\* prices, multipliers and numbers of deeds.
THEOREM AccountsAgree ==
    ASSUME AccountsAssumption
    PROVE  Accounts!Spec => [](Accounts!FeesAccrue /\ Accounts!EstimateNearStatement /\ Accounts!StatementAddsUp /\ Accounts!CalculatorsAgree /\ Accounts!NothingCheaperAbove)
<1>1. AccountsInv => Accounts!FeesAccrue /\ Accounts!EstimateNearStatement /\ Accounts!StatementAddsUp /\ Accounts!CalculatorsAgree /\ Accounts!NothingCheaperAbove
  BY AccountsFees, AccountsEstimate, AccountsAddUp, AccountsCalculators, AccountsRise
<1>. QED
  BY <1>1, AccountsKeep, PTL

=============================================================================

------------------------- MODULE DocumentGenerator -------------------------
(***************************************************************************)
(* The clause library (server/routes/clauses.ts) and the page that merges  *)
(* clauses and matter data into a document (DocumentGenerator.tsx,         *)
(* templateEngine.ts, documentGenerator.ts).  A text is a sequence of      *)
(* tokens: a placeholder of a field or of a clause, or a word.             *)
(*                                                                         *)
(* Versions of a clause are "1.<n>", and n stands for them.  The database  *)
(* sorts them as text, the page as numbers.                                *)
(***************************************************************************)
EXTENDS Naturals, Sequences, SequencesExt

CONSTANTS
    Request,    \* requests that change the library
    Clause,     \* identifiers
    Field,      \* fields placeholders may name
    Defined,    \* those of the data dictionary
    Number,     \* versions requests name
    MaxNumber,  \* bound: versions
    MaxMade     \* bound: documents made

VARIABLES
    versions,   \* rows of clause_versions of each clause; none if it has no row
    req,
    page,
    made,       \* documents downloaded, counted
    last        \* the last of them

vars == <<versions, req, page, made, last>>

\* Retired is treated as Draft is: not Active.
Status == {"Active", "Draft"}
Field_(f)  == [is |-> "field", name |-> f]
Clause_(c) == [is |-> "clause", name |-> c]
Word(w)    == [is |-> "word", name |-> w]

\* A clause may name a field, another clause, or nothing.
Texts == {<<Word("text")>>} \cup {<<Field_(f)>> : f \in Field} \cup {<<Clause_(c)>> : c \in Clause}
Templates == {<<Field_(f), Clause_(c)>> : f \in Field, c \in Clause} \cup {<<Clause_(c), Clause_(c)>> : c \in Clause}

Row == [number: 0 .. MaxNumber, status: Status, content: Texts \cup {<<>>}]
Flat == {[clause |-> c, row |-> r] : c \in Clause, r \in Row}

NoRequest == [op |-> "none", pc |-> "new", clause |-> CHOOSE c \in Clause : TRUE,
              row |-> [number |-> 0, status |-> "Draft", content |-> <<>>], gone |-> FALSE, answer |-> "none"]
NoPage == [mounted |-> FALSE, loading |-> {}, clauses |-> {}, offline |-> FALSE, busy |-> FALSE,
           history |-> {}, historyError |-> FALSE, recording |-> {}]
NoDocument == [content |-> <<>>, template |-> <<>>, clauses |-> {}]

TypeOK ==
    /\ versions \in [Clause -> SUBSET Row]
    /\ \A r \in Request : req[r].pc \in {"new", "upsert", "max", "insert", "commit", "done"}
                          /\ req[r].row \in Row
    /\ page.loading \subseteq {"clauses", "history"} /\ page.clauses \subseteq Flat
    /\ page.history \cup page.recording \subseteq 1 .. MaxMade
    /\ made \in 0 .. MaxMade
    /\ last.clauses \subseteq Flat

Init ==
    /\ versions \in {[c \in Clause |-> {}],
                     [c \in Clause |-> {[number |-> 9, status |-> "Active", content |-> <<Word("text")>>]}]}
    /\ req = [r \in Request |-> NoRequest]
    /\ page = NoPage /\ made = 0 /\ last = NoDocument

-----------------------------------------------------------------------------
(* The library on the server.                                               *)

\* ORDER BY version compares digit by digit: "1.10" stands before "1.9".
Lead(n) == IF n < 10 THEN n ELSE n \div 10
TextBefore(m, n) == Lead(m) < Lead(n) \/ (Lead(m) = Lead(n) /\ m < n)
First(rows) == CHOOSE v \in rows : \A w \in rows : w = v \/ TextBefore(w.number, v.number)

\* The Active version that sorts first, else the version that does.
pickActiveVersion(rows) ==
    LET active == {v \in rows : v.status = "Active"}
    IN  First(IF active # {} THEN active ELSE rows)

listClauses == {[clause |-> c, row |-> pickActiveVersion(versions[c])] : c \in {c \in Clause : versions[c] # {}}}

At(r, op, pc) == req[r].op = op /\ req[r].pc = pc
Go(r, fields) == req' = [req EXCEPT ![r] = fields]
End(r, answer) == Go(r, [NoRequest EXCEPT !.pc = "done", !.answer = answer])
Uncommitted(c) == {q \in Request : req[q].clause = c /\ req[q].pc = "commit"}
Others(r) == Uncommitted(req[r].clause) \ {r}

\* The unique index makes an INSERT wait for an uncommitted row of its number, and
\* two upserts of a clause wait for each other.
Waits(r) ==
    \E q \in Others(r) : \/ req[q].row.number = req[r].row.number
                         \/ req[q].op = "post" /\ req[r].op = "post"

Store(r) ==
    versions' = [versions EXCEPT ![req[r].clause] = @ \cup {req[r].row}]

Taken(r) == \E v \in versions[req[r].clause] : v.number = req[r].row.number

\* POST: the clause by its identifier, inserted or renamed, and a version.  Names
\* and categories are left out.
PostBegin(r, c, row) ==
    /\ req[r].pc = "new" /\ row.content # <<>>
    /\ Go(r, [NoRequest EXCEPT !.op = "post", !.pc = "upsert", !.clause = c, !.row = row])
    /\ UNCHANGED <<versions, page, made, last>>

PostInsert(r) ==
    /\ At(r, "post", "upsert") /\ ~Waits(r)
    /\ IF Taken(r) THEN End(r, "refused") ELSE Go(r, [req[r] EXCEPT !.pc = "commit"])
    /\ UNCHANGED <<versions, page, made, last>>

PostCommit(r) ==
    /\ At(r, "post", "commit")
    /\ Store(r) /\ End(r, "done")
    /\ UNCHANGED <<page, made, last>>

\* PUT: the clause is looked up first.  `named' says whether the body names the
\* version; with neither version nor content its status is not looked at.
PutBegin(r, c, row, named) ==
    /\ req[r].pc = "new"
    /\ IF versions[c] = {} THEN End(r, "refused")
       ELSE IF ~named /\ row.content = <<>> THEN End(r, "done")
       ELSE Go(r, [NoRequest EXCEPT !.op = "put", !.pc = IF named THEN "insert" ELSE "max",
                                    !.clause = c, !.row = row])
    /\ UNCHANGED <<versions, page, made, last>>

\* One more than the version that sorts last as text.
PutNumber(r) ==
    /\ At(r, "put", "max")
    /\ IF req[r].gone THEN End(r, "refused")
       ELSE LET next == First(versions[req[r].clause]).number + 1
            IN  /\ next <= MaxNumber
                /\ Go(r, [req[r] EXCEPT !.pc = "insert", !.row.number = next])
    /\ UNCHANGED <<versions, page, made, last>>

PutInsert(r) ==
    /\ At(r, "put", "insert") /\ ~Waits(r)
    /\ IF Taken(r) \/ req[r].gone THEN End(r, "refused")
       ELSE Go(r, [req[r] EXCEPT !.pc = "commit"])
    /\ UNCHANGED <<versions, page, made, last>>

PutCommit(r) ==
    /\ At(r, "put", "commit")
    /\ Store(r) /\ End(r, "done")
    /\ UNCHANGED <<page, made, last>>

\* One DELETE, with the versions (ON DELETE CASCADE); it waits for the rows that
\* are inserted under the clause.  A PUT that has looked it up inserts under an id
\* that is no more, also when the clause is created again.
DeleteClause(r, c) ==
    /\ req[r].pc = "new" /\ Uncommitted(c) = {}
    /\ versions' = [versions EXCEPT ![c] = {}]
    /\ req' = [q \in Request |->
                  IF q = r THEN [NoRequest EXCEPT !.pc = "done", !.answer = IF versions[c] = {} THEN "refused" ELSE "done"]
                  ELSE IF req[q].op = "put" /\ req[q].clause = c THEN [req[q] EXCEPT !.gone = TRUE] ELSE req[q]]
    /\ UNCHANGED <<page, made, last>>

-----------------------------------------------------------------------------
(* Merging.                                                                 *)

\* compareVersions: as numbers, the greatest first.
getActiveClause(clauses, c) ==
    LET active == {k \in clauses : k.clause = c /\ k.row.status = "Active"}
    IN  {k \in active : \A l \in active : l.row.number <= k.row.number}

\* replace: every token a pass does not know stays.
Replaced(text, by) ==
    FlattenSeq([i \in DOMAIN text |-> IF text[i] \in DOMAIN by THEN by[text[i]] ELSE <<text[i]>>])

Assembled(template, clauses) ==
    LET known == {x \in ToSet(template) : x.is = "clause" /\ getActiveClause(clauses, x.name) # {}}
        text(x) == (CHOOSE k \in getActiveClause(clauses, x.name) : TRUE).row.content
    IN  Replaced(template, [x \in known |-> text(x)])

Named(text, kind) == {x.name : x \in {y \in ToSet(text) : y.is = kind}}

\* Clauses first, once; then the fields of what that gives.
resolveTemplate(template, data, clauses) ==
    LET text == Assembled(template, clauses)
        fields == Named(text, "field")
        known == {x \in ToSet(text) : x.is = "field" /\ x.name \in Defined \cap data}
        found == {c \in Named(template, "clause") : getActiveClause(clauses, c) # {}}
    IN  [content |-> Replaced(text, [x \in known |-> <<Word("value")>>]),
         undefinedFields |-> fields \ Defined,
         unresolvedFields |-> (fields \cap Defined) \ data,
         resolvedClauses |-> UNION {getActiveClause(clauses, c) : c \in found},
         unresolvedClauses |-> Named(template, "clause") \ found]

Complete(resolution) ==
    resolution.unresolvedFields = {} /\ resolution.undefinedFields = {} /\ resolution.unresolvedClauses = {}

-----------------------------------------------------------------------------
(* The page.                                                                *)

INITIAL_CLAUSES == {[clause |-> c, row |-> [number |-> 0, status |-> "Active", content |-> <<Word("text")>>]] :
                        c \in Clause}

Mount ==
    /\ ~page.mounted
    /\ page' = [page EXCEPT !.mounted = TRUE, !.loading = {"clauses", "history"}]
    /\ UNCHANGED <<versions, req, made, last>>

\* The list, or the bundled samples where the library does not answer.
loadClauses ==
    /\ "clauses" \in page.loading
    /\ \E offline \in BOOLEAN :
          page' = [page EXCEPT !.loading = @ \ {"clauses"}, !.offline = offline,
                               !.clauses = IF offline THEN INITIAL_CLAUSES ELSE listClauses]
    /\ UNCHANGED <<versions, req, made, last>>

\* Nothing this page made is ever stored, see StoreRecord.
loadHistory ==
    /\ "history" \in page.loading
    /\ \E error \in BOOLEAN : page' = [page EXCEPT !.loading = @ \ {"history"}, !.historyError = error]
    /\ UNCHANGED <<versions, req, made, last>>

\* canGenerate, and the check of getResolvedDocument; the PDF is there at once,
\* the DOCX takes a while in which the button is disabled.
generateDocument(template, data) ==
    /\ page.mounted /\ page.loading = {} /\ ~page.busy /\ made < MaxMade
    /\ LET resolution == resolveTemplate(template, data, page.clauses)
       IN  /\ Complete(resolution)
           /\ last' = [content |-> resolution.content, template |-> template,
                       clauses |-> resolution.resolvedClauses]
    /\ page' = [page EXCEPT !.busy = TRUE]
    /\ UNCHANGED <<versions, req, made>>

\* The entry is shown before it is sent; packing may fail.
generateDone ==
    /\ page.busy
    /\ \/ /\ made' = made + 1
          /\ page' = [page EXCEPT !.busy = FALSE, !.history = @ \cup {made + 1},
                                  !.recording = @ \cup {made + 1}]
          /\ UNCHANGED last
       \/ /\ page' = [page EXCEPT !.busy = FALSE]
          /\ last' = NoDocument /\ UNCHANGED made
    /\ UNCHANGED <<versions, req>>

\* POST /api/generated-documents: document_id refers to documents, and the page
\* sends a new id that is none of theirs, so the INSERT always fails.
StoreRecord(d) ==
    /\ d \in page.recording
    /\ page' = [page EXCEPT !.recording = @ \ {d}, !.historyError = TRUE]
    /\ UNCHANGED <<versions, req, made, last>>

\* Bound: the text of a draft is a word.
NewRow == [number: Number, status: {"Active"}, content: Texts \cup {<<>>}]
          \cup [number: Number, status: {"Draft"}, content: {<<>>, <<Word("text")>>}]

Next ==
    \/ \E r \in Request :
         \/ \E c \in Clause :
              \/ DeleteClause(r, c)
              \/ \E row \in NewRow : PostBegin(r, c, row) \/ \E named \in BOOLEAN : PutBegin(r, c, row, named)
         \/ PostInsert(r) \/ PostCommit(r) \/ PutNumber(r) \/ PutInsert(r) \/ PutCommit(r)
    \/ Mount \/ loadClauses \/ loadHistory \/ generateDone
    \/ \E t \in Templates, data \in SUBSET Defined : generateDocument(t, data)
    \/ \E d \in page.recording : StoreRecord(d)

Spec == Init /\ [][Next]_vars

-----------------------------------------------------------------------------
(* Properties.                                                              *)

\* A version of a clause has one text, whichever requests number theirs alike.
NumberedOnce ==
    \A c \in Clause : \A v, w \in versions[c] : v.number = w.number => v = w

\* The reference: what each token of the template stands for.
Value(x) == IF x.is = "field" THEN <<Word("value")>> ELSE <<x>>
Expanded(template, clauses) ==
    FlattenSeq([i \in DOMAIN template |->
        IF template[i].is # "clause" THEN Value(template[i])
        ELSE LET k == CHOOSE k \in clauses : k.clause = template[i].name
             IN  FlattenSeq([j \in DOMAIN k.row.content |-> Value(k.row.content[j])])])

\* A document that is made says what its template, the clauses it names and the
\* matter's data say: no field is left open, also none a clause brought in; a
\* clause is left open only where a clause names another; and only Active
\* clauses are in it.
MergedWhole ==
    last # NoDocument =>
        /\ last.content = Expanded(last.template, last.clauses)
        /\ Named(last.content, "field") = {}
        /\ \A k \in last.clauses : k.row.status = "Active"

\* What this session made stays in the history shown, and once the server has
\* refused its record the notice that it is not saved stands.
HistoryKept ==
    /\ page.history = 1 .. made
    /\ page.history \ page.recording # {} => page.historyError
=============================================================================

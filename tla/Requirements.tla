---------------------------- MODULE Requirements ----------------------------
(***************************************************************************)
(* The document requirements of one matter.  recalculate_requirements      *)
(* (python_server/services/matter_document_service.py) reads the facts and *)
(* the rules by separate statements and applies the outcome in one         *)
(* transaction afterwards; the documents route of the BFF lists documents  *)
(* and requirements by separate statements too.  Facts, rules and          *)
(* documents change in between.  A fact may be missing, which is not a no. *)
(***************************************************************************)
EXTENDS FiniteSets, Naturals

CONSTANTS
    Recalc,     \* recalculations
    Doc,        \* documents that get uploaded for a requirement and scanned clean
    Flags,      \* bound: whether the route reads its evaluation flags too
    MaxChanges  \* bound: changes of facts and rules

VARIABLES
    facts,    \* the matter's classification, whether it has a bond row, its loan amount
    active,   \* rules that are not retired
    status,   \* the requirement row of each rule
    clean,    \* <<document, requirement key>> of uploaded clean documents
    recalc,   \* recalculations: pc and what they have read
    decided,  \* ghost: <<recalculation, rule>>: the rule could be decided at some
              \* moment since the recalculation began
    page,     \* the documents route: documents listed, requirements, evaluation flags
    changes

vars == <<facts, active, status, clean, recalc, decided, page, changes>>

\* One rule per kind of condition; "scoped" is for classification "c" only, and
\* "other" has a condition outside the supported vocabulary.
Rule   == {"baseline", "has_bond", "cash_purchase", "scoped", "other"}
Missing == "missing"
Facts  == [class : {Missing, "c", "d"}, bond : BOOLEAN, loan : {Missing, "zero", "positive"}]
Tri    == {"yes", "no", Missing}

NoReads == [pc |-> "new", class |-> Missing, bond |-> FALSE, hasBond |-> Missing, rules |-> {}]

TypeOK ==
    /\ facts \in Facts /\ active \subseteq Rule /\ clean \subseteq Doc \X Rule
    /\ status \in [Rule -> {"none", "active", "withdrawn"}]
    /\ recalc \in [Recalc -> [pc : {"new", "class", "bond", "loan", "rules", "apply", "done", "failed"},
                              class : {Missing, "c", "d"}, bond : BOOLEAN, hasBond : Tri,
                              rules : SUBSET Rule]]
    /\ decided \subseteq Recalc \X Rule
    /\ page.pc \in {"new", "half", "class", "bond", "loan", "rules", "done"}
    /\ page.documents \subseteq clean /\ page.reads.class \in {Missing, "c", "d"}
    /\ page.reads.hasBond \in Tri /\ page.unevaluated \cup page.decidable \subseteq Rule
    /\ changes \in 0..MaxChanges

Init ==
    /\ facts = [class |-> Missing, bond |-> FALSE, loan |-> Missing]
    /\ active = Rule
    /\ status = [k \in Rule |-> "none"]
    /\ clean = {}
    /\ recalc = [q \in Recalc |-> NoReads]
    /\ decided = {}
    /\ page = [pc |-> "new", documents |-> {}, satisfied |-> {}, listed |-> {},
                reads |-> NoReads, unevaluated |-> {}, decidable |-> {}]
    /\ changes = 0

-----------------------------------------------------------------------------
(* The evaluation of rules.                                                 *)

\* Faulty variant: no loan amount means no bond.
HasBondOrNot(bond, loan) == IF bond \/ loan = "positive" THEN "yes" ELSE "no"

\* has_bond is known from a bond row or an explicit loan amount.
HasBond(bond, loan) ==
    CASE bond -> "yes"
      [] ~bond /\ loan = "positive" -> "yes"
      [] ~bond /\ loan = "zero" -> "no"
      [] OTHER -> Missing

ruleEvaluable(rule, class, hasBond) ==
    /\ rule = "scoped" => class # Missing
    /\ rule # "other"
    /\ rule \in {"has_bond", "cash_purchase"} => hasBond # Missing

ruleApplies(rule, class, hasBond) ==
    /\ rule = "scoped" => class = "c"
    /\ rule = "has_bond" => hasBond = "yes"
    /\ rule = "cash_purchase" => hasBond = "no"

Decidable(f) == {rule \in Rule : ruleEvaluable(rule, f.class,
                    IF f.bond \/ f.loan # Missing THEN "yes" ELSE Missing)}

-----------------------------------------------------------------------------
(* What changes meanwhile.                                                  *)

Running == {q \in Recalc : recalc[q].pc \notin {"new", "done", "failed"}}
Reading == page.pc \in {"class", "bond", "loan", "rules"}

ChangeFacts(f) ==
    /\ changes < MaxChanges /\ f # facts
    /\ \/ f = [facts EXCEPT !.class = f.class]
       \/ f = [facts EXCEPT !.bond = f.bond]
       \/ f = [facts EXCEPT !.loan = f.loan]
    /\ facts' = f /\ changes' = changes + 1
    /\ decided' = decided \cup (Running \X Decidable(f))
    /\ page' = IF Reading THEN [page EXCEPT !.decidable = @ \cup Decidable(f)] ELSE page
    /\ UNCHANGED <<active, status, clean, recalc>>

RetireRule(rule) ==
    /\ Running # {} \/ Reading
    /\ rule \in active /\ changes < MaxChanges
    /\ active' = active \ {rule} /\ changes' = changes + 1
    /\ UNCHANGED <<facts, status, clean, recalc, decided, page>>

\* The lane publishes a clean verdict for a document of requirement k; it
\* stays.  Only the page reads it.
DocumentClean(d, k) ==
    /\ page.pc # "done" /\ \A e \in clean : e[1] # d
    /\ clean' = clean \cup {<<d, k>>}
    /\ UNCHANGED <<facts, active, status, recalc, decided, page, changes>>

-----------------------------------------------------------------------------
(* recalculate_requirements.                                                *)

Read(q, fields) ==
    /\ recalc' = [recalc EXCEPT ![q] = fields]
    /\ UNCHANGED <<facts, active, status, clean, page, changes>>

Begin(q) ==
    /\ recalc[q].pc = "new"
    /\ Read(q, [NoReads EXCEPT !.pc = "class"])
    /\ decided' = decided \cup ({q} \X Decidable(facts))

\* _load_matter_context: classification, bond row, loan amount; then the rules.
ReadClass(q) ==
    /\ recalc[q].pc = "class"
    /\ Read(q, [recalc[q] EXCEPT !.pc = "bond", !.class = facts.class])
    /\ UNCHANGED decided

ReadBond(q) ==
    /\ recalc[q].pc = "bond"
    /\ Read(q, [recalc[q] EXCEPT !.pc = "loan", !.bond = facts.bond])
    /\ UNCHANGED decided

ReadLoan(q) ==
    /\ recalc[q].pc = "loan"
    /\ Read(q, [recalc[q] EXCEPT !.pc = "rules", !.hasBond = HasBond(recalc[q].bond, facts.loan)])
    /\ UNCHANGED decided

ReadRules(q) ==
    /\ recalc[q].pc = "rules"
    /\ Read(q, [recalc[q] EXCEPT !.pc = "apply", !.rules = active])
    /\ UNCHANGED decided

Evaluable(q)  == {r \in recalc[q].rules : ruleEvaluable(r, recalc[q].class, recalc[q].hasBond)}
Applicable(q) == {r \in Evaluable(q) : ruleApplies(r, recalc[q].class, recalc[q].hasBond)}

\* One transaction: applicable rules are upserted, the other evaluable ones
\* withdrawn where they were active, everything else is left alone.
Apply(q) ==
    /\ recalc[q].pc = "apply"
    /\ status' = [k \in Rule |->
          IF k \in Applicable(q) THEN "active"
          ELSE IF k \in Evaluable(q) /\ status[k] = "active" THEN "withdrawn"
          ELSE status[k]]
    /\ recalc' = [recalc EXCEPT ![q].pc = "done"]
    /\ UNCHANGED <<facts, active, clean, decided, page, changes>>

\* A statement or the commit fails: nothing is applied.
Fails(q) ==
    /\ q \in Running
    /\ Read(q, [NoReads EXCEPT !.pc = "failed"])
    /\ UNCHANGED decided

-----------------------------------------------------------------------------
(* The documents route of the BFF.                                          *)

\* Faulty variant: the requirements are read before the documents.
RequirementsFirst == "requirements"

FirstStatement == "documents"

\* satisfied_document_id: an uploaded clean document with the requirement's key.
Satisfied(listed) == {k \in listed : \E e \in clean : e[2] = k}

\* Either statement; withdrawn requirements are listed as well.
PageReads(statement) ==
    LET listed == {k \in Rule : status[k] # "none"}
    IN  IF statement = "documents" THEN [page EXCEPT !.documents = clean]
        ELSE [page EXCEPT !.listed = listed, !.satisfied = Satisfied(listed)]

ListDocuments ==
    /\ page.pc = "new"
    /\ page' = [PageReads(FirstStatement) EXCEPT !.pc = "half"]
    /\ UNCHANGED <<facts, active, status, clean, recalc, decided, changes>>

ListRequirements ==
    /\ page.pc = "half"
    /\ LET second == IF FirstStatement = "documents" THEN "requirements" ELSE "documents"
       IN  page' = [PageReads(second) EXCEPT !.pc = IF Flags THEN "class" ELSE "done",
                                             !.decidable = IF Flags THEN Decidable(facts) ELSE {}]
    /\ UNCHANGED <<facts, active, status, clean, recalc, decided, changes>>

\* The evaluation flags, from four statements more; they mirror those of the service.
FlagClass ==
    /\ page.pc = "class"
    /\ page' = [page EXCEPT !.pc = "bond", !.reads.class = facts.class]
    /\ UNCHANGED <<facts, active, status, clean, recalc, decided, changes>>

FlagBond ==
    /\ page.pc = "bond"
    /\ page' = [page EXCEPT !.pc = "loan", !.reads.bond = facts.bond]
    /\ UNCHANGED <<facts, active, status, clean, recalc, decided, changes>>

FlagLoan ==
    /\ page.pc = "loan"
    /\ page' = [page EXCEPT !.pc = "rules", !.reads.hasBond = HasBond(page.reads.bond, facts.loan)]
    /\ UNCHANGED <<facts, active, status, clean, recalc, decided, changes>>

FlagRules ==
    /\ page.pc = "rules"
    /\ page' = [page EXCEPT !.pc = "done", !.unevaluated =
                    {r \in active : ~ruleEvaluable(r, page.reads.class, page.reads.hasBond)}]
    /\ UNCHANGED <<facts, active, status, clean, recalc, decided, changes>>

Next ==
    \/ \E f \in Facts : ChangeFacts(f)
    \/ \E rule \in Rule : RetireRule(rule)
    \/ \E d \in Doc, k \in Rule : DocumentClean(d, k)
    \/ \E q \in Recalc : \/ Begin(q) \/ ReadClass(q) \/ ReadBond(q) \/ ReadLoan(q)
                         \/ ReadRules(q) \/ Apply(q) \/ Fails(q)
    \/ ListDocuments \/ ListRequirements \/ FlagClass \/ FlagBond \/ FlagLoan \/ FlagRules

Spec == Init /\ [][Next]_vars

-----------------------------------------------------------------------------
(* Properties.                                                              *)

\* "An unevaluated rule is never silently treated as 'not required'"
\* (recalculate_requirements): a recalculation touches the requirement of a
\* rule only if the rule could be decided at some moment while it ran.
TouchesDecided ==
    \A k \in Rule : status'[k] # status[k] =>
        \E q \in Recalc : recalc[q].pc = "apply" /\ recalc'[q].pc = "done" /\ <<q, k>> \in decided

\* The same of every step.
UnevaluatedKept == [][TouchesDecided]_vars

\* What the page shows hangs together although documents and requirements are
\* read apart: a requirement on it is satisfied if a clean document for it is.
ShownSatisfied ==
    page.pc \in {"class", "bond", "loan", "rules", "done"} =>
        \A e \in page.documents : e[2] \in page.listed => e[2] \in page.satisfied

\* "A matter with no recorded classification is visibly unevaluated, never
\* presented as a complete requirement set" (the documents route), whatever
\* changes between its statements: a rule that stands and is not reported as
\* unevaluated could be decided at some moment of the answer.
UnevaluatedShown ==
    Flags /\ page.pc = "done" => \A r \in active : r \in page.unevaluated \/ r \in page.decidable
=============================================================================

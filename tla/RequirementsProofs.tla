-------------------------- MODULE RequirementsProofs --------------------------
(***************************************************************************)
(* What the evaluation of the requirement rules promises, for every number *)
(* of recalculations, documents and changes.  A recalculation and the page *)
(* read the facts one statement at a time, so what they have read may never*)
(* have been true together; the invariant keeps, for each single fact read,*)
(* that the rules it decides could be decided at some moment of the run.   *)
(***************************************************************************)
EXTENDS Requirements, TLAPS

OfBond == {"has_bond", "cash_purchase"}

Reads == [pc: {"new", "class", "bond", "loan", "rules", "apply", "done", "failed"},
          class: {Missing, "c", "d"}, bond: BOOLEAN, hasBond: Tri, rules: SUBSET Rule]

Pages == [pc: {"new", "half", "class", "bond", "loan", "rules", "done"},
          documents: SUBSET (Doc \X Rule), satisfied: SUBSET Rule, listed: SUBSET Rule,
          reads: Reads, unevaluated: SUBSET Rule, decidable: SUBSET Rule]

Typed ==
    /\ facts \in Facts /\ active \subseteq Rule /\ clean \subseteq Doc \X Rule
    /\ status \in [Rule -> {"none", "active", "withdrawn"}]
    /\ recalc \in [Recalc -> Reads] /\ page \in Pages

\* What a reader r has read of single facts is covered by the rules D that could be
\* decided since it began.
Covered(r, D) ==
    /\ r.class # Missing => "scoped" \in D
    /\ r.bond => OfBond \subseteq D
    /\ r.hasBond # Missing => OfBond \subseteq D

ReadsDecided ==
    \A q \in Running : /\ Covered(recalc[q], {k \in Rule : <<q, k>> \in decided})
                       /\ \A k \in Decidable(facts) : <<q, k>> \in decided

PageDecided ==
    /\ Reading => Covered(page.reads, page.decidable) /\ Decidable(facts) \subseteq page.decidable
    /\ page.pc \in {"new", "half"} => page.reads = NoReads

\* The inductive invariant.
Evaluated ==
    /\ Typed /\ ReadsDecided /\ PageDecided
    /\ page.pc = "half" => page.documents \subseteq clean
    /\ ShownSatisfied /\ UnevaluatedShown

-----------------------------------------------------------------------------
\* What can be decided of the facts: the rule of every matter, the scoped one with a
\* classification, those of bonds with a bond row or a loan amount.
LEMMA DecidableRules ==
    ASSUME NEW f \in Facts
    PROVE  /\ "baseline" \in Decidable(f)
           /\ f.class # Missing => "scoped" \in Decidable(f)
           /\ f.bond \/ f.loan # Missing => OfBond \subseteq Decidable(f)
           /\ Decidable(f) \subseteq Rule
BY DEF Decidable, ruleEvaluable, OfBond, Rule, Facts, Missing

\* A rule that is evaluable from what was read could be decided.
LEMMA EvaluableCovered ==
    ASSUME NEW r, NEW D, Covered(r, D), "baseline" \in D, NEW k \in Rule,
           ruleEvaluable(k, r.class, r.hasBond)
    PROVE  k \in D
BY DEF Covered, ruleEvaluable, Rule, OfBond

\* The third statement decides the rules of bonds by one of the two facts.
LEMMA HasBondOfFacts ==
    ASSUME NEW bond \in BOOLEAN, NEW loan \in {Missing, "zero", "positive"}
    PROVE  /\ HasBond(bond, loan) \in Tri
           /\ HasBond(bond, loan) # Missing => bond \/ loan # Missing
BY DEF HasBond, Tri, Missing

LEMMA InitEvaluated == Init => Evaluated
<1>. SUFFICES ASSUME Init PROVE Evaluated
  OBVIOUS
<1>1. NoReads \in Reads /\ NoReads.pc = "new"
  BY DEF NoReads, Reads, Tri, Missing
<1>2. Typed
  BY <1>1 DEF Init, Typed, Facts, Pages, Rule
<1>3. Running = {}
  BY <1>1 DEF Init, Running
<1>. QED  BY <1>2, <1>3 DEF Init, Evaluated, ReadsDecided, PageDecided, Reading, ShownSatisfied,
              UnevaluatedShown

-----------------------------------------------------------------------------
(* What changes meanwhile.                                                  *)

LEMMA ChangeFactsEvaluated ==
    ASSUME Evaluated, NEW f \in Facts, ChangeFacts(f)
    PROVE  Evaluated'
<1>1. /\ facts' = f /\ decided' = decided \cup (Running \X Decidable(f))
      /\ UNCHANGED <<active, status, clean, recalc>>
      /\ page' = IF Reading THEN [page EXCEPT !.decidable = @ \cup Decidable(f)] ELSE page
  BY DEF ChangeFacts
<1>2. Decidable(f) \subseteq Rule
  BY DecidableRules
<1>3. /\ page' \in Pages /\ page'.pc = page.pc /\ page'.reads = page.reads
      /\ page'.documents = page.documents /\ page'.satisfied = page.satisfied
      /\ page'.listed = page.listed /\ page'.unevaluated = page.unevaluated
      /\ page.decidable \subseteq page'.decidable
      /\ Reading => page'.decidable = page.decidable \cup Decidable(f)
  BY <1>1, <1>2 DEF Evaluated, Typed, Pages
<1>4. Typed'
  BY <1>1, <1>3 DEF Evaluated, Typed
<1>5. ReadsDecided'
  <2>1. Running' = Running
    BY <1>1 DEF Running
  <2>2. \A q \in Running : \A k \in Decidable(f) : <<q, k>> \in decided'
    BY <1>1
  <2>. SUFFICES ASSUME NEW q \in Running
                PROVE  Covered(recalc[q], {k \in Rule : <<q, k>> \in decided'})
    BY <1>1, <2>1, <2>2 DEF ReadsDecided, Covered
  <2>3. Covered(recalc[q], {k \in Rule : <<q, k>> \in decided})
    BY DEF Evaluated, ReadsDecided
  <2>4. {k \in Rule : <<q, k>> \in decided} \subseteq {k \in Rule : <<q, k>> \in decided'}
    BY <1>1
  <2>. QED  BY <2>3, <2>4 DEF Covered
<1>6. PageDecided'
  <2>1. Reading' = Reading
    BY <1>3 DEF Reading
  <2>2. Reading => Covered(page'.reads, page'.decidable)
    BY <1>3 DEF Evaluated, PageDecided, Covered
  <2>. QED  BY <1>1, <1>3, <2>1, <2>2 DEF Evaluated, PageDecided
<1>7. ShownSatisfied' /\ UnevaluatedShown' /\ (page'.pc = "half" => page'.documents \subseteq clean')
  BY <1>1, <1>3 DEF Evaluated, ShownSatisfied, UnevaluatedShown
<1>. QED  BY <1>4, <1>5, <1>6, <1>7 DEF Evaluated

LEMMA RetireRuleEvaluated ==
    ASSUME Evaluated, NEW rule \in Rule, RetireRule(rule)
    PROVE  Evaluated'
<1>1. active' \subseteq active /\ UNCHANGED <<facts, status, clean, recalc, decided, page>>
  BY DEF RetireRule
<1>2. Typed'
  BY <1>1 DEF Evaluated, Typed
<1>. QED  BY <1>1, <1>2 DEF Evaluated, ReadsDecided, Running, PageDecided, Reading,
              ShownSatisfied, UnevaluatedShown

LEMMA DocumentCleanEvaluated ==
    ASSUME Evaluated, NEW d \in Doc, NEW k \in Rule, DocumentClean(d, k)
    PROVE  Evaluated'
<1>1. /\ clean' = clean \cup {<<d, k>>}
      /\ UNCHANGED <<facts, active, status, recalc, decided, page>>
  BY DEF DocumentClean
<1>2. Typed'
  BY <1>1 DEF Evaluated, Typed
<1>. QED  BY <1>1, <1>2 DEF Evaluated, ReadsDecided, Running, PageDecided, Reading,
              ShownSatisfied, UnevaluatedShown

-----------------------------------------------------------------------------
(* recalculate_requirements.                                                *)

\* A step of one recalculation that changes neither facts nor the page.
LEMMA RecalcStep ==
    ASSUME Evaluated, NEW q \in Recalc, NEW r \in Reads, recalc' = [recalc EXCEPT ![q] = r],
           UNCHANGED <<facts, active, clean, page>>,
           status' \in [Rule -> {"none", "active", "withdrawn"}],
           decided \subseteq decided',
           r.pc \notin {"new", "done", "failed"} =>
               /\ Covered(r, {k \in Rule : <<q, k>> \in decided'})
               /\ \A k \in Decidable(facts) : <<q, k>> \in decided'
    PROVE  Evaluated'
<1>1. Typed'
  BY DEF Evaluated, Typed
<1>2. ReadsDecided'
  <2>. SUFFICES ASSUME NEW p \in Running'
                PROVE  /\ Covered(recalc'[p], {k \in Rule : <<p, k>> \in decided'})
                       /\ \A k \in Decidable(facts) : <<p, k>> \in decided'
    BY DEF ReadsDecided
  <2>1. CASE p = q
    BY <2>1 DEF Evaluated, Typed, Running
  <2>2. CASE p # q
    <3>1. p \in Running /\ recalc'[p] = recalc[p]
      BY <2>2 DEF Running, Evaluated, Typed
    <3>2. Covered(recalc[p], {k \in Rule : <<p, k>> \in decided})
      BY <3>1 DEF Evaluated, ReadsDecided
    <3>3. {k \in Rule : <<p, k>> \in decided} \subseteq {k \in Rule : <<p, k>> \in decided'}
      OBVIOUS
    <3>. QED  BY <3>1, <3>2, <3>3 DEF Covered, Evaluated, ReadsDecided
  <2>. QED  BY <2>1, <2>2
<1>. QED  BY <1>1, <1>2 DEF Evaluated, PageDecided, Reading, ShownSatisfied, UnevaluatedShown

LEMMA BeginEvaluated ==
    ASSUME Evaluated, NEW q \in Recalc, Begin(q)
    PROVE  Evaluated'
<1> DEFINE r == [NoReads EXCEPT !.pc = "class"]
<1>1. r \in Reads /\ r.class = Missing /\ ~r.bond /\ r.hasBond = Missing
  BY DEF NoReads, Reads, Tri, Missing
<1>2. /\ recalc' = [recalc EXCEPT ![q] = r] /\ UNCHANGED <<facts, active, status, clean, page>>
      /\ decided' = decided \cup ({q} \X Decidable(facts))
  BY DEF Begin, Read
<1>3. Covered(r, {k \in Rule : <<q, k>> \in decided'})
  BY <1>1 DEF Covered
<1>4. \A k \in Decidable(facts) : <<q, k>> \in decided'
  BY <1>2
<1>5. status' \in [Rule -> {"none", "active", "withdrawn"}]
  BY <1>2 DEF Evaluated, Typed
<1>. HIDE DEF r
<1>. QED  BY <1>1, <1>2, <1>3, <1>4, <1>5, RecalcStep

\* The fields of a running recalculation, and what its next statement adds to them.
LEMMA RunningReads ==
    ASSUME Evaluated, NEW q \in Running
    PROVE  /\ q \in Recalc /\ recalc[q] \in Reads /\ facts \in Facts
           /\ Covered(recalc[q], {k \in Rule : <<q, k>> \in decided})
           /\ \A k \in Decidable(facts) : <<q, k>> \in decided
BY DEF Evaluated, Typed, ReadsDecided, Running

LEMMA ReadClassEvaluated ==
    ASSUME Evaluated, NEW q \in Recalc, ReadClass(q)
    PROVE  Evaluated'
<1> DEFINE r == [recalc[q] EXCEPT !.pc = "bond", !.class = facts.class]
<1>1. /\ q \in Running /\ recalc' = [recalc EXCEPT ![q] = r]
      /\ UNCHANGED <<facts, active, status, clean, page, decided>>
  BY DEF ReadClass, Read, Running
<1>2. /\ r \in Reads /\ r.class = facts.class /\ r.bond = recalc[q].bond
      /\ r.hasBond = recalc[q].hasBond
  BY <1>1, RunningReads DEF Reads, Facts
<1>3. Covered(r, {k \in Rule : <<q, k>> \in decided'})
  BY <1>1, <1>2, RunningReads, DecidableRules DEF Covered
<1>4. status' \in [Rule -> {"none", "active", "withdrawn"}]
  BY <1>1 DEF Evaluated, Typed
<1>. HIDE DEF r
<1>. QED  BY <1>1, <1>2, <1>3, <1>4, RunningReads, RecalcStep

LEMMA ReadBondEvaluated ==
    ASSUME Evaluated, NEW q \in Recalc, ReadBond(q)
    PROVE  Evaluated'
<1> DEFINE r == [recalc[q] EXCEPT !.pc = "loan", !.bond = facts.bond]
<1>1. /\ q \in Running /\ recalc' = [recalc EXCEPT ![q] = r]
      /\ UNCHANGED <<facts, active, status, clean, page, decided>>
  BY DEF ReadBond, Read, Running
<1>2. /\ r \in Reads /\ r.class = recalc[q].class /\ r.bond = facts.bond
      /\ r.hasBond = recalc[q].hasBond
  BY <1>1, RunningReads DEF Reads, Facts
<1>3. Covered(r, {k \in Rule : <<q, k>> \in decided'})
  BY <1>1, <1>2, RunningReads, DecidableRules DEF Covered
<1>4. status' \in [Rule -> {"none", "active", "withdrawn"}]
  BY <1>1 DEF Evaluated, Typed
<1>. HIDE DEF r
<1>. QED  BY <1>1, <1>2, <1>3, <1>4, RunningReads, RecalcStep

LEMMA ReadLoanEvaluated ==
    ASSUME Evaluated, NEW q \in Recalc, ReadLoan(q)
    PROVE  Evaluated'
<1> DEFINE has == HasBond(recalc[q].bond, facts.loan)
           r == [recalc[q] EXCEPT !.pc = "rules", !.hasBond = has]
<1>1. /\ q \in Running /\ recalc' = [recalc EXCEPT ![q] = r]
      /\ UNCHANGED <<facts, active, status, clean, page, decided>>
  BY DEF ReadLoan, Read, Running
<1>2. recalc[q].bond \in BOOLEAN /\ facts.loan \in {Missing, "zero", "positive"}
  BY <1>1, RunningReads DEF Reads, Facts
<1>3. has \in Tri /\ (has # Missing => recalc[q].bond \/ facts.loan # Missing)
  BY <1>2, HasBondOfFacts
<1>. HIDE DEF has
<1>4. r \in Reads /\ r.class = recalc[q].class /\ r.bond = recalc[q].bond /\ r.hasBond = has
  BY <1>1, <1>3, RunningReads DEF Reads, Facts
<1>5. Covered(r, {k \in Rule : <<q, k>> \in decided'})
  BY <1>1, <1>3, <1>4, RunningReads, DecidableRules DEF Covered
<1>6. status' \in [Rule -> {"none", "active", "withdrawn"}]
  BY <1>1 DEF Evaluated, Typed
<1>. HIDE DEF r
<1>. QED  BY <1>1, <1>4, <1>5, <1>6, RunningReads, RecalcStep

LEMMA ReadRulesEvaluated ==
    ASSUME Evaluated, NEW q \in Recalc, ReadRules(q)
    PROVE  Evaluated'
<1> DEFINE r == [recalc[q] EXCEPT !.pc = "apply", !.rules = active]
<1>1. /\ q \in Running /\ recalc' = [recalc EXCEPT ![q] = r]
      /\ UNCHANGED <<facts, active, status, clean, page, decided>>
  BY DEF ReadRules, Read, Running
<1>2. active \subseteq Rule
  BY DEF Evaluated, Typed
<1>3. /\ r \in Reads /\ r.class = recalc[q].class /\ r.bond = recalc[q].bond
      /\ r.hasBond = recalc[q].hasBond
  BY <1>1, <1>2, RunningReads DEF Reads
<1>4. Covered(r, {k \in Rule : <<q, k>> \in decided'})
  BY <1>1, <1>3, RunningReads DEF Covered
<1>5. status' \in [Rule -> {"none", "active", "withdrawn"}]
  BY <1>1 DEF Evaluated, Typed
<1>. HIDE DEF r
<1>. QED  BY <1>1, <1>3, <1>4, <1>5, RunningReads, RecalcStep

LEMMA ApplyEvaluated ==
    ASSUME Evaluated, NEW q \in Recalc, Apply(q)
    PROVE  Evaluated'
<1> DEFINE r == [recalc[q] EXCEPT !.pc = "done"]
<1>1. /\ recalc' = [recalc EXCEPT ![q] = r] /\ UNCHANGED <<facts, active, clean, page, decided>>
      /\ recalc[q] \in Reads
  BY DEF Apply, Evaluated, Typed
<1>2. r \in Reads /\ r.pc = "done"
  BY <1>1 DEF Reads
<1>3. status' \in [Rule -> {"none", "active", "withdrawn"}]
  BY DEF Apply, Evaluated, Typed
<1>. HIDE DEF r
<1>. QED  BY <1>1, <1>2, <1>3, RecalcStep

LEMMA FailsEvaluated ==
    ASSUME Evaluated, NEW q \in Recalc, Fails(q)
    PROVE  Evaluated'
<1> DEFINE r == [NoReads EXCEPT !.pc = "failed"]
<1>1. /\ recalc' = [recalc EXCEPT ![q] = r]
      /\ UNCHANGED <<facts, active, status, clean, page, decided>>
  BY DEF Fails, Read
<1>2. r \in Reads /\ r.pc = "failed"
  BY DEF NoReads, Reads, Tri, Missing
<1>3. status' \in [Rule -> {"none", "active", "withdrawn"}]
  BY <1>1 DEF Evaluated, Typed
<1>. HIDE DEF r
<1>. QED  BY <1>1, <1>2, <1>3, RecalcStep

-----------------------------------------------------------------------------
(* The documents route.                                                     *)

\* A step of the page alone.
LEMMA PageStep ==
    ASSUME Evaluated, UNCHANGED <<facts, active, status, clean, recalc, decided>>, page' \in Pages,
           PageDecided', page'.pc = "half" => page'.documents \subseteq clean,
           ShownSatisfied', UnevaluatedShown'
    PROVE  Evaluated'
<1>1. Typed'
  BY DEF Evaluated, Typed
<1>2. ReadsDecided'
  BY DEF Evaluated, ReadsDecided, Running
<1>. QED  BY <1>1, <1>2 DEF Evaluated

LEMMA ListDocumentsEvaluated ==
    ASSUME Evaluated, ListDocuments
    PROVE  Evaluated'
<1>1. /\ page.pc = "new" /\ UNCHANGED <<facts, active, status, clean, recalc, decided>>
      /\ page' = [[page EXCEPT !.documents = clean] EXCEPT !.pc = "half"]
  BY DEF ListDocuments, PageReads, FirstStatement
<1>2. page \in Pages /\ clean \subseteq Doc \X Rule /\ page.reads = NoReads
  BY <1>1 DEF Evaluated, Typed, PageDecided
<1>3. /\ page' \in Pages /\ page'.pc = "half" /\ page'.documents = clean
      /\ page'.reads = page.reads
  BY <1>1, <1>2 DEF Pages
<1>4. PageDecided' /\ ShownSatisfied' /\ UnevaluatedShown'
  BY <1>2, <1>3 DEF PageDecided, Reading, ShownSatisfied, UnevaluatedShown
<1>. QED  BY <1>1, <1>3, <1>4, PageStep

LEMMA ListRequirementsEvaluated ==
    ASSUME Evaluated, ListRequirements, Flags \in BOOLEAN
    PROVE  Evaluated'
<1> DEFINE listed == {k \in Rule : status[k] # "none"}
           pc == IF Flags THEN "class" ELSE "done"
           decidable == IF Flags THEN Decidable(facts) ELSE {}
<1>1. /\ page.pc = "half" /\ UNCHANGED <<facts, active, status, clean, recalc, decided>>
      /\ page' = [[page EXCEPT !.listed = listed, !.satisfied = Satisfied(listed)]
                     EXCEPT !.pc = pc, !.decidable = decidable]
  BY DEF ListRequirements, PageReads, FirstStatement
<1>2. /\ page \in Pages /\ facts \in Facts /\ page.reads = NoReads
      /\ page.documents \subseteq clean
  BY <1>1 DEF Evaluated, Typed, PageDecided
<1>3. decidable \subseteq Rule /\ Satisfied(listed) \subseteq Rule
  BY <1>2, DecidableRules DEF Satisfied
<1>4. pc \in {"class", "done"} /\ (pc = "done" => ~Flags) /\ (pc = "class" => Flags)
  OBVIOUS
<1>. HIDE DEF pc, decidable
<1>5. /\ page' \in Pages /\ page'.pc = pc /\ page'.documents = page.documents
      /\ page'.listed = listed /\ page'.satisfied = Satisfied(listed)
      /\ page'.reads = page.reads /\ page'.decidable = decidable
  BY <1>1, <1>2, <1>3, <1>4 DEF Pages
<1>6. ShownSatisfied'
  BY <1>2, <1>5 DEF ShownSatisfied, Satisfied
<1>7. UnevaluatedShown'
  BY <1>4, <1>5 DEF UnevaluatedShown
<1>8. PageDecided'
  <2>1. Covered(NoReads, decidable)
    BY DEF Covered, NoReads
  <2>2. pc = "class" => Decidable(facts) \subseteq decidable
    BY <1>4 DEF decidable
  <2>. QED  BY <1>1, <1>2, <1>4, <1>5, <2>1, <2>2 DEF PageDecided, Reading
<1>9. page'.pc # "half"
  BY <1>4, <1>5
<1>. QED  BY <1>1, <1>5, <1>6, <1>7, <1>8, <1>9, PageStep

\* A statement of the evaluation flags reads facts that can be decided now.
LEMMA FlagStep ==
    ASSUME Evaluated, Reading, UNCHANGED <<facts, active, status, clean, recalc, decided>>,
           NEW pc \in {"bond", "loan", "rules"}, NEW r \in Reads,
           page' = [page EXCEPT !.pc = pc, !.reads = r],
           Covered(r, page.decidable)
    PROVE  Evaluated'
<1>1. page \in Pages /\ page.pc \in {"class", "bond", "loan", "rules"}
  BY DEF Evaluated, Typed, Reading
<1>2. /\ page' \in Pages /\ page'.pc = pc /\ page'.reads = r /\ page'.decidable = page.decidable
      /\ page'.documents = page.documents /\ page'.listed = page.listed
      /\ page'.satisfied = page.satisfied
  BY <1>1 DEF Pages
<1>3. PageDecided'
  BY <1>2 DEF PageDecided, Reading, Evaluated
<1>4. ShownSatisfied' /\ UnevaluatedShown'
  BY <1>1, <1>2 DEF Evaluated, ShownSatisfied, UnevaluatedShown
<1>. QED  BY <1>2, <1>3, <1>4, PageStep

\* What the next statement adds to what the page has read.
LEMMA ReadingPage ==
    ASSUME Evaluated, Reading
    PROVE  /\ page \in Pages /\ page.reads \in Reads /\ facts \in Facts
           /\ Covered(page.reads, page.decidable) /\ Decidable(facts) \subseteq page.decidable
BY DEF Evaluated, Typed, PageDecided, Pages

LEMMA FlagClassEvaluated ==
    ASSUME Evaluated, FlagClass
    PROVE  Evaluated'
<1> DEFINE r == [page.reads EXCEPT !.class = facts.class]
<1>1. Reading /\ UNCHANGED <<facts, active, status, clean, recalc, decided>>
  BY DEF FlagClass, Reading
<1>2. page' = [page EXCEPT !.pc = "bond", !.reads = r]
  BY <1>1, ReadingPage DEF FlagClass, Pages, Reads
<1>3. r \in Reads /\ r.class = facts.class /\ r.bond = page.reads.bond /\ r.hasBond = page.reads.hasBond
  BY <1>1, ReadingPage DEF Reads, Facts
<1>4. Covered(r, page.decidable)
  BY <1>1, <1>3, ReadingPage, DecidableRules DEF Covered
<1>. HIDE DEF r
<1>. QED  BY <1>1, <1>2, <1>3, <1>4, FlagStep

LEMMA FlagBondEvaluated ==
    ASSUME Evaluated, FlagBond
    PROVE  Evaluated'
<1> DEFINE r == [page.reads EXCEPT !.bond = facts.bond]
<1>1. Reading /\ UNCHANGED <<facts, active, status, clean, recalc, decided>>
  BY DEF FlagBond, Reading
<1>2. page' = [page EXCEPT !.pc = "loan", !.reads = r]
  BY <1>1, ReadingPage DEF FlagBond, Pages, Reads
<1>3. r \in Reads /\ r.class = page.reads.class /\ r.bond = facts.bond /\ r.hasBond = page.reads.hasBond
  BY <1>1, ReadingPage DEF Reads, Facts
<1>4. Covered(r, page.decidable)
  BY <1>1, <1>3, ReadingPage, DecidableRules DEF Covered
<1>. HIDE DEF r
<1>. QED  BY <1>1, <1>2, <1>3, <1>4, FlagStep

LEMMA FlagLoanEvaluated ==
    ASSUME Evaluated, FlagLoan
    PROVE  Evaluated'
<1> DEFINE has == HasBond(page.reads.bond, facts.loan)
           r == [page.reads EXCEPT !.hasBond = has]
<1>1. Reading /\ UNCHANGED <<facts, active, status, clean, recalc, decided>>
  BY DEF FlagLoan, Reading
<1>2. page' = [page EXCEPT !.pc = "rules", !.reads = r]
  BY <1>1, ReadingPage DEF FlagLoan, Pages, Reads
<1>3. page.reads.bond \in BOOLEAN /\ facts.loan \in {Missing, "zero", "positive"}
  BY <1>1, ReadingPage DEF Reads, Facts
<1>4. has \in Tri /\ (has # Missing => page.reads.bond \/ facts.loan # Missing)
  BY <1>3, HasBondOfFacts
<1>. HIDE DEF has
<1>5. r \in Reads /\ r.class = page.reads.class /\ r.bond = page.reads.bond /\ r.hasBond = has
  BY <1>1, <1>4, ReadingPage DEF Reads, Facts
<1>6. Covered(r, page.decidable)
  BY <1>1, <1>4, <1>5, ReadingPage, DecidableRules DEF Covered
<1>. HIDE DEF r
<1>. QED  BY <1>1, <1>2, <1>5, <1>6, FlagStep

LEMMA FlagRulesEvaluated ==
    ASSUME Evaluated, FlagRules
    PROVE  Evaluated'
<1> DEFINE left == {r \in active : ~ruleEvaluable(r, page.reads.class, page.reads.hasBond)}
<1>1. /\ Reading /\ UNCHANGED <<facts, active, status, clean, recalc, decided>>
      /\ page' = [page EXCEPT !.pc = "done", !.unevaluated = left]
  BY DEF FlagRules, Reading
<1>2. left \subseteq Rule /\ active \subseteq Rule
  BY DEF Evaluated, Typed
<1>3. \A r \in active : r \in left \/ r \in page.decidable
  <2>. SUFFICES ASSUME NEW r \in active, r \notin left
                PROVE  r \in page.decidable
    OBVIOUS
  <2>1. r \in Rule /\ ruleEvaluable(r, page.reads.class, page.reads.hasBond)
    BY <1>2
  <2>2. Covered(page.reads, page.decidable) /\ "baseline" \in page.decidable
    BY <1>1, ReadingPage, DecidableRules
  <2>. QED  BY <2>1, <2>2, EvaluableCovered
<1>. HIDE DEF left
<1>4. page \in Pages /\ page.pc \in {"class", "bond", "loan", "rules"}
  BY <1>1, ReadingPage DEF Reading
<1>5. /\ page' \in Pages /\ page'.pc = "done" /\ page'.unevaluated = left
      /\ page'.decidable = page.decidable /\ page'.documents = page.documents
      /\ page'.listed = page.listed /\ page'.satisfied = page.satisfied
  BY <1>1, <1>2, <1>4 DEF Pages
<1>6. PageDecided' /\ ShownSatisfied' /\ UnevaluatedShown'
  BY <1>1, <1>3, <1>4, <1>5 DEF Evaluated, PageDecided, Reading, ShownSatisfied, UnevaluatedShown
<1>. QED  BY <1>1, <1>5, <1>6, PageStep

-----------------------------------------------------------------------------
LEMMA NextEvaluated ==
    ASSUME Flags \in BOOLEAN, Evaluated, [Next]_vars
    PROVE  Evaluated'
<1>1. CASE \E f \in Facts : ChangeFacts(f)
  BY <1>1, ChangeFactsEvaluated
<1>2. CASE \E rule \in Rule : RetireRule(rule)
  BY <1>2, RetireRuleEvaluated
<1>3. CASE \E d \in Doc, k \in Rule : DocumentClean(d, k)
  BY <1>3, DocumentCleanEvaluated
<1>4. CASE \E q \in Recalc : \/ Begin(q) \/ ReadClass(q) \/ ReadBond(q) \/ ReadLoan(q)
                             \/ ReadRules(q) \/ Apply(q) \/ Fails(q)
  BY <1>4, BeginEvaluated, ReadClassEvaluated, ReadBondEvaluated, ReadLoanEvaluated,
     ReadRulesEvaluated, ApplyEvaluated, FailsEvaluated
<1>5. CASE ListDocuments \/ ListRequirements
  BY <1>5, ListDocumentsEvaluated, ListRequirementsEvaluated
<1>6. CASE FlagClass \/ FlagBond \/ FlagLoan \/ FlagRules
  BY <1>6, FlagClassEvaluated, FlagBondEvaluated, FlagLoanEvaluated, FlagRulesEvaluated
<1>7. CASE UNCHANGED vars
  BY <1>7 DEF vars, Evaluated, Typed, ReadsDecided, Running, PageDecided, Reading, ShownSatisfied,
              UnevaluatedShown
<1>. QED  BY <1>1, <1>2, <1>3, <1>4, <1>5, <1>6, <1>7, Zenon DEF Next

\* Only a recalculation that ends touches requirements, and only those it evaluated.
LEMMA StepTouchesDecided ==
    ASSUME Evaluated, [Next]_vars
    PROVE  [TouchesDecided]_vars
<1>. SUFFICES ASSUME NEW k \in Rule, status'[k] # status[k]
              PROVE  \E q \in Recalc : /\ recalc[q].pc = "apply" /\ recalc'[q].pc = "done"
                                       /\ <<q, k>> \in decided
  BY DEF TouchesDecided
<1>1. PICK q \in Recalc : Apply(q)
  BY Zenon DEF Next, vars, ChangeFacts, RetireRule, DocumentClean, Begin, ReadClass, ReadBond,
     ReadLoan, ReadRules, Fails, Read, ListDocuments, ListRequirements, FlagClass, FlagBond,
     FlagLoan, FlagRules
<1>2. q \in Running /\ recalc[q].pc = "apply" /\ recalc'[q].pc = "done"
  BY <1>1 DEF Apply, Running, Evaluated, Typed, Reads
<1>3. k \in Evaluable(q)
  BY <1>1 DEF Apply, Applicable
<1>4. ruleEvaluable(k, recalc[q].class, recalc[q].hasBond)
  BY <1>3 DEF Evaluable
<1>5. "baseline" \in Decidable(facts)
  BY <1>2, RunningReads, DecidableRules
<1>6. k \in {j \in Rule : <<q, j>> \in decided}
  <2> DEFINE D == {j \in Rule : <<q, j>> \in decided}
  <2>1. Covered(recalc[q], D) /\ "baseline" \in D
    BY <1>2, <1>5, RunningReads DEF Rule
  <2>. HIDE DEF D
  <2>2. k \in D
    BY <1>4, <2>1, EvaluableCovered
  <2>. QED  BY <2>2 DEF D
<1>. QED  BY <1>2, <1>6

\* An unevaluated rule is never treated as not required: whatever changes between its
\* statements, a recalculation touches the requirement of a rule only if the rule could
\* be decided at some moment while it ran.
THEOREM RequirementsUnevaluatedKept ==
    ASSUME Flags \in BOOLEAN
    PROVE  Spec => UnevaluatedKept
<1>. QED  BY InitEvaluated, NextEvaluated, StepTouchesDecided, PTL DEF Spec, UnevaluatedKept

\* A requirement on the page is satisfied if a clean document for it is on the page.
THEOREM RequirementsShownSatisfied ==
    ASSUME Flags \in BOOLEAN
    PROVE  Spec => []ShownSatisfied
<1>1. Evaluated => ShownSatisfied
  BY DEF Evaluated
<1>. QED  BY <1>1, InitEvaluated, NextEvaluated, PTL DEF Spec

\* A rule the page does not report as unevaluated could be decided while it was read.
THEOREM RequirementsUnevaluatedShown ==
    ASSUME Flags \in BOOLEAN
    PROVE  Spec => []UnevaluatedShown
<1>1. Evaluated => UnevaluatedShown
  BY DEF Evaluated
<1>. QED  BY <1>1, InitEvaluated, NextEvaluated, PTL DEF Spec
-----------------------------------------------------------------------------
\* What the type says beyond the invariant: recalculations decide rules, changes are
\* bounded, and documents stay clean while they are on the page.
Bounded ==
    decided \subseteq Recalc \X Rule /\ changes \in 0..MaxChanges /\ page.documents \subseteq clean

LEMMA NextBounded ==
    ASSUME MaxChanges \in Nat, Evaluated, Bounded, [Next]_vars
    PROVE  Bounded'
<1>1. CASE \E f \in Facts : ChangeFacts(f)
  <2>1. PICK f \in Facts : ChangeFacts(f)
    BY <1>1
  <2>2. page'.documents = page.documents
    BY <2>1 DEF ChangeFacts, Evaluated, Typed, Pages
  <2>3. Running \X Decidable(f) \subseteq Recalc \X Rule
    BY <2>1, DecidableRules DEF Running
  <2>. QED  BY <2>1, <2>2, <2>3 DEF ChangeFacts, Bounded
<1>2. CASE \E rule \in Rule : RetireRule(rule)
  BY <1>2 DEF RetireRule, Bounded
<1>3. CASE \E d \in Doc, k \in Rule : DocumentClean(d, k)
  BY <1>3 DEF DocumentClean, Bounded
<1>4. CASE \E q \in Recalc : Begin(q)
  <2>1. PICK q \in Recalc : Begin(q)
    BY <1>4
  <2>2. {q} \X Decidable(facts) \subseteq Recalc \X Rule
    BY DecidableRules DEF Evaluated, Typed
  <2>. QED  BY <2>1, <2>2 DEF Begin, Read, Bounded
<1>5. CASE \E q \in Recalc : \/ ReadClass(q) \/ ReadBond(q) \/ ReadLoan(q) \/ ReadRules(q)
                             \/ Apply(q) \/ Fails(q)
  BY <1>5 DEF ReadClass, ReadBond, ReadLoan, ReadRules, Apply, Fails, Read, Bounded
<1>6. CASE ListDocuments
  BY <1>6 DEF ListDocuments, PageReads, FirstStatement, Bounded, Evaluated, Typed, Pages
<1>7. CASE ListRequirements
  <2>1. page'.documents = page.documents
    BY <1>7 DEF ListRequirements, PageReads, FirstStatement, Evaluated, Typed, Pages
  <2>. QED  BY <1>7, <2>1 DEF ListRequirements, Bounded
<1>8. CASE FlagClass \/ FlagBond \/ FlagLoan \/ FlagRules
  <2>1. page'.documents = page.documents
    BY <1>8 DEF FlagClass, FlagBond, FlagLoan, FlagRules, Evaluated, Typed, Pages
  <2>. QED  BY <1>8, <2>1 DEF FlagClass, FlagBond, FlagLoan, FlagRules, Bounded
<1>9. CASE UNCHANGED vars
  BY <1>9 DEF vars, Bounded
<1>. QED  BY <1>1, <1>2, <1>3, <1>4, <1>5, <1>6, <1>7, <1>8, <1>9, Zenon DEF Next

\* The requirements of a matter, what recalculations have read and decided, and the
\* page have their types.
THEOREM RequirementsTypeOK ==
    ASSUME Flags \in BOOLEAN, MaxChanges \in Nat
    PROVE  Spec => []TypeOK
<1>1. Init => Bounded
  BY DEF Init, Bounded
<1>2. Evaluated /\ Bounded => TypeOK
  BY DEF Evaluated, Typed, Pages, Reads, Bounded, TypeOK
<1>. QED  BY <1>1, <1>2, InitEvaluated, NextEvaluated, NextBounded, PTL DEF Spec
=============================================================================

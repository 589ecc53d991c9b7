------------------------------- MODULE Tariffs -------------------------------
(***************************************************************************)
(* What a transfer and a bond cost.  The schedules and the statement       *)
(* generator of src/utils/conveyancingAccounts.ts, the calculator page that*)
(* shows them (src/pages/AccountsCalculator.tsx) with the view in which the*)
(* statement is edited (ProformaStatementView), the quick calculation of   *)
(* the server (accounts.ts) and the estimate of the wizard                 *)
(* (src/utils/transferCalculations.ts).  Amounts are whole rand, as the    *)
(* inputs of the run are; a rate is a number of percent, and Math.round is *)
(* rounding half up.                                                       *)
(***************************************************************************)
EXTENDS FiniteSets, FiniteSetsExt, Functions, Integers, Sequences

CONSTANTS
    Price,       \* purchase prices that are entered
    Deeds,       \* numbers of deeds that are entered
    Multiplier   \* tariff multipliers of a firm, in percent

VARIABLES
    firm,      \* settings and active tariff once loaded
    input,     \* what is entered
    proforma   \* the statement generated; bound: one, and two edits end the visit

vars == <<firm, input, proforma>>

Round(x) == (x + 50) \div 100
Ceil(x, step) == (x + step - 1) \div step
Total(f) == SumFunction(f)

-----------------------------------------------------------------------------
(* The schedules: brackets in order, each from its threshold on.            *)

SARS == <<
    [from |-> 0,        base |-> 0,       rate |-> 0],
    [from |-> 1100000,  base |-> 0,       rate |-> 3],
    [from |-> 1512500,  base |-> 12375,   rate |-> 6],
    [from |-> 2117500,  base |-> 48675,   rate |-> 8],
    [from |-> 2722500,  base |-> 97075,   rate |-> 11],
    [from |-> 12100000, base |-> 1128600, rate |-> 13]>>

LSSA2026 == <<
    [from |-> 0,       base |-> 4700,  step |-> 0,       fee |-> 0],
    [from |-> 100000,  base |-> 4700,  step |-> 50000,   fee |-> 800],
    [from |-> 500000,  base |-> 11100, step |-> 100000,  fee |-> 1200],
    [from |-> 1000000, base |-> 17100, step |-> 200000,  fee |-> 1600],
    [from |-> 5000000, base |-> 49100, step |-> 1000000, fee |-> 4000]>>

LSSA2025 == <<
    [from |-> 0,       base |-> 4400,  step |-> 0,       fee |-> 0],
    [from |-> 100000,  base |-> 4400,  step |-> 50000,   fee |-> 750],
    [from |-> 500000,  base |-> 10400, step |-> 100000,  fee |-> 1100],
    [from |-> 1000000, base |-> 15900, step |-> 200000,  fee |-> 1500],
    [from |-> 5000000, base |-> 45900, step |-> 1000000, fee |-> 3750]>>

Item1b == <<
    [from |-> 0, fee |-> 55],           [from |-> 100000, fee |-> 118],
    [from |-> 200000, fee |-> 700],     [from |-> 300000, fee |-> 882],
    [from |-> 600000, fee |-> 1274],    [from |-> 800000, fee |-> 1460],
    [from |-> 1000000, fee |-> 1760],   [from |-> 2000000, fee |-> 2096],
    [from |-> 4000000, fee |-> 2940],   [from |-> 6000000, fee |-> 3767],
    [from |-> 8000000, fee |-> 4611],   [from |-> 10000000, fee |-> 5862],
    [from |-> 15000000, fee |-> 7025],  [from |-> 20000000, fee |-> 8390],
    [from |-> 30000000, fee |-> 10064]>>

\* Item 1(d), of notarial bonds, is the same list.
Item1c == <<
    [from |-> 0, fee |-> 520],          [from |-> 150000, fee |-> 667],
    [from |-> 300000, fee |-> 836],     [from |-> 600000, fee |-> 1211],
    [from |-> 800000, fee |-> 1385],    [from |-> 1000000, fee |-> 1675],
    [from |-> 2000000, fee |-> 2096],   [from |-> 4000000, fee |-> 2940],
    [from |-> 6000000, fee |-> 3767],   [from |-> 8000000, fee |-> 4611],
    [from |-> 10000000, fee |-> 5862],  [from |-> 15000000, fee |-> 7025],
    [from |-> 20000000, fee |-> 8390],  [from |-> 30000000, fee |-> 10064]>>

\* Of the fees for a certificate, a cancellation, a lost deed or a search.
AdhocFees == {700, 520, 650, 50}

\* Lower end exclusive except for the first bracket, upper end inclusive.
Matched(brackets, value) ==
    brackets[Max({1} \cup {i \in DOMAIN brackets : value > brackets[i].from})]

\* Faulty variant: only full steps are charged.
FullSteps(value, schedule, multiplier) ==
    LET b == Matched(schedule, value)
    IN  Round(multiplier * (b.base + IF b.step = 0 THEN 0
                                     ELSE b.fee * ((value - b.from) \div b.step)))

calculateConveyancingFee(value, schedule, multiplier) ==
    LET b == Matched(schedule, value)
    IN  Round(multiplier * (b.base + IF b.step = 0 THEN 0
                                     ELSE b.fee * Ceil(value - b.from, b.step)))

\* Faulty variant: the rate of the bracket applies to the whole value.
WholeValue(value, isVatTransaction) ==
    LET b == Matched(SARS, value)
    IN  IF isVatTransaction THEN 0 ELSE Round(100 * b.base + b.rate * value)

calculateTransferDuty(value, isVatTransaction) ==
    LET b == Matched(SARS, value)
    IN  IF isVatTransaction THEN 0 ELSE Round(100 * b.base + b.rate * (value - b.from))

\* Item 1(a) is R52 for each deed, at least one.
calculateDeedsOfficeFee(value, schedule, count) == Matched(schedule, value).fee + 52 * Max({1, count})

-----------------------------------------------------------------------------
(* Disbursements and the statement.                                         *)

\* office: of the category admin or compliance.
Disbursement == {
    [code |-> "FICA", amount |-> 450, vat |-> TRUE, rule |-> "always", office |-> TRUE],
    [code |-> "POST_PETTY", amount |-> 850, vat |-> TRUE, rule |-> "always", office |-> TRUE],
    [code |-> "DOC_GEN", amount |-> 650, vat |-> TRUE, rule |-> "always", office |-> TRUE],
    [code |-> "DEEDS_SEARCH", amount |-> 250, vat |-> TRUE, rule |-> "always", office |-> FALSE],
    [code |-> "RATES_CERT", amount |-> 1150, vat |-> FALSE, rule |-> "rates", office |-> FALSE],
    [code |-> "HOA_CONSENT", amount |-> 950, vat |-> FALSE, rule |-> "sectional", office |-> TRUE],
    [code |-> "GOLDEN_RECORD_SEARCH", amount |-> 350, vat |-> TRUE, rule |-> "golden", office |-> FALSE],
    [code |-> "BOND_ADMIN", amount |-> 950, vat |-> TRUE, rule |-> "bond", office |-> TRUE],
    [code |-> "ELECTRONIC_INSTRUCTION", amount |-> 450, vat |-> TRUE, rule |-> "bond", office |-> TRUE]}

\* 15 percent, of a firm that is registered.
Vat(amount, registered) == IF registered THEN Round(15 * amount) ELSE 0

Line(d, registered) == [code |-> d.code, amount |-> d.amount, vat |-> d.vat,
                        charged |-> IF d.vat THEN Vat(d.amount, registered) ELSE 0]
Amounts(lines) == Total([l \in lines |-> l.amount])
Charges(lines) == Total([l \in lines |-> l.charged])
Credits(cs)    == Total([c \in cs |-> c])

\* context: what holds of the matter; of a bond, only the firm's own lines and its rules.
evaluateDisbursements(enabled, context, registered) ==
    {Line(d, registered) : d \in {e \in enabled :
        \/ e.rule = "always" /\ ("bond" \in context => e.office)
        \/ e.rule = "rates" /\ "rates" \in context /\ "bond" \notin context
        \/ e.rule \in context \ {"rates"}}}

generateProformaStatement(i, f, context) ==
    LET fee    == calculateConveyancingFee(i.price, f.tariff, f.multiplier)
        duty   == calculateTransferDuty(i.price, i.vatSale)
        deeds  == calculateDeedsOfficeFee(i.price, Item1b, i.deeds)
        lines  == evaluateDisbursements(f.enabled, context \cup {"rates"}, f.registered)
        feeVat == Vat(fee, f.registered)
        costs  == fee + feeVat + duty + deeds + Amounts(lines) + Charges(lines)
    IN  [input |-> i, firm |-> f, fee |-> fee, feeVat |-> feeVat, duty |-> duty, deeds |-> deeds,
         adhoc |-> {}, lines |-> lines, credits |-> {i.deposit} \ {0},
         totalVat |-> feeVat + Charges(lines), totalCosts |-> costs,
         balanceDue |-> costs - i.deposit, edits |-> {}]

\* Every edit of the statement computes its totals anew, VAT from the amounts.
recalculateAndSave(p) ==
    LET feeVat == Vat(p.fee, p.firm.registered)
        vat    == Total([l \in p.lines |-> IF l.vat THEN Vat(l.amount, p.firm.registered) ELSE 0])
        costs  == p.fee + p.duty + p.deeds + Credits(p.adhoc) + Amounts(p.lines)
                  + feeVat + vat
    IN  [p EXCEPT !.feeVat = feeVat,
                  !.totalVat = feeVat + vat,
                  !.totalCosts = costs, !.balanceDue = costs - Credits(p.credits)]

\* The calculator's own total: every disbursement of the firm, whatever its rule.
transferCalculation(i, f) ==
    LET fee == calculateConveyancingFee(i.price, f.tariff, f.multiplier)
        all == {Line(d, f.registered) : d \in Disbursement}
    IN  fee + Vat(fee, f.registered) + calculateTransferDuty(i.price, i.vatSale)
        + calculateDeedsOfficeFee(i.price, Item1b, i.deeds) + Amounts(all) + Charges(all)

\* The lines of its bond tab.
bondDisb(f) == {Line(d, f.registered) : d \in {e \in f.enabled : e.rule = "bond" \/ e.office}}

bondCalculation(bond, f) ==
    LET fee == calculateConveyancingFee(bond, f.tariff, f.multiplier)
    IN  fee + Vat(fee, f.registered) + calculateDeedsOfficeFee(bond, Item1c, 1)
        + Amounts(bondDisb(f)) + Charges(bondDisb(f))

\* POST /calculate, of what the page knows, with the standard disbursements.
calculate(i, f, type) ==
    [fee |-> calculateConveyancingFee(i.price, f.tariff, f.multiplier),
     duty |-> calculateTransferDuty(i.price, i.vatSale),
     transferDeeds |-> calculateDeedsOfficeFee(i.price, Item1b, i.deeds),
     bondDeeds |-> calculateDeedsOfficeFee(i.price, Item1c, i.deeds),
     disbursements |-> evaluateDisbursements(Disbursement,
                           IF type = "bond" THEN {"bond"} ELSE {"rates"}, f.registered)]

\* Faulty variant: the search is not part of what bears VAT.
SearchWithoutVat(value) ==
    LET fee == calculateConveyancingFee(value, LSSA2026, 100)
    IN  fee + calculateTransferDuty(value, FALSE) + calculateDeedsOfficeFee(value, Item1b, 1)
        + Vat(fee + 850 + 450 + 650, TRUE) + 850 + 450 + 650 + 250 + 1150 + 2000

\* The wizard's estimate, of the amounts written into transferCalculations.ts:
\* one VAT on the sum, and a rates clearance of R2,000.
calculateTotalTransferCosts(value) ==
    LET fee == calculateConveyancingFee(value, LSSA2026, 100)
    IN  fee + calculateTransferDuty(value, FALSE) + calculateDeedsOfficeFee(value, Item1b, 1)
        + Vat(fee + 850 + 450 + 650 + 250, TRUE) + 850 + 450 + 650 + 250 + 1150 + 2000

-----------------------------------------------------------------------------
(* The calculator page.                                                     *)

Loading == <<>>
Input == [price : Price \cup {2500000}, deposit : {0, 250000}, vatSale : BOOLEAN, deeds : Deeds \cup {1}]
Firm  == [tariff : {LSSA2026, LSSA2025}, multiplier : Multiplier, registered : BOOLEAN,
          enabled : {Disbursement, {d \in Disbursement : d.rule # "always"}}]

TypeOK ==
    /\ firm = Loading \/ firm \in Firm
    /\ input \in Input
    /\ proforma = Loading \/ (proforma.input = input /\ proforma.firm = firm)

Init ==
    /\ firm = Loading
    /\ input = [price |-> 2500000, deposit |-> 250000, vatSale |-> FALSE, deeds |-> 1]
    /\ proforma = Loading

\* Settings and tariffs arrive together; nothing is shown before.
Load(f) ==
    /\ firm = Loading
    /\ firm' = f
    /\ UNCHANGED <<input, proforma>>

Enter(i) ==
    /\ firm # Loading /\ proforma = Loading /\ i # input
    /\ input' = i
    /\ UNCHANGED <<firm, proforma>>

handleGenerateProforma ==
    /\ firm # Loading /\ proforma = Loading
    /\ proforma' = generateProformaStatement(input, firm, {})
    /\ UNCHANGED <<firm, input>>

\* The edits of the statement, each once.
Edit(kind, p) ==
    /\ proforma # Loading /\ kind \notin proforma.edits /\ Cardinality(proforma.edits) < 2
    /\ proforma' = recalculateAndSave([p EXCEPT !.edits = @ \cup {kind}])
    /\ UNCHANGED <<firm, input>>

handleAddDisbursement(vat) ==
    LET d == [code |-> "manual", amount |-> 333, vat |-> vat]
    IN  Edit("add", [proforma EXCEPT !.lines = @ \cup {Line(d, firm.registered)}])

handleRemoveDisbursement(l) == Edit("remove", [proforma EXCEPT !.lines = @ \ {l}])

handleAddCredit == Edit("credit", [proforma EXCEPT !.credits = @ \cup {1000}])

handleRemoveCredit(c) == Edit("refund", [proforma EXCEPT !.credits = @ \ {c}])

handleAddAdhocDeedsFee(fee) == Edit("deeds", [proforma EXCEPT !.adhoc = @ \cup {fee}])

handleRemoveDeedsAdhocFee(fee) == Edit("undeeds", [proforma EXCEPT !.adhoc = @ \ {fee}])

Next ==
    \/ \E f \in Firm : Load(f)
    \/ \E i \in Input : Enter(i)
    \/ handleGenerateProforma
    \/ proforma # Loading /\
           \/ \E vat \in BOOLEAN : handleAddDisbursement(vat)
           \/ \E l \in proforma.lines : l.code \in {"FICA", "RATES_CERT"} /\ handleRemoveDisbursement(l)
           \/ handleAddCredit
           \/ \E c \in proforma.credits : handleRemoveCredit(c)
           \/ \E fee \in AdhocFees : handleAddAdhocDeedsFee(fee)
           \/ \E fee \in proforma.adhoc : handleRemoveDeedsAdhocFee(fee)

Spec == Init /\ [][Next]_vars

-----------------------------------------------------------------------------
(* Properties.                                                              *)

Upper(schedule, i) == IF i = Len(schedule) THEN {} ELSE {schedule[i + 1].from}

\* The part of a value that lies in a bracket.
Within(schedule, i, value) ==
    Max({0, Min({value} \cup Upper(schedule, i)) - schedule[i].from})

\* Reference: duty accrues bracket by bracket at its marginal rate.
AccruedDuty(value) ==
    Round(Total([i \in DOMAIN SARS |-> SARS[i].rate * Within(SARS, i, value)]))

\* Reference: the fee is the first bracket's plus every started step of every bracket.
AccruedFee(value, schedule, multiplier) ==
    LET charged == [i \in DOMAIN schedule \ {1} |->
                        schedule[i].fee * Ceil(Within(schedule, i, value), schedule[i].step)]
    IN  Round(multiplier * (schedule[1].base + Total(charged)))

\* The tables are consistent with themselves, "continuous boundary semantics"
\* (conveyancingAccounts.ts): at every price, also at the ends of the brackets,
\* base amounts and matched bracket give what accrues bracket by bracket.
FeesAccrue ==
    proforma # Loading =>
        /\ proforma.fee = AccruedFee(input.price, firm.tariff, firm.multiplier)
        /\ proforma.duty = IF input.vatSale THEN 0 ELSE AccruedDuty(input.price)

\* The two calculators of the application agree: for a firm with the default
\* settings the wizard's estimate, which has its own list of amounts, is the
\* statement's total and the R2,000 clearance the statement does not know, up
\* to R2 that the rounding of VAT line by line adds.
EstimateNearStatement ==
    /\ proforma # Loading /\ proforma.edits = {} /\ ~input.vatSale /\ input.deeds = 1
    /\ firm = [tariff |-> LSSA2026, multiplier |-> 100, registered |-> TRUE, enabled |-> Disbursement]
    => proforma.totalCosts + 2000 - calculateTotalTransferCosts(input.price) \in 0 .. 2

\* A statement adds up: its totals are those of the amounts and the VAT printed
\* on its lines, as it is generated and after whatever edits, which compute the
\* totals by another sum.
StatementAddsUp ==
    proforma # Loading =>
        LET p == proforma IN
        /\ p.totalVat = p.feeVat + Charges(p.lines)
        /\ p.totalCosts = p.fee + p.duty + p.deeds + Credits(p.adhoc) + p.totalVat
                          + Amounts(p.lines)
        /\ p.balanceDue = p.totalCosts - Credits(p.credits)

\* The page, its statement and the server agree: the page's own total exceeds the
\* statement's by the disbursements whose rule the statement applies, and fee,
\* duty, deeds office fee and lines of the server's quick calculation are those
\* of the statement; for a bond the server's lines are among the page's.
CalculatorsAgree ==
    /\ proforma # Loading /\ proforma.edits = {} =>
        LET left  == {Line(d, firm.registered) : d \in Disbursement} \ proforma.lines
            route == calculate(input, firm, "transfer")
        IN  /\ transferCalculation(input, firm) - proforma.totalCosts
                    = Amounts(left) + Charges(left)
            /\ <<route.fee, route.duty, route.transferDeeds>> = <<proforma.fee, proforma.duty, proforma.deeds>>
            /\ proforma.lines \subseteq route.disbursements
    /\ firm # Loading /\ firm.enabled = Disbursement =>
        calculate(input, firm, "bond").disbursements \subseteq bondDisb(firm)

\* No schedule makes a higher price, or a higher bond, cheaper: at the ends of the
\* brackets nothing falls.
NothingCheaperAbove ==
    firm # Loading /\ proforma = Loading =>
        \A lower \in {p \in Price : p <= input.price} :
            LET below == [input EXCEPT !.price = lower]
            IN  /\ transferCalculation(below, firm) <= transferCalculation(input, firm)
                /\ bondCalculation(lower, firm) <= bondCalculation(input.price, firm)
=============================================================================

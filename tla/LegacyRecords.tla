---------------------------- MODULE LegacyRecords ----------------------------
(***************************************************************************)
(* How one legacy row becomes one canonical row: the calculations of       *)
(* normalization.py, mapping.py, canonical.py and ap_payment_import.py     *)
(* under src/backend/domains/legacy_import, which keep no state.  Amounts  *)
(* are integers in the smallest unit of their column; a date is a number,  *)
(* NoDate when the export has none or a sentinel.                          *)
(***************************************************************************)
EXTENDS Integers, Sequences, FiniteSets, FiniteSetsExt, SequencesExt

UNKNOWN == "UNKNOWN"
NoDate == 0
-----------------------------------------------------------------------------
(* Parties *)

Role(type) ==
    CASE type = "1" -> "supplier" [] type = "2" -> "customer" [] OTHER -> "unknown"

\* The number a customer is filed under: its tax id when that has eight digits,
\* else what its code yields, its last eight digits or a checksum.  Parties whose
\* numbers coincide become one customer.
BusinessNumber(party) == IF party.taxId # 0 THEN party.taxId ELSE party.number
-----------------------------------------------------------------------------
(* Categories of products *)

\* The rules in the order they are tried; the first that fits a product's code
\* or name decides.  A product of stock kind 6 is not merchandise at all.
Rules == << "name-token-non-merchandise",
            "code-prefix-belt-supplies", "name-token-belt-supplies",
            "code-prefix-variable-speed-belts", "name-token-variable-speed-belts",
            "code-prefix-ribbed-belts", "name-token-ribbed-belts",
            "code-prefix-timing-belts", "name-token-timing-belts",
            "code-prefix-vehicle-belts", "name-token-vehicle-belts",
            "code-prefix-v-belts", "name-token-v-belts",
            "code-prefix-flat-specialty-belts", "name-token-flat-specialty-belts" >>
CategoryOf == << "Non-Merchandise", "Belt Supplies", "Belt Supplies",
                 "Variable-Speed Belts", "Variable-Speed Belts",
                 "Ribbed Belts", "Ribbed Belts", "Timing Belts", "Timing Belts",
                 "Vehicle Belts", "Vehicle Belts", "V-Belts", "V-Belts",
                 "Flat / Specialty Belts", "Flat / Specialty Belts" >>

Derivation(category, source) == [category |-> category, source |-> source]

Derive(product) ==
    LET fitting == {r \in DOMAIN Rules : Rules[r] \in product.fits}
        first == CategoryOf[Min(fitting)]
    IN  IF product.kind = "6" THEN Derivation("Non-Merchandise", "exclusion_rule")
        ELSE IF fitting = {}
             THEN Derivation("Other Power Transmission", "fallback_rule")
        ELSE Derivation(first, IF first = "Non-Merchandise"
                               THEN "exclusion_rule" ELSE "heuristic_rule")

Resolve(product, overrides) ==
    IF product.code \in DOMAIN overrides
    THEN Derivation(overrides[product.code], "manual_override")
    ELSE Derive(product)

\* Every rule is confident enough; what is excluded or left over is reviewed.
NeedsReview(derivation) == derivation.source \in {"fallback_rule", "exclusion_rule"}
-----------------------------------------------------------------------------
(* Product codes of sales lines *)

Mapping(target, resolution, approval, batch) ==
    [target |-> target, resolution |-> resolution, approval |-> approval, batch |-> batch]

Seeded_Anew(code, known, old, batch) ==
    IF code \in known THEN Mapping(code, "exact_match", "seed-exact-match", batch)
    ELSE Mapping(UNKNOWN, "unknown", "none", batch)

\* The seed of a code, which leaves what an analyst has decided alone and keeps
\* the approval of an earlier exact match.
Seeded(code, known, old, batch) ==
    LET exact == code \in known
        kept == IF old = << >> THEN "none" ELSE old[1].approval
    IN  IF kept = "review-import" THEN [old[1] EXCEPT !.batch = batch]
        ELSE IF exact THEN Mapping(code, "exact_match", "seed-exact-match", batch)
        ELSE Mapping(UNKNOWN, "unknown", kept, batch)

\* The product of a line: what its code is mapped to, if the import has it.
Mapped(code, mappings, products) ==
    LET target == IF code \in DOMAIN mappings THEN mappings[code].target ELSE code
    IN  IF target \in products THEN target ELSE UNKNOWN

\* The name and category a line keeps of its product: the master's, but the
\* line's own when the product is unknown, and never an empty one.
FirstKnown(a, b) == IF a # "none" THEN a ELSE b
LineSnapshot(target, line, master) ==
    IF target = UNKNOWN THEN FirstKnown(line, master) ELSE FirstKnown(master, line)
-----------------------------------------------------------------------------
(* Documents *)

InvoiceStatus(source) ==
    IF source \in {"A", "PAID", "CLEARED", "CLOSED", "DONE", "2"} THEN "paid"
    ELSE IF source \in {"3", "VOID", "VOIDED", "CANCELLED", "CANCEL"} THEN "voided"
    ELSE "issued"
OrderStatus(source) ==
    IF InvoiceStatus(source) = "voided" THEN "cancelled" ELSE "fulfilled"
BillStatus(mustPay) == IF mustPay > 0 THEN "open" ELSE "paid"

\* The first total of a purchase header that is not zero.
BillTotal(subtotal, tax, mustPay, lines) ==
    IF subtotal + tax # 0 THEN subtotal + tax
    ELSE IF lines # 0 THEN lines ELSE mustPay

\* Division rounded half up, away from zero.
HalfUp(n, d) ==
    LET size == (2 * (IF n < 0 THEN -n ELSE n) + (IF d < 0 THEN -d ELSE d))
                    \div (2 * (IF d < 0 THEN -d ELSE d))
    IN  IF (n < 0) = (d < 0) THEN size ELSE -size

Sum(s) == FoldSeq(LAMBDA a, b : a + b, 0, s)

\* The tax of a bill shared out over its lines; the last line takes what is left.
Share(subtotals, tax, i) ==
    IF tax = 0 THEN 0
    ELSE IF Sum(subtotals) = 0 THEN (IF i = Len(subtotals) THEN tax ELSE 0)
    ELSE HalfUp(tax * subtotals[i], Sum(subtotals))
AllocateTax_Rounded(subtotals, tax) ==
    [i \in DOMAIN subtotals |-> Share(subtotals, tax, i)]
AllocateTax(subtotals, tax) ==
    LET before == [i \in 1 .. Len(subtotals) - 1 |-> Share(subtotals, tax, i)]
    IN  [i \in DOMAIN subtotals |->
            IF i = Len(subtotals) THEN tax - Sum(before) ELSE before[i]]

\* A list price already lowered by the discount is put back; the discount of a
\* line is never negative.
ListPrice(line) ==
    IF line.original > line.list /\ 0 < line.ratio /\ line.ratio < 100
    THEN line.original ELSE line.list
Discount(line) == Max({0, ListPrice(line) - line.unit})

\* The rate of a line in ten-thousandths of a percent, rounded half even and
\* kept within numeric(6,4).
TaxRate(tax, amount) ==
    LET n == IF amount < 0 THEN -tax * 1000000 ELSE tax * 1000000
        d == IF amount < 0 THEN -amount ELSE amount
        down == n \div d
        up == 2 * (n % d) > d \/ (2 * (n % d) = d /\ down % 2 = 1)
    IN  IF amount = 0 THEN 0
        ELSE Max({0, Min({IF up THEN down + 1 ELSE down, 999999})})
TaxType(tax) == IF tax > 0 THEN 1 ELSE 3

\* A quantity in tenths, cut to the whole number the column holds.
Whole(tenths) == IF tenths < 0 THEN -(-tenths \div 10) ELSE tenths \div 10

\* When a receipt happened: its own date, its document's, the latest date of the
\* batch, or the day of the import.
ReceivedOn(line, header, batchDates, today) ==
    LET known == batchDates \ {NoDate}
    IN  IF line # NoDate THEN line ELSE IF header # NoDate THEN header
        ELSE IF known # {} THEN Max(known) ELSE today

\* A special payment is imported when nothing speaks against it; whatever else
\* is staged about payments is held.
Importable(payment, roles, suppliers) ==
    /\ payment.table = "tbsspay"
    /\ payment.party \in DOMAIN roles /\ roles[payment.party] = "supplier"
    /\ payment.party \in suppliers
    /\ payment.date # NoDate /\ payment.amount > 0
=============================================================================

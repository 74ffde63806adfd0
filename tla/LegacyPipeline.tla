--------------------------- MODULE LegacyPipeline ---------------------------
(***************************************************************************)
(* The commands that take a staged export to the canonical tables, all     *)
(* under src/backend/domains/legacy_import: normalize, map-products and    *)
(* its review, the review of categories, canonical-import, supplier        *)
(* payments and validation.  They share the raw and normalized tables, the *)
(* mapping of product codes and the runs they leave behind; people start   *)
(* them in any order.  A canonical import is one long transaction that     *)
(* reads what is committed at each of its steps, and several may run;      *)
(* map-products reads in one step what it writes over in another, and an   *)
(* import that fails records that in a second transaction.  What else a    *)
(* command does is one step.                                               *)
(*                                                                         *)
(* A table here stands for itself and the detail table staged with it:     *)
(* tbsstock for tbsstkhouse, tbsslipx for tbsslipdtx, tbsslipj for         *)
(* tbsslipdtj, tbsspay for tbsprepay.  The staging itself is module        *)
(* LegacyStaging; what a run of it leaves is one step here.                *)
(***************************************************************************)
EXTENDS LegacyRecords

CONSTANTS
    Importer,           \* processes running canonical-import
    Batch,              \* batch ids
    Export,             \* export directories
    Content,            \* the rows of each
    Selection,          \* sets of tables staged together
    Category,           \* categories an analyst may give
    Today,              \* the day of the import
    MaxRuns,            \* bound: runs of a batch, of either kind
    MaxCommands         \* bound: commands started

\* A run of payments is told from the importers' by the last part of its id, and
\* "none" stands for no batch; the amounts of bills are numbers.
ASSUME PipelineAssumption ==
    /\ "payments" \notin Importer /\ "none" \notin Batch
    /\ MaxRuns \in Nat \ {0}
    /\ \A e \in Export : \A x \in Content[e].bills : x.lines \in Seq(Int) /\ x.tax \in Int

Table == {"tbscust", "tbsstock", "tbsslipx", "tbsslipj", "tbsspay"}
Unstaged == [batch |-> "none", export |-> "none"]
NoJob == [batch |-> "none", number |-> 0]
Blank == [parties |-> {}, products |-> << >>, stock |-> {}, review |-> {}]

VARIABLES
    raw,        \* whose rows each raw table holds
    norm,       \* the normalized rows of each batch, and those to review
    mapping,    \* product_code_mapping
    seeds,      \* what each map-products still running has read
    overrides,  \* product_category_override
    refresh,    \* batches a category review has still to normalize again
    stagings,   \* legacy_import_runs of a batch, by attempt number
    failing,    \* payment imports that have still to record their failure
    imports,    \* canonical_import_runs of a batch, by attempt number
    erp,        \* canonical rows written by imports, by table and key
    lineage,    \* the run that last wrote a row for a batch
    held,       \* payment rows in unsupported_history_holding, with their run
    pc, job,    \* each importer's next step, and its batch, attempt number,
                \* mappings and the staging runs before it
    seen,       \* the parties and products it has read
    mine,       \* the rows its transaction has written, locked until it ends
    commands    \* commands so far

tables == <<raw, norm, mapping, seeds, overrides, refresh>>
attempts == <<stagings, failing>>
vars == <<tables, attempts, imports, erp, lineage, held, pc, job, seen, mine, commands>>

Init ==
    /\ raw = [t \in Table |-> Unstaged]
    /\ norm = [b \in Batch |-> Blank]
    /\ mapping = << >> /\ seeds = << >> /\ overrides = << >> /\ refresh = {}
    /\ stagings = [b \in Batch |-> << >>] /\ failing = << >>
    /\ imports = [b \in Batch |-> << >>]
    /\ erp = << >> /\ lineage = << >> /\ held = << >>
    /\ pc = [i \in Importer |-> "idle"]
    /\ job = [i \in Importer |-> NoJob]
    /\ seen = [i \in Importer |-> Blank]
    /\ mine = [i \in Importer |-> << >>]
    /\ commands = 0

\* A command that goes on for more than a step is known by its number.
Command == commands < MaxCommands /\ commands' = commands + 1
importers == <<pc, job, seen, mine>>
canonical == <<imports, erp, lineage, held>>

\* Rows written over those that are there.
Over(new, old) ==
    [k \in DOMAIN new \cup DOMAIN old |-> IF k \in DOMAIN new THEN new[k] ELSE old[k]]

\* What a table holds of a batch; the rows of another batch are not seen.
Staged(t, b) == raw[t].batch = b
RowsOf(t, b, none) ==
    IF Staged(t, b) THEN Content[raw[t].export] ELSE none
NoContent == [parties |-> {}, products |-> {}, stock |-> {}, sales |-> {},
              bills |-> {}, payments |-> {}]
-----------------------------------------------------------------------------
(* stage *)

\* A run of either command, with its table runs that are completed.
Run(kind, status, staged) == [kind |-> kind, status |-> status, staged |-> staged]
Completed(runs) == {n \in DOMAIN runs : runs[n].status = "completed"}

\* A transaction holds the tables it has read until it ends.
Readable(ts) ==
    /\ \A i \in Importer : pc[i] = "commit" =>
          ts \cap {"tbsslipx", "tbsslipj", "tbsspay"} = {}
    /\ seeds # << >> => "tbsslipx" \notin ts

Stage(b, e, ts) ==
    /\ Command
    /\ Len(stagings[b]) < MaxRuns /\ Readable(ts)
    /\ raw' = [t \in Table |-> IF t \in ts THEN [batch |-> b, export |-> e] ELSE raw[t]]
    /\ stagings' = [stagings EXCEPT ![b] = Append(@, Run("staging", "completed", ts \X {e}))]
    /\ UNCHANGED <<norm, mapping, seeds, overrides, refresh, failing, canonical, importers>>

StageFails(b) ==
    /\ Command
    /\ Len(stagings[b]) < MaxRuns
    /\ stagings' = [stagings EXCEPT ![b] = Append(@, Run("staging", "failed", {}))]
    /\ UNCHANGED <<tables, failing, canonical, importers>>
-----------------------------------------------------------------------------
(* normalize, and the review of categories *)

Derivations(b) ==
    LET products == RowsOf("tbsstock", b, NoContent).products
    IN  [c \in {p.code : p \in products} |->
            Resolve(CHOOSE p \in products : p.code = c, overrides)]

Normalized(b) ==
    LET derivation == Derivations(b)
    IN  [parties |-> RowsOf("tbscust", b, NoContent).parties,
         products |-> [c \in DOMAIN derivation |-> derivation[c].category],
         stock |-> RowsOf("tbsstock", b, NoContent).stock,
         review |-> {c \in DOMAIN derivation : NeedsReview(derivation[c])}]

\* The rows of the batch are replaced; without staged rows it fails.
Renew(b) ==
    IF Staged("tbscust", b) /\ Staged("tbsstock", b)
    THEN norm' = [norm EXCEPT ![b] = Normalized(b)] ELSE UNCHANGED norm

Normalize(b) ==
    /\ Command /\ Renew(b)
    /\ UNCHANGED <<raw, mapping, seeds, overrides, refresh, attempts, canonical, importers>>

\* The decision is committed before the batch is normalized again.
ReviewCategory(b, c, category) ==
    /\ Command
    /\ c \in norm[b].review
    /\ overrides' = Over([k \in {c} |-> category], overrides)
    /\ refresh' = refresh \cup {b}
    /\ UNCHANGED <<raw, norm, mapping, seeds, attempts, canonical, importers>>

RefreshBatch(b) ==
    /\ b \in refresh /\ refresh' = refresh \ {b}
    /\ Renew(b)
    /\ UNCHANGED <<raw, mapping, seeds, overrides, attempts, canonical, importers, commands>>

\* The command is killed, or normalizing fails, after the decision.
LoseRefresh(b) ==
    /\ b \in refresh /\ refresh' = refresh \ {b}
    /\ UNCHANGED <<raw, norm, mapping, seeds, overrides, attempts, canonical, importers, commands>>
-----------------------------------------------------------------------------
(* map-products, and the review of the mapping *)

\* A placeholder product joins the normalized ones when it is not there.
WithUnknown(products) == Over(products, [k \in {UNKNOWN} |-> "none"])
WithPlaceholder(n) == [n EXCEPT !.products = WithUnknown(@)]

SoldCodes(b) == UNION {Range(s.lines) : s \in RowsOf("tbsslipx", b, NoContent).sales}

\* Whoever else inserts the placeholder of a batch waits for a seed that has.
UnknownFree(b) == \A k \in DOMAIN seeds : ~(seeds[k].batch = b /\ seeds[k].placed)

Known(b) == DOMAIN norm[b].products \cup {UNKNOWN}
HasUnknown(b) == UNKNOWN \in DOMAIN norm[b].products

\* The products, the codes sold and the mappings are read without a lock, after
\* the placeholder has been inserted unless it was there.
MapProducts(b) ==
    /\ Command
    /\ norm[b].products # << >> /\ SoldCodes(b) # {} /\ UnknownFree(b)
    /\ seeds' = Over([k \in {commands} |->
          [batch |-> b, placed |-> ~HasUnknown(b), known |-> Known(b),
           codes |-> SoldCodes(b), read |-> mapping]], seeds)
    /\ UNCHANGED <<raw, norm, mapping, overrides, refresh, attempts, canonical, importers>>

EndSeed(k) == seeds' = Restrict(seeds, DOMAIN seeds \ {k})
Old(c, read) == IF c \in DOMAIN read THEN <<read[c]>> ELSE << >>

\* Every code sold is written by what was read, over what is there by now.
WriteMappings(k) ==
    LET s == seeds[k]
        rows == [c \in s.codes |-> Seeded(c, s.known, Old(c, s.read), s.batch)]
    IN  /\ EndSeed(k)
        /\ mapping' = Over(rows, mapping)
        /\ norm' = IF s.placed THEN [norm EXCEPT ![s.batch] = WithPlaceholder(@)] ELSE norm
        /\ UNCHANGED <<raw, overrides, refresh, attempts, canonical, importers, commands>>

\* It fails or is killed, and nothing of it stays.
LoseSeed(k) ==
    /\ EndSeed(k)
    /\ UNCHANGED <<raw, norm, mapping, overrides, refresh, attempts, canonical, importers,
                   commands>>

\* An analyst approves a normalized product as the target, or keeps UNKNOWN.
ReviewMapping(b, c, target) ==
    /\ Command
    /\ target \in Known(b) /\ UnknownFree(b)
    /\ norm' = [norm EXCEPT ![b] = WithPlaceholder(@)]
    /\ LET resolution == IF target = UNKNOWN THEN "unknown" ELSE "analyst_review"
           decision == Mapping(target, resolution, "review-import", b)
       IN  mapping' = Over([k \in {c} |-> decision], mapping)
    /\ UNCHANGED <<raw, seeds, overrides, refresh, attempts, canonical, importers>>
-----------------------------------------------------------------------------
(* canonical-import: what its steps write *)

Customers(ps) == {p \in ps : Role(p.type) = "customer"}
Suppliers(ps) == {p \in ps : Role(p.type) = "supplier"}

\* Customers are written in the order of their codes: of those with one number
\* the last stays.
CustomerRows(ps) ==
    [k \in {<<"customer", BusinessNumber(p)>> : p \in Customers(ps)} |->
        Max({p.code : p \in {q \in Customers(ps) : BusinessNumber(q) = k[2]}})]
SupplierRows(ps) ==
    [k \in {<<"supplier", p.code>> : p \in Suppliers(ps)} |-> k[2]]

ProductRows(n) ==
    [k \in {<<"product", c>> : c \in DOMAIN WithUnknown(n.products)} |->
        WithUnknown(n.products)[k[2]]]

\* The quantity in stock is overwritten, whatever has moved since.
StockRows(n) ==
    [k \in {<<"stock", s.product>> : s \in n.stock} |->
        Whole((CHOOSE s \in n.stock : s.product = k[2]).tenths)]

\* A row an earlier import wrote, or else a new one.
Keep(k, new) == IF k \in DOMAIN erp THEN erp[k] ELSE new

\* Receipts are inserted once and never changed.
ReceiptRows(i, bills) ==
    LET dates == UNION {{x.date, x.received} : x \in bills}
    IN  [k \in {<<"receipt", x.doc>> : x \in bills} |->
            LET x == CHOOSE y \in bills : y.doc = k[2]
            IN  Keep(k, [product |-> Mapped(x.product, job[i].mapping,
                                            DOMAIN seen[i].products),
                         on |-> ReceivedOn(x.received, x.date, dates, Today)])]

\* Sales of customers the export lacks are passed over.
Sales(i, sales) ==
    {s \in sales : \E p \in Customers(seen[i].parties) : p.code = s.customer}

\* A line is rewritten, but for the category it was first sold under.
LineRows(i, sales) ==
    [k \in UNION {{<<"line", s.doc, n>> : n \in DOMAIN s.lines} : s \in Sales(i, sales)} |->
        LET s == CHOOSE y \in sales : y.doc = k[2]
            product == Mapped(s.lines[k[3]], job[i].mapping, DOMAIN seen[i].products)
        IN  [product |-> product,
             amount |-> s.price,
             discount |-> Discount([list |-> s.price, unit |-> s.price,
                                    original |-> s.original, ratio |-> s.ratio]),
             rate |-> TaxRate(s.tax, s.price), type |-> TaxType(s.tax),
             category |-> Keep(k, [category |->
                 LineSnapshot(product, "none", seen[i].products[product])]).category]]

\* The totals of a document are those of all its stored lines.
TotalOf(d, rows) ==
    LET ks == {k \in DOMAIN rows : k[1] = "line" /\ k[2] = d}
    IN  SumFunction([k \in ks |-> rows[k].amount])
InvoiceRows(i, sales, rows) ==
    [k \in {<<"invoice", s.doc>> : s \in Sales(i, sales)} |->
        LET s == CHOOSE y \in sales : y.doc = k[2]
            p == CHOOSE q \in Customers(seen[i].parties) : q.code = s.customer
        IN  [customer |-> BusinessNumber(p), status |-> InvoiceStatus(s.status),
             order |-> OrderStatus(s.status), total |-> TotalOf(s.doc, rows)]]

BillRows(bills) ==
    [k \in {<<"bill", x.doc>> : x \in bills} |->
        LET x == CHOOSE y \in bills : y.doc = k[2]
        IN  [supplier |-> x.supplier, lines |-> Len(x.lines), tax |-> x.tax,
             status |-> BillStatus(x.mustPay),
             total |-> BillTotal(x.subtotal, x.tax, x.mustPay, Sum(x.lines))]]
BillLineRows(bills) ==
    [k \in UNION {{<<"billLine", x.doc, n>> : n \in DOMAIN x.lines} : x \in bills} |->
        LET x == CHOOSE y \in bills : y.doc = k[2]
        IN  AllocateTax(x.lines, x.tax)[k[3]]]

\* A bill without its supplier, a date or the warehouse it went to is an error.
Posts(i, x) ==
    /\ \E p \in Suppliers(seen[i].parties) : p.code = x.supplier
    /\ x.date # NoDate
    /\ \E s \in seen[i].stock : s.warehouse = x.warehouse

\* Payment rows are held, whatever has become of them before.
Payments(b) == RowsOf("tbsspay", b, NoContent).payments
HeldRows(b) == [k \in {<<"held", b, p.number>> : p \in Payments(b)} |-> "payment_history"]
-----------------------------------------------------------------------------
(* canonical-import: its steps *)

GoTo(i, label) == pc' = [pc EXCEPT ![i] = label]
RunId(i) == <<job[i].batch, job[i].number, i>>

Free(i, keys) == \A j \in Importer \ {i} : keys \cap DOMAIN mine[j] = {}
Write(i, rows) ==
    /\ Free(i, DOMAIN rows)
    /\ mine' = [mine EXCEPT ![i] = Over(rows, @)]

\* The number is the unlocked maximum plus one; the mappings are read with it.
BeginImport(i, b) ==
    /\ Command
    /\ pc[i] = "idle" /\ GoTo(i, "run")
    /\ Len(imports[b]) < MaxRuns
    /\ job' = [job EXCEPT ![i] = [batch |-> b, number |-> Len(imports[b]) + 1,
                                  mapping |-> mapping, after |-> {}]]
    /\ UNCHANGED <<tables, attempts, canonical, seen, mine>>

\* The tables cannot be made, or the number not read, which then is 1; or the
\* mappings cannot be read.  Nothing has been written by then.
RefuseImport(i, b) ==
    /\ Command
    /\ pc[i] = "idle" /\ GoTo(i, "refused")
    /\ \E n \in {1, Len(imports[b]) + 1} :
          /\ n <= MaxRuns
          /\ job' = [job EXCEPT ![i] = [batch |-> b, number |-> n,
                                        mapping |-> << >>, after |-> {}]]
    /\ UNCHANGED <<tables, attempts, canonical, seen, mine>>

\* Two imports of one attempt: the second waits for the first's row and then
\* keeps the first's id, to which nothing of its own can refer.
InTransaction(i) == pc[i] \in {"parties", "products", "documents", "commit"}
NumberFree(i) ==
    \A j \in Importer \ {i} : ~(InTransaction(j) /\ job[j].batch = job[i].batch
                                                 /\ job[j].number = job[i].number)
Taken(i) == job[i].number <= Len(imports[job[i].batch])
InsertRun(i) ==
    /\ pc[i] = "run" /\ NumberFree(i)
    /\ GoTo(i, IF Taken(i) THEN "failed" ELSE "parties")
    /\ job' = [job EXCEPT ![i].after = Completed(stagings[job[i].batch])]
    /\ UNCHANGED <<tables, attempts, canonical, seen, mine, commands>>

\* The insert fails, or its wait for the other import is cancelled.
RunNotInserted(i) ==
    /\ pc[i] = "run" /\ GoTo(i, "refused")
    /\ UNCHANGED <<tables, attempts, canonical, job, seen, mine, commands>>

ImportParties(i) ==
    LET n == norm[job[i].batch]
    IN  /\ pc[i] = "parties" /\ GoTo(i, "products")
        /\ Write(i, Over(CustomerRows(n.parties), SupplierRows(n.parties)))
        /\ seen' = [seen EXCEPT ![i].parties = n.parties]
        /\ UNCHANGED <<tables, attempts, canonical, job, commands>>

ImportProducts(i) ==
    LET n == norm[job[i].batch]
    IN  /\ pc[i] = "products"
        /\ IF \E s \in n.stock : s.product \notin DOMAIN WithUnknown(n.products)
           THEN GoTo(i, "failed") /\ UNCHANGED <<seen, mine>>
           ELSE /\ GoTo(i, "documents")
                /\ Write(i, Over(ProductRows(n), StockRows(n)))
                /\ seen' = [seen EXCEPT ![i].products = WithUnknown(n.products),
                                        ![i].stock = n.stock]
        /\ UNCHANGED <<tables, attempts, canonical, job, commands>>

ImportDocuments(i) ==
    LET b == job[i].batch
        sales == RowsOf("tbsslipx", b, NoContent).sales
        bills == RowsOf("tbsslipj", b, NoContent).bills
        lines == LineRows(i, sales)
    IN  /\ pc[i] = "documents"
        /\ IF raw["tbsslipx"] = Unstaged \/ \E x \in bills : ~Posts(i, x)
           THEN GoTo(i, "failed") /\ UNCHANGED mine
           ELSE /\ GoTo(i, "commit")
                /\ Write(i, Over(Over(InvoiceRows(i, sales, Over(lines, erp)), lines),
                            Over(Over(BillRows(bills), BillLineRows(bills)),
                                 Over(ReceiptRows(i, bills), HeldRows(b)))))
        /\ UNCHANGED <<tables, attempts, canonical, job, seen, commands>>

Leave(i) ==
    /\ GoTo(i, "idle")
    /\ job' = [job EXCEPT ![i] = NoJob]
Close_KeepsRows(i) == seen' = [seen EXCEPT ![i] = Blank] /\ UNCHANGED mine
Close(i) ==
    /\ mine' = [mine EXCEPT ![i] = << >>]
    /\ seen' = [seen EXCEPT ![i] = Blank]

\* A run, with what is on record of its steps.
ImportRun(i, status, steps) ==
    [id |-> RunId(i), status |-> status, steps |-> steps, after |-> job[i].after,
     counts |-> [rows |-> Cardinality(DOMAIN mine[i])], scope |-> << >>,
     disposition |-> "none", verdict |-> "none"]
FailedRun(i, steps) ==
    [ImportRun(i, "failed", steps) EXCEPT !.after = Completed(stagings[job[i].batch])]

\* A run found under the number keeps its id, its start and its steps; a report's
\* part of its summary is gone with the summary.
Relabelled(runs, n) ==
    LET run == runs[n]
    IN  [runs EXCEPT ![n] = [run EXCEPT !.status = "failed", !.counts = [rows |-> 0],
                                        !.scope = << >>, !.disposition = "none",
                                        !.verdict = "none"]]

CommitImport(i) ==
    LET b == job[i].batch
        holds == {r \in DOMAIN mine[i] : r[1] = "held"}
        rows == Restrict(mine[i], DOMAIN mine[i] \ holds)
    IN  /\ pc[i] = "commit"
        /\ imports' = [imports EXCEPT ![b] = Append(@, ImportRun(i, "completed", "completed"))]
        /\ erp' = Over(rows, erp)
        /\ lineage' = Over([k \in {<<b, r>> : r \in DOMAIN rows} |-> RunId(i)], lineage)
        /\ held' = Over([k \in {<<b, r[3]>> : r \in holds} |-> RunId(i)], held)
        /\ Close(i) /\ Leave(i)
        /\ UNCHANGED <<tables, attempts, commands>>

Rollback_KeepsRows(i) == erp' = Over(mine[i], erp) /\ UNCHANGED lineage /\ Close(i)

\* Bad data, a lost connection, a deadlock of two imports over their parties.
Rollback(i) == UNCHANGED <<erp, lineage>> /\ Close(i)
FailImport(i) ==
    /\ InTransaction(i) \/ pc[i] = "failed"
    /\ Rollback(i) /\ GoTo(i, "record")
    /\ UNCHANGED <<tables, attempts, imports, held, job, commands>>

RecordFailure_Overwrites(i) ==
    /\ pc[i] = "record" /\ NumberFree(i)
    /\ imports' = [imports EXCEPT ![job[i].batch] =
          IF Taken(i) THEN Relabelled(@, job[i].number)
          ELSE Append(@, FailedRun(i, "failed"))]
    /\ Leave(i)
    /\ UNCHANGED <<tables, attempts, erp, lineage, held, seen, mine, commands>>

\* A second transaction records the failure: the run, found or inserted, and the
\* steps, which refer to this run and undo it all when the row is another's.
RecordFailure(i) ==
    /\ pc[i] = "record" /\ NumberFree(i)
    /\ IF Taken(i) THEN UNCHANGED imports
       ELSE imports' = [imports EXCEPT ![job[i].batch] = Append(@, FailedRun(i, "failed"))]
    /\ Leave(i)
    /\ UNCHANGED <<tables, attempts, erp, lineage, held, seen, mine, commands>>

\* Without a step there is nothing to undo it: whichever run has the number is
\* set to failed.
RecordRefusal(i) ==
    /\ pc[i] = "refused" /\ NumberFree(i)
    /\ imports' = [imports EXCEPT ![job[i].batch] =
          IF Taken(i) THEN Relabelled(@, job[i].number)
          ELSE Append(@, FailedRun(i, "none"))]
    /\ Leave(i)
    /\ UNCHANGED <<tables, attempts, erp, lineage, held, seen, mine, commands>>

CrashImport(i) ==
    /\ pc[i] # "idle"
    /\ Rollback(i) /\ Leave(i)
    /\ UNCHANGED <<tables, attempts, imports, held, commands>>
-----------------------------------------------------------------------------
(* ap-payment-import *)

Roles(b) ==
    LET ps == RowsOf("tbscust", b, NoContent).parties
    IN  [c \in {p.code : p \in ps} |-> Role((CHOOSE p \in ps : p.code = c).type)]
Verified(b) ==
    {p \in Payments(b) : Importable(p, Roles(b), {k[2] : k \in
                                        {r \in DOMAIN erp : r[1] = "supplier"}})}

\* It waits for an import that has held the rows it holds or releases.
HoldingFree(b) ==
    \A i \in Importer : (pc[i] = "commit" /\ job[i].batch = b) =>
        \A p \in Payments(b) : p \in Verified(b) /\ <<b, p.number>> \notin DOMAIN held

PaymentRunId(b) == <<b, Len(stagings[b]) + 1, "payments">>

HoldKeys(b, ps) == {<<b, p.number>> : p \in ps}

\* The holds of the rows it imports are released, the others renewed.
HeldAfter_AllReleased(b) ==
    Restrict(held, DOMAIN held \ HoldKeys(b, Payments(b)))
HeldAfter(b) ==
    [k \in (DOMAIN held \cup HoldKeys(b, Payments(b))) \ HoldKeys(b, Verified(b)) |->
        IF k \in HoldKeys(b, Payments(b)) THEN PaymentRunId(b) ELSE held[k]]

ImportPayments(b) ==
    LET done == HoldKeys(b, Verified(b))
    IN  /\ Command
        /\ raw["tbscust"] # Unstaged /\ raw["tbsspay"] # Unstaged
        /\ Len(stagings[b]) < MaxRuns /\ HoldingFree(b)
        /\ stagings' = [stagings EXCEPT ![b] =
              Append(@, Run("payments", "completed", {"tbsspay"} \X {raw["tbsspay"].export}))]
        /\ erp' = Over([k \in {<<"payment", n[2]>> : n \in done} |-> "unapplied"], erp)
        /\ lineage' = Over([k \in {<<b, <<"payment", n[2]>>>> : n \in done} |->
                               PaymentRunId(b)], lineage)
        /\ held' = HeldAfter(b)
        /\ UNCHANGED <<tables, failing, imports, importers>>

\* It fails with its number read or, before that, as attempt 1; the transaction
\* is gone, its number free again, when the failure comes to be recorded.
Failed(b, number, read) ==
    failing' = Over([k \in {commands} |->
                  [batch |-> b, number |-> number, read |-> read]], failing)
PaymentsFail(b) ==
    /\ Command
    /\ raw["tbscust"] # Unstaged /\ raw["tbsspay"] # Unstaged
    /\ Len(stagings[b]) < MaxRuns
    /\ \E read \in BOOLEAN : Failed(b, Len(stagings[b]) + 1, read)
    /\ UNCHANGED <<tables, stagings, canonical, importers>>
PaymentsRefused(b) ==
    /\ Command /\ Failed(b, 1, FALSE)
    /\ UNCHANGED <<tables, stagings, canonical, importers>>

EndFailing(k) == failing' = Restrict(failing, DOMAIN failing \ {k})

\* Whichever run has the number by now is set to failed, unless rows of a table
\* had been read: the table's run cannot refer to it, and nothing is recorded.
RecordPaymentsFailure(k) ==
    LET f == failing[k]
        runs == stagings[f.batch]
    IN  /\ EndFailing(k)
        /\ stagings' = [stagings EXCEPT ![f.batch] =
              IF f.number > Len(runs) THEN Append(@, Run("payments", "failed", {}))
              ELSE IF f.read THEN @ ELSE [@ EXCEPT ![f.number].status = "failed"]]
        /\ UNCHANGED <<tables, canonical, importers, commands>>
CrashPayments(k) ==
    /\ EndFailing(k)
    /\ UNCHANGED <<tables, stagings, canonical, importers, commands>>
-----------------------------------------------------------------------------
(* validate-import *)

\* What a batch's latest import is compared by: the staging run before it, the
\* mapping, the products to review, whether it failed.
Facts(b, run, staging) ==
    [staged |-> stagings[b][staging].staged,
     mapped |-> {c \in DOMAIN mapping : mapping[c].batch = b},
     unknown |-> {c \in DOMAIN mapping : mapping[c].batch = b
                                         /\ mapping[c].resolution = "unknown"},
     review |-> norm[b].review,
     failed |-> run.status # "completed"]

\* The counts a report adds to those of the import.
Counted(b) ==
    [customers |-> Cardinality({k \in DOMAIN erp : k[1] = "customer"}),
     provisional |-> Cardinality(norm[b].review)]

ScopeKey(facts, counts) == <<facts, counts>>

Verdict(facts) ==
    IF facts.failed THEN "blocked"
    ELSE IF facts.unknown # {} \/ facts.review # {} THEN "warning" ELSE "clean"

\* The runs with a scope key, other than this one; they share a status.
Previous(run, key) ==
    {r \in UNION {Range(imports[b]) : b \in Batch} : r.id # run.id /\ r.scope = key}

Disposition(previous) ==
    IF previous = {} THEN "new-scope"
    ELSE IF \E r \in previous : r.status = "completed"
         THEN "replayed-scope" ELSE "replayed-after-failure"

\* The run it looks for has the counts of the import as they are; the key it
\* keeps has those of the report.
Validate(b) ==
    LET run == Last(imports[b])
        done == run.after \cap Completed(stagings[b])
        facts == Facts(b, run, Max(done))
        reported == Over(Counted(b), run.counts)
        blocking == [blocking |-> IF facts.failed THEN 1 ELSE 0]
    IN  /\ Command
        /\ imports[b] # << >> /\ done # {}
        /\ raw["tbsslipx"] # Unstaged /\ raw["tbsslipj"] # Unstaged
        /\ imports' = [imports EXCEPT ![b] = [@ EXCEPT ![Len(imports[b])] =
              [run EXCEPT !.scope = ScopeKey(facts, reported),
                          !.counts = Over(blocking, reported),
                          !.disposition =
                              Disposition(Previous(run, ScopeKey(facts, run.counts))),
                          !.verdict = Verdict(facts)]]]
        /\ UNCHANGED <<tables, attempts, erp, lineage, held, importers>>
-----------------------------------------------------------------------------
Next ==
    \/ \E b \in Batch :
          \/ \E e \in Export, ts \in Selection : Stage(b, e, ts)
          \/ StageFails(b)
          \/ Normalize(b) \/ RefreshBatch(b) \/ LoseRefresh(b) \/ MapProducts(b)
          \/ \E c \in norm[b].review, category \in Category : ReviewCategory(b, c, category)
          \/ \E c \in SoldCodes(b), target \in Known(b) : ReviewMapping(b, c, target)
          \/ ImportPayments(b) \/ PaymentsFail(b) \/ PaymentsRefused(b) \/ Validate(b)
    \/ \E k \in DOMAIN seeds : WriteMappings(k) \/ LoseSeed(k)
    \/ \E k \in DOMAIN failing : RecordPaymentsFailure(k) \/ CrashPayments(k)
    \/ \E i \in Importer :
          \/ \E b \in Batch : BeginImport(i, b) \/ RefuseImport(i, b)
          \/ InsertRun(i) \/ RunNotInserted(i)
          \/ ImportParties(i) \/ ImportProducts(i) \/ ImportDocuments(i) \/ CommitImport(i)
          \/ FailImport(i) \/ RecordFailure(i) \/ RecordRefusal(i) \/ CrashImport(i)

Spec == Init /\ [][Next]_vars
-----------------------------------------------------------------------------
(* Properties *)

RowKinds == {"customer", "supplier", "product", "stock", "receipt", "invoice", "line",
             "bill", "billLine", "payment"}

\* Types of the variables; what an importer has written is of its transaction.
TypeOK ==
    /\ \A t \in Table : raw[t] = Unstaged \/ raw[t] \in [batch : Batch, export : Export]
    /\ \A b \in Batch : norm[b].review \subseteq DOMAIN norm[b].products
    /\ refresh \subseteq Batch
    /\ \A b \in Batch : /\ Len(stagings[b]) <= MaxRuns
                        /\ \A n \in DOMAIN imports[b] :
                              \E i \in Importer : imports[b][n].id = <<b, n, i>>
    /\ \A r \in DOMAIN erp : r[1] \in RowKinds
    /\ \A i \in Importer : mine[i] # << >> => InTransaction(i) \/ pc[i] = "failed"
    /\ \A k \in DOMAIN failing : failing[k].number <= Len(stagings[failing[k].batch]) + 1
    /\ \A k \in DOMAIN seeds : seeds[k].codes # {} /\ UNKNOWN \in seeds[k].known

\* Whatever fails, is killed or runs at the same time, every imported row and
\* every row held leads to the run that wrote it, on record with all its steps,
\* or tables, completed, even when a later failure has set the run itself to
\* failed: "the batch outcome remains explainable from stored lineage and run
\* metadata", if from the steps rather than the status.
Explained(id) ==
    IF id[3] = "payments"
    THEN LET run == stagings[id[1]][id[2]] IN run.kind = "payments" /\ run.staged # {}
    ELSE LET run == imports[id[1]][id[2]] IN run.id = id /\ run.steps = "completed"
RowsAreExplained ==
    /\ \A k \in DOMAIN lineage : Explained(lineage[k])
    /\ \A k \in DOMAIN held : Explained(held[k])
    /\ \A r \in DOMAIN erp : \E b \in Batch : <<b, r>> \in DOMAIN lineage

\* An import that has committed keeps its number, its id and its steps, and its
\* status but for one kind of failure: that of an import of its number which had
\* reached no step.  A failure at a step, recorded late, never takes its row.
Committed(runs) == {n \in DOMAIN runs : runs[n].steps = "completed"}
RefusedAs(b, n) ==
    \E i \in Importer : job[i].batch = b /\ job[i].number = n /\ RecordRefusal(i)
CompletedImportStands ==
    [][\A b \in Batch : \A n \in Committed(imports[b]) :
          /\ n \in Committed(imports'[b])
          /\ imports'[b][n].id = imports[b][n].id
          /\ imports'[b][n].status # imports[b][n].status => RefusedAs(b, n)]_vars

\* What an analyst has decided about a code changes only by another decision, or
\* by a seed that was under way and had not read this one: no seed undoes what it
\* has read, whatever has happened to the products since, for whichever batch.
HasRead(k, c) ==
    LET read == seeds[k].read
    IN  /\ c \in DOMAIN read /\ read[c].approval = "review-import"
        /\ read[c].target = mapping[c].target
ReviewedMappingKept ==
    [][\A c \in DOMAIN mapping :
          (mapping[c].approval = "review-import" /\ mapping'[c].target # mapping[c].target)
             => \/ \E b \in Batch : \E t \in DOMAIN norm'[b].products :
                      ReviewMapping(b, c, t)
                \/ \E k \in DOMAIN seeds : ~HasRead(k, c) /\ WriteMappings(k)]_vars

\* A payment row once held or imported stays held or imported, whichever of the
\* two imports runs again, between or beside the other.
Accounted ==
    DOMAIN held \cup {<<k[1], k[2][2]>> : k \in {l \in DOMAIN lineage : l[2][1] = "payment"}}
PaymentRowsAreKept == [][Accounted \subseteq Accounted']_vars

\* The total of an imported invoice is that of its lines, those too that only an
\* earlier export had; the taxes of a bill's own lines, if it has any, are there
\* and add up to the bill's.
OwnLines(r, rows) == {<<"billLine", r[2], n>> : n \in 1 .. rows[r].lines}
BillBalances(r, rows) ==
    LET own == OwnLines(r, rows)
    IN  /\ own \subseteq DOMAIN rows
        /\ own # {} => SumFunction([k \in own |-> rows[k]]) = rows[r].tax
TotalsFollowLines ==
    \A r \in DOMAIN erp :
        /\ r[1] = "invoice" => erp[r].total = TotalOf(r[2], erp)
        /\ r[1] = "bill" => BillBalances(r, erp)
=============================================================================

------------------------------- MODULE UnitCosts -------------------------------
(***************************************************************************)
(* The unit costs of invoice lines (src/backend/domains/invoices/service): *)
(* a line takes its cost when it is issued, from the last purchase of the  *)
(* product, and the script backfill_invoice_unit_cost fills in costs that  *)
(* were not known then, batch by batch, while invoices are issued,         *)
(* purchases are recorded and another backfill runs (READ COMMITTED).      *)
(*                                                                         *)
(* One product; a line is its id, in the order of ids, which is not the    *)
(* order in which lines are issued.  Abstracted: dry runs and the cap on   *)
(* candidates, the counts and the preview a backfill prints.               *)
(***************************************************************************)
EXTENDS Integers, FiniteSets, FiniteSetsExt

CONSTANTS
    InvoiceLine,      \* ids of invoice lines
    DateOf, OwnCost,  \* invoice date of each, and the cost it brings or NoCost
    NoCost,
    Purchase,         \* purchases that may be recorded: date, price or
                      \* NoCost, and priority: 0 a received order, 1 an invoice
    Backfill,         \* backfills that may run at once
    BatchSize

CostAssumption ==
    /\ InvoiceLine \subseteq Nat \ {0} /\ DateOf \in [InvoiceLine -> Nat]
    /\ BatchSize \in Nat \ {0}
    /\ \A p \in Purchase : p.priority \in {0, 1} /\ (p.price = NoCost => p.priority = 0)

VARIABLES
    purchases,   \* what has been recorded
    cost,        \* the committed lines: a function to their cost
    draft,       \* lines that are being issued, with the cost found for them
    pc, after, last,   \* each backfill: its cursor, and that of the next batch
    decided,     \* what its UPDATE has found
    undisturbed  \* history: nobody else has changed anything since it began

runs == <<pc, after, last, decided>>
vars == <<purchases, cost, draft, runs, undisturbed>>

None == [x \in {} |-> NoCost]

Init ==
    /\ purchases = {}
    /\ cost = None
    /\ draft = None
    /\ pc = [b \in Backfill |-> "idle"]
    /\ after = [b \in Backfill |-> 0]
    /\ last = [b \in Backfill |-> 0]
    /\ decided = [b \in Backfill |-> None]
    /\ undisturbed = [b \in Backfill |-> FALSE]
-----------------------------------------------------------------------------
\* The sources of a cost on a date, and the best of them: the latest, and of one
\* day the supplier invoices before the orders.
Sources(date) == {p \in purchases : p.price # NoCost /\ p.date =< date}
Better(p, q) == p.date > q.date \/ (p.date = q.date /\ p.priority > q.priority)
Best(S) == {p \in S : \A q \in S : ~Better(q, p)}
Prices(S) == {p.price : p \in S}

\* _resolve_latest_unit_cost: the best sources' price, if they agree on one.
Agreed(prices) == IF Cardinality(prices) = 1 THEN CHOOSE c \in prices : TRUE ELSE NoCost
Resolve(date) == Agreed(Prices(Best(Sources(date))))

\* get_product_supplier: a price the product page may show, of any date, or none
\* when the last order has none.
PagePrices == Prices(Best(purchases))
-----------------------------------------------------------------------------
Disturb(others) == undisturbed' = [b \in Backfill |-> undisturbed[b] /\ b \notin others]
Extended(f, g) == [x \in DOMAIN f \cup DOMAIN g |-> IF x \in DOMAIN g THEN g[x] ELSE f[x]]

RecordPurchase(p) ==
    /\ p \notin purchases
    /\ purchases' = purchases \cup {p}
    /\ Disturb(Backfill)
    /\ UNCHANGED <<cost, draft, runs>>

\* _create_invoice_core resolves the cost of a line that brings none; the line is
\* there when the transaction commits.
IssueLine(l) ==
    /\ l \notin DOMAIN cost \cup DOMAIN draft
    /\ draft' = Extended(draft, [x \in {l} |->
                    IF OwnCost[l] # NoCost THEN OwnCost[l] ELSE Resolve(DateOf[l])])
    /\ UNCHANGED <<purchases, cost, runs, undisturbed>>
CommitLine(l) ==
    /\ l \in DOMAIN draft
    /\ cost' = Extended(cost, [x \in {l} |-> draft[l]])
    /\ draft' = [x \in DOMAIN draft \ {l} |-> draft[x]]
    /\ Disturb(Backfill)
    /\ UNCHANGED <<purchases, runs>>
-----------------------------------------------------------------------------
(* backfill_missing_invoice_line_unit_costs *)

\* The first lines without a cost behind the cursor, and those of them for which
\* there is one.
Candidates(b) ==
    LET open == {l \in DOMAIN cost : cost[l] = NoCost /\ l > after[b]}
    IN  {l \in open : Cardinality({k \in open : k =< l}) =< BatchSize}
Decisions(b) ==
    [l \in {k \in Candidates(b) : Resolve(DateOf[k]) # NoCost} |-> Resolve(DateOf[l])]

Start(b) ==
    /\ pc[b] = "idle"
    /\ pc' = [pc EXCEPT ![b] = "summary"]
    /\ after' = [after EXCEPT ![b] = 0]
    /\ undisturbed' = [undisturbed EXCEPT ![b] = TRUE]
    /\ UNCHANGED <<purchases, cost, draft, last, decided>>

\* The summary of a batch: over when there is no candidate, on to the next one
\* when none has a cost.
NextCursor(b) == Max(Candidates(b))
Summarise(b) ==
    /\ pc[b] = "summary"
    /\ Candidates(b) # {}
    /\ IF DOMAIN Decisions(b) = {}
       THEN /\ after' = [after EXCEPT ![b] = NextCursor(b)]
            /\ UNCHANGED <<pc, last>>
       ELSE /\ last' = [last EXCEPT ![b] = NextCursor(b)]
            /\ pc' = [pc EXCEPT ![b] = "update"]
            /\ UNCHANGED after
    /\ UNCHANGED <<purchases, cost, draft, decided, undisturbed>>

\* The UPDATE decides again, on what is committed by then, ...
Decide(b) ==
    /\ pc[b] = "update"
    /\ decided' = [decided EXCEPT ![b] = Decisions(b)]
    /\ pc' = [pc EXCEPT ![b] = "write"]
    /\ UNCHANGED <<purchases, cost, draft, after, last, undisturbed>>

\* ... and writes the lines that still have no cost when it comes to them; each
\* batch is committed.
Writable_All(b) == DOMAIN decided[b]  \* mutant: without AND unit_cost IS NULL
Writable(b) == {l \in DOMAIN decided[b] : cost[l] = NoCost}
Write(b) ==
    /\ pc[b] = "write"
    /\ cost' = Extended(cost, [l \in Writable(b) |-> decided[b][l]])
    /\ decided' = [decided EXCEPT ![b] = None]
    /\ after' = [after EXCEPT ![b] = last[b]]
    /\ pc' = [pc EXCEPT ![b] = "summary"]
    /\ Disturb(Backfill \ {b})
    /\ UNCHANGED <<purchases, draft, last>>

Finish(b) ==
    /\ pc[b] = "summary"
    /\ Candidates(b) = {}
    /\ pc' = [pc EXCEPT ![b] = "idle"]
    /\ UNCHANGED <<purchases, cost, draft, after, last, decided, undisturbed>>

\* The script dies: the batches it has committed stay.
Abort(b) ==
    /\ pc[b] # "idle"
    /\ pc' = [pc EXCEPT ![b] = "idle"]
    /\ decided' = [decided EXCEPT ![b] = None]
    /\ UNCHANGED <<purchases, cost, draft, after, last, undisturbed>>

Next ==
    \/ \E p \in Purchase : RecordPurchase(p)
    \/ \E l \in InvoiceLine : IssueLine(l) \/ CommitLine(l)
    \/ \E b \in Backfill :
          Start(b) \/ Summarise(b) \/ Decide(b) \/ Write(b) \/ Finish(b) \/ Abort(b)

Spec == Init /\ [][Next]_vars
-----------------------------------------------------------------------------
(* Properties *)

TypeOK ==
    /\ purchases \subseteq Purchase
    /\ DOMAIN cost \subseteq InvoiceLine /\ DOMAIN draft \subseteq InvoiceLine \ DOMAIN cost
    /\ pc \in [Backfill -> {"idle", "summary", "update", "write"}]

\* The cost of an issued line, once known, never changes, whatever purchases are
\* recorded after it and however many backfills overlap; one that is filled in is
\* the price of a purchase made by the date of the invoice.
CostsAreFinal == [][\A l \in DOMAIN cost :
    /\ l \in DOMAIN cost'
    /\ cost[l] # NoCost => cost'[l] = cost[l]
    /\ cost'[l] # cost[l] => \E p \in purchases : /\ p.price = cost'[l]
                                                  /\ p.date =< DateOf[l]]_vars

\* A backfill that ran undisturbed leaves no line without a cost for which the
\* purchases agree on one.
NothingIsLeftOut == [][\A b \in Backfill : Finish(b) /\ undisturbed[b] =>
    \A l \in DOMAIN cost : cost[l] = NoCost => Resolve(DateOf[l]) = NoCost]_vars

\* The product page shows the cost a line issued now would take, unless the last
\* order came without a price.
PageShowsTheCost ==
    LET now == Agreed(Prices(Best({p \in purchases : p.price # NoCost})))
    IN  now # NoCost => PagePrices \subseteq {now, NoCost}
-----------------------------------------------------------------------------
(* The inductive invariant of CostsAreFinal and NothingIsLeftOut *)

\* What a backfill is about to write are prices of purchases made in time.
IsPaid(b) == \A l \in DOMAIN decided[b] :
    /\ l \in DOMAIN cost /\ decided[b][l] # NoCost
    /\ \E p \in purchases : p.price = decided[b][l] /\ p.date =< DateOf[l]

\* As long as nobody disturbs a backfill, there is nothing to fill in behind its
\* cursor, and what it has summarised and decided still is what it would now.
IsThorough(b) == undisturbed[b] /\ pc[b] # "idle" =>
    /\ \A l \in DOMAIN cost : cost[l] = NoCost /\ l =< after[b] => Resolve(DateOf[l]) = NoCost
    /\ pc[b] # "summary" => Candidates(b) # {} /\ last[b] = NextCursor(b)
    /\ pc[b] = "write" => decided[b] = Decisions(b)

IInv ==
    /\ TypeOK
    /\ IsFiniteSet(purchases)
    /\ {after, last} \subseteq [Backfill -> Nat]
    /\ undisturbed \in [Backfill -> BOOLEAN] /\ DOMAIN decided = Backfill
    /\ \A b \in Backfill : IsPaid(b) /\ IsThorough(b)
=============================================================================

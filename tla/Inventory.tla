------------------------------ MODULE Inventory ------------------------------
(***************************************************************************)
(* Inventory: the stock ledger, the reorder alert of a stock row, the      *)
(* reorder points of a product and its page.  A behaviour is one of them,  *)
(* chosen at the start; the others rest in their first state.  The ledger  *)
(* is extended, the others are instantiated on variables of their own.     *)
(***************************************************************************)
EXTENDS StockLedger

CONSTANTS
    MaxQuantity, Delta, Point,                                       \* alerts
    StockRow, DemandDays, Today,                           \* planning, page
    Opening, Supplier, Active, Default, BusinessDefault, LeadDays, PastSales,
    Delivered, Delivery, Ordered, First, Patch, Factor, Selection, Lot, LastDay,
    MaxSales,                                                      \* planning
    PageOpening, MonthDays, YearDays, PastMoves, LastPageDay, MaxMoves \* page

VARIABLES
    part,
    row, alert, judged, aOwner, aPc, aKind, aAsks, aMine, changes,   \* alerts
    sales, deliveries, pToday, settings, pOwner, pPc, pKind, pAsks,
    found, pMine, usages, applied,                                   \* planning
    quantity, moves, today, page                                     \* page

Part == {"ledger", "alerts", "planning", "page"}

Alerts == INSTANCE ReorderAlerts WITH
    stock <- row, owner <- aOwner, pc <- aPc, kind <- aKind, asks <- aAsks, mine <- aMine

Planning == INSTANCE ReorderPlanning WITH
    Row <- StockRow, Past <- PastSales,
    today <- pToday, owner <- pOwner, pc <- pPc, kind <- pKind, asks <- pAsks,
    mine <- pMine

Page == INSTANCE ProductPage WITH
    Row <- StockRow, Opening <- PageOpening, Past <- PastMoves, LastDay <- LastPageDay

ASSUME InventoryAssumption ==
    /\ Alerts!ReorderAssumption /\ Planning!PlanningAssumption /\ Page!PageAssumption

alerts == <<row, alert, judged, aOwner, aPc, aKind, aAsks, aMine, changes>>
planning == <<sales, deliveries, pToday, settings, pOwner, pPc, pKind, pAsks,
              found, pMine, usages, applied>>
pages == <<quantity, moves, today, page>>
inventory == <<part, vars, alerts, planning, pages>>

AllInit ==
    /\ part \in Part
    /\ Init /\ (part # "ledger" => exists = {})
    /\ Alerts!Init /\ (part # "alerts" => row = Alerts!NoStock)
    /\ Planning!Init
    /\ Page!Init

Others(p) ==
    /\ UNCHANGED part
    /\ IF p = "ledger" THEN TRUE ELSE UNCHANGED vars
    /\ IF p = "alerts" THEN TRUE ELSE UNCHANGED alerts
    /\ IF p = "planning" THEN TRUE ELSE UNCHANGED planning
    /\ IF p = "page" THEN TRUE ELSE UNCHANGED pages

LedgerSteps == part = "ledger" /\ Next /\ Others("ledger")
AlertSteps == part = "alerts" /\ Alerts!Next /\ Others("alerts")
PlanningSteps == part = "planning" /\ Planning!Next /\ Others("planning")
PageSteps == part = "page" /\ Page!Next /\ Others("page")
AllNext == LedgerSteps \/ AlertSteps \/ PlanningSteps \/ PageSteps

\* The service goes on with every request, and PostgreSQL ends every wait for a
\* lock: it grants it or, in a deadlock, cancels the request.
Serve(s) ==
    \/ part = "ledger" /\ (Statement(s) \/ BreakDeadlock(s)) /\ Others("ledger")
    \/ part = "alerts" /\ Alerts!Statement(s) /\ Others("alerts")
    \/ /\ part = "planning"
       /\ Planning!Statement(s) \/ Planning!BreakDeadlock(s)
       /\ Others("planning")

AllSpec == AllInit /\ [][AllNext]_inventory /\ \A s \in Session : SF_inventory(Serve(s))
-----------------------------------------------------------------------------
(* Properties: those of the ledger, and of the others under their names here. *)

AllTypeOK ==
    /\ part \in Part
    /\ TypeOK
    /\ part = "alerts" => Alerts!TypeOK
    /\ part = "planning" => Planning!TypeOK
    /\ part = "page" => Page!TypeOK

\* The alert follows the stock, whatever people answer, comes back from every
\* snooze, and is listed under the one status it has.
AlertFollowsStock ==
    part = "alerts" => Alerts!AlertFollowsStock /\ Alerts!SnoozeEnds /\ Alerts!ListedOnce

\* What an apply has written stays as it is when it is computed again.
PlansSettle == part = "planning" => Planning!PlansSettle

\* The product page tells the past of the stock, up to a known error.
HistoryIsTrue == part = "page" => Page!HistoryIsTrue /\ Page!PageAgrees

\* Every request of every part ends, also when requests wait for one another.
Busy(s) == pc[s] # "idle" \/ aPc[s] # "idle" \/ pPc[s] # "idle"
EveryRequestEnds == \A s \in Session : Busy(s) ~> ~Busy(s)
=============================================================================

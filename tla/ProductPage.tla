----------------------------- MODULE ProductPage -----------------------------
(***************************************************************************)
(* What the product page shows of a product's stock                        *)
(* (src/backend/domains/inventory/services.py): the stock history of a     *)
(* row, counted back from the quantity, the total stock, the demand of the *)
(* months and the usage the reorder points are computed from, while the    *)
(* stock moves.  Each statement of a page sees what is committed when it   *)
(* runs (READ COMMITTED): the quantities are read first, the movements     *)
(* after.                                                                  *)
(*                                                                         *)
(* Time is in days, today's being under way.  Abstracted: the points       *)
(* within a day, reasons and notes, the 50 or 100 entries of a listing.    *)
(***************************************************************************)
EXTENDS Integers, Sequences, FiniteSetsExt

CONSTANTS
    Row,             \* the stock rows of the product, one a warehouse
    Opening,         \* their quantity before the first movement
    DemandDays,      \* lookback of the usage (90)
    MonthDays, YearDays,
    Past,            \* the movements of the past
    Today, LastDay, MaxMoves  \* bounds: the clock, movements of a row

\* The sales are those of confirmed orders, which take out of the stock.  Left out:
\* the ones backfill_sales_reservations.py makes of imported slips, where a day with
\* more brought back than sold adds to it.
Move == {m \in [at : Int, change : Int \ {0}, sale : BOOLEAN] : m.sale => m.change < 0}

SumOf(w, S) == MapThenSumSet(LAMBDA x : w[x], S)
Changes(past) == SumOf([i \in DOMAIN past |-> past[i].change], DOMAIN past)

PageAssumption ==
    /\ IsFiniteSet(Row) /\ Opening \in [Row -> Nat] /\ Past \in [Row -> Seq(Move)]
    /\ \A r \in Row : /\ \A i \in DOMAIN Past[r] : Past[r][i].at =< Today
                      /\ Opening[r] + Changes(Past[r]) >= 0
    /\ {DemandDays, MonthDays, YearDays} \subseteq Nat \ {0} /\ DemandDays =< YearDays
    /\ {Today, LastDay} \subseteq Int /\ Today =< LastDay /\ MaxMoves \in Nat

VARIABLES
    quantity,  \* what the stock rows say
    moves,     \* the StockAdjustments of each row, in the order of their commits
    today,
    page       \* what the first statement of an open page has read

vars == <<quantity, moves, today, page>>

NoPage == [open |-> FALSE, quantity |-> [r \in Row |-> 0], seen |-> [r \in Row |-> 0]]

Total(r, S) == SumOf([i \in DOMAIN moves[r] |-> moves[r][i].change], S)

Init ==
    /\ moves = Past
    /\ quantity = [r \in Row |-> Opening[r] + Changes(Past[r])]
    /\ today = Today
    /\ page = NoPage
-----------------------------------------------------------------------------
\* A committed movement (module StockLedger).  Its adjustment is dated when its
\* transaction began, which may be before midnight.
MoveStock(r, change, sale, at) ==
    /\ Len(moves[r]) < MaxMoves
    /\ quantity[r] + change >= 0
    /\ quantity' = [quantity EXCEPT ![r] = @ + change]
    /\ moves' = [moves EXCEPT ![r] =
                    Append(@, [at |-> at, change |-> change, sale |-> sale])]
    /\ UNCHANGED <<today, page>>

DayPasses ==
    /\ today < LastDay
    /\ today' = today + 1
    /\ UNCHANGED <<quantity, moves, page>>

\* The first statement of get_stock_history and of get_product_detail.
OpenPage ==
    /\ page' = [open |-> TRUE, quantity |-> quantity, seen |-> [r \in Row |-> Len(moves[r])]]
    /\ UNCHANGED <<quantity, moves, today>>
-----------------------------------------------------------------------------
(* The later statements, at the open page *)

\* get_stock_history from one day to another: what the row says was in stock at
\* the end of day d.
Counted(r, from, to) == {i \in DOMAIN moves[r] : moves[r][i].at \in from .. to}
Until(r, S, d) == {i \in S : moves[r][i].at =< d}
Initial_Everything(r, from, to) ==  \* mutant: counts back before the start too
    page.quantity[r] - Total(r, DOMAIN moves[r])
Initial(r, from, to) == page.quantity[r] - Total(r, Counted(r, from, to))
RunningStock(r, from, to, d) ==
    Initial(r, from, to) + Total(r, Until(r, Counted(r, from, to), d))

\* The total of get_product_detail.
TotalStock == SumOf(page.quantity, Row)

\* get_average_daily_usage, before it is divided by the days.
SoldSince(r, day) == {i \in DOMAIN moves[r] : moves[r][i].sale /\ moves[r][i].at >= day}
Usage(r) == -Total(r, SoldSince(r, today - DemandDays))

\* get_monthly_demand: the sales of the product month by month, as the negative
\* changes they are, back to a year before this month began.
MonthStart(d) == d - (d % MonthDays)
YearAgo == MonthStart(today) - YearDays
MonthlyDemand(m) ==
    LET inMonth(r) == {i \in SoldSince(r, YearAgo) : MonthStart(moves[r][i].at) = m}
    IN  SumOf([r \in Row |-> Total(r, inMonth(r))], Row)
-----------------------------------------------------------------------------
Next ==
    \/ \E r \in Row, back \in {0, 1} :
          \/ MoveStock(r, -1, TRUE, today - back)
          \/ MoveStock(r, 1, FALSE, today - back)
    \/ DayPasses
    \/ OpenPage

Spec == Init /\ [][Next]_vars
-----------------------------------------------------------------------------
(* Properties *)

TypeOK ==
    /\ quantity \in [Row -> Nat]
    /\ moves \in [Row -> Seq(Move)]
    /\ today \in Today .. LastDay
    /\ page \in [open : BOOLEAN, quantity : [Row -> Nat], seen : [Row -> Nat]]

\* A row says what has moved in and out of it, and an open page what had when its
\* first statement ran.
IInv ==
    /\ TypeOK
    /\ \A r \in Row :
          /\ \A i \in DOMAIN moves[r] : moves[r][i].at =< today
          /\ quantity[r] = Opening[r] + Total(r, DOMAIN moves[r])
          /\ page.seen[r] =< Len(moves[r])
          /\ page.open => page.quantity[r] = Opening[r] + Total(r, 1 .. page.seen[r])

\* The stock history says how much there was at the end of each day, except that
\* every day is off by the same: by what moved after its end date, which is never
\* counted back, and by what was committed between its two statements.
HistoryIsTrue == page.open =>
    \A r \in Row, from, to \in Today - 2 .. LastDay :
        LET Seen(i) == i =< page.seen[r]
            late == {i \in DOMAIN moves[r] : Seen(i) /\ moves[r][i].at > to}
            meanwhile == {i \in DOMAIN moves[r] : ~Seen(i) /\ moves[r][i].at =< to}
            Truth(d) == Opening[r] + Total(r, Until(r, DOMAIN moves[r], d))
        IN  \A d \in from .. to :
                RunningStock(r, from, to, d) = Truth(d) + Total(r, late) - Total(r, meanwhile)

\* The movements a page lists add up to the total it shows, but for those
\* committed between its statements.  Its months hold every sale the usage
\* counts, and none of them shows more brought back than sold.
PageAgrees ==
    LET months == {MonthStart(d) : d \in YearAgo .. LastDay}
        Listed(r) == Opening[r] + Total(r, DOMAIN moves[r])
        Meanwhile(r) == Total(r, page.seen[r] + 1 .. Len(moves[r]))
    IN  /\ page.open => TotalStock = SumOf([r \in Row |-> Listed(r) - Meanwhile(r)], Row)
        /\ SumOf([r \in Row |-> Usage(r)], Row) =< SumOf([m \in months |-> -MonthlyDemand(m)], months)
        /\ \A m \in months : MonthlyDemand(m) =< 0
=============================================================================

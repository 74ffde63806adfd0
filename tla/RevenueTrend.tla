---------------------------- MODULE RevenueTrend ----------------------------
(***************************************************************************)
(* The revenue chart of the owner dashboard: get_revenue_trend of          *)
(* src/backend/domains/dashboard/services.py, which answers a page of days,*)
(* weeks or months and whether there is more, and the hook that asks for   *)
(* it (useRevenueTrend of src/src/domain/dashboard/hooks/useDashboard.ts): *)
(* it prepends older pages, and starts over when the period is changed or  *)
(* the owner refreshes, while earlier requests may still be answered, in   *)
(* any order.                                                              *)
(*                                                                         *)
(* Abstracted: days are numbers and weeks and months have one length each; *)
(* an invoice is a unit of revenue on its day, and invoices do not change  *)
(* while the chart is looked at; loading indicators.                       *)
(***************************************************************************)
EXTENDS Integers, Sequences, FiniteSets

CONSTANTS
    Today,
    Week, Month,           \* their lengths in days
    PageDays,              \* days on a page (30)
    WeekMonths, PageMonths, \* months on a page of weeks (3) and of months (12)
    MaxSold,               \* bound: days on which something was sold
    MaxRequests,           \* bound: requests of one owner
    Patient                \* TRUE: the owner asks only when nothing is under way

TrendAssumption ==
    /\ {Today, MaxSold} \subseteq Nat
    /\ {Week, Month, PageDays, WeekMonths, PageMonths, MaxRequests} \subseteq Nat \ {0}
    /\ Patient \in BOOLEAN

Granularity == {"day", "week", "month"}
NoDate == -1

VARIABLES
    sold,      \* the days with an invoice that is not voided
    period,    \* what the owner has chosen
    items,     \* the chart, oldest first
    hasMore,
    asked,     \* requests made so far
    underway   \* requests not answered yet

vars == <<sold, period, items, hasMore, asked, underway>>
-----------------------------------------------------------------------------
(* get_revenue_trend *)

\* date_trunc.
Truncate(g, d) == CASE g = "day" -> d
                    [] g = "week" -> (d \div Week) * Week
                    [] g = "month" -> (d \div Month) * Month

\* The days of a page: up to today, or to the day before a cursor; months that
\* are over, or those before the month of the cursor.
LastDay_Cursor(before) == IF before = NoDate THEN Today ELSE before  \* mutant: the cursor's day again
LastDay(before) == IF before = NoDate THEN Today ELSE before - 1
Page(g, before) ==
    CASE g = "day" -> LastDay(before) - (PageDays - 1) .. LastDay(before)
      [] g = "week" -> LastDay(before) - 4 * WeekMonths * Week .. LastDay(before)
      [] g = "month" ->
           LET end == Truncate(g, IF before = NoDate THEN Today ELSE before)
           IN  end - PageMonths * Month .. end - 1

\* The rows: revenue by day, week or month, ascending.
Item(g, days, start) ==
    [date |-> start, unit |-> g,
     revenue |-> Cardinality({d \in sold \cap days : Truncate(g, d) = start})]
Ascending(S) ==
    CHOOSE s \in [1 .. Cardinality(S) -> S] : \A j, k \in DOMAIN s : j < k => s[j] < s[k]
Items(g, days) ==
    LET starts == Ascending({Truncate(g, d) : d \in sold \cap days})
    IN  [k \in DOMAIN starts |-> Item(g, days, starts[k])]

\* Whether anything was sold before the oldest row; for months, whether anything
\* was before the month that precedes it.
HasMore(g, rows) ==
    /\ rows # <<>>
    /\ LET oldest == rows[1].date
       IN  \E d \in sold : CASE g = "day" -> d < oldest
                             [] g = "week" -> Truncate(g, d) < oldest
                             [] g = "month" -> d < Truncate(g, oldest - 1)
-----------------------------------------------------------------------------
(* useRevenueTrend *)

Init ==
    /\ sold \in {ds \in SUBSET (0 .. Today) : Cardinality(ds) =< MaxSold}
    /\ period \in Granularity
    /\ items = <<>>
    /\ hasMore = FALSE
    /\ asked = 1
    /\ underway = {[id |-> 1, unit |-> period, before |-> NoDate]}

\* load: the request under way is aborted, but its fetch knows nothing of it.
Load(g, before) ==
    /\ asked < MaxRequests
    /\ asked' = asked + 1
    /\ underway' = underway \cup {[id |-> asked + 1, unit |-> g, before |-> before]}
    /\ UNCHANGED sold

\* The period is changed, or everything is loaded again: an empty chart first.
ChangePeriod(g) ==
    /\ Patient => underway = {}
    /\ period' = g
    /\ items' = <<>>
    /\ UNCHANGED hasMore
    /\ Load(g, NoDate)

\* loadMore: the date of the oldest row is the cursor.  One at a time.
LoadMore ==
    /\ \A r \in underway : r.before = NoDate
    /\ Patient => underway = {}
    /\ hasMore /\ items # <<>>
    /\ UNCHANGED <<period, items, hasMore>>
    /\ Load(period, items[1].date)

\* An answer comes: the guard asks whether the newest request has been aborted,
\* which none ever is, and not whether this one has.
Answer(r) ==
    LET rows == Items(r.unit, Page(r.unit, r.before))
    IN  /\ underway' = underway \ {r}
        /\ items' = IF r.before = NoDate THEN rows ELSE rows \o items
        /\ hasMore' = HasMore(r.unit, rows)
        /\ UNCHANGED <<sold, period, asked>>

\* The request fails: the chart stays as it is.
Fail(r) ==
    /\ underway' = underway \ {r}
    /\ UNCHANGED <<sold, period, items, hasMore, asked>>

Next ==
    \/ \E g \in Granularity : ChangePeriod(g)
    \/ LoadMore
    \/ \E r \in underway : Answer(r) \/ Fail(r)

Spec == Init /\ [][Next]_vars
-----------------------------------------------------------------------------
(* Properties *)

TypeOK ==
    /\ sold \subseteq 0 .. Today
    /\ period \in Granularity
    /\ items \in Seq([date : Int, unit : Granularity, revenue : Nat])
    /\ hasMore \in BOOLEAN
    /\ asked \in 1 .. MaxRequests
    /\ \A r \in underway : r.id \in 1 .. asked /\ r.unit \in Granularity

\* Pages of days and of months join: from the oldest row shown to the newest,
\* every day or month appears once, in order, with everything sold in it.
\* (Pages of weeks do not: the first week of a page is cut.)
PagesJoin ==
    period # "week" /\ items # <<>> => LET last == Len(items) IN
        /\ \A k \in 1 .. last - 1 : items[k].date < items[k + 1].date
        /\ \A d \in sold :
              LET start == Truncate(period, d)
              IN  items[1].date =< start /\ start =< items[last].date =>
                    \E k \in 1 .. last : /\ items[k].date = start
                                         /\ items[k].revenue = Cardinality(
                                              {e \in sold : Truncate(period, e) = start})

\* What is shown is what was asked for last: an aborted request is ignored
\* (useDashboard.ts, lines 335 and 341).
ShownAsAsked == \A k \in DOMAIN items : items[k].unit = period
-----------------------------------------------------------------------------
(* The inductive invariant of PagesJoin, for an owner who waits *)

\* The rows are days or months of sales, oldest first and whole, and none of those
\* in between is left out.
IsWhole(g, rows) ==
    /\ \A j, k \in DOMAIN rows : j < k => rows[j].date < rows[k].date
    /\ \A k \in DOMAIN rows :
          rows[k].revenue = Cardinality({d \in sold : Truncate(g, d) = rows[k].date})
    /\ \A d \in sold : (\E j, k \in DOMAIN rows : /\ rows[j].date =< Truncate(g, d)
                                                  /\ Truncate(g, d) =< rows[k].date)
                          => \E k \in DOMAIN rows : rows[k].date = Truncate(g, d)

\* One request at most is under way; an older page joins the oldest row.
WaitsItsTurn ==
    /\ \A r, q \in underway : r = q
    /\ \A r \in underway :
          /\ r.unit = period
          /\ r.before # NoDate => items # <<>> /\ r.before = items[1].date
    /\ \A k \in DOMAIN items : items[k].unit = period
                               /\ \E d \in sold : items[k].date = Truncate(period, d)
    /\ period # "week" => IsWhole(period, items)

IInv ==
    /\ TypeOK
    /\ underway \subseteq [id : Nat, unit : Granularity, before : Int]
    /\ Patient => WaitsItsTurn
=============================================================================

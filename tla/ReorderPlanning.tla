--------------------------- MODULE ReorderPlanning ---------------------------
(***************************************************************************)
(* The reorder points of one product in its warehouses, of                 *)
(* src/backend/domains/inventory/reorder_point.py: the product is sold,    *)
(* suppliers deliver, people PATCH the settings of a row, and an apply     *)
(* previews the rows from demand and lead times and writes the previewed   *)
(* settings back, all concurrently under READ COMMITTED.                   *)
(*                                                                         *)
(* Time is in days.  Safety factors are in halves, so that the usage per   *)
(* day and the safety stock need no rounding; what the code rounds to      *)
(* whole units is rounded here the same way.                               *)
(* Abstracted: the statements of a stock movement (module StockLedger) and *)
(* movements that are no sale, which the computation does not look at;     *)
(* on_order, in_transit and reserved count as one quantity, "coming"; what *)
(* a preview reads of one row (demand, then lead time) is read in one      *)
(* step; notes and confidence are wording.                                 *)
(***************************************************************************)
EXTENDS Integers, Sequences, FiniteSets, FiniteSetsExt, RowLocks

CONSTANTS
    Row,               \* the stock rows of the product, one a warehouse
    Opening,           \* their quantity before the first sale
    Supplier, Active,  \* suppliers, and the active ones
    Default,           \* their default_lead_time_days, 0 for none
    BusinessDefault,   \* DEFAULT_LEAD_TIME_DAYS (80)
    DemandDays,        \* demand_lookback_days (90)
    LeadDays,          \* lead_time_lookback_days (180)
    Past, Delivered,   \* sales and deliveries of the past
    Delivery,          \* deliveries that may come
    Ordered,           \* rows and suppliers of order lines not received so far
    First,             \* settings the rows may have at first
    Patch,             \* what people PATCH: columns of a row with their new values
    Factor, Selection, \* safety factors and rows an apply asks for
    Lot,               \* units a confirmed order takes
    Today, LastDay, MaxSales  \* bounds: the clock, sales of a row

Column == {"point", "factor", "lead", "policy", "target", "horizon", "cycle", "coming"}
Policy == {"continuous", "periodic", "manual"}
Sale == [at : Nat, units : Nat \ {0}]
Line == [row : Row, supplier : Supplier, took : Int, on : Int]
Settings == [point : Nat, factor : Nat, lead : Nat, policy : Policy, target : Nat,
             horizon : Nat, cycle : Nat, coming : Int]
Value(c) == IF c = "policy" THEN Policy ELSE IF c = "coming" THEN Int ELSE Nat

SumOf(w, S) == MapThenSumSet(LAMBDA x : w[x], S)

PlanningAssumption ==
    /\ Opening \in [Row -> Nat] /\ Active \subseteq Supplier
    /\ Default \in [Supplier -> Nat] /\ BusinessDefault \in Nat \ {0}
    /\ {DemandDays, LeadDays} \subseteq Nat \ {0}
    /\ Past \in [Row -> Seq(Sale)] /\ Delivered \in Seq(Line)
    /\ \A r \in Row : SumOf([i \in DOMAIN Past[r] |-> Past[r][i].units], DOMAIN Past[r]) =< Opening[r]
    /\ \A d \in Delivery : d.row \in Row /\ d.supplier \in Supplier /\ d.took \in Int
    /\ Ordered \subseteq Row \X Supplier /\ IsFiniteSet(Ordered)
    /\ First \subseteq [Row -> Settings]
    /\ \A p \in Patch : /\ p.row \in Row /\ DOMAIN p.body \subseteq Column
                        /\ \A c \in DOMAIN p.body : p.body[c] \in Value(c)
    /\ Factor \subseteq Nat \ {0} /\ Selection \subseteq SUBSET Row /\ Lot \subseteq Nat \ {0}
    /\ Today \in Nat /\ LastDay \in Nat /\ Today =< LastDay /\ MaxSales \in Nat

VARIABLES
    sales,            \* the committed SALES_RESERVATION adjustments of a row
    deliveries,       \* received lines: row, supplier, days it took, day received
    today,
    settings,         \* the other columns of the stock rows
    owner,            \* who holds which stock row
    pc, kind, asks,   \* what each session is about to do, its request
    found,            \* the settings an apply has selected, row by row
    mine, usages,     \* the columns a session writes; the demand they rest on
    applied           \* history: the demand behind settings an apply wrote last

outside == <<sales, deliveries, today>>
request == <<kind, asks>>
objects == <<found, mine, usages>>
vars == <<outside, settings, owner, pc, request, objects, applied>>

None == [x \in {} |-> 0]
NotApplied == -1
NoRequest == [factor |-> 0, rows |-> {}, body |-> None]

Init ==
    /\ sales = Past
    /\ deliveries = Delivered
    /\ today = Today
    /\ settings \in First
    /\ owner = Unlocked(Row)
    /\ pc = [s \in Session |-> "idle"]
    /\ kind = [s \in Session |-> "none"]
    /\ asks = [s \in Session |-> NoRequest]
    /\ found = [s \in Session |-> None]
    /\ mine = [s \in Session |-> None]
    /\ usages = [s \in Session |-> None]
    /\ applied = [r \in Row |-> NotApplied]
-----------------------------------------------------------------------------
(* Demand and lead time of a row *)

\* get_average_daily_usage: sales of the last days, today and the day the
\* lookback ends included.  The usage per day is their sum over DemandDays.
Demanded(r) == {i \in DOMAIN sales[r] : sales[r][i].at >= today - DemandDays}
Sold(r, S) == SumOf([i \in DOMAIN sales[r] |-> sales[r][i].units], S)
Usage(r) == Sold(r, Demanded(r))
Quantity(r) == Opening[r] - Sold(r, DOMAIN sales[r])

\* resolve_replenishment_source: who delivered more than 60 % of the lines.
Received(r) == {i \in DOMAIN deliveries : /\ deliveries[i].row = r
                                          /\ deliveries[i].on >= today - LeadDays}
Of(x, lines) == {i \in lines : deliveries[i].supplier = x}
Dominant(r) ==
    {x \in Supplier : 10 * Cardinality(Of(x, Received(r))) > 6 * Cardinality(Received(r))}

\* Python's round: half to even.
Round(n, d) ==
    LET twice == 2 * (n % d)
        whole == n \div d
    IN  IF twice > d \/ (twice = d /\ whole % 2 = 1) THEN whole + 1 ELSE whole

\* get_actual_lead_time_stats: the average of a supplier's lines, at least a day;
\* 0 if it makes no sense.
AtLeast(n, m) == IF n < m THEN m ELSE n
Actual(r, x) ==
    LET lines == Of(x, Received(r))
        days == SumOf([i \in lines |-> deliveries[i].took], lines)
    IN  IF days < 0 THEN 0 ELSE AtLeast(Round(days, Cardinality(lines)), 1)

\* get_lead_time_details: the dominant supplier's lead time, its default, or the
\* longest default of the active suppliers it was ever ordered from if nobody
\* dominates, or 80 days.
OrTheDefault(n) == IF n > 0 THEN n ELSE BusinessDefault
LeadTime(r) ==
    LET delivered == {i \in DOMAIN deliveries : deliveries[i].row = r}
        ever == {deliveries[i].supplier : i \in delivered}
                    \cup {o[2] : o \in {p \in Ordered : p[1] = r}}
    IN  IF Dominant(r) = {}
        THEN OrTheDefault(Max({Default[x] : x \in ever \cap Active} \cup {0}))
        ELSE LET x == CHOOSE y \in Dominant(r) : TRUE
             IN  IF Actual(r, x) > 0 THEN Actual(r, x) ELSE OrTheDefault(Default[x])
-----------------------------------------------------------------------------
(* The preview of a row: compute_reorder_point_preview_row *)

\* _normalize_policy_type.
Normalized(st) ==
    IF st.policy = "manual" THEN "manual"
    ELSE IF st.cycle > 0 THEN "periodic" ELSE st.policy

\* Manual rows and rows with less than two sales are skipped.
Skipped(r, st) == Normalized(st) = "manual" \/ Cardinality(Demanded(r)) < 2

\* A row's own lead time and safety factor take precedence.
LeadOf_Computed(r, st) == LeadTime(r)  \* mutant: forgets the row's own
LeadOf(r, st) == IF st.lead > 0 THEN st.lead ELSE LeadTime(r)
FactorOf(st, factor) == IF st.factor > 0 THEN st.factor ELSE factor

\* usage * days + usage * factor * lead, to whole units: with `days` the lead
\* time this is the reorder point, else the level of a periodic row.
Units(r, days, factor, lead) ==
    Round(Usage(r) * (2 * days + factor * lead), 2 * DemandDays)

Plan(r, st, factor) ==
    LET lead == LeadOf(r, st)
        safety == FactorOf(st, factor)
    IN  [st EXCEPT !.factor = safety, !.lead = lead, !.policy = Normalized(st),
                   !.point = Units(r, lead, safety, lead)]

\* _compute_target_stock_level and the order that fills up to it.
Level(r, plan) ==
    LET horizon == IF plan.horizon > 0 THEN plan.horizon ELSE plan.cycle
    IN  IF plan.target > 0 THEN plan.target
        ELSE IF plan.policy = "periodic"
             THEN Units(r, plan.lead + horizon, plan.factor, plan.lead)
        ELSE plan.point
Suggested(r, plan) == AtLeast(Level(r, plan) - (Quantity(r) + plan.coming), 0)
-----------------------------------------------------------------------------
(* Requests *)

GoTo(s, label) == pc' = [pc EXCEPT ![s] = label]

Begin(s, k, what) ==
    /\ pc[s] = "idle"
    /\ kind' = [kind EXCEPT ![s] = k]
    /\ asks' = [asks EXCEPT ![s] = what]
    /\ GoTo(s, "select")
    /\ UNCHANGED <<outside, settings, owner, objects, applied>>

\* PUT /reorder-points/apply, and PATCH /stocks/{id}.
ApplyReorderPoints(s, factor, rows) ==
    /\ rows # {}
    /\ Begin(s, "apply", [factor |-> factor, rows |-> rows, body |-> None])
UpdateStockSettings(s, p) ==
    Begin(s, "patch", [factor |-> 0, rows |-> {p.row}, body |-> p.body])

\* Both select without a lock: the apply the settings it previews, the PATCH the
\* row it changes.  Its UPDATE will send the columns that differ.
Select(s) ==
    LET rows == asks[s].rows
        body == asks[s].body
        Differing(st) == [c \in {d \in DOMAIN body : st[d] # body[d]} |-> body[c]]
    IN  /\ pc[s] = "select"
        /\ IF kind[s] = "apply"
           THEN /\ found' = [found EXCEPT ![s] = [r \in rows |-> settings[r]]]
                /\ GoTo(s, "preview")
                /\ UNCHANGED mine
           ELSE /\ mine' = [mine EXCEPT ![s] = [r \in rows |-> Differing(settings[r])]]
                /\ GoTo(s, "lock")
                /\ UNCHANGED found
        /\ UNCHANGED <<outside, settings, owner, request, usages, applied>>

\* The rows are previewed one after the other.
Extended(f, x, y) == [z \in DOMAIN f \cup {x} |-> IF z = x THEN y ELSE f[z]]
Without(f, x) == [z \in DOMAIN f \ {x} |-> f[z]]
PreviewRow(s) == \E r \in DOMAIN found[s] :
    /\ pc[s] = "preview"
    /\ found' = [found EXCEPT ![s] = Without(@, r)]
    /\ IF Skipped(r, found[s][r])
       THEN UNCHANGED <<mine, usages>>
       ELSE /\ mine' = [mine EXCEPT ![s] = Extended(@, r, Plan(r, found[s][r], asks[s].factor))]
            /\ usages' = [usages EXCEPT ![s] = Extended(@, r, Usage(r))]
    /\ IF DOMAIN found[s] = {r} THEN GoTo(s, "lock") ELSE UNCHANGED pc
    /\ UNCHANGED <<outside, settings, owner, request, applied>>

\* SELECT ... FOR UPDATE of the rows in turn, in whatever order the preview
\* listed them, or the UPDATE of the PATCH, if it changes anything.
ToLock(s) == {r \in DOMAIN mine[s] : owner[r] # s /\ DOMAIN mine[s][r] # {}}
LockRow(s) == \E r \in ToLock(s) :
    /\ pc[s] = "lock"
    /\ Available(owner, s, r)
    /\ owner' = Acquire(owner, s, r)
    /\ UNCHANGED <<outside, settings, pc, request, objects, applied>>

Close(s) ==
    /\ owner' = Release(owner, s)
    /\ GoTo(s, "idle")
    /\ kind' = [kind EXCEPT ![s] = "none"]
    /\ asks' = [asks EXCEPT ![s] = NoRequest]
    /\ found' = [found EXCEPT ![s] = None]
    /\ mine' = [mine EXCEPT ![s] = None]
    /\ usages' = [usages EXCEPT ![s] = None]
    /\ UNCHANGED outside

\* Every locked row gets the columns that were sent, and keeps the others: for an
\* apply these are all of them, as they were previewed.
Overwritten(r, sent) == [c \in Column |-> IF c \in DOMAIN sent THEN sent[c] ELSE settings[r][c]]
Commit(s) ==
    /\ pc[s] = "lock"
    /\ ToLock(s) = {}
    /\ settings' = [r \in Row |-> IF owner[r] = s THEN Overwritten(r, mine[s][r])
                                                  ELSE settings[r]]
    /\ applied' = [r \in Row |-> IF owner[r] # s THEN applied[r]
                                 ELSE IF kind[s] = "apply" THEN usages[s][r]
                                 ELSE NotApplied]
    /\ Close(s)

\* The connection is lost, or PostgreSQL cancels a member of a deadlock.
Abort(s) ==
    /\ pc[s] # "idle"
    /\ Close(s)
    /\ UNCHANGED <<settings, applied>>
Blocker(s) ==
    IF pc[s] = "lock" /\ ToLock(s) # {} /\ \A r \in ToLock(s) : ~Available(owner, s, r)
    THEN owner[CHOOSE r \in ToLock(s) : TRUE] ELSE NoSession
BreakDeadlock(s) == s \in Deadlocked([t \in Session |-> Blocker(t)]) /\ Abort(s)
-----------------------------------------------------------------------------
(* What else happens *)

\* A confirmed order takes some units of a row nobody holds.
Sell(r, units) ==
    /\ Len(sales[r]) < MaxSales
    /\ owner[r] = NoSession
    /\ units =< Quantity(r)
    /\ sales' = [sales EXCEPT ![r] = Append(@, [at |-> today, units |-> units])]
    /\ UNCHANGED <<deliveries, today, settings, owner, pc, request, objects, applied>>
Deliver(d) ==
    /\ deliveries = Delivered
    /\ deliveries' = Append(deliveries, [row |-> d.row, supplier |-> d.supplier,
                                         took |-> d.took, on |-> today])
    /\ UNCHANGED <<sales, today, settings, owner, pc, request, objects, applied>>
DayPasses ==
    /\ today < LastDay
    /\ today' = today + 1
    /\ UNCHANGED <<sales, deliveries, settings, owner, pc, request, objects, applied>>
-----------------------------------------------------------------------------
Statement(s) == Select(s) \/ PreviewRow(s) \/ LockRow(s) \/ Commit(s)

Next ==
    \/ \E r \in Row, units \in Lot : Sell(r, units)
    \/ \E d \in Delivery : Deliver(d)
    \/ DayPasses
    \/ \E s \in Session :
          \/ \E factor \in Factor, rows \in Selection : ApplyReorderPoints(s, factor, rows)
          \/ \E p \in Patch : UpdateStockSettings(s, p)
          \/ Statement(s) \/ Abort(s) \/ BreakDeadlock(s)

Spec == Init /\ [][Next]_vars
-----------------------------------------------------------------------------
(* Properties *)

TypeOK ==
    /\ \A r \in Row : sales[r] \in Seq(Sale) /\ Quantity(r) >= 0
    /\ settings \in [Row -> Settings]
    /\ owner \in [Row -> Session \cup {NoSession}]
    /\ pc \in [Session -> {"idle", "select", "preview", "lock"}]
    /\ kind \in [Session -> {"none", "apply", "patch"}]

\* Settings an apply has written are settled, whoever else applied or patched
\* meanwhile: another preview, with any safety factor, changes none of them but
\* the reorder point, and not that either while the demand is the same.  And
\* what the preview suggests to order is enough: once it is on order, nothing
\* more is suggested.
PlansSettle == \A r \in Row, f \in 1 .. 4 : applied[r] # NotApplied =>
    LET plan == Plan(r, settings[r], f)
        ordered == [plan EXCEPT !.coming = @ + Suggested(r, plan)]
    IN  /\ \A c \in Column \ {"point"} : plan[c] = settings[r][c]
        /\ Usage(r) = applied[r] => plan.point = settings[r].point
        /\ Suggested(r, ordered) = 0

\* The inductive invariant of it: an apply writes settings that are settled for the
\* demand it has read, to rows it has previewed and holds.
Settled(st, usage) ==
    /\ st.lead > 0 /\ st.factor > 0
    /\ Normalized(st) = st.policy
    /\ st.point = Round(usage * (2 * st.lead + st.factor * st.lead), 2 * DemandDays)

WritesSettled(s) ==
    /\ DOMAIN usages[s] = DOMAIN mine[s]
    /\ \A r \in DOMAIN mine[s] : /\ mine[s][r] \in Settings /\ usages[s][r] \in Nat
                                /\ Settled(mine[s][r], usages[s][r])
Sends(body) ==
    /\ DOMAIN body \subseteq Column
    /\ \A c \in DOMAIN body : body[c] \in Value(c)
FitsItsRequest(s) ==
    /\ asks[s].rows \subseteq Row
    /\ kind[s] = "apply" => asks[s].factor \in Nat \ {0}
    /\ kind[s] = "patch" => Sends(asks[s].body)
    /\ pc[s] # "idle" => kind[s] \in {"apply", "patch"}
    /\ pc[s] \in {"idle", "select"} => DOMAIN mine[s] = {} /\ DOMAIN usages[s] = {}
    /\ pc[s] = "preview" => kind[s] = "apply"
InStep(s) ==
    /\ FitsItsRequest(s)
    /\ DOMAIN found[s] \subseteq Row /\ \A r \in DOMAIN found[s] : found[s][r] \in Settings
    /\ DOMAIN mine[s] \subseteq Row
    /\ kind[s] = "apply" => WritesSettled(s)
    /\ kind[s] = "patch" => \A r \in DOMAIN mine[s] : Sends(mine[s][r])
    /\ \A r \in Row : owner[r] = s => pc[s] = "lock" /\ r \in DOMAIN mine[s]

IInv ==
    /\ TypeOK
    /\ sales \in [Row -> Seq(Sale)] /\ deliveries \in Seq(Line) /\ today \in Nat
    /\ {DOMAIN asks, DOMAIN found, DOMAIN mine, DOMAIN usages} = {Session}
    /\ applied \in [Row -> Nat \cup {NotApplied}]
    /\ \A r \in Row : applied[r] # NotApplied => Settled(settings[r], applied[r])
    /\ \A s \in Session : InStep(s)

\* Every apply and every PATCH ends.
Answered == \A s \in Session : pc[s] # "idle" ~> pc[s] = "idle"
=============================================================================

----------------------------- MODULE SalesMonthly -----------------------------
(***************************************************************************)
(* The monthly sales table of src/backend/domains/product_analytics: what  *)
(* was sold of each product in a month that is over, aggregated from the   *)
(* order lines by refreshes that delete and upsert its rows, while orders  *)
(* change and other refreshes run (READ COMMITTED).  The current month is  *)
(* read from the orders themselves.  One month is followed, from before it *)
(* ends to after.                                                          *)
(*                                                                         *)
(* Abstracted: revenue, order count and average price, which are written   *)
(* together with the quantity; lines without a snapshot, which are only    *)
(* reported; a key stands for a product with its two snapshots.            *)
(***************************************************************************)
EXTENDS Integers, FiniteSets, FiniteSetsExt, RowLocks

CONSTANTS
    Key,     \* products, in the order of their names
    MaxSold  \* bound of the quantity sold of each

SalesAssumption == Key \subseteq Nat /\ MaxSold \in Nat

Quantity == [Key -> 0 .. MaxSold]   \* 0: no line, no row
Nothing == [k \in Key |-> 0]

VARIABLES
    month,     \* "current" or "closed"
    sold,      \* what the committed countable orders of the month add up to
    table,     \* the committed rows of sales_monthly
    owner,     \* who has deleted or written the row of a key
    pc,        \* what each refresh is about to do
    points,    \* the aggregate it has loaded
    todo       \* the keys it has yet to delete or write

refresh == <<owner, pc, points, todo>>
vars == <<month, sold, table, refresh>>

Init ==
    /\ month = "current"
    /\ sold = Nothing
    /\ table = Nothing
    /\ owner = Unlocked(Key)
    /\ pc = [s \in Session |-> "idle"]
    /\ points = [s \in Session |-> Nothing]
    /\ todo = [s \in Session |-> {}]
-----------------------------------------------------------------------------
\* Orders of the month are confirmed while it lasts, and cancelled or imported
\* at any time.
Sell(k, n) ==
    /\ n # sold[k]
    /\ sold' = [sold EXCEPT ![k] = n]
    /\ UNCHANGED <<month, table, refresh>>

\* The clock passes the end of the month (UTC).
TurnOfMonth ==
    /\ month = "current"
    /\ month' = "closed"
    /\ UNCHANGED <<sold, table, refresh>>

\* The keys of an aggregate, and the rows a refresh deletes.
Keys(q) == {k \in Key : q[k] > 0}
Stale_OfSome(q) ==  \* mutant: without a point there is nothing to do
    IF Keys(q) = {} THEN {} ELSE Keys(table) \ Keys(q)
Stale(q) == Keys(table) \ Keys(q)

\* refresh_sales_monthly skips the current month, loads the aggregate of another
\* one and finds the rows to delete.
Refresh(s) ==
    /\ pc[s] = "idle"
    /\ month = "closed"
    /\ points' = [points EXCEPT ![s] = sold]
    /\ pc' = [pc EXCEPT ![s] = "stale"]
    /\ UNCHANGED <<month, sold, table, owner, todo>>

FindStale(s) ==
    /\ pc[s] = "stale"
    /\ todo' = [todo EXCEPT ![s] = Stale(points[s])]
    /\ pc' = [pc EXCEPT ![s] = "delete"]
    /\ UNCHANGED <<month, sold, table, owner, points>>

\* The DELETE locks row after row, in no particular order; the multi-row INSERT
\* ... ON CONFLICT DO UPDATE does so in the order of the names.
Delete(s) ==
    /\ pc[s] = "delete"
    /\ \/ \E k \in todo[s] : /\ Available(owner, s, k)
                             /\ owner' = Acquire(owner, s, k)
                             /\ todo' = [todo EXCEPT ![s] = @ \ {k}]
                             /\ UNCHANGED pc
       \/ /\ todo[s] = {}
          /\ todo' = [todo EXCEPT ![s] = Keys(points[s])]
          /\ pc' = [pc EXCEPT ![s] = "upsert"]
          /\ UNCHANGED owner
    /\ UNCHANGED <<month, sold, table, points>>

Upsert(s) == \E k \in todo[s] :
    /\ pc[s] = "upsert"
    /\ k = Min(todo[s])
    /\ Available(owner, s, k)
    /\ owner' = Acquire(owner, s, k)
    /\ todo' = [todo EXCEPT ![s] = @ \ {k}]
    /\ UNCHANGED <<month, sold, table, pc, points>>

Close(s) ==
    /\ owner' = Release(owner, s)
    /\ pc' = [pc EXCEPT ![s] = "idle"]
    /\ points' = [points EXCEPT ![s] = Nothing]
    /\ todo' = [todo EXCEPT ![s] = {}]
    /\ UNCHANGED <<month, sold>>

Commit(s) ==
    /\ pc[s] = "upsert"
    /\ todo[s] = {}
    /\ table' = [k \in Key |-> IF owner[k] = s THEN points[s][k] ELSE table[k]]
    /\ Close(s)

\* The refresh fails, or is the victim of a deadlock: A deletes the row B writes
\* and writes the one B deletes.
Abort(s) ==
    /\ pc[s] # "idle"
    /\ Close(s)
    /\ UNCHANGED table

\* read_sales_monthly_range of the month: the table once it is closed, the
\* orders before.
Shown == IF month = "closed" THEN table ELSE sold

Statement(s) == FindStale(s) \/ Delete(s) \/ Upsert(s) \/ Commit(s)

Next ==
    \/ TurnOfMonth
    \/ \E k \in Key, n \in 0 .. MaxSold : Sell(k, n)
    \/ \E s \in Session : Refresh(s) \/ Statement(s) \/ Abort(s)

Spec == Init /\ [][Next]_vars
-----------------------------------------------------------------------------
(* Properties *)

TypeOK ==
    /\ month \in {"current", "closed"}
    /\ sold \in Quantity /\ table \in Quantity
    /\ owner \in [Key -> Session \cup {NoSession}]
    /\ pc \in [Session -> {"idle", "stale", "delete", "upsert"}]
    /\ points \in [Session -> Quantity]
    /\ todo \in [Session -> SUBSET Key]

\* Once the orders of a month no longer change and refreshes go on being
\* committed, what is shown of the month is what was sold, for good: refreshes
\* with older aggregates may overwrite and delete one another's rows meanwhile,
\* and the month may turn at any time (story 20-3).
MonthSettles ==
    /\ <>[][UNCHANGED sold]_vars
    /\ []<><<\E s \in Session : Commit(s)>>_vars
    => <>[](Shown = sold)
=============================================================================

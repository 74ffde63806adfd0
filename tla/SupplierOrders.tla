---------------------------- MODULE SupplierOrders ----------------------------
(***************************************************************************)
(* A supplier order of src/backend/domains/inventory: it is created with   *)
(* its lines, moves along its statuses and is received, all at once or     *)
(* line by line, by several people at once, each in a transaction of its   *)
(* own under READ COMMITTED.  Whoever receives or changes the status locks *)
(* the order's row before reading anything.                                *)
(*                                                                         *)
(* Abstracted: the adjustment, audit and alert rows of a receipt and the   *)
(* order in which it locks several stock rows (modules StockLedger and     *)
(* ReorderAlerts); here all lines fill one stock row.                      *)
(***************************************************************************)
EXTENDS Integers, FiniteSets, FiniteSetsExt, RowLocks

CONSTANTS
    Line,        \* lines of the order
    Ordered,     \* [Line -> quantity ordered]
    OtherLine,   \* the id of a line of another order
    Receipt      \* the quantities people enter: functions from line ids

SupplierAssumption ==
    /\ IsFiniteSet(Line) /\ Line # {}
    /\ Ordered \in [Line -> Nat \ {0}]
    /\ OtherLine \notin Line
    /\ \A q \in Receipt : q \in [DOMAIN q -> Int] /\ DOMAIN q \subseteq Line \cup {OtherLine}

Status == {"PENDING", "CONFIRMED", "SHIPPED", "PARTIALLY_RECEIVED", "RECEIVED",
           "CANCELLED"}
NoOrder == [status |-> "none", received |-> [l \in Line |-> 0]]
Order == [status : Status, received : [Line -> Nat]]

\* A receipt without quantities takes everything that is still to come.
Everything == [l \in {} |-> 0]

VARIABLES
    order,      \* the committed order, or NoOrder
    stock,      \* the committed quantity of the stock row
    owner,      \* who holds the order's row, and who the stock row
    pc, kind, asks,   \* what each session is about to do, its request
    mine, took  \* the order as the session has changed it, what it adds to stock

committed == <<order, stock>>
request == <<kind, asks>>
objects == <<mine, took>>
vars == <<committed, owner, pc, request, objects>>

Init ==
    /\ order = NoOrder
    /\ stock = 0
    /\ owner = Unlocked({"order", "stock"})
    /\ pc = [s \in Session |-> "idle"]
    /\ kind = [s \in Session |-> "none"]
    /\ asks = [s \in Session |-> Everything]
    /\ mine = [s \in Session |-> NoOrder]
    /\ took = [s \in Session |-> 0]
-----------------------------------------------------------------------------
(* What a request makes of the order *)

\* ALLOWED_TRANSITIONS of update_supplier_order_status.
Allowed ==
    {<<"PENDING", "CONFIRMED">>, <<"PENDING", "CANCELLED">>,
     <<"CONFIRMED", "SHIPPED">>, <<"CONFIRMED", "CANCELLED">>,
     <<"SHIPPED", "CANCELLED">>}

\* Neither a received nor a cancelled order is received (again).
Receivable(o) == o.status \in Status \ {"RECEIVED", "CANCELLED"}

\* The quantity asked for on a line; one that is not listed gets nothing.
Asked(q, o, l) ==
    IF q = Everything THEN Ordered[l] - o.received[l]
    ELSE IF l \in DOMAIN q /\ q[l] > 0 THEN q[l] ELSE 0

Open(o) == {l \in Line : o.received[l] < Ordered[l]}
TooMany(q, o) == \E l \in Open(o) : o.received[l] + Asked(q, o, l) > Ordered[l]

\* Any receipt that leaves a line open, an empty one too, makes the order
\* partially received.
Received(q, o) ==
    LET new == [l \in Line |-> IF l \in Open(o) THEN o.received[l] + Asked(q, o, l)
                                               ELSE o.received[l]]
    IN  [status |-> IF new = Ordered THEN "RECEIVED" ELSE "PARTIALLY_RECEIVED",
         received |-> new]

Units(o) == MapThenSumSet(LAMBDA l : o.received[l], Line)
-----------------------------------------------------------------------------
(* Requests *)

GoTo(s, label) == pc' = [pc EXCEPT ![s] = label]

\* POST /supplier-orders: nobody can wait for an order nobody has seen.
CreateSupplierOrder ==
    /\ order = NoOrder
    /\ order' = [status |-> "PENDING", received |-> [l \in Line |-> 0]]
    /\ UNCHANGED <<stock, owner, pc, request, objects>>

Begin(s, k, q) ==
    /\ order # NoOrder
    /\ pc[s] = "idle"
    /\ GoTo(s, "order")
    /\ kind' = [kind EXCEPT ![s] = k]
    /\ asks' = [asks EXCEPT ![s] = q]
    /\ UNCHANGED <<committed, owner, objects>>

\* PUT /supplier-orders/{id}/receive and PUT /supplier-orders/{id}/status.
Receive(s, q) == Begin(s, "receive", q)
ChangeStatus(s, st) == Begin(s, st, Everything)

Close(s) ==
    /\ owner' = Release(owner, s)
    /\ GoTo(s, "idle")
    /\ kind' = [kind EXCEPT ![s] = "none"]
    /\ asks' = [asks EXCEPT ![s] = Everything]
    /\ mine' = [mine EXCEPT ![s] = NoOrder]
    /\ took' = [took EXCEPT ![s] = 0]
-----------------------------------------------------------------------------
(* Inside a transaction *)

\* SELECT the order FOR UPDATE, then its lines, which the lock of the order
\* protects.
ForUpdate_Dropped(s) == TRUE  \* mutant: a plain SELECT
ForUpdate(s) == Available(owner, s, "order")

\* What the request comes to; a receipt that adds to the stock goes on there.
LockOrder(s) ==
    /\ pc[s] = "order"
    /\ ForUpdate(s)
    /\ owner' = Acquire(owner, s, "order")
    /\ \/ /\ kind[s] = "receive"
          /\ Receivable(order)
          /\ ~TooMany(asks[s], order)
          /\ mine' = [mine EXCEPT ![s] = Received(asks[s], order)]
          /\ took' = [took EXCEPT ![s] = Units(mine'[s]) - Units(order)]
          /\ GoTo(s, IF took'[s] > 0 THEN "stock" ELSE "commit")
       \/ /\ <<order.status, kind[s]>> \in Allowed
          /\ mine' = [mine EXCEPT ![s] = [order EXCEPT !.status = kind[s]]]
          /\ GoTo(s, "commit")
          /\ UNCHANGED took
    /\ UNCHANGED <<committed, request>>

\* A received order is shown as it is, anything else that does not fit is an
\* error: nothing happens.
Refuse(s) ==
    /\ pc[s] = "order"
    /\ ForUpdate(s)
    /\ IF kind[s] = "receive" THEN ~Receivable(order) \/ TooMany(asks[s], order)
       ELSE <<order.status, kind[s]>> \notin Allowed
    /\ Close(s)
    /\ UNCHANGED committed

\* SELECT the stock row FOR UPDATE: the delivery is added to what it says.
LockStock(s) ==
    /\ pc[s] = "stock"
    /\ Available(owner, s, "stock")
    /\ owner' = Acquire(owner, s, "stock")
    /\ GoTo(s, "commit")
    /\ UNCHANGED <<committed, request, objects>>

\* The status and the lines overwrite what the rows say by then.
Commit(s) ==
    /\ pc[s] = "commit"
    /\ order' = mine[s]
    /\ stock' = IF owner["stock"] = s THEN stock + took[s] ELSE stock
    /\ Close(s)

\* The connection is lost or the server stops.
Abort(s) ==
    /\ pc[s] # "idle"
    /\ Close(s)
    /\ UNCHANGED committed

Statement(s) == LockOrder(s) \/ Refuse(s) \/ LockStock(s) \/ Commit(s)

Next ==
    \/ CreateSupplierOrder
    \/ \E s \in Session :
          \/ \E q \in Receipt \cup {Everything} : Receive(s, q)
          \/ \E st \in Status : ChangeStatus(s, st)
          \/ Statement(s) \/ Abort(s)

Spec == Init /\ [][Next]_vars

\* The database grants a row to the waiting sessions in turn and a service never
\* stops between two statements; people order, and come back to receive all that
\* is missing.
Fairness ==
    /\ WF_vars(CreateSupplierOrder)
    /\ \A s \in Session : SF_vars(Statement(s)) /\ SF_vars(Receive(s, Everything))

FairSpec == Spec /\ Fairness
-----------------------------------------------------------------------------
(* Properties *)

TypeOK ==
    /\ order \in Order \cup {NoOrder}
    /\ stock \in Nat
    /\ owner \in [{"order", "stock"} -> Session \cup {NoSession}]
    /\ pc \in [Session -> {"idle", "order", "stock", "commit"}]
    /\ kind \in [Session -> {"none", "receive"} \cup Status]
    /\ asks \in [Session -> Receipt \cup {Everything}]
    /\ mine \in [Session -> Order \cup {NoOrder}]
    /\ took \in [Session -> Nat]

\* What the order's lines say has been received is what the stock has gained;
\* no line gets more than was ordered, the order says RECEIVED exactly when
\* every line is full, and nothing has arrived on a cancelled one (story 4-5).
DeliveriesAreBooked ==
    /\ stock = Units(order)
    /\ \A l \in Line : order.received[l] =< Ordered[l]
    /\ order.status = "RECEIVED" <=> order.received = Ordered
    /\ order.status = "CANCELLED" => stock = 0

-----------------------------------------------------------------------------
(* The inductive invariant of DeliveriesAreBooked *)

\* The status of an order says what its lines say: nothing has been received
\* before the first receipt, everything once it is RECEIVED.
LinesFit(o) ==
    /\ \A l \in Line : o.received[l] =< Ordered[l]
    /\ o.status = "RECEIVED" <=> o.received = Ordered
    /\ o.status \notin {"PARTIALLY_RECEIVED", "RECEIVED"} =>
          \A l \in Line : o.received[l] = 0

\* A session that is about to write the order holds it; what it makes of the order
\* is the order of now and what it adds to the stock, which it holds at the commit
\* if it adds anything.
InStep(s) ==
    /\ pc[s] \in {"idle", "order"} => owner["order"] # s /\ took[s] = 0
    /\ pc[s] \in {"stock", "commit"} =>
          /\ owner["order"] = s
          /\ mine[s] \in Order /\ LinesFit(mine[s])
          /\ Units(mine[s]) = Units(order) + took[s]
    /\ owner["stock"] = s => pc[s] = "commit"
    /\ pc[s] = "commit" /\ owner["stock"] # s => took[s] = 0

IInv ==
    /\ TypeOK
    /\ stock = Units(order) /\ LinesFit(order)
    /\ \A s \in Session : InStep(s)
-----------------------------------------------------------------------------
\* Whatever has been received so far, and after a receipt of nothing too, an
\* order can still be completed: once no more connections are lost it ends
\* received or cancelled.
Completes ==
    <>[][\A s \in Session : Abort(s) => Refuse(s)]_vars
        => <>(order.status \in {"RECEIVED", "CANCELLED"})

\* Every request ends.
Answered == \A s \in Session : pc[s] # "idle" ~> pc[s] = "idle"
=============================================================================

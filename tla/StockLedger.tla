---------------------------- MODULE StockLedger ----------------------------
(***************************************************************************)
(* The stock quantities of src/backend/domains/inventory/services.py and   *)
(* every transaction that moves them: the manual adjustment, the transfer  *)
(* between two warehouses, the reservation of a confirmed sales order and  *)
(* the receipt of a supplier order.  Requests run concurrently, each in a  *)
(* database transaction of its own.                                        *)
(*                                                                         *)
(* A transaction takes the InventoryStock rows it changes one after the    *)
(* other with SELECT ... FOR UPDATE, inserts a row that does not exist,    *)
(* computes the new quantity in Python, records a StockAdjustment per      *)
(* change, and commits.  What it writes is an absolute quantity, so a row  *)
(* read without its lock would lose the update of somebody else.           *)
(*                                                                         *)
(* Abstracted: tenants (every query is filtered by one), the adjustment's  *)
(* reason and notes, audit rows (written in the same transaction), and the *)
(* reorder alerts of the emitted events (module ReorderAlerts).            *)
(***************************************************************************)
EXTENDS Integers, Sequences, FiniteSets, RowLocks

CONSTANTS
    Product, Warehouse,
    MaxInt,            \* largest value of the INTEGER column "quantity"
    AdjustChange,      \* quantity_change of an adjustment request
    TransferQuantity,  \* quantity of a transfer request
    OrderLines,        \* the lines of a sales order to confirm: sequences of
                       \* [product, quantity]
    Deliveries         \* what a supplier delivers: sequences of
                       \* [product, warehouse, quantity]

Row == Product \X Warehouse
Leg == [row : Row, change : Int]
Kind == {"none", "adjust", "transfer", "reserve", "receive"}
Quantity == 0 .. MaxInt

ASSUME StockAssumption ==
    /\ MaxInt \in Nat
    /\ AdjustChange \subseteq Int
    /\ TransferQuantity \subseteq Int
    /\ OrderLines \subseteq Seq([product : Product, quantity : Nat])
    /\ Deliveries \subseteq
          Seq([product : Product, warehouse : Warehouse, quantity : Nat \ {0}])

VARIABLES
    exists,     \* the rows of inventory_stock that are committed
    stock,      \* their committed quantity (0 where there is no row)
    ledger,     \* the sum of the committed StockAdjustments of each row
    owner,      \* who holds the row, or the unique key it is inserting
    pc,         \* what each session is about to do
    kind, legs, at,   \* its request: the changes to make, the one it is at
    local,      \* the quantity attribute of the ORM object it has loaded
    pending     \* the sum of the adjustments it has added, not yet committed

committed == <<exists, stock, ledger>>
request == <<kind, legs>>
vars == <<exists, stock, ledger, owner, pc, kind, legs, at, local, pending>>

\* Rows come from the requests below, from seed data and from the legacy
\* import; an opening quantity counts as the ledger's opening entry.
Init ==
    /\ exists \in SUBSET Row
    /\ stock \in [Row -> Quantity]
    /\ \A r \in Row \ exists : stock[r] = 0
    /\ ledger = stock
    /\ owner = Unlocked(Row)
    /\ pc = [s \in Session |-> "idle"]
    /\ kind = [s \in Session |-> "none"]
    /\ legs = [s \in Session |-> <<>>]
    /\ at = [s \in Session |-> 1]
    /\ local = [s \in Session |-> [r \in Row |-> 0]]
    /\ pending = [s \in Session |-> [r \in Row |-> 0]]
-----------------------------------------------------------------------------
(* Requests *)

\* The changes of each kind of request.
AdjustmentLegs(r, change) == <<[row |-> r, change |-> change]>>
TransferLegs(p, from, to, quantity) ==
    <<[row |-> <<p, from>>, change |-> -quantity], [row |-> <<p, to>>, change |-> quantity]>>
ReservationLegs(lines, w) ==
    [i \in DOMAIN lines |->
        [row |-> <<lines[i].product, w>>, change |-> -lines[i].quantity]]
ReceiptLegs(lines) ==
    [i \in DOMAIN lines |->
        [row |-> <<lines[i].product, lines[i].warehouse>>, change |-> lines[i].quantity]]

Begin(s, k, ls) ==
    /\ pc[s] = "idle"
    /\ ls # <<>>
    /\ pc' = [pc EXCEPT ![s] = "lock"]
    /\ kind' = [kind EXCEPT ![s] = k]
    /\ legs' = [legs EXCEPT ![s] = ls]
    /\ UNCHANGED <<committed, owner, at, local, pending>>

\* POST /adjustments, and an approved adjustment request.
CreateStockAdjustment(s, r, change) ==
    /\ change # 0
    /\ Begin(s, "adjust", AdjustmentLegs(r, change))

\* POST /transfers.
TransferStock(s, p, from, to, quantity) ==
    /\ from # to
    /\ quantity > 0
    /\ Begin(s, "transfer", TransferLegs(p, from, to, quantity))

\* The warehouse a confirmed order draws from, read without a lock: the one
\* with the most of a single product of the order, if any has some, else the
\* oldest active one (here any).
DefaultWarehouses(products) ==
    LET stocked == {r \in exists : r[1] \in products /\ stock[r] > 0}
        most == {r \in stocked : \A q \in stocked : stock[q] =< stock[r]}
    IN  IF stocked = {} THEN Warehouse ELSE {r[2] : r \in most}

\* The stock part of confirm_order: one negative adjustment per line, all from
\* the one warehouse chosen beforehand.
ReserveStock(s, lines) ==
    \E w \in DefaultWarehouses({lines[i].product : i \in DOMAIN lines}) :
        Begin(s, "reserve", ReservationLegs(lines, w))

\* The stock part of receive_supplier_order: one delivery per line with a
\* positive quantity to receive.
ReceiveSupplierOrder(s, lines) == Begin(s, "receive", ReceiptLegs(lines))
-----------------------------------------------------------------------------
(* Inside a transaction *)

CurrentLeg(s) == legs[s][at[s]]

\* The quantity the service sees when it has row r: the ORM object of the
\* session if it holds the row, the committed quantity otherwise.
Loaded(s, r) == IF owner[r] = s THEN local[s][r] ELSE stock[r]

\* SELECT ... FOR UPDATE waits while another session holds the row.
ForUpdate_Dropped(s, r) == TRUE  \* mutant: a plain SELECT
ForUpdate(s, r) == Available(owner, s, r)

\* The session ends: its locks are released and its objects are gone.
CloseSession_KeepsLocks(s) ==  \* mutant: the transaction stays open
    /\ pending' = [pending EXCEPT ![s] = [r \in Row |-> 0]]
    /\ at' = [at EXCEPT ![s] = 1]
    /\ UNCHANGED <<owner, local>>
CloseSession(s) ==
    /\ owner' = Release(owner, s)
    /\ local' = [local EXCEPT ![s] = [r \in Row |-> 0]]
    /\ pending' = [pending EXCEPT ![s] = [r \in Row |-> 0]]
    /\ at' = [at EXCEPT ![s] = 1]

Done(s) ==
    /\ pc' = [pc EXCEPT ![s] = "idle"]
    /\ kind' = [kind EXCEPT ![s] = "none"]
    /\ legs' = [legs EXCEPT ![s] = <<>>]

\* An exception leaves the service: the session closes without a commit.
Fail(s) == CloseSession(s) /\ Done(s) /\ UNCHANGED committed

\* The checks of a change to a quantity: enough stock for a removal, and the
\* range of the column.
Acceptable_Unchecked(before, change) == before + change =< MaxInt  \* mutant
Acceptable(before, change) ==
    /\ change < 0 => before >= -change
    /\ before + change =< MaxInt

\* The quantity_change of the StockAdjustment that records a change.
Recorded_SalesOnly(s, change) ==  \* mutant: a receipt leaves no adjustment
    IF kind[s] = "receive" THEN 0 ELSE change
Recorded(s, change) == change

\* After a change: the next line of the request, or the commit.
NextPc_First(s) == "commit"  \* mutant: commits after the first line
NextPc(s) == IF at[s] = Len(legs[s]) THEN "commit" ELSE "lock"

\* The session has the row, in the state `before`: the change is made to the
\* ORM object and an adjustment is added.
Change(s, before) ==
    LET r == CurrentLeg(s).row
        change == CurrentLeg(s).change
    IN  /\ Acceptable(before, change)
        /\ owner' = Acquire(owner, s, r)
        /\ local' = [local EXCEPT ![s][r] = before + change]
        /\ pending' = [pending EXCEPT ![s][r] = @ + Recorded(s, change)]
        /\ at' = [at EXCEPT ![s] = @ + 1]
        /\ pc' = [pc EXCEPT ![s] = NextPc(s)]
        /\ UNCHANGED <<committed, request>>

\* InsufficientStockError, or the value is out of the column's range.
Refuse(s, before) ==
    /\ ~Acceptable(before, CurrentLeg(s).change)
    /\ Fail(s)

\* An adjustment by zero is refused before any row is locked: int() makes one
\* of an order line of less than one unit.
RejectZero(s) ==
    /\ pc[s] = "lock"
    /\ CurrentLeg(s).change = 0
    /\ Fail(s)

\* SELECT ... FOR UPDATE of a row that exists (or that this transaction has
\* inserted), then the change.
LockRow(s) ==
    LET r == CurrentLeg(s).row
    IN  /\ pc[s] = "lock"
        /\ CurrentLeg(s).change # 0
        /\ r \in exists \/ owner[r] = s
        /\ ForUpdate(s, r)
        /\ Change(s, Loaded(s, r)) \/ Refuse(s, Loaded(s, r))

\* The SELECT finds no committed row: nothing to remove from, or a row to
\* insert.
MissRow(s) ==
    LET r == CurrentLeg(s).row
        change == CurrentLeg(s).change
    IN  /\ pc[s] = "lock"
        /\ r \notin exists
        /\ owner[r] # s
        /\ \/ /\ change < 0
              /\ Fail(s)
           \/ /\ change > 0
              /\ pc' = [pc EXCEPT ![s] = "insert"]
              /\ UNCHANGED <<committed, owner, request, at, local, pending>>

\* The flush of the new row.  It waits for another session that is inserting
\* the same key; if that one, or a faster one, has committed, the unique
\* constraint fails.  An adjustment or a receipt ends with the error; a
\* transfer catches it and rolls back.
InsertRow(s) ==
    LET r == CurrentLeg(s).row
    IN  /\ pc[s] = "insert"
        /\ Available(owner, s, r)
        /\ \/ /\ r \notin exists
              /\ Change(s, 0) \/ Refuse(s, 0)
           \/ /\ r \in exists
              /\ kind[s] # "transfer"
              /\ Fail(s)
           \/ /\ r \in exists
              /\ kind[s] = "transfer"
              /\ CloseSession(s)
              /\ pc' = [pc EXCEPT ![s] = "retry"]
              /\ UNCHANGED <<committed, request>>

\* The transfer that was rolled back selects its target row again, then reads
\* the expired source row outside a greenlet, which raises.
RetryTarget(s) ==
    /\ pc[s] = "retry"
    /\ ForUpdate(s, legs[s][2].row)
    /\ Fail(s)

\* session.commit() of the endpoint: every ORM object is written as it is.
Commit(s) ==
    /\ pc[s] = "commit"
    /\ exists' = exists \cup {r \in Row : owner[r] = s}
    /\ stock' = [r \in Row |-> IF owner[r] = s THEN local[s][r] ELSE stock[r]]
    /\ ledger' = [r \in Row |-> ledger[r] + pending[s][r]]
    /\ CloseSession(s)
    /\ Done(s)

\* The connection is lost, the server stops or the statement reaches its
\* command_timeout.
Abort(s) ==
    /\ pc[s] # "idle"
    /\ Fail(s)

\* The row a session's next statement needs, and who keeps it from going on.
Wanted(s) == IF pc[s] = "retry" THEN legs[s][2].row ELSE CurrentLeg(s).row
Blocker(s) ==
    IF \/ pc[s] \in {"insert", "retry"}
       \/ pc[s] = "lock" /\ Wanted(s) \in exists
    THEN IF Available(owner, s, Wanted(s)) THEN NoSession ELSE owner[Wanted(s)]
    ELSE NoSession

\* PostgreSQL's deadlock detector cancels one of the sessions of a cycle.
BreakDeadlock(s) ==
    /\ s \in Deadlocked([t \in Session |-> Blocker(t)])
    /\ Fail(s)

Requests(s) ==
    \/ \E r \in Row, change \in AdjustChange : CreateStockAdjustment(s, r, change)
    \/ \E p \in Product, from, to \in Warehouse, q \in TransferQuantity :
          TransferStock(s, p, from, to, q)
    \/ \E lines \in OrderLines : ReserveStock(s, lines)
    \/ \E lines \in Deliveries : ReceiveSupplierOrder(s, lines)

Statement(s) ==
    \/ RejectZero(s) \/ LockRow(s) \/ MissRow(s) \/ InsertRow(s)
    \/ RetryTarget(s) \/ Commit(s)

Next == \E s \in Session :
    Requests(s) \/ Statement(s) \/ Abort(s) \/ BreakDeadlock(s)

Spec == Init /\ [][Next]_vars

\* PostgreSQL grants a row lock to the waiting sessions in turn and resolves
\* every deadlock, and the service never stops between two statements.
Fairness == \A s \in Session : SF_vars(Statement(s)) /\ WF_vars(BreakDeadlock(s))

FairSpec == Spec /\ Fairness
-----------------------------------------------------------------------------
(* Properties *)

TypeOK ==
    /\ exists \subseteq Row
    /\ stock \in [Row -> Quantity]
    /\ ledger \in [Row -> Int]
    /\ owner \in [Row -> Session \cup {NoSession}]
    /\ pc \in [Session -> {"idle", "lock", "insert", "retry", "commit"}]
    /\ kind \in [Session -> Kind]
    /\ legs \in [Session -> Seq(Leg)]
    /\ at \in [Session -> Nat \ {0}]
    /\ local \in [Session -> [Row -> Quantity]]
    /\ pending \in [Session -> [Row -> Int]]

\* The quantity of a stock row is the sum of its adjustment records, whatever
\* requests ran together: no adjustment is lost to a concurrent one, and no
\* change of a request that failed is left behind.
LedgerBalanced == \A r \in Row : stock[r] = ledger[r]

\* What the service holds in Python is the committed quantity plus its own
\* changes: no read of a row goes stale before the write that is based on it.
NoStaleWrite ==
    \A s \in Session, r \in Row :
        owner[r] = s => local[s][r] = stock[r] + pending[s][r]

\* A session has pending adjustments only for the rows it holds, and a row that
\* is not there has no quantity.
OwnRowsOnly ==
    /\ \A s \in Session, r \in Row : owner[r] # s => pending[s][r] = 0
    /\ \A r \in Row \ exists : stock[r] = 0

\* A session stands at a line of its request whenever it is to lock or insert
\* one, and never inserts a row it has inserted before.
StandsAtALine(s) ==
    /\ pc[s] = "idle" => at[s] = 1
    /\ pc[s] \in {"lock", "insert"} => at[s] \in DOMAIN legs[s]
    /\ pc[s] = "insert" => owner[legs[s][at[s]].row] # s
    /\ kind[s] = "transfer" => Len(legs[s]) = 2
AtALine == \A s \in Session : StandsAtALine(s)

\* The inductive invariant: what holds before a statement is enough for the
\* statement to preserve it.
IInv == TypeOK /\ LedgerBalanced /\ NoStaleWrite /\ OwnRowsOnly /\ AtALine

\* The atomic movements the transactions implement: of the detailed state they
\* see the committed rows, not the locks and objects of the sessions.
Movements == INSTANCE StockMovements

\* Every committed transaction is one whole movement of the promise, made on
\* the quantities of the instant it commits: confirm_order reserves all lines
\* or none, a transfer never creates or destroys stock, and a check made when
\* a row was locked still holds at the commit.
MovesAreAtomic == Movements!Spec

\* Every request comes to an end, also when requests wait for one another.
RequestsEnd == \A s \in Session : pc[s] # "idle" ~> pc[s] = "idle"
=============================================================================

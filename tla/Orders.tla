------------------------------- MODULE Orders -------------------------------
(***************************************************************************)
(* From the order to the invoice: create_order, update_order_status and    *)
(* confirm_order of src/backend/domains/orders/services.py, and the        *)
(* invoice numbers of src/backend/domains/invoices/service.py.  In one     *)
(* transaction a confirmation takes the order, the active number range and *)
(* then one stock row per line, each with SELECT ... FOR UPDATE.  Other    *)
(* requests issue invoices of their own and adjust the stock.              *)
(*                                                                         *)
(* Abstracted: prices, taxes and customers (an order is refused for them   *)
(* before it is locked), the warehouse (module StockLedger chooses it; here *)
(* a product has one stock row), audit rows and the notification.          *)
(***************************************************************************)
EXTENDS Integers, Sequences, FiniteSets, RowLocks

CONSTANTS
    Order, Product,
    NoOrder,      \* an invoice without an order
    NumberRange,  \* the row of the active number range
    Lines,        \* [Order -> Seq([product, quantity])], quantities as int()
                  \* truncates them
    Last,         \* end_number of the active range, which starts at 1
    MaxStock,     \* bound of the stock
    AdjustChange  \* what an adjustment adds to the stock

ASSUME OrdersAssumption ==
    /\ NoOrder \notin Order /\ NumberRange \notin Order \cup Product
    /\ Order \cap Product = {}
    /\ Lines \in [Order -> Seq([product : Product, quantity : Nat])]
    /\ Last \in Nat /\ MaxStock \in Nat
    /\ AdjustChange \subseteq Int \ {0}

Status == {"ABSENT", "PENDING", "CONFIRMED", "SHIPPED", "FULFILLED", "CANCELLED"}
NoInvoice == 0
OrderRow == [status : Status, invoice : 0 .. Last]
Change == [product : Product, change : Int]

VARIABLES
    order,      \* the committed row of each order
    invoices,   \* the committed invoices: number and order
    next,       \* next_number of the range
    stock,      \* quantity of each stock row
    reserved,   \* the SALES_RESERVATION adjustments: order and line number
    keyed,      \* the database has the foreign key of invoices.order_id, which
                \* models.py declares and the migrations do not create
    owner,      \* who holds each of these rows
    pc, kind, theOrder,   \* what each session is about to do, its request
    takes, at,  \* the stock changes of its request, the one it is at
    number,     \* the invoice number it has taken
    local       \* the quantities of the stock rows it has loaded

committed == <<order, invoices, next, stock, reserved>>
request == <<kind, theOrder, takes>>
progress == <<at, number, local>>
vars == <<committed, keyed, owner, pc, request, progress>>

Init ==
    /\ order = [o \in Order |-> [status |-> "ABSENT", invoice |-> NoInvoice]]
    /\ invoices = {}
    /\ next = 1
    /\ stock \in [Product -> 0 .. MaxStock]
    /\ reserved = {}
    /\ keyed \in BOOLEAN
    /\ owner = Unlocked(Order \cup Product \cup {NumberRange})
    /\ pc = [s \in Session |-> "idle"]
    /\ kind = [s \in Session |-> "none"]
    /\ theOrder = [s \in Session |-> NoOrder]
    /\ takes = [s \in Session |-> <<>>]
    /\ at = [s \in Session |-> 1]
    /\ number = [s \in Session |-> NoInvoice]
    /\ local = [s \in Session |-> [p \in Product |-> 0]]
-----------------------------------------------------------------------------
(* Requests *)

\* ALLOWED_TRANSITIONS.
Allowed ==
    {<<"PENDING", "CONFIRMED">>, <<"PENDING", "CANCELLED">>,
     <<"CONFIRMED", "SHIPPED">>, <<"SHIPPED", "FULFILLED">>}

Begin(s, k, o, changes, first) ==
    /\ pc[s] = "idle"
    /\ pc' = [pc EXCEPT ![s] = first]
    /\ kind' = [kind EXCEPT ![s] = k]
    /\ theOrder' = [theOrder EXCEPT ![s] = o]
    /\ takes' = [takes EXCEPT ![s] = changes]
    /\ UNCHANGED <<committed, keyed, owner, progress>>

\* POST /orders: inserts that wait for nobody.
CreateOrder(o) ==
    /\ order[o].status = "ABSENT"
    /\ order' = [order EXCEPT ![o].status = "PENDING"]
    /\ UNCHANGED <<invoices, next, stock, reserved, keyed, owner, pc, request, progress>>

\* PATCH /orders/{id}/status: a confirmation, or another target.
ConfirmOrder(s, o) ==
    /\ order[o].status # "ABSENT"
    /\ Begin(s, "CONFIRMED", o,
             [i \in DOMAIN Lines[o] |-> [product |-> Lines[o][i].product,
                                         change |-> -Lines[o][i].quantity]], "order")
UpdateOrderStatus(s, o, target) ==
    /\ order[o].status # "ABSENT"
    /\ Begin(s, target, o, <<>>, "order")

\* POST /invoices, of an order that exists or of none.
CreateInvoice(s, o) ==
    /\ o # NoOrder => order[o].status # "ABSENT"
    /\ Begin(s, "invoice", o, <<>>, "range")

\* POST /adjustments.
CreateStockAdjustment(s, p, change) ==
    Begin(s, "adjust", NoOrder, <<[product |-> p, change |-> change]>>, "stock")
-----------------------------------------------------------------------------
(* Inside a transaction *)

Close(s) ==
    /\ UNCHANGED keyed
    /\ owner' = Release(owner, s)
    /\ pc' = [pc EXCEPT ![s] = "idle"]
    /\ kind' = [kind EXCEPT ![s] = "none"]
    /\ theOrder' = [theOrder EXCEPT ![s] = NoOrder]
    /\ takes' = [takes EXCEPT ![s] = <<>>]
    /\ number' = [number EXCEPT ![s] = NoInvoice]
    /\ local' = [local EXCEPT ![s] = [p \in Product |-> 0]]
    /\ at' = [at EXCEPT ![s] = 1]

\* An exception leaves the service: rollback.
Fail(s) == Close(s) /\ UNCHANGED committed

\* What follows when the order, or the number, has been taken.  The INSERT of an
\* invoice checks its foreign key.
After_StockFirst(s, taken) ==  \* mutant: the stock before the invoice
    CASE kind[s] = "CONFIRMED" /\ taken = "order" -> "stock"
      [] kind[s] = "CONFIRMED" /\ taken = "stock" -> "range"
      [] OTHER -> "commit"
After(s, taken) ==
    CASE kind[s] = "CONFIRMED" /\ taken = "order" -> "range"
      [] kind[s] = "CONFIRMED" /\ taken = "range" -> "stock"
      [] kind[s] = "invoice" /\ taken = "range" /\ keyed /\ theOrder[s] # NoOrder -> "key"
      [] OTHER -> "commit"

\* SELECT ... FOR UPDATE waits while another session holds the row.
ForUpdate_Stock(s, r) == r \in Product => Available(owner, s, r)  \* mutant: plain SELECTs
ForUpdate(s, r) == Available(owner, s, r)

Lock(s, r, label) ==
    /\ owner' = Acquire(owner, s, r)
    /\ pc' = [pc EXCEPT ![s] = label]
    /\ UNCHANGED <<committed, keyed, request>>

\* The order's status allows the request.  A confirmed order has lines and no
\* invoice yet.
Ready(s) ==
    LET row == order[theOrder[s]]
    IN  /\ <<row.status, kind[s]>> \in Allowed
        /\ kind[s] = "CONFIRMED" => takes[s] # <<>> /\ row.invoice = NoInvoice

LockOrder(s) ==
    /\ pc[s] = "order"
    /\ ForUpdate(s, theOrder[s])
    /\ \/ Ready(s) /\ Lock(s, theOrder[s], After(s, "order")) /\ UNCHANGED progress
       \/ ~Ready(s) /\ Fail(s)

\* _get_active_number_range, and whether a number remains in it.
LockRange(s) ==
    /\ pc[s] = "range"
    /\ ForUpdate(s, NumberRange)
    /\ \/ /\ next =< Last
          /\ Lock(s, NumberRange, After(s, "range"))
          /\ number' = [number EXCEPT ![s] = next]
          /\ UNCHANGED <<at, local>>
       \/ next > Last /\ Fail(s)

\* The foreign key is checked under FOR KEY SHARE of the order, which waits for
\* whoever has it FOR UPDATE (nobody else can share it: the range is taken).
CheckKey(s) ==
    /\ pc[s] = "key"
    /\ Available(owner, s, theOrder[s])
    /\ Lock(s, theOrder[s], "commit")
    /\ UNCHANGED progress

Line(s) == takes[s][at[s]]

\* The quantity the service sees when it has the row of p.
Loaded(s, p) == IF owner[p] = s THEN local[s][p] ELSE stock[p]

\* create_stock_adjustment of one line.
Sufficient_Backorder(s) == TRUE  \* mutant: takes what is not there
Sufficient(s) ==
    /\ Line(s).change # 0
    /\ Loaded(s, Line(s).product) + Line(s).change \in 0 .. MaxStock

LockStock(s) ==
    /\ pc[s] = "stock"
    /\ ForUpdate(s, Line(s).product)
    /\ \/ /\ Sufficient(s)
          /\ Lock(s, Line(s).product, IF at[s] = Len(takes[s]) THEN After(s, "stock") ELSE "stock")
          /\ at' = [at EXCEPT ![s] = @ + 1]
          /\ local' = [local EXCEPT ![s][Line(s).product] =
                          Loaded(s, Line(s).product) + Line(s).change]
          /\ UNCHANGED number
       \/ ~Sufficient(s) /\ Fail(s)

\* What the transaction has written, all at once.
Issued_NoLink(s) == invoices \cup {[number |-> number[s], order |-> NoOrder]}  \* mutant
Issued(s) == invoices \cup {[number |-> number[s], order |-> theOrder[s]]}

StockTaken(s) == [p \in Product |-> Loaded(s, p)]

CommitConfirmation(s) ==
    LET o == theOrder[s]
    IN  /\ pc[s] = "commit"
        /\ kind[s] = "CONFIRMED"
        /\ invoices' = Issued(s)
        /\ next' = number[s] + 1
        /\ order' = [order EXCEPT ![o] = [status |-> "CONFIRMED", invoice |-> number[s]]]
        /\ stock' = StockTaken(s)
        /\ reserved' = reserved \cup {<<o, i>> : i \in DOMAIN Lines[o]}
        /\ Close(s)

CommitStatus(s) ==
    /\ pc[s] = "commit"
    /\ kind[s] \in Status \ {"CONFIRMED"}
    /\ order' = [order EXCEPT ![theOrder[s]].status = kind[s]]
    /\ UNCHANGED <<invoices, next, stock, reserved>>
    /\ Close(s)

CommitInvoice(s) ==
    /\ pc[s] = "commit"
    /\ kind[s] = "invoice"
    /\ invoices' = Issued(s)
    /\ next' = number[s] + 1
    /\ UNCHANGED <<order, stock, reserved>>
    /\ Close(s)

CommitAdjustment(s) ==
    /\ pc[s] = "commit"
    /\ kind[s] = "adjust"
    /\ stock' = StockTaken(s)
    /\ UNCHANGED <<order, invoices, next, reserved>>
    /\ Close(s)

\* The connection is lost, the server stops, the statement times out.
Abort(s) ==
    /\ pc[s] # "idle"
    /\ Fail(s)

\* The row the session's next statement needs.
Wanted(s) ==
    CASE pc[s] \in {"order", "key"} -> {theOrder[s]}
      [] pc[s] = "range" -> {NumberRange}
      [] pc[s] = "stock" -> {Line(s).product}
      [] OTHER -> {}
Blocker(s) ==
    IF \A r \in Wanted(s) : Available(owner, s, r) THEN NoSession
    ELSE CHOOSE t \in Session : \E r \in Wanted(s) : owner[r] = t
Stuck == Deadlocked([s \in Session |-> Blocker(s)])

\* PostgreSQL's deadlock detector cancels one of the sessions of a cycle.
BreakDeadlock(s) == s \in Stuck /\ Fail(s)

Requests(s) ==
    \/ \E o \in Order :
          \/ ConfirmOrder(s, o)
          \/ \E target \in {"CANCELLED", "SHIPPED", "FULFILLED"} : UpdateOrderStatus(s, o, target)
    \/ \E o \in Order \cup {NoOrder} : CreateInvoice(s, o)
    \/ \E p \in Product, change \in AdjustChange : CreateStockAdjustment(s, p, change)

Statement(s) ==
    \/ LockOrder(s) \/ LockRange(s) \/ CheckKey(s) \/ LockStock(s)
    \/ CommitConfirmation(s) \/ CommitStatus(s) \/ CommitInvoice(s) \/ CommitAdjustment(s)

Next ==
    \/ \E o \in Order : CreateOrder(o)
    \/ \E s \in Session : Requests(s) \/ Statement(s) \/ Abort(s) \/ BreakDeadlock(s)

Spec == Init /\ [][Next]_vars
-----------------------------------------------------------------------------
(* Properties *)

TypeOK ==
    /\ order \in [Order -> OrderRow]
    /\ invoices \subseteq [number : 1 .. Last, order : Order \cup {NoOrder}]
    /\ IsFiniteSet(invoices)
    /\ next \in 1 .. Last + 1
    /\ stock \in [Product -> 0 .. MaxStock]
    /\ reserved \subseteq UNION {{o} \X DOMAIN Lines[o] : o \in Order}
    /\ keyed \in BOOLEAN
    /\ owner \in [Order \cup Product \cup {NumberRange} -> Session \cup {NoSession}]
    /\ pc \in [Session -> {"idle", "order", "range", "key", "stock", "commit"}]
    /\ kind \in [Session -> Status \cup {"none", "invoice", "adjust"}]
    /\ theOrder \in [Session -> Order \cup {NoOrder}]
    /\ takes \in [Session -> Seq(Change)]
    /\ at \in [Session -> Nat \ {0}]
    /\ number \in [Session -> 0 .. Last]
    /\ local \in [Session -> [Product -> 0 .. MaxStock]]

\* Invoice numbers are given out without a gap and without a duplicate, although
\* a transaction that has taken a number may fail.
NumbersAreGapless ==
    /\ {i.number : i \in invoices} = 1 .. next - 1
    /\ Cardinality(invoices) = next - 1

\* Exactly the orders that were confirmed have their invoice, with both linked to
\* each other, and all of their lines reserved (story 5-4, AC2 and AC4).
ConfirmedIsBooked ==
    \A o \in Order :
        LET confirmed == order[o].status \in {"CONFIRMED", "SHIPPED", "FULFILLED"}
        IN  /\ IF confirmed THEN [number |-> order[o].invoice, order |-> o] \in invoices
                            ELSE order[o].invoice = NoInvoice
            /\ {r \in reserved : r[1] = o} = IF confirmed THEN {o} \X DOMAIN Lines[o] ELSE {}

\* An order moves along ALLOWED_TRANSITIONS only, and keeps its invoice.
MovesForward ==
    [][\A o \in Order :
          /\ order[o].status \notin {"ABSENT", order'[o].status} =>
                <<order[o].status, order'[o].status>> \in Allowed
          /\ order[o].invoice \in {NoInvoice, order'[o].invoice}]_vars

\* Orders take the same stock rows in different orders and never deadlock for
\* it: the number range keeps two confirmations apart before either takes stock.
\* The one deadlock there is needs an invoice for an order (range, then order)
\* that meets a confirmation of the order (order, then range).
DeadlocksNeedAnInvoice ==
    Stuck # {} => keyed /\ \E s \in Stuck : kind[s] = "invoice"

\* What a session relies on at each point of its request: the request it is at,
\* the order it has locked, still as it found it, and the number it has taken,
\* still the next one.  It holds no row that it would not need.
FitsItsRequest(s) ==
    /\ pc[s] \in {"idle", "order", "range", "key"} => at[s] = 1
    /\ pc[s] = "order" => kind[s] \in Status
    /\ pc[s] = "range" => kind[s] \in {"CONFIRMED", "invoice"}
    /\ pc[s] = "key" => kind[s] = "invoice" /\ keyed
    /\ pc[s] = "stock" =>
          /\ at[s] \in DOMAIN takes[s]
          /\ kind[s] = "CONFIRMED" \/ (kind[s] = "adjust" /\ Len(takes[s]) = 1)
    /\ pc[s] = "key" \/ kind[s] \in Status => theOrder[s] \in Order
    /\ theOrder[s] \in Order => order[theOrder[s]].status # "ABSENT"

HoldsItsOrder(s) ==
    pc[s] \in {"range", "stock", "commit"} /\ kind[s] \in Status =>
        owner[theOrder[s]] = s /\ Ready(s)

HoldsItsNumber(s) ==
    \/ pc[s] = "key"
    \/ pc[s] = "stock" /\ kind[s] = "CONFIRMED"
    \/ pc[s] = "commit" /\ kind[s] \in {"CONFIRMED", "invoice"}
    => owner[NumberRange] = s /\ number[s] = next /\ next =< Last

HoldsNoMore(s) ==
    \A r \in DOMAIN owner : owner[r] = s =>
        /\ pc[s] \in {"range", "stock"} => kind[s] = "CONFIRMED"
        /\ \/ r \in Order /\ r = theOrder[s] /\ pc[s] \in {"range", "stock", "commit"}
           \/ r = NumberRange /\ pc[s] \in {"key", "stock", "commit"}
           \/ r \in Product /\ pc[s] \in {"stock", "commit"}

InStep(s) ==
    FitsItsRequest(s) /\ HoldsItsOrder(s) /\ HoldsItsNumber(s) /\ HoldsNoMore(s)

\* The inductive invariant: the properties above, and every session in step with
\* the rows it works on.
IInv ==
    /\ TypeOK /\ NumbersAreGapless /\ ConfirmedIsBooked
    /\ \A s \in Session : InStep(s)
=============================================================================

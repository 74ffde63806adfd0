---------------------------- MODULE Sales_proofs ----------------------------
(***************************************************************************)
(* Proofs about Sales.  Orders, for any orders, products, lines, number    *)
(* range and number of sessions: the invoice numbers have no gap and no    *)
(* duplicate, a confirmed order is booked, an order only moves forward,    *)
(* and the services only deadlock over an invoice posted for an order.     *)
(* The costs of invoice lines, for any lines, purchases, batch size and    *)
(* number of backfills: a known cost is final and an undisturbed backfill  *)
(* leaves nothing out.  The watch over the submissions, for any invoices:  *)
(* a notification brings news.  The chart, for any days and lengths: the   *)
(* pages join.  The sales intelligence, for any customers, products and    *)
(* orders: what different queries say fits together, and answers that are  *)
(* read in several transactions are true.                                  *)
(***************************************************************************)
EXTENDS Sales, SequenceTheorems, SumFacts

USE OrdersAssumption, NoSessionAssumption

\* The rows that can be locked.
Rows == Order \cup Product \cup {NumberRange}

\* A function that maps the positions of one sequence into S is a sequence.
LEMMA MapSeq ==
  ASSUME NEW S, NEW T, NEW seq \in Seq(T), NEW f,
         f = [i \in DOMAIN seq |-> f[i]],
         \A i \in 1 .. Len(seq) : f[i] \in S
  PROVE  f \in Seq(S) /\ Len(f) = Len(seq)
  <1>1. Len(seq) \in Nat /\ DOMAIN seq = 1 .. Len(seq)
    BY LenProperties
  <1>2. f \in [1 .. Len(seq) -> S]
    BY <1>1
  <1> QED
    BY <1>1, <1>2, SeqDef, LenProperties

LEMMA InitInv == Init => IInv
  <1> SUFFICES ASSUME Init PROVE IInv
    OBVIOUS
  <1>1. IsFiniteSet({}) /\ Cardinality({}) = 0
    BY FS_EmptySet
  <1>2. TypeOK
    BY <1>1 DEF Init, TypeOK, OrderRow, Status, Unlocked, NoInvoice
  <1>3. NumbersAreGapless /\ ConfirmedIsBooked
    BY <1>1 DEF Init, NumbersAreGapless, ConfirmedIsBooked, NoInvoice
  <1>4. ASSUME NEW s \in Session PROVE InStep(s)
    BY DEF Init, InStep, FitsItsRequest, HoldsItsOrder, HoldsItsNumber, HoldsNoMore,
           Unlocked, Status
  <1> QED
    BY <1>2, <1>3, <1>4 DEF IInv

\* A session stays in step when its own state, its locks, the order it has locked
\* and the number range it has locked stay as they are.
LEMMA StaysInStep ==
  ASSUME NEW s \in Session, IInv, keyed' = keyed,
         pc'[s] = pc[s], kind'[s] = kind[s], theOrder'[s] = theOrder[s],
         takes'[s] = takes[s], at'[s] = at[s], number'[s] = number[s],
         DOMAIN owner' = Rows,
         \A r \in Rows : owner'[r] = s <=> owner[r] = s,
         \A o \in Order : \/ order'[o] = order[o]
                          \/ order'[o].status # "ABSENT" /\ owner[o] # s,
         next' = next \/ owner[NumberRange] # s
  PROVE  InStep(s)'
  <1>1. InStep(s) /\ DOMAIN owner = Rows
    BY DEF IInv, TypeOK, Rows
  <1>2. FitsItsRequest(s)'
    BY <1>1 DEF InStep, FitsItsRequest
  <1>3. HoldsItsOrder(s)'
    <2> SUFFICES ASSUME pc[s] \in {"range", "stock", "commit"}, kind[s] \in Status
                 PROVE  owner'[theOrder[s]] = s /\ Ready(s)'
      BY DEF HoldsItsOrder
    <2>1. owner[theOrder[s]] = s /\ Ready(s) /\ theOrder[s] \in Order
      BY <1>1 DEF InStep, HoldsItsOrder, FitsItsRequest
    <2>2. order'[theOrder[s]] = order[theOrder[s]]
      BY <2>1
    <2> QED
      BY <2>1, <2>2 DEF Rows, Ready
  <1>4. HoldsItsNumber(s)'
    BY <1>1 DEF InStep, HoldsItsNumber, Rows
  <1>5. HoldsNoMore(s)'
    BY <1>1 DEF InStep, HoldsNoMore, Rows
  <1> QED
    BY <1>2, <1>3, <1>4, <1>5 DEF InStep

\* A step of s that only gives s a row leaves the others in step.
LEMMA OthersStay ==
  ASSUME NEW s \in Session, IInv, UNCHANGED <<order, next, keyed>>,
         NEW a, pc' = [pc EXCEPT ![s] = a],
         NEW b, kind' = [kind EXCEPT ![s] = b],
         NEW c, theOrder' = [theOrder EXCEPT ![s] = c],
         NEW d, takes' = [takes EXCEPT ![s] = d],
         NEW e, at' = [at EXCEPT ![s] = e],
         NEW f, number' = [number EXCEPT ![s] = f],
         \/ owner' = owner
         \/ \E r \in Rows : Available(owner, s, r) /\ owner' = Acquire(owner, s, r)
  PROVE  \A t \in Session \ {s} : InStep(t)'
  <1> SUFFICES ASSUME NEW t \in Session \ {s} PROVE InStep(t)'
    OBVIOUS
  <1>1. DOMAIN owner' = Rows /\ \A r \in Rows : owner'[r] = t <=> owner[r] = t
    BY DEF IInv, TypeOK, Rows, Available, Acquire
  <1> QED
    BY <1>1, StaysInStep DEF IInv, TypeOK

\* The end of a transaction puts its session back to idle and leaves the others
\* in step, when it has changed no row but those it had locked.
LEMMA CloseInStep ==
  ASSUME NEW s \in Session, IInv, Close(s),
         \A o \in Order : \/ order'[o] = order[o]
                          \/ order'[o].status # "ABSENT" /\ owner[o] = s,
         next' = next \/ owner[NumberRange] = s
  PROVE  \A t \in Session : InStep(t)'
  <1> SUFFICES ASSUME NEW t \in Session PROVE InStep(t)'
    OBVIOUS
  <1>1. DOMAIN owner = Rows /\ DOMAIN owner' = Rows
    BY DEF IInv, TypeOK, Rows, Close, Release
  <1>2. \A r \in Rows : owner'[r] = (IF owner[r] = s THEN NoSession ELSE owner[r])
    BY <1>1 DEF Close, Release
  <1>3. CASE t = s
    <2>1. /\ pc'[s] = "idle" /\ kind'[s] = "none" /\ at'[s] = 1
          /\ theOrder'[s] = NoOrder
      BY DEF Close, IInv, TypeOK
    <2>2. \A r \in Rows : owner'[r] # s
      BY <1>2
    <2> QED
      BY <1>1, <1>3, <2>1, <2>2
      DEF InStep, FitsItsRequest, HoldsItsOrder, HoldsItsNumber, HoldsNoMore, Status
  <1>4. CASE t # s
    <2>1. \A r \in Rows : owner'[r] = t <=> owner[r] = t
      BY <1>2, <1>4
    <2>2. /\ pc'[t] = pc[t] /\ kind'[t] = kind[t] /\ theOrder'[t] = theOrder[t]
          /\ takes'[t] = takes[t] /\ at'[t] = at[t] /\ number'[t] = number[t]
      BY <1>4 DEF Close, IInv, TypeOK
    <2>3. keyed' = keyed
      BY DEF Close
    <2>4. \A o \in Order : \/ order'[o] = order[o]
                           \/ order'[o].status # "ABSENT" /\ owner[o] # t
      BY <1>4
    <2>5. next' = next \/ owner[NumberRange] # t
      BY <1>4
    <2> QED
      BY <1>1, <2>1, <2>2, <2>3, <2>4, <2>5, StaysInStep
  <1> QED
    BY <1>3, <1>4

LEMMA CloseTypes ==
  ASSUME NEW s \in Session, IInv, Close(s)
  PROVE  /\ keyed' \in BOOLEAN
         /\ owner' \in [Rows -> Session \cup {NoSession}]
         /\ pc' \in [Session -> {"idle", "order", "range", "key", "stock", "commit"}]
         /\ kind' \in [Session -> Status \cup {"none", "invoice", "adjust"}]
         /\ theOrder' \in [Session -> Order \cup {NoOrder}]
         /\ takes' \in [Session -> Seq(Change)]
         /\ at' \in [Session -> Nat \ {0}]
         /\ number' \in [Session -> 0 .. Last]
         /\ local' \in [Session -> [Product -> 0 .. MaxStock]]
  <1>1. keyed' \in BOOLEAN /\ owner' \in [Rows -> Session \cup {NoSession}]
    BY DEF IInv, TypeOK, Close, Release, Rows
  <1>2. pc' \in [Session -> {"idle", "order", "range", "key", "stock", "commit"}]
    BY DEF IInv, TypeOK, Close
  <1>3. kind' \in [Session -> Status \cup {"none", "invoice", "adjust"}]
    BY DEF IInv, TypeOK, Close
  <1>4. /\ theOrder' \in [Session -> Order \cup {NoOrder}]
        /\ at' \in [Session -> Nat \ {0}]
        /\ number' \in [Session -> 0 .. Last]
    BY DEF IInv, TypeOK, Close, NoInvoice
  <1>5. takes' \in [Session -> Seq(Change)]
    <2>1. <<>> \in Seq(Change)
      OBVIOUS
    <2> QED
      BY <2>1 DEF IInv, TypeOK, Close
  <1>6. local' \in [Session -> [Product -> 0 .. MaxStock]]
    <2>1. [p \in Product |-> 0] \in [Product -> 0 .. MaxStock]
      OBVIOUS
    <2> QED
      BY <2>1 DEF IInv, TypeOK, Close
  <1> QED
    BY <1>1, <1>2, <1>3, <1>4, <1>5, <1>6

LEMMA FailInv ==
  ASSUME NEW s \in Session, IInv, Fail(s)
  PROVE  IInv'
  <1>1. Close(s) /\ UNCHANGED <<order, invoices, next, stock, reserved>>
    BY DEF Fail, committed
  <1>2. TypeOK'
    BY <1>1, CloseTypes DEF IInv, TypeOK, Rows
  <1>3. NumbersAreGapless' /\ ConfirmedIsBooked'
    BY <1>1 DEF IInv, NumbersAreGapless, ConfirmedIsBooked
  <1>4. \A t \in Session : InStep(t)'
    BY <1>1, CloseInStep
  <1> QED
    BY <1>2, <1>3, <1>4 DEF IInv

LEMMA CreateOrderInv ==
  ASSUME NEW o \in Order, IInv, CreateOrder(o)
  PROVE  IInv'
  <1>1. /\ order[o].status = "ABSENT"
        /\ order' = [order EXCEPT ![o].status = "PENDING"]
        /\ UNCHANGED <<invoices, next, stock, reserved, keyed, owner, pc, kind,
                       theOrder, takes, at, number, local>>
    BY DEF CreateOrder, request, progress
  <1>2. TypeOK'
    <2>1. order' \in [Order -> OrderRow]
      <3>1. order[o] \in OrderRow /\ "PENDING" \in Status
        BY DEF IInv, TypeOK, Status
      <3>2. [order[o] EXCEPT !.status = "PENDING"] \in OrderRow
        BY <3>1 DEF OrderRow
      <3>3. order' = [order EXCEPT ![o] = [order[o] EXCEPT !.status = "PENDING"]]
        BY <1>1
      <3> QED
        BY <3>2, <3>3 DEF IInv, TypeOK
    <2>2. UNCHANGED <<invoices, next, stock, reserved, keyed, owner, pc, kind,
                      theOrder, takes, at, number, local>>
      BY <1>1
    <2> QED
      BY <2>1, <2>2 DEF IInv, TypeOK
  <1>3. NumbersAreGapless'
    BY <1>1 DEF IInv, NumbersAreGapless
  <1>4. ConfirmedIsBooked'
    BY <1>1, SMTT(30) DEF IInv, TypeOK, OrderRow, ConfirmedIsBooked
  <1>5. ASSUME NEW t \in Session PROVE InStep(t)'
    <2>1. \A x \in Order : x # o => order'[x] = order[x]
      BY <1>1 DEF IInv, TypeOK
    <2>2. order'[o].status # "ABSENT"
      BY <1>1 DEF IInv, TypeOK, OrderRow
    <2>3. InStep(t)
      BY DEF IInv
    <2>4. theOrder[t] # o
      BY <1>1, <2>3 DEF InStep, FitsItsRequest
    <2>5. FitsItsRequest(t)'
      BY <1>1, <2>1, <2>2, <2>3, <2>4 DEF InStep, FitsItsRequest
    <2>6. HoldsItsOrder(t)'
      BY <1>1, <2>1, <2>3, <2>4 DEF InStep, FitsItsRequest, HoldsItsOrder, Ready
    <2>7. HoldsItsNumber(t)' /\ HoldsNoMore(t)'
      BY <1>1, <2>3 DEF InStep, HoldsItsNumber, HoldsNoMore
    <2> QED
      BY <2>5, <2>6, <2>7 DEF InStep
  <1> QED
    BY <1>2, <1>3, <1>4, <1>5 DEF IInv

\* A request begins with the session idle and no row locked.
LEMMA BeginInv ==
  ASSUME NEW s \in Session, IInv,
         NEW k \in Status \cup {"invoice", "adjust"}, NEW o \in Order \cup {NoOrder},
         NEW changes \in Seq(Change),
         NEW first \in {"order", "range", "stock"}, Begin(s, k, o, changes, first),
         first = "order" => k \in Status /\ o \in Order,
         first = "range" => k = "invoice",
         first = "stock" => k = "adjust" /\ o = NoOrder /\ Len(changes) = 1,
         o \in Order => order[o].status # "ABSENT"
  PROVE  IInv'
  <1>1. /\ pc[s] = "idle"
        /\ pc' = [pc EXCEPT ![s] = first]
        /\ kind' = [kind EXCEPT ![s] = k]
        /\ theOrder' = [theOrder EXCEPT ![s] = o]
        /\ takes' = [takes EXCEPT ![s] = changes]
        /\ UNCHANGED <<order, invoices, next, stock, reserved, keyed, owner, at,
                       number, local>>
    BY DEF Begin, committed, progress
  <1>2. TypeOK'
    BY <1>1 DEF IInv, TypeOK, Status
  <1>3. NumbersAreGapless' /\ ConfirmedIsBooked'
    BY <1>1 DEF IInv, NumbersAreGapless, ConfirmedIsBooked
  <1>4. ASSUME NEW t \in Session, t # s PROVE InStep(t)'
    BY <1>1, <1>4, StaysInStep DEF IInv, TypeOK, Rows
  <1>5. InStep(s)'
    <2>1. /\ pc'[s] = first /\ kind'[s] = k /\ theOrder'[s] = o
          /\ takes'[s] = changes /\ at'[s] = 1
      BY <1>1 DEF IInv, TypeOK, InStep, FitsItsRequest
    <2>2. \A r \in Rows : owner[r] # s
      BY <1>1 DEF IInv, TypeOK, InStep, HoldsNoMore, Rows
    <2>3. first = "stock" => 1 \in DOMAIN changes
      BY LenProperties
    <2>4. FitsItsRequest(s)'
      BY <1>1, <2>1, <2>3 DEF FitsItsRequest, Status
    <2>5. HoldsItsOrder(s)' /\ HoldsItsNumber(s)'
      <3>1. CASE first = "order"
        BY <3>1, <2>1 DEF HoldsItsOrder, HoldsItsNumber, Status
      <3>2. CASE first \in {"range", "stock"}
        BY <3>2, <2>1 DEF HoldsItsOrder, HoldsItsNumber, Status
      <3> QED
        BY <3>1, <3>2
    <2>6. HoldsNoMore(s)'
      BY <1>1, <2>2 DEF HoldsNoMore, IInv, TypeOK, Rows
    <2> QED
      BY <2>4, <2>5, <2>6 DEF InStep
  <1> QED
    BY <1>2, <1>3, <1>4, <1>5 DEF IInv

LEMMA RequestsInv ==
  ASSUME NEW s \in Session, IInv, Requests(s)
  PROVE  IInv'
  <1>1. ASSUME NEW o \in Order, ConfirmOrder(s, o)
        PROVE  IInv'
    <2> DEFINE changes == [i \in DOMAIN Lines[o] |->
                             [product |-> Lines[o][i].product,
                              change |-> -Lines[o][i].quantity]]
    <2>1. Lines[o] \in Seq([product : Product, quantity : Nat])
      OBVIOUS
    <2>2. ASSUME NEW i \in 1 .. Len(Lines[o])
          PROVE  changes[i] \in Change
      <3>1. Lines[o][i] \in [product : Product, quantity : Nat]
        BY <2>1, ElementOfSeq
      <3>2. i \in DOMAIN Lines[o]
        BY <2>1, LenProperties
      <3> QED
        BY <3>1, <3>2 DEF Change
    <2>3. Begin(s, "CONFIRMED", o, changes, "order") /\ order[o].status # "ABSENT"
      BY <1>1 DEF ConfirmOrder
    <2>4. changes = [i \in DOMAIN Lines[o] |-> changes[i]]
      OBVIOUS
    <2> HIDE DEF changes
    <2>5. changes \in Seq(Change)
      BY <2>1, <2>2, <2>4, MapSeq
    <2> QED
      BY <2>3, <2>5, BeginInv DEF Status
  <1>2. ASSUME NEW o \in Order, NEW target \in {"CANCELLED", "SHIPPED", "FULFILLED"},
               UpdateOrderStatus(s, o, target)
        PROVE  IInv'
    <2>1. target \in Status /\ <<>> \in Seq(Change)
      BY DEF Status
    <2>2. Begin(s, target, o, <<>>, "order") /\ order[o].status # "ABSENT"
      BY <1>2 DEF UpdateOrderStatus
    <2> QED
      BY <2>1, <2>2, BeginInv
  <1>3. ASSUME NEW o \in Order \cup {NoOrder}, CreateInvoice(s, o)
        PROVE  IInv'
    <2>1. <<>> \in Seq(Change)
      OBVIOUS
    <2>2. /\ Begin(s, "invoice", o, <<>>, "range")
          /\ o \in Order => order[o].status # "ABSENT"
      BY <1>3 DEF CreateInvoice
    <2> QED
      BY <2>1, <2>2, BeginInv
  <1>4. ASSUME NEW p \in Product, NEW change \in AdjustChange,
               CreateStockAdjustment(s, p, change)
        PROVE  IInv'
    <2> DEFINE changes == <<[product |-> p, change |-> change]>>
    <2>1. changes \in Seq(Change) /\ Len(changes) = 1
      BY DEF Change
    <2>2. Begin(s, "adjust", NoOrder, changes, "stock")
      BY <1>4 DEF CreateStockAdjustment
    <2> HIDE DEF changes
    <2> QED
      BY <2>1, <2>2, BeginInv
  <1> QED
    BY <1>1, <1>2, <1>3, <1>4 DEF Requests

\* What every statement that takes a row keeps.
LEMMA LockKeeps ==
  ASSUME NEW s \in Session, IInv, NEW r \in Rows,
         NEW label \in {"range", "key", "stock", "commit"},
         ForUpdate(s, r), Lock(s, r, label),
         NEW a \in Nat \ {0}, at' = [at EXCEPT ![s] = a],
         NEW n \in 0 .. Last, number' = [number EXCEPT ![s] = n],
         local' \in [Session -> [Product -> 0 .. MaxStock]],
         InStep(s)'
  PROVE  IInv'
  <1>1. /\ owner' = Acquire(owner, s, r) /\ Available(owner, s, r)
        /\ pc' = [pc EXCEPT ![s] = label]
        /\ UNCHANGED <<order, invoices, next, stock, reserved, keyed, kind, theOrder,
                       takes>>
    BY DEF Lock, ForUpdate, committed, request
  <1>2. TypeOK'
    <2>1. owner' \in [Rows -> Session \cup {NoSession}]
      BY <1>1 DEF IInv, TypeOK, Rows, Acquire
    <2>2. pc' \in [Session -> {"idle", "order", "range", "key", "stock", "commit"}]
      BY <1>1 DEF IInv, TypeOK
    <2>3. at' \in [Session -> Nat \ {0}] /\ number' \in [Session -> 0 .. Last]
      BY DEF IInv, TypeOK
    <2> QED
      BY <1>1, <2>1, <2>2, <2>3 DEF IInv, TypeOK, Rows
  <1>3. NumbersAreGapless' /\ ConfirmedIsBooked'
    BY <1>1 DEF IInv, NumbersAreGapless, ConfirmedIsBooked
  <1>4. \A t \in Session \ {s} : InStep(t)'
    <2>1. /\ kind' = [kind EXCEPT ![s] = kind[s]]
          /\ theOrder' = [theOrder EXCEPT ![s] = theOrder[s]]
          /\ takes' = [takes EXCEPT ![s] = takes[s]]
      BY <1>1 DEF IInv, TypeOK
    <2> QED
      BY <1>1, <2>1, OthersStay
  <1> QED
    BY <1>2, <1>3, <1>4 DEF IInv

LEMMA LockOrderInv ==
  ASSUME NEW s \in Session, IInv, LockOrder(s)
  PROVE  IInv'
  <1>1. CASE ~Ready(s) /\ Fail(s)
    BY <1>1, FailInv
  <1>2. CASE Ready(s) /\ Lock(s, theOrder[s], After(s, "order")) /\ UNCHANGED progress
    <2> DEFINE label == IF kind[s] = "CONFIRMED" THEN "range" ELSE "commit"
    <2>1. InStep(s) /\ pc[s] = "order" /\ ForUpdate(s, theOrder[s])
      BY DEF IInv, LockOrder
    <2>2. kind[s] \in Status /\ theOrder[s] \in Order /\ at[s] = 1
      BY <2>1 DEF InStep, FitsItsRequest
    <2>3. \A r \in Rows : owner[r] # s
      BY <2>1 DEF InStep, HoldsNoMore, IInv, TypeOK, Rows
    <2>4. After(s, "order") = label
      BY DEF After
    <2>5. /\ owner' = Acquire(owner, s, theOrder[s])
          /\ pc'[s] = label
          /\ UNCHANGED <<order, keyed, kind, theOrder, takes, at, number, local>>
      BY <1>2, <2>4 DEF Lock, IInv, TypeOK, committed, request, progress
    <2>6. /\ DOMAIN owner' = Rows /\ owner'[theOrder[s]] = s
          /\ \A r \in Rows : r # theOrder[s] => owner'[r] # s
      BY <2>2, <2>3, <2>5 DEF IInv, TypeOK, Rows, Acquire
    <2>7. FitsItsRequest(s)'
      BY <2>1, <2>2, <2>5 DEF InStep, FitsItsRequest
    <2>8. HoldsItsOrder(s)'
      BY <1>2, <2>5, <2>6 DEF HoldsItsOrder, Ready
    <2>9. HoldsItsNumber(s)'
      BY <2>2, <2>5 DEF HoldsItsNumber, Status
    <2>10. HoldsNoMore(s)'
      BY <2>2, <2>5, <2>6 DEF HoldsNoMore
    <2>11. /\ at' = [at EXCEPT ![s] = at[s]] /\ number' = [number EXCEPT ![s] = number[s]]
           /\ at[s] \in Nat \ {0} /\ number[s] \in 0 .. Last
           /\ local' \in [Session -> [Product -> 0 .. MaxStock]]
      BY <2>5 DEF IInv, TypeOK
    <2> QED
      BY <1>2, <2>1, <2>2, <2>4, <2>7, <2>8, <2>9, <2>10, <2>11, LockKeeps DEF InStep, Rows
  <1> QED
    BY <1>1, <1>2 DEF LockOrder

LEMMA LockRangeInv ==
  ASSUME NEW s \in Session, IInv, LockRange(s)
  PROVE  IInv'
  <1>1. CASE next > Last /\ Fail(s)
    BY <1>1, FailInv
  <1>2. CASE /\ next =< Last
             /\ Lock(s, NumberRange, After(s, "range"))
             /\ number' = [number EXCEPT ![s] = next]
             /\ UNCHANGED <<at, local>>
    <2> DEFINE label == CASE kind[s] = "CONFIRMED" -> "stock"
                          [] kind[s] = "invoice" /\ keyed /\ theOrder[s] # NoOrder -> "key"
                          [] OTHER -> "commit"
    <2>1. InStep(s) /\ pc[s] = "range" /\ ForUpdate(s, NumberRange)
      BY DEF IInv, LockRange
    <2>2. /\ kind[s] \in {"CONFIRMED", "invoice"} /\ at[s] = 1
          /\ kind[s] = "CONFIRMED" => theOrder[s] \in Order
      BY <2>1 DEF InStep, FitsItsRequest, Status
    <2>3. After(s, "range") = label
      BY <2>2 DEF After
    <2>4. /\ label \in {"stock", "key", "commit"}
          /\ label = "stock" => kind[s] = "CONFIRMED"
          /\ label = "key" => kind[s] = "invoice" /\ keyed /\ theOrder[s] \in Order
          /\ label = "commit" => kind[s] = "invoice"
      BY <2>2 DEF IInv, TypeOK
    <2> HIDE DEF label
    <2>5. /\ owner' = Acquire(owner, s, NumberRange)
          /\ pc'[s] = label /\ number'[s] = next
          /\ UNCHANGED <<order, next, keyed, kind, theOrder, takes, at, local>>
      BY <1>2, <2>3 DEF Lock, IInv, TypeOK, committed, request
    <2>6. /\ DOMAIN owner' = Rows /\ owner'[NumberRange] = s
          /\ \A r \in Rows : r # NumberRange => owner'[r] = owner[r]
      BY <2>5 DEF IInv, TypeOK, Rows, Acquire
    <2>7. FitsItsRequest(s)'
      <3>1. label = "stock" => 1 \in DOMAIN takes[s]
        <4> SUFFICES ASSUME label = "stock" PROVE 1 \in DOMAIN takes[s]
          OBVIOUS
        <4>1. takes[s] # <<>> /\ takes[s] \in Seq(Change)
          BY <2>1, <2>4 DEF InStep, HoldsItsOrder, Ready, Status, IInv, TypeOK
        <4> QED
          BY <4>1, LenProperties, EmptySeq
      <3> QED
        BY <2>1, <2>2, <2>4, <2>5, <3>1 DEF InStep, FitsItsRequest
    <2>8. HoldsItsOrder(s)'
      <3> SUFFICES ASSUME kind[s] = "CONFIRMED" PROVE owner'[theOrder[s]] = s /\ Ready(s)'
        BY <2>2, <2>5 DEF HoldsItsOrder, Status
      <3>1. owner[theOrder[s]] = s /\ Ready(s) /\ theOrder[s] \in Order
        BY <2>1, <2>2 DEF InStep, HoldsItsOrder, Status
      <3> QED
        BY <2>5, <2>6, <3>1 DEF Ready, Rows
    <2>9. HoldsItsNumber(s)'
      BY <1>2, <2>5, <2>6 DEF HoldsItsNumber
    <2>10. HoldsNoMore(s)'
      BY <2>1, <2>4, <2>5, <2>6 DEF InStep, HoldsNoMore, IInv, TypeOK, Rows
    <2>11. /\ at' = [at EXCEPT ![s] = at[s]] /\ at[s] \in Nat \ {0}
           /\ next \in 0 .. Last
           /\ local' \in [Session -> [Product -> 0 .. MaxStock]]
      BY <1>2, <2>5 DEF IInv, TypeOK
    <2> QED
      BY <1>2, <2>1, <2>3, <2>4, <2>7, <2>8, <2>9, <2>10, <2>11, LockKeeps DEF InStep, Rows
  <1> QED
    BY <1>1, <1>2 DEF LockRange

LEMMA CheckKeyInv ==
  ASSUME NEW s \in Session, IInv, CheckKey(s)
  PROVE  IInv'
  <1>1. /\ InStep(s) /\ pc[s] = "key" /\ Available(owner, s, theOrder[s])
        /\ Lock(s, theOrder[s], "commit") /\ UNCHANGED <<at, number, local>>
    BY DEF IInv, CheckKey, progress
  <1>2. /\ kind[s] = "invoice" /\ theOrder[s] \in Order
        /\ owner[NumberRange] = s /\ number[s] = next /\ next =< Last
    BY <1>1 DEF InStep, FitsItsRequest, HoldsItsNumber
  <1>3. /\ owner' = Acquire(owner, s, theOrder[s]) /\ pc'[s] = "commit"
        /\ UNCHANGED <<order, next, keyed, kind, theOrder, takes>>
    BY <1>1 DEF Lock, IInv, TypeOK, committed, request
  <1>4. /\ DOMAIN owner' = Rows /\ owner'[theOrder[s]] = s
        /\ \A r \in Rows : r # theOrder[s] => owner'[r] = owner[r]
    BY <1>2, <1>3 DEF IInv, TypeOK, Rows, Acquire
  <1>5. FitsItsRequest(s)' /\ HoldsItsOrder(s)'
    BY <1>1, <1>2, <1>3 DEF InStep, FitsItsRequest, HoldsItsOrder, Status
  <1>6. HoldsItsNumber(s)'
    BY <1>1, <1>2, <1>3, <1>4 DEF HoldsItsNumber, Rows
  <1>7. HoldsNoMore(s)'
    BY <1>1, <1>2, <1>3, <1>4 DEF InStep, HoldsNoMore, IInv, TypeOK, Rows
  <1>8. /\ at' = [at EXCEPT ![s] = at[s]] /\ number' = [number EXCEPT ![s] = number[s]]
        /\ at[s] \in Nat \ {0} /\ number[s] \in 0 .. Last
        /\ local' \in [Session -> [Product -> 0 .. MaxStock]]
    BY <1>1 DEF IInv, TypeOK
  <1> QED
    BY <1>1, <1>2, <1>5, <1>6, <1>7, <1>8, LockKeeps DEF InStep, Rows, ForUpdate

\* A line of a request names a product and a change, and what the session has
\* loaded of its row is a quantity.
LEMMA LineType ==
  ASSUME NEW s \in Session, IInv, pc[s] = "stock"
  PROVE  /\ Line(s).product \in Product /\ Line(s).change \in Int
         /\ at[s] \in 1 .. Len(takes[s]) /\ Len(takes[s]) \in Nat
  <1>1. takes[s] \in Seq(Change) /\ at[s] \in DOMAIN takes[s]
    BY DEF IInv, TypeOK, InStep, FitsItsRequest
  <1>2. at[s] \in 1 .. Len(takes[s]) /\ Len(takes[s]) \in Nat
    BY <1>1, LenProperties
  <1>3. takes[s][at[s]] \in Change
    BY <1>1, <1>2, ElementOfSeq
  <1> QED
    BY <1>2, <1>3 DEF Line, Change

LEMMA LockStockInv ==
  ASSUME NEW s \in Session, IInv, LockStock(s)
  PROVE  IInv'
  <1>1. CASE ~Sufficient(s) /\ Fail(s)
    BY <1>1, FailInv
  <1>2. CASE /\ Sufficient(s)
             /\ Lock(s, Line(s).product,
                     IF at[s] = Len(takes[s]) THEN After(s, "stock") ELSE "stock")
             /\ at' = [at EXCEPT ![s] = @ + 1]
             /\ local' = [local EXCEPT ![s][Line(s).product] =
                             Loaded(s, Line(s).product) + Line(s).change]
             /\ UNCHANGED number
    <2> DEFINE p == Line(s).product
               q == Loaded(s, p) + Line(s).change
               label == IF at[s] = Len(takes[s]) THEN "commit" ELSE "stock"
    <2>1. InStep(s) /\ pc[s] = "stock" /\ ForUpdate(s, p)
      BY DEF IInv, LockStock
    <2>2. p \in Product /\ at[s] \in 1 .. Len(takes[s]) /\ Len(takes[s]) \in Nat
      BY <2>1, LineType
    <2>3. /\ kind[s] = "CONFIRMED" \/ (kind[s] = "adjust" /\ Len(takes[s]) = 1)
          /\ kind[s] = "CONFIRMED" => theOrder[s] \in Order
      BY <2>1 DEF InStep, FitsItsRequest, Status
    <2>4. (IF at[s] = Len(takes[s]) THEN After(s, "stock") ELSE "stock") = label
      BY <2>3 DEF After
    <2>5. /\ label \in {"stock", "commit"}
          /\ label = "stock" => kind[s] = "CONFIRMED" /\ at[s] + 1 \in DOMAIN takes[s]
      <3>1. DOMAIN takes[s] = 1 .. Len(takes[s])
        BY LenProperties DEF IInv, TypeOK
      <3>2. CASE at[s] = Len(takes[s])
        BY <3>2
      <3>3. CASE at[s] # Len(takes[s])
        <4>1. \A n \in Nat : \A a \in 1 .. n : a # n => a + 1 \in 1 .. n /\ n # 1
          OBVIOUS
        <4>2. at[s] + 1 \in 1 .. Len(takes[s]) /\ Len(takes[s]) # 1
          BY <2>2, <3>3, <4>1
        <4> QED
          BY <2>3, <3>1, <3>3, <4>2
      <3> QED
        BY <3>2, <3>3
    <2>6. q \in 0 .. MaxStock
      BY <1>2 DEF Sufficient
    <2> HIDE DEF label, p, q
    <2>7. /\ owner' = Acquire(owner, s, p)
          /\ pc'[s] = label /\ at'[s] = at[s] + 1
          /\ UNCHANGED <<order, next, keyed, kind, theOrder, takes, number>>
      BY <1>2, <2>4 DEF Lock, IInv, TypeOK, committed, request, p
    <2>8. /\ DOMAIN owner' = Rows /\ owner'[p] = s /\ p \notin Order \cup {NumberRange}
          /\ \A r \in Rows : r # p => owner'[r] = owner[r]
      BY <2>2, <2>7 DEF IInv, TypeOK, Rows, Acquire
    <2>9. FitsItsRequest(s)'
      BY <2>1, <2>5, <2>7 DEF InStep, FitsItsRequest
    <2>10. HoldsItsOrder(s)'
      <3> SUFFICES ASSUME kind[s] \in Status PROVE owner'[theOrder[s]] = s /\ Ready(s)'
        BY <2>7 DEF HoldsItsOrder
      <3>1. owner[theOrder[s]] = s /\ Ready(s) /\ theOrder[s] \in Order
        BY <2>1, <2>3 DEF InStep, HoldsItsOrder, Status
      <3> QED
        BY <2>7, <2>8, <3>1 DEF Ready, Rows
    <2>11. HoldsItsNumber(s)'
      <3> SUFFICES ASSUME kind[s] = "CONFIRMED"
                   PROVE  owner'[NumberRange] = s /\ number[s] = next /\ next =< Last
        BY <2>3, <2>5, <2>7 DEF HoldsItsNumber
      <3>1. owner[NumberRange] = s /\ number[s] = next /\ next =< Last
        BY <2>1 DEF InStep, HoldsItsNumber
      <3>2. NumberRange \in Rows /\ NumberRange # p
        BY <2>2, <2>8 DEF Rows
      <3> QED
        BY <2>8, <3>1, <3>2
    <2>12. HoldsNoMore(s)'
      BY <2>1, <2>2, <2>5, <2>7, <2>8 DEF InStep, HoldsNoMore, IInv, TypeOK, Rows
    <2>13. /\ at' = [at EXCEPT ![s] = at[s] + 1] /\ at[s] + 1 \in Nat \ {0}
           /\ number' = [number EXCEPT ![s] = number[s]] /\ number[s] \in 0 .. Last
      BY <1>2, <2>2 DEF IInv, TypeOK
    <2>14. local' \in [Session -> [Product -> 0 .. MaxStock]]
      <3>1. local[s] \in [Product -> 0 .. MaxStock]
        BY DEF IInv, TypeOK
      <3>2. [local[s] EXCEPT ![p] = q] \in [Product -> 0 .. MaxStock]
        BY <2>2, <2>6, <3>1
      <3>3. local' = [local EXCEPT ![s] = [local[s] EXCEPT ![p] = q]]
        BY <1>2 DEF p, q
      <3> QED
        BY <3>2, <3>3 DEF IInv, TypeOK
    <2>15. p \in Rows /\ label \in {"range", "key", "stock", "commit"}
           /\ Lock(s, p, label)
      BY <1>2, <2>2, <2>4, <2>5 DEF p, Rows
    <2> QED
      BY <2>1, <2>9, <2>10, <2>11, <2>12, <2>13, <2>14, <2>15, LockKeeps DEF InStep
  <1> QED
    BY <1>1, <1>2 DEF LockStock

\* An invoice with the next number keeps the numbers gapless.
LEMMA IssuedKeeps ==
  ASSUME NEW s \in Session, IInv, invoices' = Issued(s), next' = number[s] + 1,
         number[s] = next, next =< Last
  PROVE  /\ NumbersAreGapless'
         /\ invoices' \subseteq [number : 1 .. Last, order : Order \cup {NoOrder}]
         /\ IsFiniteSet(invoices')
         /\ next' \in 1 .. Last + 1
  <1> DEFINE i == [number |-> number[s], order |-> theOrder[s]]
  <1>1. next \in 1 .. Last /\ next' = next + 1
    BY DEF IInv, TypeOK
  <1>2. invoices' = invoices \cup {i} /\ i.number = next
    BY DEF Issued
  <1>3. i \in [number : 1 .. Last, order : Order \cup {NoOrder}]
    BY <1>1 DEF IInv, TypeOK
  <1>4. {x.number : x \in invoices} = 1 .. next - 1 /\ Cardinality(invoices) = next - 1
    BY DEF IInv, NumbersAreGapless
  <1>5. i \notin invoices
    <2>1. next \notin 1 .. next - 1
      BY <1>1
    <2> QED
      BY <1>2, <1>4, <2>1
  <1> HIDE DEF i
  <1>6. IsFiniteSet(invoices') /\ Cardinality(invoices') = next
    <2>1. IsFiniteSet(invoices)
      BY DEF IInv, TypeOK
    <2>2. Cardinality(invoices \cup {i}) = Cardinality(invoices) + 1
      BY <2>1, <1>5, FS_AddElement
    <2> QED
      BY <1>1, <1>2, <1>4, <2>1, <2>2, FS_AddElement
  <1>7. {x.number : x \in invoices'} = 1 .. next' - 1
    <2>1. {x.number : x \in invoices'} = (1 .. next - 1) \cup {next}
      BY <1>2, <1>4
    <2>2. (1 .. next - 1) \cup {next} = 1 .. next' - 1
      BY <1>1
    <2> QED
      BY <2>1, <2>2
  <1>8. NumbersAreGapless'
    BY <1>1, <1>6, <1>7 DEF NumbersAreGapless
  <1>9. invoices' \subseteq [number : 1 .. Last, order : Order \cup {NoOrder}]
    BY <1>2, <1>3 DEF IInv, TypeOK
  <1> QED
    BY <1>1, <1>6, <1>8, <1>9

\* What a session has changed of the stock is a quantity of every row.
LEMMA StockTakenType ==
  ASSUME NEW s \in Session, IInv
  PROVE  StockTaken(s) \in [Product -> 0 .. MaxStock]
  BY DEF IInv, TypeOK, StockTaken, Loaded

\* What a session that is about to commit a new status knows of its order.
LEMMA CommitKnows ==
  ASSUME NEW s \in Session, IInv, pc[s] = "commit", kind[s] \in Status
  PROVE  /\ theOrder[s] \in Order /\ owner[theOrder[s]] = s
         /\ <<order[theOrder[s]].status, kind[s]>> \in Allowed
         /\ kind[s] = "CONFIRMED" =>
               /\ order[theOrder[s]].invoice = NoInvoice
               /\ owner[NumberRange] = s /\ number[s] = next /\ next =< Last
  BY DEF IInv, InStep, FitsItsRequest, HoldsItsOrder, HoldsItsNumber, Ready

LEMMA CommitConfirmationInv ==
  ASSUME NEW s \in Session, IInv, CommitConfirmation(s)
  PROVE  IInv'
  <1> DEFINE o == theOrder[s]
             row == [status |-> "CONFIRMED", invoice |-> number[s]]
  <1>1. /\ invoices' = Issued(s) /\ next' = number[s] + 1
        /\ order' = [order EXCEPT ![o] = row]
        /\ stock' = StockTaken(s)
        /\ reserved' = reserved \cup {<<o, i>> : i \in DOMAIN Lines[o]}
        /\ Close(s) /\ kind[s] = "CONFIRMED" /\ pc[s] = "commit"
    BY DEF CommitConfirmation
  <1>2. /\ o \in Order /\ owner[o] = s /\ <<order[o].status, "CONFIRMED">> \in Allowed
        /\ owner[NumberRange] = s /\ number[s] = next /\ next =< Last
    BY <1>1, CommitKnows DEF Status
  <1>3. number[s] \in 0 .. Last /\ row \in OrderRow
    BY DEF IInv, TypeOK, OrderRow, Status
  <1> HIDE DEF o, row
  <1>4. order' \in [Order -> OrderRow]
    BY <1>1, <1>2, <1>3 DEF IInv, TypeOK
  <1>5. /\ order'[o] = row
        /\ \A x \in Order : x # o => order'[x] = order[x]
    BY <1>1, <1>2 DEF IInv, TypeOK
  <1>6. TypeOK'
    <2>1. reserved' \subseteq UNION {{x} \X DOMAIN Lines[x] : x \in Order}
      BY <1>1, <1>2, SMTT(30) DEF IInv, TypeOK
    <2> QED
      BY <1>1, <1>2, <1>4, <2>1, IssuedKeeps, StockTakenType, CloseTypes DEF TypeOK, Rows
  <1>7. NumbersAreGapless'
    BY <1>1, <1>2, IssuedKeeps
  <1>8. ConfirmedIsBooked'
    <2> SUFFICES ASSUME NEW x \in Order
                 PROVE  LET confirmed == order'[x].status \in {"CONFIRMED", "SHIPPED", "FULFILLED"}
                        IN  /\ IF confirmed
                               THEN [number |-> order'[x].invoice, order |-> x] \in invoices'
                               ELSE order'[x].invoice = NoInvoice
                            /\ {r \in reserved' : r[1] = x} =
                                  IF confirmed THEN {x} \X DOMAIN Lines[x] ELSE {}
      BY DEF ConfirmedIsBooked
    <2>1. invoices' = invoices \cup {[number |-> number[s], order |-> o]}
      BY <1>1 DEF Issued, o
    <2>2. CASE x = o
      <3>1. order'[x].status = "CONFIRMED" /\ order'[x].invoice = number[s]
        BY <1>5, <2>2 DEF row
      <3>2. {r \in reserved : r[1] = o} = {}
        BY <1>2 DEF IInv, ConfirmedIsBooked, Allowed
      <3>3. {r \in reserved' : r[1] = o} = {o} \X DOMAIN Lines[o]
        BY <1>1, <3>2
      <3> QED
        BY <2>1, <2>2, <3>1, <3>3
    <2>3. CASE x # o
      <3>1. order'[x] = order[x]
        BY <1>5, <2>3
      <3>2. {r \in reserved' : r[1] = x} = {r \in reserved : r[1] = x}
        BY <1>1, <2>3
      <3> QED
        BY <2>1, <3>1, <3>2 DEF IInv, ConfirmedIsBooked
    <2> QED
      BY <2>2, <2>3
  <1>9. \A t \in Session : InStep(t)'
    <2>1. \A x \in Order : \/ order'[x] = order[x]
                           \/ order'[x].status # "ABSENT" /\ owner[x] = s
      BY <1>2, <1>5 DEF row
    <2> QED
      BY <1>1, <1>2, <2>1, CloseInStep
  <1> QED
    BY <1>6, <1>7, <1>8, <1>9 DEF IInv

LEMMA CommitStatusInv ==
  ASSUME NEW s \in Session, IInv, CommitStatus(s)
  PROVE  IInv'
  <1> DEFINE o == theOrder[s]
             row == [order[o] EXCEPT !.status = kind[s]]
  <1>1. /\ order' = [order EXCEPT ![o] = row]
        /\ UNCHANGED <<invoices, next, stock, reserved>>
        /\ Close(s) /\ kind[s] \in Status \ {"CONFIRMED"} /\ pc[s] = "commit"
    BY DEF CommitStatus
  <1>2. o \in Order /\ owner[o] = s /\ <<order[o].status, kind[s]>> \in Allowed
    BY <1>1, CommitKnows
  <1>3. /\ row \in OrderRow /\ row.status = kind[s] /\ row.invoice = order[o].invoice
        /\ kind[s] # "ABSENT"
    <2>1. order[o] \in OrderRow
      BY <1>2 DEF IInv, TypeOK
    <2> QED
      BY <1>1, <1>2, <2>1 DEF OrderRow, Allowed
  <1> HIDE DEF o, row
  <1>4. order' \in [Order -> OrderRow]
    BY <1>1, <1>2, <1>3 DEF IInv, TypeOK
  <1>5. /\ order'[o] = row
        /\ \A x \in Order : x # o => order'[x] = order[x]
    BY <1>1, <1>2 DEF IInv, TypeOK
  <1>6. TypeOK'
    BY <1>1, <1>4, CloseTypes DEF IInv, TypeOK, Rows
  <1>7. NumbersAreGapless'
    BY <1>1 DEF IInv, NumbersAreGapless
  <1>8. ConfirmedIsBooked'
    <2>1. order[o].status \in {"CONFIRMED", "SHIPPED", "FULFILLED"} <=>
            order'[o].status \in {"CONFIRMED", "SHIPPED", "FULFILLED"}
      BY <1>1, <1>2, <1>3, <1>5 DEF Allowed
    <2>2. \A x \in Order : order'[x].invoice = order[x].invoice
      BY <1>3, <1>5
    <2>3. \A x \in Order : order[x].status \in {"CONFIRMED", "SHIPPED", "FULFILLED"} <=>
                             order'[x].status \in {"CONFIRMED", "SHIPPED", "FULFILLED"}
      BY <1>5, <2>1
    <2> QED
      BY <1>1, <2>2, <2>3 DEF IInv, ConfirmedIsBooked
  <1>9. \A t \in Session : InStep(t)'
    <2>1. \A x \in Order : \/ order'[x] = order[x]
                           \/ order'[x].status # "ABSENT" /\ owner[x] = s
      BY <1>2, <1>3, <1>5
    <2> QED
      BY <1>1, <2>1, CloseInStep
  <1> QED
    BY <1>6, <1>7, <1>8, <1>9 DEF IInv

LEMMA CommitInvoiceInv ==
  ASSUME NEW s \in Session, IInv, CommitInvoice(s)
  PROVE  IInv'
  <1>1. /\ invoices' = Issued(s) /\ next' = number[s] + 1
        /\ UNCHANGED <<order, stock, reserved>>
        /\ Close(s) /\ kind[s] = "invoice" /\ pc[s] = "commit"
    BY DEF CommitInvoice
  <1>2. owner[NumberRange] = s /\ number[s] = next /\ next =< Last
    BY <1>1 DEF IInv, InStep, HoldsItsNumber
  <1>3. TypeOK'
    BY <1>1, <1>2, IssuedKeeps, CloseTypes DEF IInv, TypeOK, Rows
  <1>4. NumbersAreGapless'
    BY <1>1, <1>2, IssuedKeeps
  <1>5. ConfirmedIsBooked'
    <2>1. invoices \subseteq invoices'
      BY <1>1 DEF Issued
    <2> QED
      BY <1>1, <2>1 DEF IInv, ConfirmedIsBooked
  <1>6. \A t \in Session : InStep(t)'
    BY <1>1, <1>2, CloseInStep
  <1> QED
    BY <1>3, <1>4, <1>5, <1>6 DEF IInv

LEMMA CommitAdjustmentInv ==
  ASSUME NEW s \in Session, IInv, CommitAdjustment(s)
  PROVE  IInv'
  <1>1. /\ stock' = StockTaken(s) /\ UNCHANGED <<order, invoices, next, reserved>>
        /\ Close(s)
    BY DEF CommitAdjustment
  <1>2. TypeOK'
    BY <1>1, StockTakenType, CloseTypes DEF IInv, TypeOK, Rows
  <1>3. NumbersAreGapless' /\ ConfirmedIsBooked'
    BY <1>1 DEF IInv, NumbersAreGapless, ConfirmedIsBooked
  <1>4. \A t \in Session : InStep(t)'
    BY <1>1, CloseInStep
  <1> QED
    BY <1>2, <1>3, <1>4 DEF IInv

LEMMA NextInv == IInv /\ [Next]_vars => IInv'
  <1> SUFFICES ASSUME IInv, [Next]_vars PROVE IInv'
    OBVIOUS
  <1>1. ASSUME NEW o \in Order, CreateOrder(o) PROVE IInv'
    BY <1>1, CreateOrderInv
  <1>2. ASSUME NEW s \in Session, Requests(s) PROVE IInv'
    BY <1>2, RequestsInv
  <1>3. ASSUME NEW s \in Session, Statement(s) PROVE IInv'
    BY <1>3, LockOrderInv, LockRangeInv, CheckKeyInv, LockStockInv,
       CommitConfirmationInv, CommitStatusInv, CommitInvoiceInv, CommitAdjustmentInv
    DEF Statement
  <1>4. ASSUME NEW s \in Session, Abort(s) \/ BreakDeadlock(s) PROVE IInv'
    BY <1>4, FailInv DEF Abort, BreakDeadlock
  <1>5. CASE UNCHANGED vars
    BY <1>5, SMTT(30)
    DEF vars, committed, request, progress, IInv, TypeOK, NumbersAreGapless,
        ConfirmedIsBooked, InStep, FitsItsRequest, HoldsItsOrder, Ready,
        HoldsItsNumber, HoldsNoMore
  <1> QED
    BY <1>1, <1>2, <1>3, <1>4, <1>5 DEF Next
-----------------------------------------------------------------------------
THEOREM Invariance == Spec => []IInv
  BY InitInv, NextInv, PTL DEF Spec

\* Type correctness; with it, no confirmation and no adjustment leaves a negative
\* quantity, and no number is taken beyond the end of the range.
THEOREM TypeCorrect == Spec => []TypeOK
  <1>1. IInv => TypeOK
    BY DEF IInv
  <1> QED
    BY <1>1, Invariance, PTL

\* Invoice numbers are given out without a gap and without a duplicate by any
\* number of requests, whichever of them fail.
THEOREM Gapless == Spec => []NumbersAreGapless
  <1>1. IInv => NumbersAreGapless
    BY DEF IInv
  <1> QED
    BY <1>1, Invariance, PTL

\* An order is confirmed exactly when its invoice and the reservation of all of its
\* lines are there.
THEOREM Booked == Spec => []ConfirmedIsBooked
  <1>1. IInv => ConfirmedIsBooked
    BY DEF IInv
  <1> QED
    BY <1>1, Invariance, PTL

\* An order moves along ALLOWED_TRANSITIONS only, and keeps its invoice.
THEOREM Forward == Spec => MovesForward
  <1> DEFINE Forwards ==
               \A o \in Order :
                 /\ order[o].status \notin {"ABSENT", order'[o].status} =>
                       <<order[o].status, order'[o].status>> \in Allowed
                 /\ order[o].invoice \in {NoInvoice, order'[o].invoice}
  <1>1. ASSUME IInv, [Next]_vars PROVE Forwards \/ UNCHANGED vars
    <2>1. ASSUME NEW x \in Order, CreateOrder(x) PROVE Forwards
      BY <1>1, <2>1 DEF CreateOrder, IInv, TypeOK, OrderRow
    <2>2. ASSUME NEW s \in Session, CommitConfirmation(s) PROVE Forwards
      <3>1. /\ order' = [order EXCEPT ![theOrder[s]] =
                            [status |-> "CONFIRMED", invoice |-> number[s]]]
            /\ kind[s] = "CONFIRMED" /\ pc[s] = "commit"
        BY <2>2 DEF CommitConfirmation
      <3>2. /\ theOrder[s] \in Order /\ order[theOrder[s]].invoice = NoInvoice
            /\ <<order[theOrder[s]].status, "CONFIRMED">> \in Allowed
        BY <1>1, <3>1, CommitKnows DEF Status
      <3> QED
        BY <1>1, <3>1, <3>2 DEF IInv, TypeOK
    <2>3. ASSUME NEW s \in Session, CommitStatus(s) PROVE Forwards
      <3>1. /\ order' = [order EXCEPT ![theOrder[s]] =
                            [order[theOrder[s]] EXCEPT !.status = kind[s]]]
            /\ kind[s] \in Status /\ pc[s] = "commit"
        BY <2>3 DEF CommitStatus
      <3>2. /\ theOrder[s] \in Order
            /\ <<order[theOrder[s]].status, kind[s]>> \in Allowed
        BY <1>1, <3>1, CommitKnows
      <3>3. order \in [Order -> OrderRow]
        BY <1>1 DEF IInv, TypeOK
      <3>4. /\ order'[theOrder[s]].status = kind[s]
            /\ order'[theOrder[s]].invoice = order[theOrder[s]].invoice
        BY <3>1, <3>2, <3>3 DEF OrderRow
      <3>5. \A x \in Order : x # theOrder[s] => order'[x] = order[x]
        BY <3>1, <3>2, <3>3
      <3> QED
        BY <3>2, <3>4, <3>5
    <2>4. ASSUME NEW s \in Session,
                 \/ Requests(s) \/ Abort(s) \/ BreakDeadlock(s)
                 \/ LockOrder(s) \/ LockRange(s) \/ CheckKey(s) \/ LockStock(s)
                 \/ CommitInvoice(s) \/ CommitAdjustment(s)
          PROVE  Forwards
      <3>1. order' = order
        BY <2>4
        DEF Requests, ConfirmOrder, UpdateOrderStatus, CreateInvoice,
            CreateStockAdjustment, Begin, Abort, BreakDeadlock, Fail, Lock, LockOrder,
            LockRange, CheckKey, LockStock, CommitInvoice, CommitAdjustment, committed
      <3> QED
        BY <3>1
    <2> QED
      BY <1>1, <2>1, <2>2, <2>3, <2>4 DEF Next, Statement
  <1>2. IInv /\ [Next]_vars => [Forwards]_vars
    BY <1>1
  <1> QED
    BY <1>2, Invariance, PTL DEF Spec, MovesForward
-----------------------------------------------------------------------------
(* Deadlocks *)

\* Whom a session of a deadlock waits for: the owner of the row it wants.
LEMMA BlockerOwns ==
  ASSUME NEW s \in Session, IInv, Blocker(s) \in Session
  PROVE  /\ Blocker(s) # s
         /\ \/ pc[s] \in {"order", "key"} /\ owner[theOrder[s]] = Blocker(s)
               /\ theOrder[s] \in Order
            \/ pc[s] = "range" /\ owner[NumberRange] = Blocker(s)
            \/ pc[s] = "stock" /\ owner[Line(s).product] = Blocker(s)
               /\ Line(s).product \in Product
  <1> DEFINE waits == \A r \in Wanted(s) : Available(owner, s, r)
  <1>1. /\ ~waits
        /\ Blocker(s) = CHOOSE t \in Session : \E r \in Wanted(s) : owner[r] = t
    BY DEF Blocker
  <1>2. PICK r \in Wanted(s) : ~Available(owner, s, r)
    BY <1>1
  <1>3. /\ \A x \in Wanted(s) : x = r
        /\ \/ pc[s] \in {"order", "key"} /\ r = theOrder[s]
           \/ pc[s] = "range" /\ r = NumberRange
           \/ pc[s] = "stock" /\ r = Line(s).product
    BY <1>2 DEF Wanted
  <1>4. pc[s] \in {"order", "key"} => theOrder[s] \in Order
    BY DEF IInv, InStep, FitsItsRequest
  <1>5. pc[s] = "stock" => Line(s).product \in Product
    BY LineType
  <1>6. r \in Rows /\ owner[r] \in Session /\ owner[r] # s
    BY <1>2, <1>3, <1>4, <1>5 DEF IInv, TypeOK, Available, Rows
  <1>7. Blocker(s) = owner[r]
    BY <1>1, <1>2, <1>3, <1>6
  <1> QED
    BY <1>3, <1>4, <1>5, <1>6, <1>7

\* Of a set of sessions that wait for one another, one issues an invoice for an
\* order: a session that waits for an order waits for one that has it and waits
\* for the number range or for stock; who waits for stock waits for one that has
\* the number range, and there is one such session.
LEMMA CycleHasAnInvoice ==
  ASSUME IInv, NEW D \in SUBSET Session, NEW d \in D, \A s \in D : Blocker(s) \in D
  PROVE  \E s \in D : pc[s] = "key"
  <1> SUFFICES ASSUME \A s \in D : pc[s] # "key" PROVE FALSE
    OBVIOUS
  <1>1. ASSUME NEW s \in D
        PROVE  /\ Blocker(s) \in D /\ Blocker(s) # s
               /\ pc[s] \in {"order", "range", "stock"}
               /\ pc[s] = "order" => owner[theOrder[s]] = Blocker(s) /\ theOrder[s] \in Order
               /\ pc[s] = "range" => owner[NumberRange] = Blocker(s)
               /\ pc[s] = "stock" => /\ owner[Line(s).product] = Blocker(s)
                                     /\ Line(s).product \in Product
    BY BlockerOwns
  <1>2. ASSUME NEW s \in D, NEW r \in Rows, owner[r] = s
        PROVE  /\ r \in Order => pc[s] \in {"range", "stock"}
               /\ r \in Product \cup {NumberRange} => pc[s] = "stock"
               /\ pc[s] = "stock" => kind[s] = "CONFIRMED"
    BY <1>1, <1>2 DEF IInv, TypeOK, InStep, HoldsNoMore, Rows
  <1>3. ASSUME NEW s \in D, pc[s] = "stock" PROVE FALSE
    <2> DEFINE t == Blocker(s)
               u == Blocker(t)
    <2>1. t \in D /\ owner[Line(s).product] = t /\ Line(s).product \in Product
      BY <1>1, <1>3
    <2>2. pc[t] = "stock" /\ kind[t] = "CONFIRMED"
      BY <1>2, <2>1 DEF Rows
    <2>3. u \in D /\ u # t /\ owner[Line(t).product] = u /\ Line(t).product \in Product
      BY <1>1, <2>1, <2>2
    <2>4. pc[u] = "stock" /\ kind[u] = "CONFIRMED"
      BY <1>2, <2>3 DEF Rows
    <2>5. owner[NumberRange] = t /\ owner[NumberRange] = u
      BY <2>1, <2>2, <2>3, <2>4 DEF IInv, InStep, HoldsItsNumber
    <2> QED
      BY <2>3, <2>5
  <1>4. ASSUME NEW s \in D, pc[s] = "range" PROVE FALSE
    BY <1>1, <1>2, <1>3, <1>4 DEF Rows
  <1>5. ASSUME NEW s \in D, pc[s] = "order" PROVE FALSE
    BY <1>1, <1>2, <1>3, <1>4, <1>5 DEF Rows
  <1> QED
    BY <1>1, <1>3, <1>4, <1>5

\* Without the foreign key, and with it unless an invoice is posted for an order,
\* no set of requests waits for one another, however many there are and in
\* whatever order the lines of their orders take the stock.
THEOREM OnlyInvoicesDeadlock == Spec => []DeadlocksNeedAnInvoice
  <1>1. IInv => DeadlocksNeedAnInvoice
    <2> SUFFICES ASSUME IInv, Stuck # {}
                 PROVE  keyed /\ \E s \in Stuck : kind[s] = "invoice"
      BY DEF DeadlocksNeedAnInvoice
    <2>1. PICK D \in SUBSET Session :
              D # {} /\ \A s \in D : [t \in Session |-> Blocker(t)][s] \in D
      BY DEF Stuck, Deadlocked
    <2>2. D \subseteq Stuck /\ \A s \in D : Blocker(s) \in D
      BY <2>1 DEF Stuck, Deadlocked
    <2>3. PICK s \in D : pc[s] = "key"
      BY <2>1, <2>2, CycleHasAnInvoice
    <2>4. kind[s] = "invoice" /\ keyed
      BY <2>1, <2>3 DEF IInv, InStep, FitsItsRequest
    <2> QED
      BY <2>2, <2>3, <2>4
  <1> QED
    BY <1>1, Invariance, PTL
-----------------------------------------------------------------------------
(* The costs of invoice lines *)

\* The library's operators are the same under the instance's names.
LEMMA CostsLibrary ==
  /\ \A S : Costs!IsFiniteSet(S) <=> IsFiniteSet(S)
  /\ \A S : Costs!Cardinality(S) = Cardinality(S)
  BY DEF Costs!IsFiniteSet, IsFiniteSet, Costs!Cardinality, Cardinality

\* The least and the greatest member of a set are members of it.
LEMMA CostsGreatestIsMember ==
  ASSUME NEW S, NEW m \in S, S \subseteq Nat, \A y \in S : m >= y
  PROVE  Costs!Max(S) = m
  <1>1. \A x \in S : (\A y \in S : x >= y) => x = m
    OBVIOUS
  <1>2. Costs!Max(S) \in S /\ \A y \in S : Costs!Max(S) >= y
    BY DEF Costs!Max
  <1> QED
    BY <1>1, <1>2

\* A price the purchases agree on is the price of one of the best of them.
LEMMA CostsAgreedIsPaid ==
  ASSUME NEW prices, IsFiniteSet(prices), Costs!Agreed(prices) # NoCost
  PROVE  prices = {Costs!Agreed(prices)}
  <1>1. Cardinality(prices) = 1
    BY CostsLibrary DEF Costs!Agreed
  <1>2. PICK c : prices = {c}
    BY <1>1, FS_Singleton
  <1> QED
    BY <1>1, <1>2 DEF Costs!Agreed

LEMMA CostsPricesFinite ==
  ASSUME NEW S, IsFiniteSet(S), NEW T \in SUBSET S
  PROVE  IsFiniteSet(Costs!Prices(T))
  <1>1. IsFiniteSet(T)
    BY FS_Subset
  <1>2. [p \in T |-> p.price] \in Surjection(T, Costs!Prices(T))
    BY DEF Surjection, Costs!Prices
  <1> QED
    BY <1>1, <1>2, FS_Surjection

LEMMA CostsResolvedIsPaid ==
  ASSUME IsFiniteSet(purchases), NEW date, Costs!Resolve(date) # NoCost
  PROVE  \E p \in purchases : p.price = Costs!Resolve(date) /\ p.date =< date
  <1>1. PICK best : best = Costs!Best(Costs!Sources(date))
    OBVIOUS
  <1>2. best \subseteq Costs!Sources(date) /\ best \in SUBSET purchases
    BY <1>1 DEF Costs!Best, Costs!Sources
  <1>3. IsFiniteSet(Costs!Prices(best)) /\ Costs!Resolve(date) = Costs!Agreed(Costs!Prices(best))
    BY <1>1, <1>2, CostsPricesFinite DEF Costs!Resolve
  <1>4. Costs!Resolve(date) \in Costs!Prices(best)
    BY <1>3, CostsAgreedIsPaid
  <1> QED
    BY <1>2, <1>4 DEF Costs!Prices, Costs!Sources

\* The product page.
LEMMA CostsPageIsRight == IsFiniteSet(purchases) => Costs!PageShowsTheCost
  <1> DEFINE priced == {p \in purchases : p.price # NoCost}
             now == Costs!Agreed(Costs!Prices(Costs!Best(priced)))
  <1> SUFFICES ASSUME IsFiniteSet(purchases), now # NoCost,
                      NEW q \in Costs!Best(purchases), q.price # NoCost
               PROVE  q.price = now
    BY DEF Costs!PageShowsTheCost, Costs!PagePrices, Costs!Prices
  <1>1. q \in Costs!Best(priced)
    BY DEF Costs!Best
  <1>2. Costs!Best(priced) \in SUBSET purchases
    BY DEF Costs!Best
  <1>3. Costs!Prices(Costs!Best(priced)) = {now}
    BY <1>2, CostsPricesFinite, CostsAgreedIsPaid
  <1> QED
    BY <1>1, <1>3 DEF Costs!Prices
-----------------------------------------------------------------------------
(* Candidates *)

\* The lines that are open to a backfill.
CostOpenTo(b) == {l \in DOMAIN cost : cost[l] = NoCost /\ l > after[b]}
CostBehind(b, l) == {k \in CostOpenTo(b) : k =< l}

LEMMA CostsBehindFacts ==
  ASSUME Costs!CostAssumption, DOMAIN cost \subseteq InvoiceLine, NEW b, NEW l \in CostOpenTo(b)
  PROVE  /\ IsFiniteSet(CostBehind(b, l)) /\ Cardinality(CostBehind(b, l)) \in Nat
         /\ CostOpenTo(b) \subseteq Nat
         /\ l \in Costs!Candidates(b) <=> Cardinality(CostBehind(b, l)) =< BatchSize
         /\ Costs!Candidates(b) \subseteq CostOpenTo(b)
         /\ \A k \in CostBehind(b, l) : /\ CostBehind(b, k) \subseteq CostBehind(b, l)
                                        /\ k # l => l \notin CostBehind(b, k)
  <1>1. CostOpenTo(b) \subseteq Nat
    BY DEF CostOpenTo, Costs!CostAssumption
  <1>2. CostBehind(b, l) \in SUBSET Nat /\ \A k \in CostBehind(b, l) : k =< l
    BY <1>1 DEF CostBehind
  <1>3. IsFiniteSet(CostBehind(b, l)) /\ Cardinality(CostBehind(b, l)) \in Nat
    BY <1>1, <1>2, FS_BoundedSetOfNaturals, FS_CardinalityType
  <1>4. /\ l \in Costs!Candidates(b) <=> Cardinality(CostBehind(b, l)) =< BatchSize
        /\ Costs!Candidates(b) \subseteq CostOpenTo(b)
    BY CostsLibrary DEF Costs!Candidates, CostOpenTo, CostBehind
  <1>5. \A k \in CostBehind(b, l) : /\ CostBehind(b, k) \subseteq CostBehind(b, l)
                                    /\ k # l => l \notin CostBehind(b, k)
    BY <1>1 DEF CostBehind
  <1> QED
    BY <1>1, <1>3, <1>4, <1>5

\* No candidate, no open line; otherwise the candidates are the open lines up to
\* the next cursor.
LEMMA CostsCandidatesFacts ==
  ASSUME Costs!CostAssumption, DOMAIN cost \subseteq InvoiceLine, NEW b
  PROVE  /\ Costs!Candidates(b) = {} => CostOpenTo(b) = {}
         /\ Costs!Candidates(b) # {} =>
               /\ Costs!NextCursor(b) \in Costs!Candidates(b)
               /\ Costs!Candidates(b) = {l \in CostOpenTo(b) : l =< Costs!NextCursor(b)}
  <1>1. ASSUME CostOpenTo(b) # {} PROVE Costs!Candidates(b) # {}
    <2>1. CostOpenTo(b) \subseteq Nat
      BY <1>1, CostsBehindFacts
    <2>2. PICK l \in CostOpenTo(b) : \A k \in CostOpenTo(b) : l =< k
      BY <1>1, <2>1, LeastNat
    <2>3. CostBehind(b, l) = {l}
      BY <2>1, <2>2 DEF CostBehind
    <2>4. Cardinality(CostBehind(b, l)) = 1
      BY <2>3, FS_Singleton
    <2> QED
      BY <2>2, <2>4, CostsBehindFacts DEF Costs!CostAssumption
  <1>2. ASSUME Costs!Candidates(b) # {}
        PROVE  /\ Costs!NextCursor(b) \in Costs!Candidates(b)
               /\ Costs!Candidates(b) = {l \in CostOpenTo(b) : l =< Costs!NextCursor(b)}
    <2>1. Costs!Candidates(b) \subseteq CostOpenTo(b) /\ CostOpenTo(b) \subseteq Nat
      BY <1>2, CostsBehindFacts DEF Costs!Candidates, CostOpenTo
    <2> DEFINE room == {BatchSize - Cardinality(CostBehind(b, l)) : l \in Costs!Candidates(b)}
    <2>2. room \subseteq Nat /\ room # {}
      BY <1>2, <2>1, CostsBehindFacts DEF Costs!CostAssumption
    <2>3. PICK n \in room : \A m \in room : n =< m
      BY <2>2, LeastNat
    <2>4. PICK c \in Costs!Candidates(b) : n = BatchSize - Cardinality(CostBehind(b, c))
      BY <2>3
    <2>5. ASSUME NEW d \in Costs!Candidates(b), ~(c >= d) PROVE FALSE
      <3>1. c \in CostBehind(b, d) /\ c # d /\ d \in CostBehind(b, d)
        BY <2>1, <2>5 DEF CostBehind
      <3>2. /\ CostBehind(b, c) \in SUBSET CostBehind(b, d) /\ CostBehind(b, c) # CostBehind(b, d)
            /\ IsFiniteSet(CostBehind(b, d))
            /\ Cardinality(CostBehind(b, c)) \in Nat /\ Cardinality(CostBehind(b, d)) \in Nat
        BY <2>1, <3>1, CostsBehindFacts
      <3>3. Cardinality(CostBehind(b, c)) < Cardinality(CostBehind(b, d))
        BY <3>2, FS_Subset
      <3>4. BatchSize - Cardinality(CostBehind(b, d)) \in room
        OBVIOUS
      <3> QED
        BY <2>3, <2>4, <3>2, <3>3, <3>4 DEF Costs!CostAssumption
    <2>6. Costs!NextCursor(b) = c
      BY <2>1, <2>5, CostsGreatestIsMember DEF Costs!NextCursor
    <2>7. ASSUME NEW l \in CostOpenTo(b), l =< c PROVE l \in Costs!Candidates(b)
      <3>1. c \in CostOpenTo(b) /\ CostBehind(b, l) \in SUBSET CostBehind(b, c)
        BY <2>1, <2>7, CostsBehindFacts DEF CostBehind
      <3>2. Cardinality(CostBehind(b, l)) =< Cardinality(CostBehind(b, c))
        BY <3>1, CostsBehindFacts, FS_Subset
      <3>3. /\ Cardinality(CostBehind(b, c)) =< BatchSize
            /\ Cardinality(CostBehind(b, l)) \in Nat /\ Cardinality(CostBehind(b, c)) \in Nat
        BY <3>1, CostsBehindFacts
      <3> QED
        BY <3>2, <3>3, CostsBehindFacts DEF Costs!CostAssumption
    <2>8. \A l \in Costs!Candidates(b) : l \in CostOpenTo(b) /\ l =< c
      BY <2>1, <2>5
    <2> QED
      BY <2>6, <2>7, <2>8
  <1> QED
    BY <1>1, <1>2
-----------------------------------------------------------------------------
(* The steps *)

LEMMA CostsInitCosts == Costs!Init => Costs!IInv
  <1> SUFFICES ASSUME Costs!Init PROVE Costs!IInv
    OBVIOUS
  <1>1. IsFiniteSet(purchases) /\ DOMAIN Costs!None = {}
    BY FS_EmptySet DEF Costs!Init, Costs!None
  <1>2. Costs!TypeOK /\ {after, last} \subseteq [Backfill -> Nat]
        /\ undisturbed \in [Backfill -> BOOLEAN]
        /\ DOMAIN decided = Backfill
    BY <1>1 DEF Costs!Init, Costs!TypeOK
  <1>3. \A b \in Backfill : Costs!IsPaid(b) /\ Costs!IsThorough(b)
    BY <1>1 DEF Costs!Init, Costs!IsPaid, Costs!IsThorough
  <1> QED
    BY <1>1, <1>2, <1>3, CostsLibrary DEF Costs!IInv

LEMMA CostsSameData ==
  ASSUME purchases' = purchases, cost' = cost
  PROVE  /\ \A d : Costs!Resolve(d)' = Costs!Resolve(d)
         /\ \A b : after'[b] = after[b] => /\ Costs!Candidates(b)' = Costs!Candidates(b)
                                           /\ Costs!Decisions(b)' = Costs!Decisions(b)
                                           /\ Costs!NextCursor(b)' = Costs!NextCursor(b)
  BY DEF Costs!Resolve, Costs!Sources, Costs!Candidates, Costs!Decisions, Costs!NextCursor

\* A step that changes at most what one backfill knows.
LEMMA CostsOneBackfill ==
  ASSUME Costs!IInv, NEW b \in Backfill, UNCHANGED <<purchases, cost>>, Costs!TypeOK',
         {after', last'} \subseteq [Backfill -> Nat], undisturbed' \in [Backfill -> BOOLEAN],
         DOMAIN decided' = Backfill,
         \A c \in Backfill \ {b} :
             /\ runs'[c] = runs[c] /\ after'[c] = after[c] /\ last'[c] = last[c]
             /\ decided'[c] = decided[c] /\ undisturbed'[c] = undisturbed[c],
         Costs!IsPaid(b)', Costs!IsThorough(b)'
  PROVE  Costs!IInv'
  <1>1. ASSUME NEW c \in Backfill \ {b} PROVE Costs!IsPaid(c)' /\ Costs!IsThorough(c)'
    <2>1. Costs!IsPaid(c) /\ Costs!IsThorough(c)
      BY DEF Costs!IInv
    <2>2. Costs!IsPaid(c)'
      BY <1>1, <2>1 DEF Costs!IsPaid
    <2>3. Costs!IsThorough(c)'
      BY <1>1, <2>1, CostsSameData DEF Costs!IsThorough
    <2> QED
      BY <2>2, <2>3
  <1> QED
    BY <1>1 DEF Costs!IInv

\* A step that changes purchases or lines disturbs the other backfills; what they
\* have decided stays paid for.
LEMMA CostsStaysPaid ==
  ASSUME Costs!IInv, NEW b \in Backfill, decided'[b] = decided[b],
         purchases \subseteq purchases', DOMAIN cost \subseteq DOMAIN cost'
  PROVE  Costs!IsPaid(b)'
  BY DEF Costs!IInv, Costs!IsPaid

LEMMA CostsDisturbFacts ==
  ASSUME Costs!IInv, NEW others \in SUBSET Backfill, Costs!Disturb(others)
  PROVE  /\ undisturbed' \in [Backfill -> BOOLEAN]
         /\ \A b \in others : ~undisturbed'[b] /\ Costs!IsThorough(b)'
         /\ \A b \in Backfill \ others : undisturbed'[b] = undisturbed[b]
  BY DEF Costs!IInv, Costs!Disturb, Costs!IsThorough

LEMMA CostsRecordInv ==
  ASSUME Costs!IInv, NEW p \in Purchase, Costs!RecordPurchase(p)
  PROVE  Costs!IInv'
  <1>1. IsFiniteSet(purchases') /\ purchases \subseteq purchases' /\ Costs!TypeOK'
    <2>1. IsFiniteSet(purchases')
      BY CostsLibrary, FS_AddElement DEF Costs!RecordPurchase, Costs!IInv
    <2>2. purchases \subseteq purchases' /\ Costs!TypeOK'
      BY DEF Costs!RecordPurchase, Costs!IInv, Costs!TypeOK, Costs!runs
    <2> QED
      BY <2>1, <2>2
  <1>2. undisturbed' \in [Backfill -> BOOLEAN] /\ \A b \in Backfill : Costs!IsThorough(b)'
    BY CostsDisturbFacts DEF Costs!RecordPurchase
  <1>3. \A b \in Backfill : Costs!IsPaid(b)'
    BY <1>1, CostsStaysPaid DEF Costs!RecordPurchase, Costs!runs
  <1> QED
    BY <1>1, <1>2, <1>3, CostsLibrary DEF Costs!IInv, Costs!RecordPurchase, Costs!runs

LEMMA CostsIssueInv ==
  ASSUME Costs!IInv, NEW l \in InvoiceLine, Costs!IssueLine(l)
  PROVE  Costs!IInv'
  <1>1. Costs!TypeOK' /\ UNCHANGED <<purchases, cost, runs, after, last, decided, undisturbed>>
    BY DEF Costs!IssueLine, Costs!Extended, Costs!IInv, Costs!TypeOK, Costs!runs
  <1>2. \A b \in Backfill : Costs!IsPaid(b)' /\ Costs!IsThorough(b)'
    BY <1>1, CostsSameData DEF Costs!IInv, Costs!IsPaid, Costs!IsThorough
  <1> QED
    BY <1>1, <1>2 DEF Costs!IInv

LEMMA CostsCommitInv ==
  ASSUME Costs!IInv, NEW l \in InvoiceLine, Costs!CommitLine(l)
  PROVE  Costs!IInv'
  <1>1. DOMAIN cost' = DOMAIN cost \cup {l} /\ Costs!TypeOK'
    BY DEF Costs!CommitLine, Costs!Extended, Costs!IInv, Costs!TypeOK, Costs!runs
  <1>2. undisturbed' \in [Backfill -> BOOLEAN] /\ \A b \in Backfill : Costs!IsThorough(b)'
    BY CostsDisturbFacts DEF Costs!CommitLine
  <1>3. \A b \in Backfill : Costs!IsPaid(b)'
    BY <1>1, CostsStaysPaid DEF Costs!CommitLine, Costs!runs
  <1> QED
    BY <1>1, <1>2, <1>3 DEF Costs!IInv, Costs!CommitLine, Costs!runs

LEMMA CostsStartInv ==
  ASSUME Costs!CostAssumption, Costs!IInv, NEW b \in Backfill, Costs!Start(b)
  PROVE  Costs!IInv'
  <1>1. Costs!TypeOK' /\ UNCHANGED <<purchases, cost, last, decided>>
    BY DEF Costs!Start, Costs!IInv, Costs!TypeOK
  <1>2. /\ after' \in [Backfill -> Nat] /\ after'[b] = 0 /\ runs'[b] = "summary"
        /\ undisturbed' \in [Backfill -> BOOLEAN]
        /\ \A c \in Backfill \ {b} : /\ runs'[c] = runs[c] /\ after'[c] = after[c]
                                     /\ undisturbed'[c] = undisturbed[c]
    BY DEF Costs!Start, Costs!IInv, Costs!TypeOK
  <1>3. Costs!IsPaid(b)'
    BY <1>1 DEF Costs!IInv, Costs!IsPaid
  <1>4. ASSUME NEW l \in DOMAIN cost PROVE ~(l =< 0)
    <2>1. l \in Nat /\ l # 0
      BY DEF Costs!IInv, Costs!TypeOK, Costs!CostAssumption
    <2> QED
      BY <2>1
  <1>5. Costs!IsThorough(b)'
    BY <1>1, <1>2, <1>4 DEF Costs!IsThorough
  <1> QED
    BY <1>1, <1>2, <1>3, <1>5, CostsOneBackfill DEF Costs!IInv

\* The lines up to the next cursor are those behind the old one and the candidates.
LEMMA CostsUpToNextCursor ==
  ASSUME Costs!CostAssumption, Costs!IInv, NEW b \in Backfill, Costs!Candidates(b) # {},
         NEW l \in DOMAIN cost, cost[l] = NoCost, l =< Costs!NextCursor(b)
  PROVE  l =< after[b] \/ l \in Costs!Candidates(b)
  <1>1. DOMAIN cost \subseteq InvoiceLine /\ after[b] \in Nat /\ l \in Nat
    BY DEF Costs!IInv, Costs!TypeOK, Costs!CostAssumption
  <1>2. l =< after[b] \/ l \in CostOpenTo(b)
    BY <1>1 DEF CostOpenTo
  <1> QED
    BY <1>1, <1>2, CostsCandidatesFacts

LEMMA CostsNextCursorNat ==
  ASSUME Costs!CostAssumption, Costs!IInv, NEW b \in Backfill, Costs!Candidates(b) # {}
  PROVE  Costs!NextCursor(b) \in Nat
  <1>1. DOMAIN cost \subseteq InvoiceLine
    BY DEF Costs!IInv, Costs!TypeOK
  <1>2. Costs!NextCursor(b) \in Costs!Candidates(b) /\ Costs!Candidates(b) \subseteq DOMAIN cost
    BY <1>1, CostsCandidatesFacts DEF Costs!Candidates
  <1> QED
    BY <1>1, <1>2 DEF Costs!CostAssumption

LEMMA CostsSummariseInv ==
  ASSUME Costs!CostAssumption, Costs!IInv, NEW b \in Backfill, Costs!Summarise(b)
  PROVE  Costs!IInv'
  <1>1. /\ runs[b] = "summary" /\ Costs!Candidates(b) # {} /\ Costs!NextCursor(b) \in Nat
        /\ UNCHANGED <<purchases, cost, draft, decided, undisturbed>>
    BY CostsNextCursorNat DEF Costs!Summarise
  <1>2. Costs!IsPaid(b)'
    BY <1>1 DEF Costs!IInv, Costs!IsPaid
  <1>3. CASE /\ DOMAIN Costs!Decisions(b) = {} /\ after' = [after EXCEPT ![b] = Costs!NextCursor(b)]
             /\ UNCHANGED <<runs, last>>
    <2>1. after' \in [Backfill -> Nat] /\ after'[b] = Costs!NextCursor(b)
      BY <1>1, <1>3 DEF Costs!IInv
    <2>2. \A l \in Costs!Candidates(b) : Costs!Resolve(DateOf[l]) = NoCost
      BY <1>3 DEF Costs!Decisions
    <2>3. Costs!IsThorough(b)'
      BY <1>1, <1>3, <2>1, <2>2, CostsUpToNextCursor, CostsSameData DEF Costs!IInv,
         Costs!IsThorough
    <2>4. Costs!TypeOK'
      BY <1>1, <1>3 DEF Costs!IInv, Costs!TypeOK
    <2> QED
      BY <1>1, <1>2, <1>3, <2>1, <2>3, <2>4, CostsOneBackfill DEF Costs!IInv
  <1>4. CASE /\ last' = [last EXCEPT ![b] = Costs!NextCursor(b)]
             /\ runs' = [runs EXCEPT ![b] = "update"] /\ UNCHANGED after
    <2>1. last' \in [Backfill -> Nat] /\ last'[b] = Costs!NextCursor(b) /\ runs'[b] = "update"
      BY <1>1, <1>4 DEF Costs!IInv, Costs!TypeOK
    <2>2. Costs!IsThorough(b)'
      BY <1>1, <1>4, <2>1, CostsSameData DEF Costs!IInv, Costs!IsThorough
    <2>3. Costs!TypeOK'
      BY <1>1, <1>4 DEF Costs!IInv, Costs!TypeOK
    <2> QED
      BY <1>1, <1>2, <1>4, <2>1, <2>2, <2>3, CostsOneBackfill DEF Costs!IInv, Costs!TypeOK
  <1> QED
    BY <1>3, <1>4 DEF Costs!Summarise

LEMMA CostsDecideInv ==
  ASSUME Costs!IInv, NEW b \in Backfill, Costs!Decide(b)
  PROVE  Costs!IInv'
  <1>1. /\ runs[b] = "update" /\ runs' = [runs EXCEPT ![b] = "write"] /\ runs'[b] = "write"
        /\ decided' = [decided EXCEPT ![b] = Costs!Decisions(b)] /\ decided'[b] = Costs!Decisions(b)
        /\ DOMAIN decided' = Backfill
        /\ UNCHANGED <<purchases, cost, draft, after, last, undisturbed>>
    BY DEF Costs!IInv, Costs!Decide, Costs!TypeOK
  <1>2. Costs!IsPaid(b)'
    <2> SUFFICES ASSUME NEW l \in DOMAIN Costs!Decisions(b)
                 PROVE  /\ l \in DOMAIN cost /\ Costs!Decisions(b)[l] # NoCost
                        /\ \E p \in purchases : p.price = Costs!Decisions(b)[l] /\ p.date =< DateOf[l]
      BY <1>1 DEF Costs!IsPaid
    <2>1. /\ l \in Costs!Candidates(b) /\ Costs!Resolve(DateOf[l]) # NoCost
          /\ Costs!Decisions(b)[l] = Costs!Resolve(DateOf[l])
      BY DEF Costs!Decisions
    <2>2. l \in DOMAIN cost
      BY <2>1 DEF Costs!Candidates
    <2> QED
      BY <2>1, <2>2, CostsLibrary, CostsResolvedIsPaid DEF Costs!IInv
  <1>3. Costs!IsThorough(b)'
    BY <1>1, CostsSameData DEF Costs!IInv, Costs!IsThorough
  <1>4. Costs!TypeOK'
    BY <1>1 DEF Costs!IInv, Costs!TypeOK
  <1> QED
    BY <1>1, <1>2, <1>3, <1>4, CostsOneBackfill DEF Costs!IInv, Costs!TypeOK

\* What a write makes of the lines.
LEMMA CostsWriteFacts ==
  ASSUME Costs!IInv, NEW b \in Backfill, Costs!Write(b)
  PROVE  /\ DOMAIN cost' = DOMAIN cost
         /\ \A l \in DOMAIN cost : cost'[l] = IF l \in Costs!Writable(b) THEN decided[b][l] ELSE cost[l]
         /\ Costs!Writable(b) = {l \in DOMAIN decided[b] : cost[l] = NoCost}
  BY DEF Costs!Write, Costs!Extended, Costs!Writable, Costs!IInv, Costs!IsPaid

LEMMA CostsWriteInv ==
  ASSUME Costs!CostAssumption, Costs!IInv, NEW b \in Backfill, Costs!Write(b)
  PROVE  Costs!IInv'
  <1>1. /\ runs[b] = "write" /\ runs' = [runs EXCEPT ![b] = "summary"] /\ runs'[b] = "summary"
        /\ decided' = [decided EXCEPT ![b] = Costs!None] /\ decided'[b] = Costs!None
        /\ after' = [after EXCEPT ![b] = last[b]] /\ after'[b] = last[b]
        /\ after' \in [Backfill -> Nat] /\ UNCHANGED <<purchases, draft, last>>
        /\ Costs!Disturb(Backfill \ {b}) /\ DOMAIN decided' = Backfill
    BY DEF Costs!Write, Costs!IInv, Costs!TypeOK
  <1>2. DOMAIN cost' = DOMAIN cost /\ Costs!TypeOK'
    BY <1>1, CostsWriteFacts DEF Costs!IInv, Costs!TypeOK
  <1>3. ASSUME NEW c \in Backfill PROVE Costs!IsPaid(c)'
    <2>1. CASE c = b
      BY <1>1, <2>1 DEF Costs!IsPaid, Costs!None
    <2>2. CASE c # b
      BY <1>1, <1>2, <2>2, CostsStaysPaid DEF Costs!IInv
    <2> QED
      BY <2>1, <2>2
  <1>4. /\ undisturbed' \in [Backfill -> BOOLEAN] /\ undisturbed'[b] = undisturbed[b]
        /\ \A c \in Backfill \ {b} : Costs!IsThorough(c)'
    BY <1>1, CostsDisturbFacts
  <1>5. ASSUME undisturbed[b], NEW l \in DOMAIN cost, cost'[l] = NoCost, l =< last[b]
        PROVE  Costs!Resolve(DateOf[l]) = NoCost
    <2>1. /\ decided[b] = Costs!Decisions(b) /\ last[b] = Costs!NextCursor(b)
             /\ Costs!Candidates(b) # {}
          /\ cost[l] = NoCost /\ l =< after[b] => Costs!Resolve(DateOf[l]) = NoCost
      BY <1>1, <1>5 DEF Costs!IInv, Costs!IsThorough
    <2>2. cost[l] = NoCost /\ l \notin DOMAIN decided[b]
      BY <1>5, CostsWriteFacts DEF Costs!IInv, Costs!IsPaid
    <2>3. l =< after[b] \/ l \in Costs!Candidates(b)
      BY <1>5, <2>1, <2>2, CostsUpToNextCursor
    <2> QED
      BY <2>1, <2>2, <2>3 DEF Costs!Decisions
  <1>6. \A d : Costs!Resolve(d)' = Costs!Resolve(d)
    BY <1>1 DEF Costs!Resolve, Costs!Sources
  <1>7. Costs!IsThorough(b)'
    BY <1>1, <1>2, <1>4, <1>5, <1>6 DEF Costs!IsThorough
  <1> QED
    BY <1>1, <1>2, <1>3, <1>4, <1>7 DEF Costs!IInv

LEMMA CostsStopInv ==
  ASSUME Costs!IInv, NEW b \in Backfill, Costs!Finish(b) \/ Costs!Abort(b)
  PROVE  Costs!IInv'
  <1>1. /\ runs' = [runs EXCEPT ![b] = "idle"] /\ runs'[b] = "idle"
        /\ decided' = decided \/ decided' = [decided EXCEPT ![b] = Costs!None]
        /\ DOMAIN decided' = Backfill
        /\ UNCHANGED <<purchases, cost, draft, after, last, undisturbed>>
    BY DEF Costs!Finish, Costs!Abort, Costs!IInv, Costs!TypeOK
  <1>2. decided'[b] = decided[b] \/ DOMAIN decided'[b] = {}
    BY <1>1 DEF Costs!IInv, Costs!None
  <1>3. Costs!IsPaid(b)'
    BY <1>1, <1>2 DEF Costs!IInv, Costs!IsPaid
  <1>4. Costs!TypeOK' /\ Costs!IsThorough(b)'
    BY <1>1 DEF Costs!IInv, Costs!TypeOK, Costs!IsThorough
  <1> QED
    BY <1>1, <1>3, <1>4, CostsOneBackfill DEF Costs!IInv, Costs!TypeOK

LEMMA CostsNextInv ==
  ASSUME Costs!CostAssumption, Costs!IInv, [Costs!Next]_(Costs!vars)
  PROVE  Costs!IInv'
  <1>1. CASE UNCHANGED Costs!vars
    <2>1. UNCHANGED <<purchases, cost, draft, runs, after, last, decided, undisturbed>>
      BY <1>1 DEF Costs!vars, Costs!runs
    <2>2. \A b \in Backfill : Costs!IsPaid(b)' /\ Costs!IsThorough(b)'
      BY <2>1, CostsSameData DEF Costs!IInv, Costs!IsPaid, Costs!IsThorough
    <2> QED
      BY <2>1, <2>2 DEF Costs!IInv, Costs!TypeOK
  <1> QED
    BY <1>1, CostsRecordInv, CostsIssueInv, CostsCommitInv, CostsStartInv, CostsSummariseInv,
       CostsDecideInv, CostsWriteInv,
       CostsStopInv DEF Costs!Next

\* What a step may do to the costs.
LEMMA CostsStepIsFinal ==
  ASSUME Costs!CostAssumption, Costs!IInv, [Costs!Next]_(Costs!vars), NEW l \in DOMAIN cost
  PROVE  /\ l \in DOMAIN cost'
         /\ cost[l] # NoCost => cost'[l] = cost[l]
         /\ cost'[l] # cost[l] => \E p \in purchases : p.price = cost'[l] /\ p.date =< DateOf[l]
  <1>1. CASE cost' = cost
    BY <1>1
  <1>2. ASSUME NEW k \in InvoiceLine, Costs!CommitLine(k)
        PROVE  l \in DOMAIN cost' /\ cost'[l] = cost[l]
    BY <1>2 DEF Costs!CommitLine, Costs!Extended, Costs!IInv, Costs!TypeOK
  <1>3. ASSUME NEW b \in Backfill, Costs!Write(b)
        PROVE  /\ l \in DOMAIN cost' /\ (cost[l] # NoCost => cost'[l] = cost[l])
               /\ cost'[l] # cost[l] =>
                     \E p \in purchases : p.price = cost'[l] /\ p.date =< DateOf[l]
    BY <1>3, CostsWriteFacts DEF Costs!IInv, Costs!IsPaid
  <1>4. \/ cost' = cost \/ \E k \in InvoiceLine : Costs!CommitLine(k)
        \/ \E b \in Backfill : Costs!Write(b)
    BY DEF Costs!Next, Costs!vars, Costs!RecordPurchase, Costs!IssueLine, Costs!Start,
       Costs!Summarise, Costs!Decide, Costs!Finish, Costs!Abort
  <1> QED
    BY <1>1, <1>2, <1>3, <1>4

LEMMA CostsNothingIsLeft ==
  ASSUME Costs!CostAssumption, Costs!IInv, NEW b \in Backfill, Costs!Finish(b), undisturbed[b],
         NEW l \in DOMAIN cost, cost[l] = NoCost
  PROVE  Costs!Resolve(DateOf[l]) = NoCost
  <1>1. runs[b] = "summary" /\ Costs!Candidates(b) = {} /\ DOMAIN cost \subseteq InvoiceLine
    BY DEF Costs!Finish, Costs!IInv, Costs!TypeOK
  <1>2. l \notin CostOpenTo(b) /\ l \in Nat /\ after[b] \in Nat
    BY <1>1, CostsCandidatesFacts DEF Costs!CostAssumption, Costs!IInv
  <1>3. l =< after[b]
    BY <1>2 DEF CostOpenTo
  <1> QED
    BY <1>1, <1>3 DEF Costs!IInv, Costs!IsThorough
-----------------------------------------------------------------------------
(* The watch over the submissions *)

\* The order of the statuses.
LEMMA WatchOrder ==
  ASSUME NEW a \in Watch!EguiStatus, NEW b \in Watch!EguiStatus
  PROVE  /\ Watch!Stage[a] \in Nat
         /\ Watch!UpTo(a, b) /\ Watch!UpTo(b, a) => a = b
         /\ \A c \in Watch!EguiStatus : Watch!UpTo(a, b) /\ Watch!UpTo(b, c) => Watch!UpTo(a, c)
  <1>1. \A s \in Watch!EguiStatus : Watch!Stage[s] \in Nat
    BY DEF Watch!Stage
  <1> QED
    BY <1>1 DEF Watch!UpTo

LEMMA WatchKnownLater ==
  ASSUME NEW i, NEW a \in Watch!EguiStatus, NEW b \in Watch!EguiStatus, Watch!KnownUpTo(i, a),
         Watch!UpTo(a, b)
  PROVE  Watch!KnownUpTo(i, b)
  BY WatchOrder DEF Watch!KnownUpTo

LEMMA WatchInitMonitor == Watch!MonitorAssumption /\ Watch!Init => Watch!IInv
  <1> SUFFICES ASSUME Watch!MonitorAssumption, Watch!Init PROVE Watch!IInv
    OBVIOUS
  <1>1. DOMAIN Watch!Nothing = {} /\ Watch!Nothing \in [DOMAIN Watch!Nothing -> Watch!Mark]
    BY DEF Watch!Nothing
  <1>2. Watch!TypeOK
    BY <1>1 DEF Watch!Init, Watch!TypeOK, Watch!MonitorAssumption
  <1>3. Watch!AnswerFits
    BY <1>1 DEF Watch!Init, Watch!AnswerFits
  <1>4. ASSUME NEW i \in Invoice PROVE Watch!KnownUpTo(i, server[i]) /\ Watch!IsRemembered(i)
    BY <1>1 DEF Watch!Init, Watch!KnownUpTo, Watch!IsRemembered, Watch!EguiStatus
  <1> QED
    BY <1>1, <1>2, <1>3, <1>4 DEF Watch!Init, Watch!IInv

LEMMA WatchStatusFacts ==
  /\ "none" \notin Watch!EguiStatus /\ "failed" \notin Watch!EguiStatus
     /\ "gone" \notin Watch!EguiStatus
  /\ \A m \in Watch!Mark : m.seen \in Watch!EguiStatus
  BY DEF Watch!EguiStatus, Watch!Mark

LEMMA WatchShowInv == Watch!IInv /\ Watch!ShowOrHide => Watch!IInv'
  BY DEF Watch!ShowOrHide, Watch!cycle, Watch!history, Watch!IInv, Watch!TypeOK,
     Watch!AnswerFits, Watch!KnownUpTo, Watch!IsRemembered, Watch!Seen

LEMMA WatchRememberInv ==
  ASSUME Watch!MonitorAssumption, Watch!IInv, NEW i \in Invoice, Watch!Remember(i)
  PROVE  Watch!IInv'
  <1> DEFINE mark == [seen |-> server[i],
                      notified |-> IF i \in DOMAIN tracked THEN tracked[i].notified ELSE "none"]
  <1>1. Watch!TypeOK /\ tracked \in [DOMAIN tracked -> Watch!Mark]
    BY DEF Watch!IInv
  <1>2. mark \in Watch!Mark /\ mark.seen = server[i]
    BY <1>1 DEF Watch!Mark, Watch!TypeOK
  <1>3. /\ tracked' = Watch!With(tracked, i, mark) /\ shown' = shown \cup {<<i, server[i]>>}
        /\ standing' = [standing EXCEPT ![i] = IF cycle = "idle" THEN "watched" ELSE "disturbed"]
        /\ UNCHANGED <<server, cycle, state, left, invoice, status, changed, told>>
    BY DEF Watch!Remember, Watch!cycle
  <1> HIDE DEF mark
  <1>4. /\ DOMAIN tracked' = DOMAIN tracked \cup {i} /\ tracked'[i].seen = server[i]
        /\ \A j \in DOMAIN tracked \ {i} : tracked'[j] = tracked[j]
        /\ tracked' \in [DOMAIN tracked' -> Watch!Mark]
    BY <1>1, <1>2, <1>3 DEF Watch!With
  <1>5. Watch!TypeOK' /\ standing' \in [Invoice -> {"unknown", "watched", "disturbed"}]
    BY <1>1, <1>3, <1>4 DEF Watch!IInv, Watch!TypeOK
  <1>6. Watch!AnswerFits'
    BY <1>3 DEF Watch!IInv, Watch!AnswerFits
  <1>7. ASSUME NEW j \in Invoice PROVE Watch!KnownUpTo(j, server[j])' /\ Watch!IsRemembered(j)'
    <2>1. CASE j = i
      <3>1. Watch!KnownUpTo(i, server[i])'
        BY <1>3 DEF Watch!IInv, Watch!KnownUpTo, Watch!UpTo
      <3>2. CASE cycle = "idle"
        <4>1. DOMAIN state' = {} /\ left' = {} /\ cycle' = "idle"
          BY <1>3, <3>2 DEF Watch!IInv, Watch!AnswerFits
        <4>2. Watch!Seen(i)' = server'[i]
          BY <1>3, <1>4, <4>1 DEF Watch!Seen
        <4> QED
          BY <1>4, <2>1, <3>1, <4>1, <4>2 DEF Watch!IsRemembered, Watch!UpTo
      <3>3. CASE cycle # "idle"
        BY <1>3, <2>1, <3>1, <3>3 DEF Watch!IInv, Watch!IsRemembered
      <3> QED
        BY <3>2, <3>3
    <2>2. CASE j # i
      <3>1. /\ \A st : Watch!KnownUpTo(j, st)' <=> Watch!KnownUpTo(j, st)
            /\ standing'[j] = standing[j] /\ server'[j] = server[j]
            /\ j \in DOMAIN tracked' <=> j \in DOMAIN tracked
            /\ j \in DOMAIN tracked => tracked'[j] = tracked[j]
        BY <1>3, <1>4, <2>2 DEF Watch!KnownUpTo, Watch!IInv
      <3>2. j \in DOMAIN state \cup DOMAIN tracked => Watch!Seen(j)' = Watch!Seen(j)
        BY <1>3, <3>1 DEF Watch!Seen
      <3>3. Watch!KnownUpTo(j, server[j])'
        BY <1>3, <2>2 DEF Watch!IInv, Watch!KnownUpTo
      <3>4. cycle \in {"asking", "telling", "told"} => invoice \in DOMAIN state
        BY DEF Watch!IInv, Watch!TypeOK, Watch!AnswerFits
      <3>5. Watch!IsRemembered(j)'
        BY <1>3, <3>1, <3>2, <3>4 DEF Watch!IInv, Watch!IsRemembered
      <3> QED
        BY <3>3, <3>5
    <2> QED
      BY <2>1, <2>2
  <1> QED
    BY <1>3, <1>4, <1>5, <1>6, <1>7 DEF Watch!IInv

LEMMA WatchSwitchInv ==
  ASSUME Watch!IInv, Watch!SwitchUser
  PROVE  Watch!IInv'
  <1>1. /\ DOMAIN tracked' = {} /\ tracked' \in [DOMAIN tracked' -> Watch!Mark]
        /\ told' = {} /\ shown' = {} /\ cycle = "idle"
        /\ standing' = [i \in Invoice |-> "unknown"]
        /\ UNCHANGED <<server, cycle, state, left, invoice, status, changed>>
    BY DEF Watch!SwitchUser, Watch!Nothing, Watch!cycle
  <1>2. DOMAIN state = {} /\ left = {}
    BY <1>1 DEF Watch!IInv, Watch!AnswerFits
  <1>3. Watch!TypeOK' /\ Watch!AnswerFits'
    BY <1>1, <1>2 DEF Watch!IInv, Watch!TypeOK, Watch!AnswerFits
  <1>4. \A i \in Invoice : Watch!KnownUpTo(i, server[i])' /\ Watch!IsRemembered(i)'
    BY <1>1, <1>2 DEF Watch!KnownUpTo, Watch!IsRemembered
  <1> QED
    BY <1>1, <1>3, <1>4 DEF Watch!IInv

\* The server moves on: what has been seen stays behind it.
LEMMA WatchServerMoves ==
  ASSUME Watch!MonitorAssumption, Watch!IInv, NEW i \in Invoice,
         server' = [server EXCEPT ![i] = Following[@]]
  PROVE  /\ server' \in [Invoice -> Watch!EguiStatus]
         /\ \A j \in Invoice, st \in Watch!EguiStatus : Watch!UpTo(st, server[j])
            => Watch!UpTo(st, server'[j])
         /\ \A j \in Invoice : Watch!KnownUpTo(j, server[j]) => Watch!KnownUpTo(j, server'[j])
  <1>1. server \in [Invoice -> Watch!EguiStatus]
    BY DEF Watch!IInv, Watch!TypeOK
  <1>2. /\ server' \in [Invoice -> Watch!EguiStatus]
        /\ \A j \in Invoice : Watch!UpTo(server[j], server'[j])
    BY <1>1 DEF Watch!MonitorAssumption, Watch!UpTo
  <1> QED
    BY <1>1, <1>2, WatchOrder, WatchKnownLater

LEMMA WatchProgressInv ==
  ASSUME Watch!MonitorAssumption, Watch!IInv, NEW i \in Invoice, Watch!Progress(i)
  PROVE  Watch!IInv'
  <1>1. /\ server' = [server EXCEPT ![i] = Following[@]]
        /\ UNCHANGED <<tracked, cycle, state, left, invoice, status, changed, told, shown, standing>>
    BY DEF Watch!Progress, Watch!cycle, Watch!history
  <1>2. Watch!TypeOK' /\ Watch!AnswerFits'
    BY <1>1, WatchServerMoves DEF Watch!IInv, Watch!TypeOK, Watch!AnswerFits
  <1>3. ASSUME NEW j \in Invoice PROVE Watch!KnownUpTo(j, server[j])' /\ Watch!IsRemembered(j)'
    <2>1. Watch!KnownUpTo(j, server[j])'
      BY <1>1, WatchServerMoves DEF Watch!IInv, Watch!KnownUpTo
    <2>2. /\ Watch!Seen(j)' = Watch!Seen(j)
             /\ \A st : Watch!KnownUpTo(j, st)' <=> Watch!KnownUpTo(j, st)
      BY <1>1 DEF Watch!Seen, Watch!KnownUpTo
    <2>3. j \in DOMAIN state \cup DOMAIN tracked => Watch!Seen(j) \in Watch!EguiStatus
      BY WatchStatusFacts DEF Watch!IInv, Watch!Seen
    <2>4. j \in DOMAIN state \cup DOMAIN tracked /\ standing[j] # "disturbed"
             => Watch!UpTo(Watch!Seen(j), server'[j])
      BY <1>1, <2>3, WatchServerMoves DEF Watch!IInv, Watch!IsRemembered
    <2> QED
      BY <1>1, <2>1, <2>2, <2>4 DEF Watch!IInv, Watch!IsRemembered, Watch!UpTo
  <1> QED
    BY <1>1, <1>2, <1>3 DEF Watch!IInv

LEMMA WatchBeginInv ==
  ASSUME Watch!IInv, Watch!Begin
  PROVE  Watch!IInv'
  <1>1. /\ cycle = "idle" /\ cycle' = "loop" /\ state' = tracked /\ left' = DOMAIN tracked
        /\ changed' = FALSE
        /\ UNCHANGED <<server, tracked, invoice, status, told, shown, standing>>
    BY DEF Watch!Begin, Watch!history
  <1>2. Watch!TypeOK' /\ Watch!AnswerFits'
    BY <1>1 DEF Watch!IInv, Watch!TypeOK, Watch!AnswerFits
  <1>3. ASSUME NEW i \in Invoice PROVE Watch!KnownUpTo(i, server[i])' /\ Watch!IsRemembered(i)'
    <2>1. i \notin DOMAIN state /\ \A st : Watch!KnownUpTo(i, st)' <=> Watch!KnownUpTo(i, st)
      BY <1>1 DEF Watch!IInv, Watch!AnswerFits, Watch!KnownUpTo
    <2>2. Watch!Seen(i)' = Watch!Seen(i)
      BY <1>1, <2>1 DEF Watch!Seen
    <2> QED
      BY <1>1, <2>1, <2>2 DEF Watch!IInv, Watch!IsRemembered
  <1> QED
    BY <1>1, <1>2, <1>3 DEF Watch!IInv

LEMMA WatchLeaveInv ==
  ASSUME Watch!IInv, Watch!Leave
  PROVE  Watch!IInv'
  <1>1. /\ cycle' = "idle" /\ DOMAIN state' = {} /\ state' \in [DOMAIN state' -> Watch!Mark]
        /\ left' = {} /\ status' = "none" /\ changed' = FALSE
        /\ standing' \in [Invoice -> {"unknown", "watched", "disturbed"}]
        /\ \A i \in Invoice : standing'[i] # "disturbed" =>
              /\ standing'[i] = standing[i] /\ i \notin Watch!Unsaved /\ ~(cycle = "told"
                 /\ invoice = i)
        /\ UNCHANGED <<server, tracked, invoice, told, shown>>
    BY DEF Watch!Leave, Watch!Nothing, Watch!IInv
  <1>2. Watch!TypeOK' /\ Watch!AnswerFits'
    BY <1>1 DEF Watch!IInv, Watch!TypeOK, Watch!AnswerFits
  <1>3. ASSUME NEW i \in Invoice PROVE Watch!KnownUpTo(i, server[i])' /\ Watch!IsRemembered(i)'
    <2>1. \A st : Watch!KnownUpTo(i, st)' <=> Watch!KnownUpTo(i, st)
      BY <1>1 DEF Watch!KnownUpTo
    <2>2. i \in DOMAIN tracked /\ standing'[i] # "disturbed" => Watch!Seen(i)' = Watch!Seen(i)
      BY <1>1 DEF Watch!Seen, Watch!Unsaved
    <2> QED
      BY <1>1, <2>1, <2>2 DEF Watch!IInv, Watch!IsRemembered
  <1> QED
    BY <1>1, <1>2, <1>3 DEF Watch!IInv

LEMMA WatchAskInv ==
  ASSUME Watch!IInv, NEW i \in Invoice, Watch!Ask(i)
  PROVE  Watch!IInv'
  <1>1. /\ cycle = "loop" /\ i \in left /\ invoice' = i /\ cycle' = "asking" /\ status = "none"
        /\ UNCHANGED <<server, tracked, state, left, status, changed, told, shown, standing>>
    BY DEF Watch!Ask, Watch!history, Watch!IInv, Watch!AnswerFits
  <1>2. Watch!TypeOK' /\ Watch!AnswerFits'
    BY <1>1, WatchStatusFacts DEF Watch!IInv, Watch!TypeOK, Watch!AnswerFits
  <1>3. ASSUME NEW j \in Invoice PROVE Watch!KnownUpTo(j, server[j])' /\ Watch!IsRemembered(j)'
    <2>1. (\A st : Watch!KnownUpTo(j, st)' <=> Watch!KnownUpTo(j, st)) /\ Watch!Seen(j)' = Watch!Seen(j)
      BY <1>1 DEF Watch!KnownUpTo, Watch!Seen
    <2> QED
      BY <1>1, <2>1, WatchStatusFacts DEF Watch!IInv, Watch!IsRemembered
  <1> QED
    BY <1>1, <1>2, <1>3 DEF Watch!IInv

LEMMA WatchRefreshInv ==
  ASSUME Watch!MonitorAssumption, Watch!IInv, Watch!Refresh
  PROVE  Watch!IInv'
  <1>1. /\ cycle = "asking" /\ invoice \in left /\ invoice \in Invoice /\ status = "none"
        /\ UNCHANGED <<tracked, cycle, state, left, invoice, changed, told, shown, standing>>
    BY DEF Watch!Refresh, Watch!history, Watch!IInv, Watch!AnswerFits
  <1>2. CASE /\ server' = [server EXCEPT ![invoice] = Following[@]]
             /\ status' = Following[server[invoice]]
    <2>1. status' \in Watch!EguiStatus /\ status' = server'[invoice]
          /\ Watch!UpTo(server[invoice], status')
      BY <1>1, <1>2 DEF Watch!IInv, Watch!TypeOK, Watch!MonitorAssumption
    <2>2. Watch!TypeOK' /\ Watch!AnswerFits'
      BY <1>1, <1>2, <2>1, WatchServerMoves DEF Watch!IInv, Watch!TypeOK, Watch!AnswerFits,
         Watch!UpTo
    <2>3. ASSUME NEW j \in Invoice PROVE Watch!KnownUpTo(j, server[j])' /\ Watch!IsRemembered(j)'
      <3>1. Watch!KnownUpTo(j, server[j])'
        BY <1>1, <1>2, WatchServerMoves DEF Watch!IInv, Watch!KnownUpTo
      <3>2. /\ Watch!Seen(j)' = Watch!Seen(j)
               /\ \A st : Watch!KnownUpTo(j, st)' <=> Watch!KnownUpTo(j, st)
        BY <1>1 DEF Watch!Seen, Watch!KnownUpTo
      <3>3. j \in DOMAIN state \cup DOMAIN tracked => Watch!Seen(j) \in Watch!EguiStatus
        BY WatchStatusFacts DEF Watch!IInv, Watch!Seen
      <3>4. j \in DOMAIN state \cup DOMAIN tracked /\ standing[j] # "disturbed"
               => Watch!UpTo(Watch!Seen(j), server'[j])
        BY <1>1, <1>2, <3>3, WatchServerMoves DEF Watch!IInv, Watch!IsRemembered
      <3>5. invoice \in DOMAIN state
        BY <1>1 DEF Watch!IInv, Watch!TypeOK
      <3> QED
        BY <1>1, <2>1, <3>1, <3>2, <3>4, <3>5 DEF Watch!IInv, Watch!IsRemembered
    <2> QED
      BY <1>1, <2>1, <2>2, <2>3 DEF Watch!IInv
  <1>3. CASE status' \in {"failed", "gone"} /\ UNCHANGED server
    <2>1. Watch!TypeOK' /\ Watch!AnswerFits'
      BY <1>1, <1>3, WatchStatusFacts DEF Watch!IInv, Watch!TypeOK, Watch!AnswerFits
    <2>2. ASSUME NEW j \in Invoice PROVE Watch!KnownUpTo(j, server[j])' /\ Watch!IsRemembered(j)'
      <3>1. /\ Watch!Seen(j)' = Watch!Seen(j)
               /\ \A st : Watch!KnownUpTo(j, st)' <=> Watch!KnownUpTo(j, st)
        BY <1>1 DEF Watch!Seen, Watch!KnownUpTo
      <3> QED
        BY <1>1, <1>3, <3>1, WatchStatusFacts DEF Watch!IInv, Watch!IsRemembered
    <2> QED
      BY <1>1, <2>1, <2>2 DEF Watch!IInv
  <1> QED
    BY <1>2, <1>3 DEF Watch!Refresh

\* The rest of an iteration: the entry of the invoice stays, goes or is the answer.
LEMMA WatchProceedInv ==
  ASSUME Watch!IInv, cycle \in {"asking", "telling", "told"}, NEW s, Watch!Proceed(s),
         \/ cycle = "asking" /\ s = state
         \/ cycle = "asking" /\ s = Watch!Without(state, invoice)
         \/ \E m \in Watch!Mark : /\ m.seen = status /\ status \in Watch!EguiStatus
                                  /\ s = Watch!With(state, invoice, m)
  PROVE  Watch!IInv'
  <1>1. /\ cycle' = "loop" /\ state' = s /\ left' = left \ {invoice} /\ status' = "none"
        /\ changed' = (changed \/ s # state)
        /\ standing' = [standing EXCEPT ![invoice] =
                           IF @ = "watched" /\ invoice \notin DOMAIN s THEN "unknown" ELSE @]
        /\ UNCHANGED <<server, tracked, invoice, told, shown>>
    BY DEF Watch!Proceed
  <1>2. /\ invoice \in left /\ invoice \in DOMAIN state /\ invoice \in Invoice
        /\ DOMAIN state \subseteq Invoice /\ left \subseteq DOMAIN state
        /\ state \in [DOMAIN state -> Watch!Mark]
    BY DEF Watch!IInv, Watch!AnswerFits, Watch!TypeOK
  <1>3. /\ s \in [DOMAIN s -> Watch!Mark] /\ DOMAIN s \subseteq Invoice
        /\ \A j \in Invoice \ {invoice} : /\ j \in DOMAIN s <=> j \in DOMAIN state
                                          /\ j \in DOMAIN s => s[j] = state[j]
    BY <1>2 DEF Watch!With, Watch!Without
  <1>4. Watch!TypeOK' /\ Watch!AnswerFits'
    BY <1>1, <1>2, <1>3 DEF Watch!IInv, Watch!TypeOK, Watch!AnswerFits
  <1>5. standing' \in [Invoice -> {"unknown", "watched", "disturbed"}] /\ changed' \in BOOLEAN
    BY <1>1 DEF Watch!IInv
  <1>6. ASSUME NEW j \in Invoice, j # invoice PROVE Watch!IsRemembered(j)'
    <2>1. /\ \A st : Watch!KnownUpTo(j, st)' <=> Watch!KnownUpTo(j, st)
          /\ j \in DOMAIN state' <=> j \in DOMAIN state
          /\ j \in DOMAIN state => state'[j] = state[j]
          /\ Watch!Seen(j)' = Watch!Seen(j) /\ standing'[j] = standing[j]
      BY <1>1, <1>3, <1>6 DEF Watch!KnownUpTo, Watch!Seen, Watch!IInv
    <2>2. /\ ~changed' => ~changed
          /\ cycle' = "loop" /\ invoice' = invoice /\ server' = server /\ tracked' = tracked
          /\ j \in left' => j \in left
      BY <1>1
    <2> QED
      BY <1>2, <1>6, <2>1, <2>2 DEF Watch!IInv, Watch!IsRemembered
  <1>7. Watch!IsRemembered(invoice)'
    <2>1. \A st : Watch!KnownUpTo(invoice, st)' <=> Watch!KnownUpTo(invoice, st)
      BY <1>1 DEF Watch!KnownUpTo
    <2>2. standing'[invoice] # "disturbed" => standing[invoice] # "disturbed"
      BY <1>1, <1>2 DEF Watch!IInv
    <2>3. Watch!Seen(invoice) \in Watch!EguiStatus /\ Watch!Seen(invoice) = state[invoice].seen
      BY <1>2, WatchStatusFacts DEF Watch!Seen
    <2>4. CASE cycle = "asking" /\ s = state
      <3>1. Watch!Seen(invoice)' = Watch!Seen(invoice) /\ (~changed' => ~changed)
        BY <1>1, <2>4 DEF Watch!Seen
      <3> QED
        BY <1>1, <1>2, <2>1, <2>2, <2>4, <3>1 DEF Watch!IInv, Watch!IsRemembered
    <2>5. CASE cycle = "asking" /\ s = Watch!Without(state, invoice)
      <3>1. invoice \notin DOMAIN s /\ changed'
        <4>1. invoice \notin DOMAIN s
          BY <2>5 DEF Watch!Without
        <4>2. s # state
          BY <1>2, <4>1
        <4> QED
          BY <1>1, <4>1, <4>2
      <3>2. standing'[invoice] # "watched"
        BY <1>1, <1>2, <3>1 DEF Watch!IInv
      <3>3. standing[invoice] # "disturbed" => invoice \in DOMAIN tracked
            /\ Watch!Seen(invoice)' = Watch!Seen(invoice)
        BY <1>1, <1>2, <3>1 DEF Watch!IInv, Watch!IsRemembered, Watch!Seen
      <3> QED
        BY <1>1, <1>2, <2>1, <2>2, <2>5, <3>1, <3>2, <3>3 DEF Watch!IInv, Watch!IsRemembered
    <2>6. ASSUME NEW m \in Watch!Mark, m.seen = status, status \in Watch!EguiStatus,
                 s = Watch!With(state, invoice, m)
          PROVE  Watch!IsRemembered(invoice)'
      <3>1. /\ invoice \in DOMAIN s /\ DOMAIN s = DOMAIN state /\ Watch!Seen(invoice)' = status
            /\ standing'[invoice] = standing[invoice]
        BY <1>1, <1>2, <2>6 DEF Watch!With, Watch!Seen, Watch!IInv
      <3>2. ~changed' => ~changed /\ state' = state
        BY <1>1
      <3>3. Watch!UpTo(status, server[invoice])
        BY <2>6 DEF Watch!IInv, Watch!AnswerFits
      <3>4. standing[invoice] # "disturbed" => Watch!KnownUpTo(invoice, status)
        <4>1. CASE cycle = "told"
          BY <1>2, <2>6, <4>1 DEF Watch!IInv, Watch!IsRemembered
        <4>2. CASE cycle # "told"
          BY <1>2, <2>3, <2>6, <4>2, WatchKnownLater DEF Watch!IInv, Watch!IsRemembered
        <4> QED
          BY <4>1, <4>2
      <3> QED
        BY <1>1, <1>2, <2>1, <2>2, <3>1, <3>2, <3>3, <3>4 DEF Watch!IInv, Watch!IsRemembered
    <2> QED
      BY <2>4, <2>5, <2>6
  <1>8. ASSUME NEW j \in Invoice PROVE Watch!KnownUpTo(j, server[j])'
    BY <1>1 DEF Watch!IInv, Watch!KnownUpTo
  <1> QED
    BY <1>1, <1>3, <1>4, <1>5, <1>6, <1>7, <1>8, <1>2 DEF Watch!IInv

\* An entry as the cycle will write it back.
LEMMA WatchEntryFacts ==
  ASSUME NEW m \in Watch!Mark, NEW st \in Watch!EguiStatus
  PROVE  /\ Watch!Entry(m, st) \in Watch!Mark /\ Watch!Entry(m, st).seen = st
         /\ [Watch!Entry(m, st) EXCEPT !.notified = st] \in Watch!Mark
         /\ [Watch!Entry(m, st) EXCEPT !.notified = st].seen = st
  BY DEF Watch!Mark, Watch!Entry

LEMMA WatchAskedEntry ==
  ASSUME Watch!IInv, cycle \in {"asking", "telling", "told"}
  PROVE  invoice \in Invoice /\ invoice \in DOMAIN state /\ state[invoice] \in Watch!Mark
  BY DEF Watch!IInv, Watch!AnswerFits, Watch!TypeOK

LEMMA WatchReceiveInv ==
  ASSUME Watch!IInv, Watch!Receive
  PROVE  Watch!IInv'
  <1>1. cycle = "asking" /\ status # "none" /\ state[invoice] \in Watch!Mark /\ invoice \in DOMAIN state
    BY WatchAskedEntry DEF Watch!Receive
  <1>2. CASE status \in {"failed", "gone"}
    <2>1. PICK s : Watch!Proceed(s) /\ (s = state \/ s = Watch!Without(state, invoice))
      BY <1>2 DEF Watch!Receive
    <2> QED
      BY <1>1, <2>1, WatchProceedInv
  <1>3. CASE status \notin {"failed", "gone"}
    <2>1. status \in Watch!EguiStatus
      BY <1>1, <1>3 DEF Watch!IInv, Watch!TypeOK
    <2>2. CASE Watch!Proceed(Watch!With(state, invoice, Watch!Entry(state[invoice], status)))
      BY <1>1, <2>1, <2>2, WatchEntryFacts, WatchProceedInv
    <2>3. CASE /\ Watch!Worth(state[invoice], status) /\ cycle' = "telling"
               /\ UNCHANGED <<server, visible, tracked, state, left, invoice, status, changed,
                              Watch!history>>
      <3>1. UNCHANGED <<server, tracked, state, left, invoice, status, changed, told, shown,
                        standing>> /\ cycle' = "telling"
        BY <2>3 DEF Watch!history
      <3>2. Watch!TypeOK' /\ Watch!AnswerFits'
        BY <1>1, <2>1, <3>1 DEF Watch!IInv, Watch!TypeOK, Watch!AnswerFits
      <3>3. ASSUME NEW j \in Invoice PROVE Watch!KnownUpTo(j, server[j])' /\ Watch!IsRemembered(j)'
        <4>1. Watch!KnownUpTo(j, server[j])'
          BY <3>1 DEF Watch!IInv, Watch!KnownUpTo
        <4>2. (\A st : Watch!KnownUpTo(j, st)' <=> Watch!KnownUpTo(j, st))
              /\ Watch!Seen(j)' = Watch!Seen(j)
          BY <3>1 DEF Watch!KnownUpTo, Watch!Seen
        <4>3. j = invoice => Watch!Seen(j) # status
          BY <1>1, <2>3 DEF Watch!Worth, Watch!Seen
        <4>4. Watch!IsRemembered(j)'
          BY <1>1, <3>1, <4>2, <4>3 DEF Watch!IInv, Watch!IsRemembered
        <4> QED
          BY <4>1, <4>4
      <3> QED
        BY <3>1, <3>2, <3>3 DEF Watch!IInv
    <2> QED
      BY <1>3, <2>2, <2>3 DEF Watch!Receive
  <1> QED
    BY <1>2, <1>3

LEMMA WatchNotifyInv ==
  ASSUME Watch!IInv, Watch!Notify
  PROVE  Watch!IInv'
  <1>1. /\ cycle = "telling" /\ cycle' = "told" /\ told' = told \cup {<<invoice, status>>}
        /\ UNCHANGED <<server, tracked, state, left, invoice, status, changed, shown, standing>>
    BY DEF Watch!Notify
  <1>2. /\ invoice \in Invoice /\ invoice \in DOMAIN state /\ state[invoice] \in Watch!Mark
        /\ status \in Watch!EguiStatus /\ Watch!UpTo(status, server[invoice])
    BY <1>1, WatchAskedEntry DEF Watch!IInv, Watch!AnswerFits
  <1>3. Watch!TypeOK' /\ Watch!AnswerFits'
    BY <1>1 DEF Watch!IInv, Watch!TypeOK, Watch!AnswerFits
  <1>4. Watch!Seen(invoice) \in Watch!EguiStatus
    BY <1>2, WatchStatusFacts DEF Watch!Seen
  <1>5. ASSUME NEW j \in Invoice PROVE Watch!KnownUpTo(j, server[j])' /\ Watch!IsRemembered(j)'
    <2>1. Watch!KnownUpTo(j, server[j])'
      BY <1>1, <1>2 DEF Watch!IInv, Watch!KnownUpTo
    <2>2. Watch!Seen(j)' = Watch!Seen(j)
      BY <1>1 DEF Watch!Seen
    <2>3. CASE j = invoice
      <3>1. standing[invoice] # "disturbed" => Watch!KnownUpTo(invoice, Watch!Seen(invoice))
            /\ Watch!UpTo(Watch!Seen(invoice), status)
        BY <1>1, <1>2 DEF Watch!IInv, Watch!IsRemembered
      <3>2. standing[invoice] # "disturbed" => Watch!KnownUpTo(invoice, status)
        BY <1>2, <1>4, <3>1, WatchKnownLater
      <3>3. standing[invoice] # "disturbed" => Watch!KnownUpTo(invoice, status)'
        BY <1>1, <1>2, <3>2 DEF Watch!KnownUpTo, Watch!UpTo
      <3> QED
        BY <1>1, <1>2, <2>1, <2>2, <2>3, <3>1, <3>3 DEF Watch!IInv, Watch!IsRemembered
    <2>4. CASE j # invoice
      <3>1. \A st : Watch!KnownUpTo(j, st)' <=> Watch!KnownUpTo(j, st)
        BY <1>1, <2>4 DEF Watch!KnownUpTo
      <3>2. Watch!IsRemembered(j)'
        BY <1>1, <2>2, <2>4, <3>1 DEF Watch!IInv, Watch!IsRemembered
      <3> QED
        BY <2>1, <3>2
    <2> QED
      BY <2>3, <2>4
  <1> QED
    BY <1>1, <1>3, <1>5 DEF Watch!IInv

LEMMA WatchToldInv ==
  ASSUME Watch!IInv, Watch!Refused \/ Watch!Told
  PROVE  Watch!IInv'
  <1>1. cycle \in {"telling", "told"} /\ state[invoice] \in Watch!Mark /\ status \in Watch!EguiStatus
    BY WatchAskedEntry DEF Watch!Refused, Watch!Told, Watch!IInv, Watch!AnswerFits
  <1>2. PICK m \in Watch!Mark : m.seen = status /\ Watch!Proceed(Watch!With(state, invoice, m))
    BY <1>1, WatchEntryFacts DEF Watch!Refused, Watch!Told
  <1> QED
    BY <1>1, <1>2, WatchProceedInv

LEMMA WatchWriteBackInv ==
  ASSUME Watch!IInv, Watch!WriteBack
  PROVE  Watch!IInv'
  <1>1. /\ cycle = "loop" /\ left = {} /\ cycle' = "idle" /\ changed' = FALSE
        /\ tracked' = IF changed THEN state ELSE tracked
        /\ DOMAIN state' = {} /\ state' \in [DOMAIN state' -> Watch!Mark]
        /\ UNCHANGED <<server, left, invoice, status, told, shown, standing>>
    BY DEF Watch!WriteBack, Watch!Nothing, Watch!history
  <1>2. Watch!TypeOK' /\ Watch!AnswerFits'
    BY <1>1 DEF Watch!IInv, Watch!TypeOK, Watch!AnswerFits
  <1>3. ASSUME NEW j \in Invoice PROVE Watch!KnownUpTo(j, server[j])' /\ Watch!IsRemembered(j)'
    <2>1. Watch!KnownUpTo(j, server[j])'
      BY <1>1 DEF Watch!IInv, Watch!KnownUpTo
    <2>2. \A st : Watch!KnownUpTo(j, st)' <=> Watch!KnownUpTo(j, st)
      BY <1>1 DEF Watch!KnownUpTo
    <2>3. standing[j] # "disturbed" /\ j \in DOMAIN tracked'
             => j \in DOMAIN state \cup DOMAIN tracked /\ Watch!Seen(j)' = Watch!Seen(j)
      BY <1>1 DEF Watch!Seen, Watch!IInv, Watch!IsRemembered
    <2>4. standing[j] = "watched" => j \in DOMAIN tracked'
      BY <1>1 DEF Watch!IInv, Watch!IsRemembered
    <2>5. Watch!IsRemembered(j)'
      BY <1>1, <2>2, <2>3, <2>4 DEF Watch!IInv, Watch!IsRemembered
    <2> QED
      BY <2>1, <2>5
  <1> QED
    BY <1>1, <1>2, <1>3 DEF Watch!IInv

LEMMA WatchNextInv ==
  ASSUME Watch!MonitorAssumption, Watch!IInv, [Watch!Next]_(Watch!vars)
  PROVE  Watch!IInv'
  <1>1. CASE UNCHANGED Watch!vars
    BY <1>1 DEF Watch!vars, Watch!cycle, Watch!history, Watch!IInv, Watch!TypeOK,
       Watch!AnswerFits, Watch!KnownUpTo, Watch!IsRemembered, Watch!Seen
  <1> QED
    BY <1>1, WatchShowInv, WatchRememberInv, WatchSwitchInv, WatchProgressInv, WatchBeginInv,
       WatchLeaveInv, WatchAskInv,
       WatchRefreshInv, WatchReceiveInv, WatchNotifyInv, WatchToldInv, WatchWriteBackInv
       DEF Watch!Next, Watch!Cycle, Watch!Break, Watch!Quit

LEMMA WatchWhatIsToldIsNew ==
  ASSUME Watch!IInv, NEW i \in Invoice, Watch!Notify, invoice = i, standing[i] # "disturbed"
  PROVE  <<i, status>> \notin told \cup shown
  <1>1. cycle = "telling" /\ status \in Watch!EguiStatus /\ invoice \in DOMAIN state
        /\ state[i] \in Watch!Mark
    BY WatchAskedEntry DEF Watch!Notify, Watch!IInv, Watch!AnswerFits
  <1>2. Watch!Seen(i) \in Watch!EguiStatus
    BY <1>1, WatchStatusFacts DEF Watch!Seen
  <1>3. Watch!KnownUpTo(i, Watch!Seen(i)) /\ Watch!UpTo(Watch!Seen(i), status) /\ Watch!Seen(i) # status
    BY <1>1 DEF Watch!IInv, Watch!IsRemembered
  <1>4. ~Watch!UpTo(status, Watch!Seen(i))
    BY <1>1, <1>2, <1>3, WatchOrder
  <1> QED
    BY <1>1, <1>3, <1>4 DEF Watch!KnownUpTo
-----------------------------------------------------------------------------
(* The chart *)

HIDE OrdersAssumption
HIDE NoSessionAssumption

\* A finite set of integers can be listed in ascending order.
LEMMA AscendingListing ==
  ASSUME NEW P \in SUBSET Int, IsFiniteSet(P)
  PROVE  \E s \in [1 .. Cardinality(P) -> P] :
            \A j, k \in 1 .. Cardinality(P) : j < k => s[j] < s[k]
  <1> DEFINE Good == {S \in SUBSET P : \E s \in [1 .. Cardinality(S) -> S] :
                         \A j, k \in 1 .. Cardinality(S) : j < k => s[j] < s[k]}
  <1>1. {} \in Good
    <2>1. Cardinality({}) = 0
      BY FS_EmptySet
    <2>2. [i \in 1 .. 0 |-> 0] \in [1 .. 0 -> {}]
      OBVIOUS
    <2> QED
      BY <2>1, <2>2
  <1>2. ASSUME NEW S \in SUBSET P, NEW x \in S, S \ {x} \in Good
        PROVE  S \in Good
    <2> DEFINE n == Cardinality(S \ {x})
    <2>1. n \in Nat /\ Cardinality(S) = n + 1
      <3>1. Cardinality(S) \in Nat /\ n = Cardinality(S) - 1
        BY SubsetsAreFinite
      <3>2. n \in Nat
        BY SubsetsAreFinite
      <3> QED
        BY <3>1, <3>2
    <2>2. PICK f \in [1 .. n -> S \ {x}] : \A j, k \in 1 .. n : j < k => f[j] < f[k]
      BY <1>2
    <2> HIDE DEF n, Good
    <2> DEFINE g == [i \in 1 .. n + 1 |->
                        IF i \in 1 .. n /\ f[i] < x THEN f[i]
                        ELSE IF i = 1 THEN x
                        ELSE IF f[i - 1] < x THEN x ELSE f[i - 1]]
    <2>3. x \in Int /\ \A i \in 1 .. n : f[i] \in Int /\ f[i] \in S /\ f[i] # x
      BY <2>2
    <2>4. ASSUME NEW i \in 1 .. n + 1 PROVE g[i] \in S
      BY <2>1, <2>3
    <2>5. ASSUME NEW j \in 1 .. n + 1, NEW k \in 1 .. n + 1, j < k
          PROVE  g[j] < g[k]
      <3>1. j \in 1 .. n /\ k - 1 \in 1 .. n
        BY <2>1, <2>5
      <3>2. CASE f[j] < x
        <4>1. g[j] = f[j]
          BY <3>1, <3>2
        <4>2. g[k] \in {x, f[k - 1]} \/ (k \in 1 .. n /\ g[k] = f[k])
          BY <3>1
        <4>3. k - 1 = j => g[k] = x \/ (k \in 1 .. n /\ g[k] = f[k])
          BY <3>1, <3>2
        <4>4. k - 1 # j => j < k - 1
          BY <2>1, <2>5
        <4>5. j < k - 1 => f[j] < f[k - 1]
          BY <2>2, <3>1
        <4>6. k \in 1 .. n => f[j] < f[k]
          BY <2>2, <2>5, <3>1
        <4> HIDE DEF g
        <4> QED
          BY <2>3, <3>1, <3>2, <4>1, <4>2, <4>3, <4>4, <4>5, <4>6
      <3>3. CASE ~(f[j] < x)
        <4>1. f[j] > x
          BY <2>3, <3>1, <3>3
        <4>2. \A i \in 1 .. n : i >= j => f[i] > x
          BY <2>2, <2>3, <3>1, <4>1
        <4>3. g[k] = f[k - 1]
          <5>1. ~(k \in 1 .. n /\ f[k] < x) /\ k # 1 /\ ~(f[k - 1] < x)
            BY <2>1, <2>3, <2>5, <3>1, <4>2
          <5> QED
            BY <5>1
        <4>4. g[j] = x \/ (j - 1 \in 1 .. n /\ g[j] = f[j - 1])
          BY <2>1, <3>1, <3>3
        <4>5. j - 1 \in 1 .. n => f[j - 1] < f[k - 1]
          BY <2>1, <2>2, <2>5, <3>1
        <4>6. k - 1 >= j
          BY <2>1, <2>5
        <4> HIDE DEF g
        <4> QED
          BY <2>3, <3>1, <4>2, <4>3, <4>4, <4>5, <4>6
      <3> QED
        BY <3>2, <3>3
    <2>6. g \in [1 .. n + 1 -> S]
      BY <2>4
    <2> HIDE DEF g
    <2>7. \E s \in [1 .. Cardinality(S) -> S] :
             \A j, k \in 1 .. Cardinality(S) : j < k => s[j] < s[k]
      BY <2>1, <2>5, <2>6
    <2> QED
      BY <2>7 DEF Good
  <1>3. \A S \in SUBSET P : S \in Good
    <2> HIDE DEF Good
    <2> QED
      BY <1>1, <1>2, SubsetInduction
  <1> QED
    BY <1>3

\* The lists of the chart are such listings.
LEMMA TrendAscending ==
  ASSUME NEW S \in SUBSET Int, IsFiniteSet(S)
  PROVE  LET s == Trend!Ascending(S)
         IN  /\ Cardinality(S) \in Nat /\ s \in [1 .. Cardinality(S) -> S]
             /\ \A j, k \in 1 .. Cardinality(S) : j < k => s[j] < s[k]
             /\ \A x \in S : \E k \in 1 .. Cardinality(S) : s[k] = x
  <1> DEFINE n == Cardinality(S)
             s == Trend!Ascending(S)
  <1>1. n \in Nat /\ IsFiniteSet(1 .. n) /\ Cardinality(1 .. n) = n
    BY FS_CardinalityType, FS_Interval, FS_CountingElements
  <1>2. Trend!Cardinality(S) = n
    BY DEF Trend!Cardinality, Cardinality
  <1>3. \E t \in [1 .. n -> S] : \A j, k \in 1 .. n : j < k => t[j] < t[k]
    BY AscendingListing
  <1>4. s \in [1 .. n -> S] /\ \A j, k \in DOMAIN s : j < k => s[j] < s[k]
    <2> DEFINE Fits(t) == \A j, k \in DOMAIN t : j < k => t[j] < t[k]
    <2>1. \E t \in [1 .. n -> S] : Fits(t)
      BY <1>3
    <2>2. s = CHOOSE t \in [1 .. n -> S] : Fits(t)
      BY <1>2 DEF Trend!Ascending
    <2> HIDE DEF Fits, s
    <2>3. s \in [1 .. n -> S] /\ Fits(s)
      BY <2>1, <2>2
    <2> QED
      BY <2>3 DEF Fits
  <1> HIDE DEF s
  <1>5. \A j, k \in 1 .. n : j < k => s[j] < s[k]
    BY <1>4
  <1>6. s \in Injection(1 .. n, S)
    <2>1. ASSUME NEW j \in 1 .. n, NEW k \in 1 .. n, s[j] = s[k]
          PROVE  j = k
      <3>1. s[j] \in S /\ s[k] \in S
        BY <1>4
      <3>2. PICK v \in Int : v = s[j]
        BY <3>1
      <3>3. ~(s[j] < s[k]) /\ ~(s[k] < s[j])
        BY <2>1, <3>2
      <3> QED
        BY <1>1, <1>5, <3>3
    <2> QED
      BY <1>4, <2>1 DEF Injection, IsInjective
  <1>7. s \in Surjection(1 .. n, S)
    BY <1>1, <1>6, FS_Injection
  <1>8. \A x \in S : \E k \in 1 .. n : s[k] = x
    BY <1>7 DEF Surjection
  <1> HIDE DEF n
  <1>9. n \in Nat /\ s \in [1 .. n -> S] /\ (\A j, k \in 1 .. n : j < k => s[j] < s[k])
        /\ \A x \in S : \E k \in 1 .. n : s[k] = x
    BY <1>1, <1>4, <1>5, <1>8
  <1> QED
    BY <1>9 DEF n, s

\* date_trunc never goes forward, keeps the order, and cuts a day or a month off
\* where the next one begins.
LEMMA TrendTruncation ==
  ASSUME NEW u \in Nat \ {0}, NEW d \in Int, NEW e \in Int
  PROVE  LET Cut(x) == (x \div u) * u
         IN  /\ Cut(d) \in Int /\ Cut(d) =< d /\ d < Cut(d) + u
             /\ d \in Nat => Cut(d) \in Nat
             /\ d =< e => Cut(d) =< Cut(e)
             /\ Cut(Cut(d)) = Cut(d)
             /\ Cut(d) < Cut(e) => Cut(d) + u =< Cut(e)
  <1>1. PICK p \in Int, q \in Int : p = d \div u /\ q = e \div u
    OBVIOUS
  <1>2. p * u =< d /\ d < p * u + u /\ q * u =< e /\ e < q * u + u
    BY <1>1
  <1>3. p * u \in Int /\ q * u \in Int
    BY <1>1
  <1>4. d \in Nat => p \in Nat
    BY <1>1
  <1>5. d =< e => p =< q
    BY <1>1
  <1>6. p =< q => p * u =< q * u
    BY <1>1
  <1>7. q =< p => q * u =< p * u
    BY <1>1
  <1>8. p < q => p * u + u =< q * u
    BY <1>1
  <1>9. p \in Nat => p * u \in Nat
    BY <1>1
  <1>10. (p * u) \div u = p
    BY <1>1
  <1> QED
    BY <1>1, <1>2, <1>3, <1>4, <1>5, <1>6, <1>7, <1>8, <1>9, <1>10

LEMMA TrendCut ==
  ASSUME Trend!TrendAssumption, NEW g \in Trend!Granularity, NEW d \in Int, NEW e \in Int
  PROVE  /\ Trend!Truncate(g, d) \in Int /\ Trend!Truncate(g, d) =< d
         /\ d \in Nat => Trend!Truncate(g, d) \in Nat
         /\ d =< e => Trend!Truncate(g, d) =< Trend!Truncate(g, e)
         /\ Trend!Truncate(g, Trend!Truncate(g, d)) = Trend!Truncate(g, d)
  <1>1. CASE g = "day"
    BY <1>1 DEF Trend!Truncate
  <1>2. CASE g = "week"
    <2>1. Week \in Nat \ {0}
      BY DEF Trend!TrendAssumption
    <2>2. \A x : Trend!Truncate(g, x) = (x \div Week) * Week
      BY <1>2 DEF Trend!Truncate
    <2> QED
      BY <2>1, <2>2, TrendTruncation
  <1>3. CASE g = "month"
    <2>1. Month \in Nat \ {0}
      BY DEF Trend!TrendAssumption
    <2>2. \A x : Trend!Truncate(g, x) = (x \div Month) * Month
      BY <1>3 DEF Trend!Truncate
    <2> QED
      BY <2>1, <2>2, TrendTruncation
  <1> QED
    BY <1>1, <1>2, <1>3 DEF Trend!Granularity

\* A page is the days of whole days or months, and one with a cursor reaches up to
\* the cursor.
LEMMA TrendPageIsWhole ==
  ASSUME Trend!TrendAssumption, NEW g \in {"day", "month"}, NEW before \in Int,
         ChartDay \in Int,
         before # Trend!NoDate => Trend!Truncate(g, before) = before
  PROVE  \E low \in Int, high \in Int :
            /\ \A d \in Int : d \in Trend!Page(g, before)
                                <=> low =< Trend!Truncate(g, d) /\ Trend!Truncate(g, d) < high
            /\ before # Trend!NoDate => high = before
  <1>1. CASE g = "day"
    <2> DEFINE end == Trend!LastDay(before)
    <2>1. end \in Int /\ PageDays \in Int /\ (before # Trend!NoDate => end + 1 = before)
      BY DEF Trend!LastDay, Trend!TrendAssumption
    <2>2. Trend!Page(g, before) = end - (PageDays - 1) .. end
      BY <1>1 DEF Trend!Page
    <2>3. \A d : Trend!Truncate(g, d) = d
      BY <1>1 DEF Trend!Truncate
    <2> DEFINE low == end - (PageDays - 1)
               high == end + 1
    <2> HIDE DEF end
    <2>4. /\ low \in Int /\ high \in Int
          /\ before # Trend!NoDate => high = before
          /\ \A d \in Int : d \in Trend!Page(g, before)
                              <=> low =< Trend!Truncate(g, d) /\ Trend!Truncate(g, d) < high
      BY <2>1, <2>2, <2>3
    <2> QED
      BY <2>4
  <1>2. CASE g = "month"
    <2>1. Month \in Nat \ {0} /\ PageMonths \in Nat \ {0} /\ "month" \in Trend!Granularity
      BY DEF Trend!TrendAssumption, Trend!Granularity
    <2> DEFINE cursor == IF before = Trend!NoDate THEN ChartDay ELSE before
               high == Trend!Truncate(g, cursor)
               low == high - PageMonths * Month
    <2>2. \A d : Trend!Truncate(g, d) = (d \div Month) * Month
      BY <1>2 DEF Trend!Truncate
    <2>3. cursor \in Int
      OBVIOUS
    <2> DEFINE q == cursor \div Month
    <2>4. q \in Int /\ high = q * Month
      BY <2>1, <2>2, <2>3
    <2>5. Trend!Page(g, before) = low .. high - 1
      BY <1>2 DEF Trend!Page
    <2>6. before # Trend!NoDate => high = before
      OBVIOUS
    <2>7. PageMonths * Month \in Int /\ low = (q - PageMonths) * Month
      <3> HIDE DEF q, high
      <3> QED
        BY <2>1, <2>4
    <2> HIDE DEF q, low, high, cursor
    <2>8. high \in Int /\ low \in Int
      BY <2>1, <2>4, <2>7
    <2>9. ASSUME NEW d \in Int, NEW k \in Int
          PROVE  k * Month =< d <=> k * Month =< (d \div Month) * Month
      <3>1. PICK p \in Int : p = d \div Month
        BY <2>1
      <3>2. p * Month =< d /\ d < p * Month + Month /\ p * Month \in Int /\ k * Month \in Int
        BY <2>1, <3>1
      <3>3. k =< p => k * Month =< p * Month
        BY <2>1
      <3>4. p < k => p * Month + Month =< k * Month
        BY <2>1
      <3> QED
        BY <2>1, <3>1, <3>2, <3>3, <3>4
    <2>10. ASSUME NEW d \in Int
           PROVE  d \in Trend!Page(g, before)
                    <=> low =< Trend!Truncate(g, d) /\ Trend!Truncate(g, d) < high
      <3> DEFINE cut == (d \div Month) * Month
      <3>1. cut \in Int
        BY <2>1
      <3>2. (low =< d <=> low =< cut) /\ (high =< d <=> high =< cut)
        <4>1. q - PageMonths \in Int
          BY <2>1, <2>4
        <4> QED
          BY <2>4, <2>7, <2>9, <4>1
      <3>3. Trend!Truncate(g, d) = cut
        BY <2>2
      <3> HIDE DEF cut
      <3> QED
        BY <2>5, <2>8, <3>1, <3>2, <3>3
    <2> QED
      BY <2>6, <2>8, <2>10
  <1> QED
    BY <1>1, <1>2

\* The rows of a page are what was sold on its days, oldest first, each row all of
\* one day, week or month as far as it is on the page.
LEMMA TrendItems ==
  ASSUME Trend!TrendAssumption, sold \subseteq Nat, IsFiniteSet(sold),
         NEW g \in Trend!Granularity, NEW days
  PROVE  LET rows == Trend!Items(g, days)
         IN  /\ rows \in Seq([date : Int, unit : Trend!Granularity, revenue : Nat])
             /\ \A j, k \in DOMAIN rows : j < k => rows[j].date < rows[k].date
             /\ \A k \in DOMAIN rows : /\ rows[k] = Trend!Item(g, days, rows[k].date)
                                       /\ \E d \in sold \cap days :
                                             rows[k].date = Trend!Truncate(g, d)
             /\ \A d \in sold \cap days : \E k \in DOMAIN rows : rows[k].date = Trend!Truncate(g, d)
  <1> DEFINE S == {Trend!Truncate(g, d) : d \in sold \cap days}
             s == Trend!Ascending(S)
             n == Cardinality(S)
             rows == Trend!Items(g, days)
  <1>1. \A d \in sold : Trend!Truncate(g, d) \in Int
    BY TrendCut
  <1>2. S \in SUBSET Int /\ IsFiniteSet(S)
    <2>1. S \in SUBSET Int
      BY <1>1
    <2>2. IsFiniteSet(sold \cap days)
      BY FS_Subset
    <2>3. [d \in sold \cap days |-> Trend!Truncate(g, d)] \in Surjection(sold \cap days, S)
      BY DEF Surjection
    <2> QED
      BY <2>1, <2>2, <2>3, FS_Surjection
  <1>3. rows = [k \in DOMAIN s |-> Trend!Item(g, days, s[k])]
    BY DEF Trend!Items
  <1>4. \A x \in S : \E d \in sold \cap days : x = Trend!Truncate(g, d)
    OBVIOUS
  <1>5. \A d \in sold \cap days : Trend!Truncate(g, d) \in S
    OBVIOUS
  <1> HIDE DEF S, rows
  <1>6. /\ n \in Nat /\ s \in [1 .. n -> S]
        /\ \A j, k \in 1 .. n : j < k => s[j] < s[k]
        /\ \A x \in S : \E k \in 1 .. n : s[k] = x
    BY <1>2, TrendAscending
  <1> HIDE DEF s, n
  <1>7. ASSUME NEW x \in Int
        PROVE  /\ Trend!Item(g, days, x) \in [date : Int, unit : Trend!Granularity, revenue : Nat]
               /\ Trend!Item(g, days, x).date = x
    <2> DEFINE on == {d \in sold \cap days : Trend!Truncate(g, d) = x}
    <2>1. IsFiniteSet(on)
      BY FS_Subset
    <2>2. Cardinality(on) \in Nat
      BY <2>1, FS_CardinalityType
    <2>3. Trend!Cardinality(on) = Cardinality(on)
      BY DEF Trend!Cardinality, Cardinality
    <2>4. Trend!Item(g, days, x) = [date |-> x, unit |-> g, revenue |-> Trend!Cardinality(on)]
      BY DEF Trend!Item
    <2> HIDE DEF on
    <2> QED
      BY <2>2, <2>3, <2>4
  <1>8. \A k \in 1 .. n : /\ rows[k] = Trend!Item(g, days, s[k])
                         /\ s[k] \in S /\ s[k] \in Int /\ rows[k].date = s[k]
    BY <1>2, <1>3, <1>6, <1>7
  <1>9. DOMAIN rows = 1 .. n
    BY <1>3, <1>6
  <1>10. rows \in Seq([date : Int, unit : Trend!Granularity, revenue : Nat])
    <2>1. \A k \in 1 .. n : rows[k] \in [date : Int, unit : Trend!Granularity, revenue : Nat]
      BY <1>7, <1>8
    <2>2. rows = [k \in 1 .. n |-> rows[k]]
      BY <1>3, <1>6
    <2> DEFINE Row == [date : Int, unit : Trend!Granularity, revenue : Nat]
    <2> HIDE DEF Row
    <2>3. rows \in [1 .. n -> Row]
      BY <2>1, <2>2 DEF Row
    <2>4. rows \in Seq(Row)
      BY <1>6, <2>3, SeqDef
    <2> QED
      BY <2>4 DEF Row
  <1>11. \A j, k \in DOMAIN rows : j < k => rows[j].date < rows[k].date
    BY <1>6, <1>8, <1>9
  <1>12. \A k \in DOMAIN rows : /\ rows[k] = Trend!Item(g, days, rows[k].date)
                               /\ \E d \in sold \cap days : rows[k].date = Trend!Truncate(g, d)
    BY <1>4, <1>8, <1>9
  <1>13. \A d \in sold \cap days : \E k \in DOMAIN rows : rows[k].date = Trend!Truncate(g, d)
    BY <1>5, <1>6, <1>8, <1>9
  <1> QED
    BY <1>10, <1>11, <1>12, <1>13 DEF rows

\* The rows of a page of days or months are whole; behind a cursor they are older,
\* and from the oldest of them to the cursor none is left out.
LEMMA TrendPage ==
  ASSUME Trend!TrendAssumption, sold \subseteq Nat, IsFiniteSet(sold), ChartDay \in Int,
         NEW g \in {"day", "month"}, NEW before \in Int,
         before # Trend!NoDate => Trend!Truncate(g, before) = before
  PROVE  LET rows == Trend!Items(g, Trend!Page(g, before))
         IN  /\ Trend!IsWhole(g, rows)
             /\ before # Trend!NoDate =>
                   /\ \A k \in DOMAIN rows : rows[k].date < before
                   /\ \A d \in sold : Trend!Truncate(g, d) < before
                                      /\ (\E k \in DOMAIN rows : rows[k].date =< Trend!Truncate(g, d))
                        => \E k \in DOMAIN rows : rows[k].date = Trend!Truncate(g, d)
  <1> DEFINE days == Trend!Page(g, before)
             rows == Trend!Items(g, days)
             T(d) == Trend!Truncate(g, d)
  <1>1. PICK low \in Int, high \in Int :
            /\ \A d \in Int : d \in days <=> low =< T(d) /\ T(d) < high
            /\ before # Trend!NoDate => high = before
    BY TrendPageIsWhole
  <1>2. g \in Trend!Granularity
    BY DEF Trend!Granularity
  <1> HIDE DEF days
  <1>3. /\ \A j, k \in DOMAIN rows : j < k => rows[j].date < rows[k].date
        /\ \A k \in DOMAIN rows : /\ rows[k] = Trend!Item(g, days, rows[k].date)
                                  /\ \E d \in sold \cap days : rows[k].date = T(d)
        /\ \A d \in sold \cap days : \E k \in DOMAIN rows : rows[k].date = T(d)
    <2> HIDE DEF T
    <2>1. \A d : T(d) = Trend!Truncate(g, d)
      BY DEF T
    <2>2. /\ \A j, k \in DOMAIN rows : j < k => rows[j].date < rows[k].date
          /\ \A k \in DOMAIN rows : /\ rows[k] = Trend!Item(g, days, rows[k].date)
                                    /\ \E d \in sold \cap days :
                                          rows[k].date = Trend!Truncate(g, d)
          /\ \A d \in sold \cap days :
                \E k \in DOMAIN rows : rows[k].date = Trend!Truncate(g, d)
      BY <1>2, TrendItems
    <2> HIDE DEF rows
    <2> QED
      BY <2>1, <2>2
  <1>4. \A d \in sold : d \in Int /\ T(d) \in Int
    BY <1>2, TrendCut
  <1> HIDE DEF rows, T
  <1>5. ASSUME NEW k \in DOMAIN rows
        PROVE  rows[k].revenue = Trend!Cardinality({d \in sold : Trend!Truncate(g, d) = rows[k].date})
    <2>1. PICK e \in sold \cap days : rows[k].date = T(e)
      BY <1>3
    <2>2. \A d \in sold : T(d) = T(e) => d \in days
      BY <1>1, <1>4
    <2>3. {d \in sold \cap days : T(d) = rows[k].date} = {d \in sold : T(d) = rows[k].date}
      BY <2>1, <2>2
    <2>4. rows[k].revenue = Trend!Cardinality({d \in sold \cap days : T(d) = rows[k].date})
      BY <1>3 DEF Trend!Item, T
    <2> QED
      BY <2>3, <2>4 DEF T
  <1>6. \A k \in DOMAIN rows : low =< rows[k].date /\ rows[k].date < high /\ rows[k].date \in Int
    BY <1>1, <1>3, <1>4
  <1>7. \A d \in sold : (\E k \in DOMAIN rows : rows[k].date =< T(d)) /\ T(d) < high
            => \E k \in DOMAIN rows : rows[k].date = T(d)
    <2> SUFFICES ASSUME NEW d \in sold, NEW k \in DOMAIN rows, rows[k].date =< T(d), T(d) < high
                 PROVE  \E j \in DOMAIN rows : rows[j].date = T(d)
      OBVIOUS
    <2>1. low =< T(d)
      BY <1>4, <1>6
    <2>2. d \in days
      BY <1>1, <1>4, <2>1
    <2> QED
      BY <1>3, <2>2
  <1>8. \A d \in sold : (\E j, k \in DOMAIN rows : rows[j].date =< T(d) /\ T(d) =< rows[k].date)
            => \E k \in DOMAIN rows : rows[k].date = T(d)
    BY <1>4, <1>6, <1>7
  <1>9. Trend!IsWhole(g, rows)
    BY <1>3, <1>5, <1>8 DEF Trend!IsWhole, T
  <1>10. before # Trend!NoDate =>
            /\ \A k \in DOMAIN rows : rows[k].date < before
            /\ \A d \in sold : T(d) < before /\ (\E k \in DOMAIN rows : rows[k].date =< T(d))
                  => \E k \in DOMAIN rows : rows[k].date = T(d)
    BY <1>1, <1>6, <1>7
  <1> QED
    BY <1>9, <1>10 DEF rows, T, days

\* An older page that reaches up to the oldest row is whole with the rows it is put
\* before.
LEMMA TrendJoined ==
  ASSUME NEW g, NEW old, NEW rows,
         old \in Seq([date : Int, unit : Trend!Granularity, revenue : Nat]), old # <<>>,
         rows \in Seq([date : Int, unit : Trend!Granularity, revenue : Nat]),
         Trend!IsWhole(g, rows), Trend!IsWhole(g, old),
         \A d \in sold : Trend!Truncate(g, d) \in Int,
         \A k \in DOMAIN rows : rows[k].date < old[1].date,
         \A d \in sold : Trend!Truncate(g, d) < old[1].date
                         /\ (\E k \in DOMAIN rows : rows[k].date =< Trend!Truncate(g, d))
              => \E k \in DOMAIN rows : rows[k].date = Trend!Truncate(g, d)
  PROVE  Trend!IsWhole(g, rows \o old)
  <1> DEFINE Row == [date : Int, unit : Trend!Granularity, revenue : Nat]
             T(d) == Trend!Truncate(g, d)
             new == rows \o old
             m == Len(rows)
             n == Len(old)
  <1>1. /\ m \in Nat /\ n \in Nat /\ DOMAIN rows = 1 .. m /\ DOMAIN old = 1 .. n /\ n >= 1
        /\ \A k \in 1 .. m : rows[k].date \in Int
        /\ \A k \in 1 .. n : old[k].date \in Int
    <2>1. old \in Seq(Row) /\ rows \in Seq(Row)
      OBVIOUS
    <2>2. \A r \in Row : r.date \in Int
      OBVIOUS
    <2> HIDE DEF Row, m, n
    <2>3. /\ m \in Nat /\ rows \in [1 .. m -> Row] /\ DOMAIN rows = 1 .. m
          /\ n \in Nat /\ old \in [1 .. n -> Row] /\ DOMAIN old = 1 .. n
      BY <2>1, LenProperties DEF m, n
    <2>4. n >= 1
      BY <2>1, <2>3 DEF n
    <2> QED
      BY <2>2, <2>3, <2>4
  <1>2. /\ DOMAIN new = 1 .. m + n
        /\ \A k \in 1 .. m : new[k] = rows[k]
        /\ \A k \in 1 .. n : new[m + k] = old[k]
    <2> HIDE DEF Row
    <2>1. old \in Seq(Row) /\ rows \in Seq(Row)
      BY DEF Row
    <2> QED
      BY <1>1, <2>1, ConcatProperties, LenProperties
  <1>3. \A k \in 1 .. m + n : k \in 1 .. m \/ (k - m \in 1 .. n /\ k = m + (k - m))
    BY <1>1
  <1>4. /\ \A k \in 1 .. m : rows[k].date \in Int /\ rows[k].date < old[1].date
        /\ \A k \in 1 .. n : old[k].date \in Int /\ old[1].date =< old[k].date
    <2> HIDE DEF m, n
    <2>1. \A k \in 1 .. n : k = 1 \/ 1 < k
      BY <1>1
    <2>2. \A j, k \in 1 .. n : j < k => old[j].date < old[k].date
      BY <1>1 DEF Trend!IsWhole
    <2>3. 1 \in 1 .. n
      BY <1>1
    <2>4. \A k \in 1 .. n : old[1].date =< old[k].date
      BY <1>1, <2>1, <2>2, <2>3
    <2> QED
      BY <1>1, <2>4
  <1> HIDE DEF new, m, n, T
  <1>5. ASSUME NEW j \in 1 .. m + n, NEW k \in 1 .. m + n, j < k
        PROVE  new[j].date < new[k].date
    <2>1. CASE j \in 1 .. m /\ k \in 1 .. m
      BY <1>1, <1>2, <1>5, <2>1 DEF Trend!IsWhole
    <2>2. CASE j \in 1 .. m /\ k - m \in 1 .. n /\ k = m + (k - m)
      <3>1. new[j] = rows[j] /\ new[k] = old[k - m]
        BY <1>2, <2>2
      <3>2. rows[j].date < old[1].date /\ old[1].date =< old[k - m].date
        BY <1>4, <2>2
      <3>3. rows[j].date \in Int /\ old[k - m].date \in Int /\ old[1].date \in Int
        BY <1>1, <2>2
      <3>4. PICK a \in Int, b \in Int, c \in Int :
                a = rows[j].date /\ b = old[1].date /\ c = old[k - m].date
        BY <3>3
      <3>5. a < b /\ b =< c
        BY <3>2, <3>4
      <3>6. a < c
        BY <3>5
      <3> QED
        BY <3>1, <3>4, <3>6
    <2>3. CASE j - m \in 1 .. n /\ j = m + (j - m) /\ k - m \in 1 .. n /\ k = m + (k - m)
      <3>1. j - m < k - m
        BY <1>1, <1>5
      <3>2. new[j] = old[j - m] /\ new[k] = old[k - m]
        BY <1>2, <2>3
      <3> QED
        BY <1>1, <2>3, <3>1, <3>2 DEF Trend!IsWhole
    <2> QED
      BY <1>1, <1>3, <1>5, <2>1, <2>2, <2>3
  <1>6. ASSUME NEW k \in 1 .. m + n
        PROVE  new[k].revenue = Trend!Cardinality({d \in sold : Trend!Truncate(g, d) = new[k].date})
    <2>1. \A i \in 1 .. m : rows[i].revenue =
              Trend!Cardinality({d \in sold : Trend!Truncate(g, d) = rows[i].date})
      BY <1>1 DEF Trend!IsWhole
    <2>2. \A i \in 1 .. n : old[i].revenue =
              Trend!Cardinality({d \in sold : Trend!Truncate(g, d) = old[i].date})
      BY <1>1 DEF Trend!IsWhole
    <2>3. (\E i \in 1 .. m : new[k] = rows[i]) \/ (\E i \in 1 .. n : new[k] = old[i])
      BY <1>2, <1>3
    <2> QED
      BY <2>1, <2>2, <2>3
  <1>7. ASSUME NEW d \in sold, NEW j \in 1 .. m + n, NEW k \in 1 .. m + n,
               new[j].date =< T(d), T(d) =< new[k].date
        PROVE  \E i \in 1 .. m + n : new[i].date = T(d)
    <2>1. T(d) \in Int
      BY DEF T
    <2>2. CASE T(d) < old[1].date
      <3>1. j \in 1 .. m
        <4>1. CASE j - m \in 1 .. n /\ j = m + (j - m)
          <5>1. new[j] = old[j - m] /\ old[1].date =< old[j - m].date
                /\ old[1].date \in Int /\ old[j - m].date \in Int
            BY <1>1, <1>2, <1>4, <4>1
          <5> QED
            BY <1>7, <2>1, <2>2, <5>1
        <4> QED
          BY <1>3, <4>1
      <3>2. \E i \in 1 .. m : rows[i].date = T(d)
        BY <1>1, <1>2, <1>7, <2>2, <3>1 DEF T
      <3> QED
        BY <1>1, <1>2, <3>2
    <2>3. CASE old[1].date =< T(d)
      <3>1. k - m \in 1 .. n /\ new[k] = old[k - m]
        <4>1. CASE k \in 1 .. m
          <5>1. new[k] = rows[k] /\ rows[k].date < old[1].date
                /\ old[1].date \in Int /\ rows[k].date \in Int
            BY <1>1, <1>2, <1>4, <4>1
          <5> QED
            BY <1>7, <2>1, <2>3, <5>1
        <4>2. k \in 1 .. m \/ (k - m \in 1 .. n /\ new[k] = old[k - m])
          BY <1>2, <1>3
        <4> QED
          BY <4>1, <4>2
      <3>2. \E i \in 1 .. n : old[i].date = T(d)
        <4>1. 1 \in DOMAIN old /\ k - m \in DOMAIN old /\ old[1].date =< T(d) /\ T(d) =< old[k - m].date
          BY <1>1, <1>7, <2>3, <3>1
        <4>2. \E i \in DOMAIN old : old[i].date = T(d)
          BY <4>1 DEF Trend!IsWhole, T
        <4> QED
          BY <1>1, <4>2
      <3>3. PICK i \in 1 .. n : old[i].date = T(d)
        BY <3>2
      <3>4. m + i \in 1 .. m + n /\ new[m + i] = old[i]
        BY <1>1, <1>2
      <3> QED
        BY <3>3, <3>4
    <2>4. old[1].date \in Int
      BY <1>1
    <2> QED
      BY <2>1, <2>2, <2>3, <2>4
  <1>8. Trend!IsWhole(g, new)
    BY <1>2, <1>5, <1>6, <1>7 DEF Trend!IsWhole, T
  <1> QED
    BY <1>8 DEF new
-----------------------------------------------------------------------------
LEMMA TrendSoldFinite ==
  ASSUME Trend!TrendAssumption, Trend!IInv
  PROVE  sold \subseteq Nat /\ IsFiniteSet(sold) /\ ChartDay \in Nat /\ MaxRequests \in Nat
  <1>1. ChartDay \in Nat /\ MaxRequests \in Nat
    BY DEF Trend!TrendAssumption
  <1>2. sold \subseteq 0 .. ChartDay
    BY DEF Trend!IInv, Trend!TypeOK
  <1>3. IsFiniteSet(0 .. ChartDay)
    BY <1>1, FS_Interval
  <1>4. IsFiniteSet(sold)
    BY <1>2, <1>3, FS_Subset
  <1> QED
    BY <1>1, <1>2, <1>4

LEMMA TrendInitInv ==
  ASSUME Trend!TrendAssumption, Trend!Init
  PROVE  Trend!IInv
  <1>1. MaxRequests \in Nat \ {0}
    BY DEF Trend!TrendAssumption
  <1>2. Trend!TypeOK
    <2> DEFINE Row == [date : Int, unit : Trend!Granularity, revenue : Nat]
    <2>1. items \in Seq(Row)
      <3> HIDE DEF Row
      <3> QED
        BY DEF Trend!Init
    <2>2. sold \subseteq 0 .. ChartDay /\ period \in Trend!Granularity /\ hasMore \in BOOLEAN
          /\ asked \in 1 .. MaxRequests
      <3>1. sold \in SUBSET (0 .. ChartDay)
        BY DEF Trend!Init
      <3>2. period \in Trend!Granularity /\ hasMore = FALSE /\ asked = 1
        BY DEF Trend!Init
      <3>3. hasMore \in BOOLEAN
        BY <3>2
      <3>4. asked \in 1 .. MaxRequests
        BY <1>1, <3>2
      <3> QED
        BY <3>1, <3>2, <3>3, <3>4
    <2>3. \A r \in underway : r.id \in 1 .. asked /\ r.unit \in Trend!Granularity
      BY DEF Trend!Init
    <2> QED
      BY <2>1, <2>2, <2>3 DEF Trend!TypeOK
  <1>3. underway \subseteq [id : Nat, unit : Trend!Granularity, before : Int]
    BY DEF Trend!Init, Trend!NoDate
  <1>4. Trend!WaitsItsTurn
    BY DEF Trend!Init, Trend!WaitsItsTurn, Trend!IsWhole
  <1> QED
    BY <1>2, <1>3, <1>4 DEF Trend!IInv

\* A request more is under way.
LEMMA TrendLoadTypes ==
  ASSUME Trend!TrendAssumption, Trend!IInv, NEW g \in Trend!Granularity, NEW before \in Int,
         Trend!Load(g, before)
  PROVE  /\ sold' = sold /\ sold' \subseteq 0 .. ChartDay /\ asked' \in 1 .. MaxRequests
         /\ \A r \in underway' : r.id \in 1 .. asked' /\ r.unit \in Trend!Granularity
         /\ underway' \subseteq [id : Nat, unit : Trend!Granularity, before : Int]
         /\ underway = {} => underway' = {[id |-> asked + 1, unit |-> g, before |-> before]}
  <1>1. asked \in 1 .. MaxRequests /\ asked < MaxRequests /\ asked' = asked + 1 /\ MaxRequests \in Nat
    BY TrendSoldFinite DEF Trend!Load, Trend!IInv, Trend!TypeOK
  <1>2. /\ underway' = underway \cup {[id |-> asked + 1, unit |-> g, before |-> before]}
        /\ sold' = sold /\ sold \subseteq 0 .. ChartDay
    BY DEF Trend!Load, Trend!IInv, Trend!TypeOK
  <1>3. \A r \in underway : /\ r.id \in 1 .. asked /\ r.unit \in Trend!Granularity
                            /\ r \in [id : Nat, unit : Trend!Granularity, before : Int]
    BY DEF Trend!IInv, Trend!TypeOK
  <1> QED
    BY <1>1, <1>2, <1>3

LEMMA TrendChangePeriodInv ==
  ASSUME Trend!TrendAssumption, Trend!IInv, NEW g \in Trend!Granularity, Trend!ChangePeriod(g)
  PROVE  Trend!IInv'
  <1>1. /\ period' = g /\ items' = <<>> /\ hasMore' = hasMore
        /\ Trend!Load(g, Trend!NoDate) /\ Trend!NoDate \in Int
        /\ Patient => underway = {}
    BY DEF Trend!ChangePeriod, Trend!NoDate
  <1>2. Trend!TypeOK'
    BY <1>1, TrendLoadTypes DEF Trend!IInv, Trend!TypeOK
  <1>3. Patient => Trend!WaitsItsTurn'
    <2> SUFFICES ASSUME Patient PROVE Trend!WaitsItsTurn'
      OBVIOUS
    <2>1. underway' = {[id |-> asked + 1, unit |-> g, before |-> Trend!NoDate]}
      BY <1>1, TrendLoadTypes
    <2>2. DOMAIN items' = {}
      BY <1>1
    <2> QED
      BY <1>1, <2>1, <2>2 DEF Trend!WaitsItsTurn, Trend!IsWhole
  <1> QED
    BY <1>1, <1>2, <1>3, TrendLoadTypes DEF Trend!IInv

LEMMA TrendLoadMoreInv ==
  ASSUME Trend!TrendAssumption, Trend!IInv, Trend!LoadMore
  PROVE  Trend!IInv'
  <1>1. /\ period' = period /\ items' = items /\ hasMore' = hasMore /\ items # <<>>
        /\ Trend!Load(period, items[1].date) /\ period \in Trend!Granularity
        /\ Patient => underway = {}
    BY DEF Trend!LoadMore, Trend!IInv, Trend!TypeOK
  <1>2. items[1].date \in Int
    <2> DEFINE Row == [date : Int, unit : Trend!Granularity, revenue : Nat]
    <2>1. items \in Seq(Row)
      BY DEF Trend!IInv, Trend!TypeOK
    <2>2. \A r \in Row : r.date \in Int
      OBVIOUS
    <2> HIDE DEF Row
    <2>3. items[1] \in Row
      BY <1>1, <2>1
    <2> QED
      BY <2>2, <2>3
  <1>3. Trend!TypeOK'
    BY <1>1, <1>2, TrendLoadTypes DEF Trend!IInv, Trend!TypeOK
  <1>4. Patient => Trend!WaitsItsTurn'
    <2> SUFFICES ASSUME Patient PROVE Trend!WaitsItsTurn'
      OBVIOUS
    <2>1. /\ underway' = {[id |-> asked + 1, unit |-> period, before |-> items[1].date]}
          /\ sold' = sold
      BY <1>1, <1>2, TrendLoadTypes
    <2>2. /\ \A k \in DOMAIN items : items[k].unit = period
                                     /\ \E d \in sold : items[k].date = Trend!Truncate(period, d)
          /\ period # "week" => Trend!IsWhole(period, items)
      BY DEF Trend!IInv, Trend!WaitsItsTurn
    <2>3. (period # "week" => Trend!IsWhole(period, items))'
      <3>1. UNCHANGED <<sold, period, items>>
        BY <1>1, <2>1
      <3>2. period # "week" => Trend!IsWhole(period, items)
        BY <2>2
      <3> QED
        BY <3>1, <3>2 DEF Trend!IsWhole, Trend!Truncate
    <2>4. \A k \in DOMAIN items' : items'[k].unit = period'
                                   /\ \E d \in sold' : items'[k].date = Trend!Truncate(period', d)
      BY <1>1, <2>1, <2>2
    <2>5. /\ \A r, q \in underway' : r = q
          /\ \A r \in underway' : r.unit = period' /\ items' # <<>> /\ r.before = items'[1].date
      BY <1>1, <2>1
    <2> QED
      BY <2>3, <2>4, <2>5 DEF Trend!WaitsItsTurn, Trend!Truncate
  <1> QED
    BY <1>1, <1>2, <1>3, <1>4, TrendLoadTypes DEF Trend!IInv

LEMMA TrendFailInv ==
  ASSUME Trend!IInv, NEW r \in underway, Trend!Fail(r)
  PROVE  Trend!IInv'
  <1>1. /\ underway' = underway \ {r}
        /\ UNCHANGED <<sold, period, items, hasMore, asked>>
    BY DEF Trend!Fail
  <1>2. Trend!TypeOK'
    BY <1>1 DEF Trend!IInv, Trend!TypeOK
  <1>3. Patient => Trend!WaitsItsTurn'
    <2> SUFFICES ASSUME Patient PROVE Trend!WaitsItsTurn'
      OBVIOUS
    <2>1. /\ \A q \in underway : q = r
          /\ \A k \in DOMAIN items : items[k].unit = period
                                     /\ \E d \in sold : items[k].date = Trend!Truncate(period, d)
          /\ period # "week" => Trend!IsWhole(period, items)
      BY DEF Trend!IInv, Trend!WaitsItsTurn
    <2>2. (period # "week" => Trend!IsWhole(period, items))'
      BY <1>1, <2>1 DEF Trend!IsWhole, Trend!Truncate
    <2>3. underway' = {}
      BY <1>1, <2>1
    <2> QED
      BY <1>1, <2>1, <2>2, <2>3 DEF Trend!WaitsItsTurn, Trend!Truncate
  <1> QED
    BY <1>1, <1>2, <1>3 DEF Trend!IInv

LEMMA TrendAnswerInv ==
  ASSUME Trend!TrendAssumption, Trend!IInv, NEW r \in underway, Trend!Answer(r)
  PROVE  Trend!IInv'
  <1> DEFINE Row == [date : Int, unit : Trend!Granularity, revenue : Nat]
             days == Trend!Page(r.unit, r.before)
             rows == Trend!Items(r.unit, days)
  <1>1. /\ underway' = underway \ {r} /\ sold' = sold /\ period' = period /\ asked' = asked
        /\ items' = IF r.before = Trend!NoDate THEN rows ELSE rows \o items
        /\ hasMore' = Trend!HasMore(r.unit, rows)
    BY DEF Trend!Answer
  <1>2. /\ r.unit \in Trend!Granularity /\ r.before \in Int /\ period \in Trend!Granularity
        /\ items \in Seq(Row)
    BY DEF Trend!IInv, Trend!TypeOK
  <1>3. sold \subseteq Nat /\ IsFiniteSet(sold) /\ ChartDay \in Int
    BY TrendSoldFinite
  <1> HIDE DEF days
  <1>4. rows \in Seq(Row)
    BY <1>2, <1>3, TrendItems
  <1>5. \A k \in DOMAIN rows : rows[k].unit = r.unit
                               /\ \E d \in sold : rows[k].date = Trend!Truncate(r.unit, d)
    <2>1. \A k \in DOMAIN rows : /\ rows[k] = Trend!Item(r.unit, days, rows[k].date)
                                 /\ \E d \in sold \cap days : rows[k].date = Trend!Truncate(r.unit, d)
      BY <1>2, <1>3, TrendItems
    <2> HIDE DEF rows
    <2>2. \A x : Trend!Item(r.unit, days, x).unit = r.unit
      BY DEF Trend!Item
    <2> QED
      BY <2>1, <2>2
  <1> HIDE DEF Row, rows
  <1>6. items' \in Seq(Row)
    BY <1>1, <1>2, <1>4
  <1>7. hasMore' \in BOOLEAN
    BY <1>1 DEF Trend!HasMore
  <1>8. Trend!TypeOK'
    BY <1>1, <1>6, <1>7 DEF Trend!IInv, Trend!TypeOK, Row
  <1>9. underway' \subseteq [id : Nat, unit : Trend!Granularity, before : Int]
    BY <1>1 DEF Trend!IInv
  <1>10. ASSUME Patient PROVE Trend!WaitsItsTurn'
    <2>1. /\ \A q \in underway : q = r
          /\ r.unit = period
          /\ r.before # Trend!NoDate => items # <<>> /\ r.before = items[1].date
          /\ \A k \in DOMAIN items : items[k].unit = period
                                     /\ \E d \in sold : items[k].date = Trend!Truncate(period, d)
          /\ period # "week" => Trend!IsWhole(period, items)
      BY <1>10 DEF Trend!IInv, Trend!WaitsItsTurn
    <2>2. underway' = {}
      BY <1>1, <2>1
    <2>3. \A k \in DOMAIN items' : items'[k].unit = period
                                   /\ \E d \in sold : items'[k].date = Trend!Truncate(period, d)
      <3>1. CASE r.before = Trend!NoDate
        BY <1>1, <1>5, <2>1, <3>1
      <3>2. CASE r.before # Trend!NoDate
        <4>1. ASSUME NEW k \in DOMAIN items'
              PROVE  (k \in DOMAIN rows /\ items'[k] = rows[k])
                     \/ (k - Len(rows) \in DOMAIN items /\ items'[k] = items[k - Len(rows)])
          BY <1>1, <1>2, <1>4, <3>2, ConcatProperties, LenProperties
        <4> QED
          BY <1>5, <2>1, <4>1
      <3> QED
        BY <3>1, <3>2
    <2>4. ASSUME period # "week" PROVE Trend!IsWhole(period, items')
      <3>1. period \in {"day", "month"}
        BY <1>2, <2>4 DEF Trend!Granularity
      <3>2. r.before # Trend!NoDate => Trend!Truncate(period, r.before) = r.before
        <4> SUFFICES ASSUME r.before # Trend!NoDate
                     PROVE  Trend!Truncate(period, r.before) = r.before
          OBVIOUS
        <4>1. 1 \in DOMAIN items
          BY <1>2, <2>1
        <4>2. PICK d \in sold : items[1].date = Trend!Truncate(period, d)
          BY <2>1, <4>1
        <4> QED
          BY <1>2, <1>3, <2>1, <4>2, TrendCut
      <3>3. /\ Trend!IsWhole(period, rows)
            /\ r.before # Trend!NoDate =>
                  /\ \A k \in DOMAIN rows : rows[k].date < r.before
                  /\ \A d \in sold : Trend!Truncate(period, d) < r.before
                                     /\ (\E k \in DOMAIN rows : rows[k].date =< Trend!Truncate(period, d))
                       => \E k \in DOMAIN rows : rows[k].date = Trend!Truncate(period, d)
        BY <1>2, <1>3, <2>1, <3>1, <3>2, TrendPage DEF rows, days
      <3>4. CASE r.before = Trend!NoDate
        BY <1>1, <3>3, <3>4
      <3>5. CASE r.before # Trend!NoDate
        <4>1. \A d \in sold : Trend!Truncate(period, d) \in Int
          BY <1>2, <1>3, TrendCut
        <4>2. Trend!IsWhole(period, rows \o items)
          BY <1>2, <1>4, <2>1, <2>4, <3>3, <3>5, <4>1, TrendJoined DEF Row
        <4> QED
          BY <1>1, <3>5, <4>2
      <3> QED
        BY <3>4, <3>5
    <2>5. period' # "week" => Trend!IsWhole(period, items)'
      BY <1>1, <2>4 DEF Trend!IsWhole, Trend!Truncate
    <2> QED
      BY <1>1, <2>2, <2>3, <2>5 DEF Trend!WaitsItsTurn, Trend!Truncate
  <1> QED
    BY <1>8, <1>9, <1>10 DEF Trend!IInv

LEMMA TrendNextInv ==
  ASSUME Trend!TrendAssumption, Trend!IInv, [Trend!Next]_(Trend!vars)
  PROVE  Trend!IInv'
  <1>1. CASE UNCHANGED Trend!vars
    BY <1>1 DEF Trend!vars, Trend!IInv, Trend!TypeOK, Trend!WaitsItsTurn, Trend!IsWhole, Trend!Truncate
  <1> QED
    BY <1>1, TrendChangePeriodInv, TrendLoadMoreInv, TrendAnswerInv, TrendFailInv DEF Trend!Next

LEMMA TrendPagesJoin ==
  ASSUME Trend!IInv, Patient
  PROVE  Trend!PagesJoin
  <1> SUFFICES ASSUME period # "week", items # <<>>
               PROVE  LET final == Len(items) IN
                        /\ \A k \in 1 .. final - 1 : items[k].date < items[k + 1].date
                        /\ \A d \in sold :
                              LET start == Trend!Truncate(period, d)
                              IN  items[1].date =< start /\ start =< items[final].date =>
                                    \E k \in 1 .. final : /\ items[k].date = start
                                                         /\ items[k].revenue = Trend!Cardinality(
                                                              {e \in sold : Trend!Truncate(period, e) = start})
    BY DEF Trend!PagesJoin
  <1>1. Trend!IsWhole(period, items)
    BY DEF Trend!IInv, Trend!WaitsItsTurn
  <1> DEFINE final == Len(items)
  <1>2. final \in Nat /\ DOMAIN items = 1 .. final /\ final >= 1
    BY DEF Trend!IInv, Trend!TypeOK
  <1> HIDE DEF final
  <1>3. \A k \in 1 .. final - 1 : items[k].date < items[k + 1].date
    <2>1. \A k \in 1 .. final - 1 : k \in DOMAIN items /\ k + 1 \in DOMAIN items /\ k < k + 1
      BY <1>2
    <2> QED
      BY <1>1, <2>1 DEF Trend!IsWhole
  <1>4. ASSUME NEW d \in sold, items[1].date =< Trend!Truncate(period, d),
               Trend!Truncate(period, d) =< items[final].date
        PROVE  \E k \in 1 .. final :
                  /\ items[k].date = Trend!Truncate(period, d)
                  /\ items[k].revenue = Trend!Cardinality(
                        {e \in sold : Trend!Truncate(period, e) = Trend!Truncate(period, d)})
    <2>1. 1 \in DOMAIN items /\ final \in DOMAIN items
      BY <1>2
    <2>2. PICK k \in DOMAIN items : items[k].date = Trend!Truncate(period, d)
      BY <1>1, <1>4, <2>1 DEF Trend!IsWhole
    <2>3. items[k].revenue = Trend!Cardinality({e \in sold : Trend!Truncate(period, e) = items[k].date})
      BY <1>1 DEF Trend!IsWhole
    <2> QED
      BY <1>2, <2>2, <2>3
  <1> QED
    BY <1>3, <1>4 DEF final
-----------------------------------------------------------------------------
(* The sales intelligence *)

\* The library's operators are the same under the instance's names.
LEMMA InsightLibrary ==
  /\ \A S : Insight!IsFiniteSet(S) <=> IsFiniteSet(S)
  /\ \A S : Insight!Cardinality(S) = Cardinality(S)
  BY DEF Insight!IsFiniteSet, IsFiniteSet, Insight!Cardinality, Cardinality

LEMMA InsightSums ==
  ASSUME NEW w, NEW S
  PROVE  Insight!SumOf(w, S) = SumOf(w, S)
  BY DEF Insight!SumOf, Insight!MapThenSumSet, Insight!MapThenFoldSet,
         SumOf, MapThenSumSet, MapThenFoldSet

\* What the assumption says of the constants.
LEMMA InsightConstants ==
  ASSUME Insight!InsightAssumption
  PROVE  /\ IsFiniteSet(Customer) /\ IsFiniteSet(Article) /\ IsFiniteSet(Sale)
         /\ IsFiniteSet(Category) /\ NoCategory \notin Category
         /\ Today \in Nat /\ ClockEnd \in Nat /\ Today =< ClockEnd
         /\ PastDays \subseteq 0 .. Today /\ IsFiniteSet(PastDays)
         /\ \A o \in Sale : Insight!ProductsOf(o) \subseteq Article
         /\ \A o \in Sale : \A p \in Insight!ProductsOf(o) : Charged[o][p] \in Nat
         /\ \A o \in Sale : BuyerOf[o] \in Customer
         /\ Listed \in [Article -> Category] /\ Moves \subseteq Article \X Category
         /\ Refreshed \subseteq Nat
  <1>1. /\ IsFiniteSet(Customer) /\ IsFiniteSet(Article) /\ IsFiniteSet(Sale)
        /\ IsFiniteSet(Category) /\ NoCategory \notin Category
    BY InsightLibrary DEF Insight!InsightAssumption
  <1>2. /\ Today \in Nat /\ ClockEnd \in Nat /\ Today =< ClockEnd
        /\ PastDays \subseteq 0 .. Today
    BY DEF Insight!InsightAssumption
  <1>3. IsFiniteSet(PastDays)
    <2>1. IsFiniteSet(0 .. Today)
      BY <1>2, FS_Interval
    <2> QED
      BY <1>2, <2>1, FS_Subset
  <1>4. /\ \A o \in Sale : Insight!ProductsOf(o) \subseteq Article
        /\ \A o \in Sale : \A p \in Insight!ProductsOf(o) : Charged[o][p] \in Nat
    BY DEF Insight!InsightAssumption, Insight!ProductsOf
  <1>5. /\ \A o \in Sale : BuyerOf[o] \in Customer
        /\ Listed \in [Article -> Category] /\ Moves \subseteq Article \X Category
        /\ Refreshed \subseteq Nat
    BY DEF Insight!InsightAssumption
  <1> QED
    BY <1>1, <1>2, <1>3, <1>4, <1>5

LEMMA InsightMonths ==
  ASSUME NEW d \in Nat, NEW e \in Nat
  PROVE  /\ Insight!MonthOf(d) \in Nat /\ Insight!MonthOf(d) =< d
         /\ d =< e => Insight!MonthOf(d) =< Insight!MonthOf(e)
  BY DEF Insight!MonthOf

\* The rows of the orders.
LEMMA InsightOrderRows ==
  ASSUME Insight!InsightAssumption, Insight!TypeOK
  PROVE  /\ Insight!Countable \subseteq Sale /\ today \in Nat /\ Insight!Anchor \in Nat
         /\ \A o \in Sale : /\ sales[o] \in Insight!OrderRow
                            /\ Insight!At(sales[o]) \in 0 .. ClockEnd
                            /\ Insight!MonthOf(Insight!At(sales[o])) \in 0 .. ClockEnd
  <1>1. ClockEnd \in Nat /\ today \in Nat
    BY InsightConstants DEF Insight!TypeOK
  <1>2. \A o \in Sale : sales[o] \in Insight!OrderRow
    BY DEF Insight!TypeOK
  <1>3. ASSUME NEW o \in Sale
        PROVE  Insight!At(sales[o]) \in 0 .. ClockEnd
    <2>1. sales[o].created \in 0 .. ClockEnd /\ sales[o].confirmed \in -1 .. ClockEnd
      BY <1>2 DEF Insight!OrderRow, Insight!NoDay
    <2> QED
      BY <2>1 DEF Insight!At, Insight!NoDay
  <1>4. \A o \in Sale : Insight!MonthOf(Insight!At(sales[o])) \in 0 .. ClockEnd
    BY <1>1, <1>3 DEF Insight!MonthOf
  <1> QED
    BY <1>1, <1>2, <1>3, <1>4, InsightMonths DEF Insight!Countable, Insight!Anchor

\* The sum of natural numbers over a finite set.
LEMMA InsightNaturals ==
  ASSUME NEW S, IsFiniteSet(S), NEW w \in [S -> Nat]
  PROVE  Insight!SumOf(w, S) \in Nat
  <1>1. S \in SUBSET S
    OBVIOUS
  <1> QED
    BY <1>1, NaturalSums, InsightSums

\* What orders brought in with a product.
LEMMA InsightEarned ==
  ASSUME Insight!InsightAssumption, NEW os \in SUBSET Sale, NEW p,
         \A o \in os : p \in Insight!ProductsOf(o)
  PROVE  /\ IsFiniteSet(os) /\ [o \in os |-> Charged[o][p]] \in [os -> Nat]
         /\ Insight!Earned(p, os) \in Nat /\ Insight!Cardinality(os) \in Nat
  <1>1. IsFiniteSet(os)
    BY InsightConstants, FS_Subset
  <1>2. [o \in os |-> Charged[o][p]] \in [os -> Nat]
    BY InsightConstants
  <1>3. Insight!Earned(p, os) \in Nat
    BY <1>1, <1>2, InsightNaturals DEF Insight!Earned
  <1> QED
    BY <1>1, <1>2, <1>3, InsightLibrary, FS_CardinalityType

LEMMA InsightPoints ==
  ASSUME Insight!InsightAssumption, NEW m \in Nat
  PROVE  Insight!ArePoints(Insight!Points(m))
  <1> DEFINE Cell == {x \in Article \X Category : Insight!SoldIn(m, x[1], x[2]) # {}}
             Of(cell) == [month |-> m, product |-> cell[1], category |-> cell[2],
                        units |-> Insight!Cardinality(Insight!SoldIn(m, cell[1], cell[2])),
                        revenue |-> Insight!Earned(cell[1], Insight!SoldIn(m, cell[1], cell[2]))]
  <1>1. Insight!Points(m) = {Of(cell) : cell \in Cell}
    BY DEF Insight!Points
  <1>2. IsFiniteSet(Cell)
    <2>1. IsFiniteSet(Article \X Category)
      BY InsightConstants, FS_Product
    <2> QED
      BY <2>1, FS_Subset
  <1>3. ASSUME NEW cell \in Cell
        PROVE  Of(cell) \in Insight!Point
    <2>1. cell[1] \in Article /\ cell[2] \in Category
      OBVIOUS
    <2>2. /\ Insight!SoldIn(m, cell[1], cell[2]) \in SUBSET Sale
          /\ \A o \in Insight!SoldIn(m, cell[1], cell[2]) : cell[1] \in Insight!ProductsOf(o)
      BY DEF Insight!SoldIn, Insight!Countable
    <2>3. /\ Insight!Cardinality(Insight!SoldIn(m, cell[1], cell[2])) \in Nat
          /\ Insight!Earned(cell[1], Insight!SoldIn(m, cell[1], cell[2])) \in Nat
      BY <2>2, InsightEarned
    <2> QED
      BY <2>1, <2>3 DEF Insight!Point
  <1> HIDE DEF Cell, Of
  <1>4. [cell \in Cell |-> Of(cell)] \in Surjection(Cell, Insight!Points(m))
    BY <1>1 DEF Surjection
  <1>5. IsFiniteSet(Insight!Points(m))
    BY <1>2, <1>4, FS_Surjection
  <1> QED
    BY <1>1, <1>3, <1>5, InsightLibrary DEF Insight!ArePoints

LEMMA InsightPointsTogether ==
  ASSUME NEW A, NEW B, Insight!ArePoints(A), Insight!ArePoints(B)
  PROVE  Insight!ArePoints(A \cup B) /\ \A C \in SUBSET A : Insight!ArePoints(C)
  BY InsightLibrary, FS_Union, FS_Subset DEF Insight!ArePoints

LEMMA InsightReadRange ==
  ASSUME Insight!InsightAssumption, Insight!TypeOK, Insight!ArePoints(table), NEW from, NEW to
  PROVE  Insight!ArePoints(Insight!ReadRange(from, to))
  <1>1. Insight!ArePoints({x \in table : x.month \in from .. to /\ x.month < Insight!Anchor})
    BY InsightPointsTogether
  <1>2. Insight!ArePoints(Insight!Points(Insight!Anchor)) /\ Insight!ArePoints({})
    BY InsightOrderRows, InsightPoints, InsightPointsTogether
  <1> QED
    BY <1>1, <1>2, InsightPointsTogether DEF Insight!ReadRange

\* The least and the greatest member of a set of natural numbers with a bound.
LEMMA InsightExtremes ==
  ASSUME NEW n \in Nat, NEW S \in SUBSET (0 .. n), S # {}
  PROVE  /\ Insight!Min(S) \in S /\ \A m \in S : Insight!Min(S) =< m
         /\ Insight!Max(S) \in S /\ \A m \in S : m =< Insight!Max(S)
  <1>1. \E x \in S : \A y \in S : x =< y
    <2>1. S \subseteq Nat
      OBVIOUS
    <2> QED
      BY <2>1, LeastNat
  <1>2. \E x \in S : \A y \in S : x >= y
    <2> DEFINE T == {n - x : x \in S}
    <2>1. T \subseteq Nat /\ T # {}
      <3>1. \A x \in S : n - x \in Nat
        OBVIOUS
      <3>2. PICK x \in S : n - x \in T
        OBVIOUS
      <3> QED
        BY <3>1, <3>2
    <2> HIDE DEF T
    <2>2. PICK t \in T : \A u \in T : t =< u
      BY <2>1, LeastNat
    <2>3. PICK x \in S : t = n - x
      BY DEF T
    <2>4. \A y \in S : n - x =< n - y
      BY <2>2, <2>3 DEF T
    <2> QED
      BY <2>3, <2>4
  <1>3. Insight!Min(S) \in S /\ \A y \in S : Insight!Min(S) =< y
    BY <1>1 DEF Insight!Min
  <1>4. Insight!Max(S) \in S /\ \A y \in S : Insight!Max(S) >= y
    BY <1>2 DEF Insight!Max
  <1>5. \A y \in S : y \in Int
    OBVIOUS
  <1> QED
    BY <1>3, <1>4, <1>5

LEMMA InsightSaleMonths ==
  ASSUME Insight!InsightAssumption, Insight!TypeOK, NEW p
  PROVE  Insight!SaleMonths(p) \in SUBSET (0 .. ClockEnd)
  BY InsightOrderRows DEF Insight!SaleMonths

\* A row that is new or at its end of life is so by the months of its sales.
LEMMA InsightStages ==
  ASSUME Insight!InsightAssumption, Insight!TypeOK, NEW p, NEW a, a.from \in Int, a.anchor \in Int
  PROVE  LET r == Insight!PerformanceRow(a, p)
         IN  /\ r.product = p
             /\ r.stage = "new" => \A m \in Insight!SaleMonths(p) : m >= a.from
             /\ r.stage = "end_of_life" => \A m \in Insight!SaleMonths(p) : m =< a.anchor - 6
  <1> DEFINE months == Insight!Evidence(a.now \cup a.before, p)
             now == Insight!Revenue(Insight!OfProduct(a.now, p))
             before == Insight!Revenue(Insight!OfProduct(a.before, p))
             first == Insight!Min(months)
             latest == Insight!Max(months)
             r == Insight!PerformanceRow(a, p)
  <1>1. r = [product |-> p, stage |-> Insight!Stage(now, before, first, latest, a.from, a.anchor)]
    BY DEF Insight!PerformanceRow
  <1>2. Insight!SaleMonths(p) # {} => months = Insight!SaleMonths(p)
    BY DEF Insight!Evidence
  <1>3. Insight!SaleMonths(p) \in SUBSET (0 .. ClockEnd) /\ ClockEnd \in Nat
    BY InsightSaleMonths, InsightConstants
  <1> HIDE DEF months
  <1>4. Insight!SaleMonths(p) # {} =>
          /\ first \in 0 .. ClockEnd /\ latest \in 0 .. ClockEnd
          /\ \A m \in Insight!SaleMonths(p) : first =< m /\ m =< latest
    BY <1>2, <1>3, InsightExtremes
  <1> HIDE DEF now, before, first, latest, r
  <1>5. r.product = p /\ r.stage = Insight!Stage(now, before, first, latest, a.from, a.anchor)
    BY <1>1
  <1>6. r.stage = "new" => first >= a.from
    BY <1>5 DEF Insight!Stage
  <1>7. r.stage = "end_of_life" => latest =< a.anchor - 6
    BY <1>5 DEF Insight!Stage, Insight!Cutoff
  <1>8. ASSUME NEW m \in Insight!SaleMonths(p)
        PROVE  /\ r.stage = "new" => m >= a.from
               /\ r.stage = "end_of_life" => m =< a.anchor - 6
    <2>1. m \in Int /\ first \in Int /\ latest \in Int /\ first =< m /\ m =< latest
      BY <1>3, <1>4
    <2>2. a.anchor - 6 \in Int /\ a.from \in Int
      OBVIOUS
    <2> QED
      BY <1>6, <1>7, <2>1, <2>2
  <1> QED
    BY <1>5, <1>8 DEF r
-----------------------------------------------------------------------------
(* The drivers of revenue *)

LEMMA InsightFigures ==
  ASSUME NEW points, Insight!ArePoints(points)
  PROVE  /\ IsFiniteSet(points)
         /\ [x \in points |-> x.revenue] \in [points -> Nat]
         /\ [x \in points |-> x.units] \in [points -> Nat]
         /\ Insight!Revenue(points) \in Nat /\ Insight!Units(points) \in Nat
  <1>1. IsFiniteSet(points)
    BY InsightLibrary DEF Insight!ArePoints
  <1>2. \A x \in points : x.revenue \in Nat /\ x.units \in Nat
    BY DEF Insight!ArePoints, Insight!Point
  <1>3. /\ [x \in points |-> x.revenue] \in [points -> Nat]
        /\ [x \in points |-> x.units] \in [points -> Nat]
    BY <1>2
  <1> QED
    BY <1>1, <1>3, InsightNaturals DEF Insight!Revenue, Insight!Units

\* What the products of some points brought in adds up to what the points did.
LEMMA InsightByProduct ==
  ASSUME NEW points, Insight!ArePoints(points), NEW Q, IsFiniteSet(Q),
         \A x \in points : x.product \in Q
  PROVE  SumOf([p \in Q |-> Insight!Revenue(Insight!OfProduct(points, p))], Q)
            = Insight!Revenue(points)
  <1> DEFINE w == [x \in points |-> x.revenue]
             g == [x \in points |-> x.product]
             parts == [p \in Q |-> Insight!Revenue(Insight!OfProduct(points, p))]
  <1>1. IsFiniteSet(points) /\ w \in [points -> Int] /\ g \in [points -> Q]
    BY InsightFigures
  <1>2. ASSUME NEW p \in Q
        PROVE  parts[p] = SumOf(w, With(g, points, {p})) /\ parts[p] \in Int
    <2> DEFINE some == Insight!OfProduct(points, p)
               v == [x \in some |-> x.revenue]
    <2>1. some \subseteq points /\ some = With(g, points, {p})
      BY DEF Insight!OfProduct, With
    <2>2. Insight!ArePoints(some)
      BY <2>1, InsightPointsTogether
    <2>3. IsFiniteSet(some) /\ v \in [some -> Int] /\ Insight!Revenue(some) \in Int
      BY <2>2, InsightFigures
    <2>4. \A x \in some : v[x] = w[x]
      BY <2>1
    <2>5. Insight!Revenue(some) = SumOf(v, some)
      BY InsightSums DEF Insight!Revenue
    <2> HIDE DEF some, v, w
    <2>6. SumOf(v, some) = SumOf(w, some)
      BY <1>1, <2>1, <2>3, <2>4, SamePart
    <2>7. parts[p] = Insight!Revenue(some)
      BY DEF some
    <2> QED
      BY <2>1, <2>3, <2>5, <2>6, <2>7
  <1>3. parts \in [Q -> Int]
    BY <1>2
  <1>4. Insight!Revenue(points) = SumOf(w, points)
    BY InsightSums DEF Insight!Revenue
  <1> HIDE DEF parts, w, g
  <1>5. ArePartsOf(parts, Q, w, points, g)
    BY <1>1, <1>2, <1>3 DEF ArePartsOf
  <1>6. SumOf(parts, Q) = SumOf(w, points)
    BY <1>5, SumOfParts
  <1> QED
    BY <1>4, <1>6 DEF parts

LEMMA InsightUnitsOfPart ==
  ASSUME NEW points, Insight!ArePoints(points), NEW some \in SUBSET points
  PROVE  Insight!Units(some) =< Insight!Units(points)
  <1> DEFINE w == [x \in points |-> x.units]
             v == [x \in some |-> x.units]
             rest == points \ some
  <1>1. IsFiniteSet(points) /\ w \in [points -> Int] /\ w \in [points -> Nat]
    BY InsightFigures
  <1>2. IsFiniteSet(some) /\ v \in [some -> Int]
    BY InsightPointsTogether, InsightFigures
  <1>3. \A x \in some : v[x] = w[x]
    OBVIOUS
  <1>4. Insight!Units(points) = SumOf(w, points) /\ Insight!Units(some) = SumOf(v, some)
    BY InsightSums DEF Insight!Units
  <1>5. points = some \cup rest /\ some \cap rest = {} /\ rest \in SUBSET points
    OBVIOUS
  <1> HIDE DEF w, v, rest
  <1>6. SumOf(v, some) = SumOf(w, some)
    BY <1>1, <1>2, <1>3, SamePart
  <1>7. SumOf(w, points) = SumOf(w, some) + SumOf(w, rest)
    BY <1>1, <1>5, SumOfUnion
  <1>8. SumOf(w, some) \in Nat /\ SumOf(w, rest) \in Nat
    BY <1>1, <1>5, NaturalSums
  <1> QED
    BY <1>4, <1>6, <1>7, <1>8

\* A driver explains the change of its product: what is neither price nor volume
\* is mix.
LEMMA InsightDriver ==
  ASSUME NEW now, NEW before, Insight!ArePoints(now), Insight!ArePoints(before), NEW p
  PROVE  LET r == Insight!Driver(now, before, p)
         IN  /\ r.product = p
             /\ r.price + r.volume + r.mix =
                  Insight!Revenue(Insight!OfProduct(now, p))
                    - Insight!Revenue(Insight!OfProduct(before, p))
  <1> DEFINE n == Insight!OfProduct(now, p)
             b == Insight!OfProduct(before, p)
             both == Insight!Units(n) > 0 /\ Insight!Units(b) > 0
             price == IF both THEN (Insight!UnitPrice(n) - Insight!UnitPrice(b)) * Insight!Units(n)
                      ELSE 0
             volume == IF both
                       THEN ((Insight!Units(now) - Insight!Units(before)) * Insight!Units(b)
                                * Insight!UnitPrice(b)) \div Insight!Units(before)
                       ELSE 0
  <1>1. Insight!ArePoints(n) /\ Insight!ArePoints(b) /\ b \in SUBSET before
    BY InsightPointsTogether DEF Insight!OfProduct
  <1>2. Insight!Driver(now, before, p) =
          [product |-> p, price |-> price, volume |-> volume,
           mix |-> Insight!Revenue(n) - Insight!Revenue(b) - price - volume,
           delta |-> Insight!Revenue(n) - Insight!Revenue(b)]
    BY DEF Insight!Driver
  <1> HIDE DEF n, b
  <1>3. /\ Insight!Units(n) \in Nat /\ Insight!Units(b) \in Nat
        /\ Insight!Revenue(n) \in Nat /\ Insight!Revenue(b) \in Nat
        /\ Insight!Units(now) \in Nat /\ Insight!Units(before) \in Nat
        /\ Insight!Units(b) =< Insight!Units(before)
    BY <1>1, InsightFigures, InsightUnitsOfPart
  <1>4. both => Insight!UnitPrice(n) \in Nat /\ Insight!UnitPrice(b) \in Nat
    BY <1>3 DEF Insight!UnitPrice
  <1>5. price \in Int
    BY <1>3, <1>4
  <1>6. volume \in Int
    <2>1. CASE both
      <3>1. Insight!Units(before) \in Nat \ {0}
        BY <1>3, <2>1
      <3>2. (Insight!Units(now) - Insight!Units(before)) * Insight!Units(b)
                * Insight!UnitPrice(b) \in Int
        BY <1>3, <1>4, <2>1
      <3> QED
        BY <2>1, <3>1, <3>2
    <2> QED
      BY <2>1
  <1> HIDE DEF price, volume, both
  <1> QED
    BY <1>2, <1>3, <1>5, <1>6 DEF n, b

LEMMA InsightDriversAddUp ==
  ASSUME NEW now, NEW before, Insight!ArePoints(now), Insight!ArePoints(before),
         NEW rows, rows = {Insight!Driver(now, before, p) : p \in Insight!Drivers(now, before)}
  PROVE  Insight!SumOf([r \in rows |-> r.price + r.volume + r.mix], rows)
            = Insight!Revenue(now) - Insight!Revenue(before)
  <1> DEFINE Q == Insight!Drivers(now, before)
             v == [p \in Q |-> Insight!Revenue(Insight!OfProduct(now, p))
                                 - Insight!Revenue(Insight!OfProduct(before, p))]
             n == [p \in Q |-> Insight!Revenue(Insight!OfProduct(now, p))]
             b == [p \in Q |-> Insight!Revenue(Insight!OfProduct(before, p))]
             c == [p \in Q |-> -b[p]]
             w == [r \in rows |-> r.price + r.volume + r.mix]
             g == [p \in Q |-> Insight!Driver(now, before, p)]
  <1>1. IsFiniteSet(Q) /\ \A x \in now \cup before : x.product \in Q
    <2>1. IsFiniteSet(now \cup before)
      BY InsightFigures, FS_Union
    <2>2. [x \in now \cup before |-> x.product] \in Surjection(now \cup before, Q)
      BY DEF Surjection, Insight!Drivers
    <2> QED
      BY <2>1, <2>2, FS_Surjection DEF Insight!Drivers
  <1>2. \A p \in Q : /\ Insight!Revenue(Insight!OfProduct(now, p)) \in Nat
                     /\ Insight!Revenue(Insight!OfProduct(before, p)) \in Nat
    BY InsightPointsTogether, InsightFigures DEF Insight!OfProduct
  <1> HIDE DEF Q
  <1>3. /\ v \in [Q -> Int] /\ n \in [Q -> Int] /\ b \in [Q -> Int] /\ c \in [Q -> Int]
        /\ \A p \in Q : v[p] = n[p] + c[p] /\ c[p] = -b[p]
    BY <1>2
  <1>4. /\ \A p \in Q : /\ g[p] \in rows /\ g[p].product = p
                        /\ w[g[p]] = v[p]
        /\ \A r \in rows : \E p \in Q : r = g[p]
    <2>1. \A p \in Q : Insight!Driver(now, before, p) \in rows
      BY DEF Q
    <2>2. \A r \in rows : \E p \in Q : r = Insight!Driver(now, before, p)
      BY DEF Q
    <2> QED
      BY <2>1, <2>2, InsightDriver
  <1>5. SumOf(n, Q) = Insight!Revenue(now) /\ SumOf(b, Q) = Insight!Revenue(before)
    BY <1>1, InsightByProduct
  <1> HIDE DEF v, n, b, c, w, g
  <1>6. g \in [Q -> rows] /\ ImageOf(g, Q) = rows
    <2>1. g \in [Q -> rows]
      BY <1>4 DEF g
    <2> QED
      BY <1>4, <2>1 DEF ImageOf
  <1>7. IsFiniteSet(rows)
    <2>1. g \in Surjection(Q, rows)
      BY <1>4, <1>6 DEF Surjection
    <2> QED
      BY <1>1, <2>1, FS_Surjection
  <1>8. w \in [rows -> Int]
    <2>1. ASSUME NEW r \in rows
          PROVE  w[r] \in Int
      <3>1. PICK p \in Q : r = g[p]
        BY <1>4
      <3>2. w[r] = v[p] /\ v[p] \in Int
        BY <1>3, <1>4, <3>1
      <3> QED
        BY <3>2
    <2>2. w = [r \in rows |-> w[r]]
      BY DEF w
    <2> QED
      BY <2>1, <2>2
  <1>9. SumOf(v, Q) = SumOf(w, rows)
    <2>1. \A p, q \in Q : g[p] = g[q] => p = q
      BY <1>4
    <2>2. \A p \in Q : v[p] = w[g[p]]
      BY <1>4
    <2> QED
      BY <1>1, <1>3, <1>6, <1>7, <1>8, <2>1, <2>2, Renamed
  <1>10. SumOf(c, Q) = -SumOf(b, Q)
    BY <1>1, <1>3, OppositeWeights
  <1>11. SumOf(v, Q) = SumOf(n, Q) + SumOf(c, Q)
    BY <1>1, <1>3, AddedWeights
  <1>12. Insight!Revenue(now) \in Nat /\ Insight!Revenue(before) \in Nat
    BY InsightFigures
  <1> QED
    BY <1>5, <1>9, <1>10, <1>11, <1>12, InsightSums DEF w
-----------------------------------------------------------------------------
(* The answers of the sales intelligence, step by step *)

LEMMA InsightInitInv ==
  ASSUME Insight!InsightAssumption, Insight!Init
  PROVE  Insight!IInv
  <1>1. Insight!TypeOK
    <2> DEFINE pending == [status |-> "pending", created |-> Today,
                           confirmed |-> Insight!NoDay, snapshot |-> Insight!Uncategorised]
               Of(d) == [status |-> "confirmed", created |-> d,
                         confirmed |-> Insight!NoDay, snapshot |-> Listed]
    <2>1. sales \in [Sale -> {pending} \cup {Of(d) : d \in PastDays}]
      BY DEF Insight!Init
    <2>2. /\ Today \in 0 .. ClockEnd /\ Today \in Today .. ClockEnd
          /\ \A d \in PastDays : d \in 0 .. ClockEnd
          /\ Insight!NoDay \in Insight!NoDay .. ClockEnd
      BY InsightConstants DEF Insight!NoDay
    <2>3. /\ Insight!Uncategorised \in [Article -> Category \cup {NoCategory}]
          /\ Listed \in [Article -> Category \cup {NoCategory}]
      BY InsightConstants DEF Insight!Uncategorised
    <2>4. pending \in Insight!OrderRow
      BY <2>2, <2>3 DEF Insight!OrderRow
    <2>5. ASSUME NEW d \in PastDays PROVE Of(d) \in Insight!OrderRow
      BY <2>2, <2>3 DEF Insight!OrderRow
    <2> HIDE DEF pending, Of
    <2>6. sales \in [Sale -> Insight!OrderRow]
      BY <2>1, <2>4, <2>5
    <2> QED
      BY <2>2, <2>3, <2>6 DEF Insight!Init, Insight!TypeOK, Insight!NoAnswer
  <1>2. Insight!ArePoints({})
    BY InsightLibrary, FS_EmptySet DEF Insight!ArePoints
  <1>3. Insight!ArePoints(table)
    <2> DEFINE M == {Insight!MonthOf(d) : d \in PastDays} \ {Insight!Anchor}
               Tables == {Insight!Points(m) : m \in M}
    <2>1. CASE table = {}
      BY <1>2, <2>1
    <2>2. CASE table = UNION Tables
      <3>1. M \subseteq Nat
        BY InsightConstants, InsightMonths
      <3>2. IsFiniteSet(M)
        <4> DEFINE All == {Insight!MonthOf(d) : d \in PastDays}
        <4>1. [d \in PastDays |-> Insight!MonthOf(d)] \in Surjection(PastDays, All)
          BY DEF Surjection
        <4>2. IsFiniteSet(All)
          BY <4>1, InsightConstants, FS_Surjection
        <4> QED
          BY <4>2, FS_Subset
      <3> HIDE DEF M
      <3>3. \A m \in M : Insight!ArePoints(Insight!Points(m))
        BY <3>1, InsightPoints
      <3>4. [m \in M |-> Insight!Points(m)] \in Surjection(M, Tables)
        BY DEF Surjection
      <3>5. IsFiniteSet(Tables)
        BY <3>2, <3>4, FS_Surjection
      <3>6. \A t \in Tables : IsFiniteSet(t) /\ t \subseteq Insight!Point
        BY <3>3, InsightLibrary DEF Insight!ArePoints
      <3> HIDE DEF Tables
      <3>7. IsFiniteSet(UNION Tables) /\ UNION Tables \subseteq Insight!Point
        BY <3>5, <3>6, FS_UNION
      <3> QED
        BY <2>2, <3>7, InsightLibrary DEF Insight!ArePoints
    <2> QED
      BY <2>1, <2>2 DEF Insight!Init
  <1>4. answer = Insight!NoAnswer
    BY DEF Insight!Init
  <1>5. Insight!AnswerFits
    BY <1>2, <1>4 DEF Insight!AnswerFits, Insight!NoAnswer
  <1>6. Insight!StagesTellTheTruth /\ Insight!DriversAddUp
    BY <1>4 DEF Insight!StagesTellTheTruth, Insight!DriversAddUp, Insight!NoAnswer
  <1>7. Insight!MadeByNow
    <2> SUFFICES ASSUME NEW o \in Sale PROVE sales[o].created =< today
      BY DEF Insight!MadeByNow
    <2>1. /\ today = Today /\ today =< today
          /\ \A d \in PastDays : d =< Today
      BY InsightConstants DEF Insight!Init
    <2>2. sales[o] \in {[status |-> "pending", created |-> Today,
                        confirmed |-> Insight!NoDay, snapshot |-> Insight!Uncategorised]}
                    \cup {[status |-> "confirmed", created |-> d, confirmed |-> Insight!NoDay,
                           snapshot |-> Listed] : d \in PastDays}
      BY DEF Insight!Init
    <2>3. sales[o].created = Today \/ sales[o].created \in PastDays
      BY <2>2
    <2> QED
      BY <2>1, <2>3
  <1> QED
    BY <1>1, <1>3, <1>4, <1>5, <1>6, <1>7 DEF Insight!IInv

\* The market rests while an answer is put together.
LEMMA InsightMarketRests ==
  ASSUME Insight!IInv, UNCHANGED Insight!market
  PROVE  /\ sales' = sales /\ category' = category /\ today' = today /\ table' = table
         /\ (\A p : Insight!SaleMonths(p)' = Insight!SaleMonths(p))
         /\ Insight!Anchor' = Insight!Anchor
         /\ Insight!ArePoints(table)' /\ Insight!MadeByNow'
  <1>1. sales' = sales /\ category' = category /\ today' = today /\ table' = table
    BY DEF Insight!market
  <1>2. \A p : Insight!SaleMonths(p)' = Insight!SaleMonths(p)
    BY <1>1 DEF Insight!SaleMonths, Insight!Countable
  <1>3. Insight!Anchor' = Insight!Anchor
    BY <1>1 DEF Insight!Anchor
  <1> QED
    BY <1>1, <1>2, <1>3 DEF Insight!IInv, Insight!MadeByNow

LEMMA InsightAskInv ==
  ASSUME Insight!InsightAssumption, Insight!IInv, UNCHANGED Insight!market,
         NEW k, NEW from \in Int, NEW to \in Int,
         k = "performance" => from =< Insight!Anchor,
         answer' = [Insight!NoAnswer EXCEPT !.kind = k, !.step = "now",
                      !.anchor = Insight!Anchor, !.from = from, !.to = to]
  PROVE  Insight!IInv'
  <1>1. Insight!TypeOK /\ Insight!Anchor \in Nat
    BY InsightOrderRows DEF Insight!IInv
  <1>2. /\ DOMAIN answer' = DOMAIN Insight!NoAnswer
        /\ answer'.kind = k /\ answer'.step = "now" /\ answer'.anchor = Insight!Anchor
        /\ answer'.from = from /\ answer'.to = to
        /\ answer'.now = {} /\ answer'.before = {} /\ answer'.rows = {}
    BY DEF Insight!NoAnswer
  <1>3. Insight!ArePoints({})
    BY InsightLibrary, FS_EmptySet DEF Insight!ArePoints
  <1>4. Insight!AnswerFits'
    BY <1>1, <1>2, <1>3, InsightMarketRests DEF Insight!AnswerFits
  <1>5. Insight!TypeOK'
    BY <1>1, <1>2, InsightMarketRests DEF Insight!TypeOK
  <1>6. Insight!StagesTellTheTruth' /\ Insight!DriversAddUp'
    BY <1>2 DEF Insight!StagesTellTheTruth, Insight!DriversAddUp
  <1> QED
    BY <1>2, <1>4, <1>5, <1>6, InsightMarketRests DEF Insight!IInv

LEMMA InsightReadInv ==
  ASSUME Insight!InsightAssumption, Insight!IInv, Insight!ReadCurrent \/ Insight!ReadPrior
  PROVE  Insight!IInv'
  <1> DEFINE length == answer.to - answer.from + 1
             now == Insight!ReadRange(answer.from, answer.to)
             before == Insight!ReadRange(answer.from - length, answer.from - 1)
  <1>1. Insight!TypeOK /\ Insight!ArePoints(table) /\ Insight!AnswerFits
        /\ DOMAIN answer = DOMAIN Insight!NoAnswer
    BY DEF Insight!IInv
  <1>2. Insight!ArePoints(now) /\ Insight!ArePoints(before)
    BY <1>1, InsightReadRange
  <1>3. UNCHANGED Insight!market /\ answer.step # "idle"
    BY DEF Insight!ReadCurrent, Insight!ReadPrior
  <1>4. /\ DOMAIN answer' = DOMAIN Insight!NoAnswer
        /\ answer'.kind = answer.kind /\ answer'.step \in {"before", "rows"}
        /\ answer'.anchor = answer.anchor
        /\ answer'.from = answer.from /\ answer'.to = answer.to /\ answer'.rows = answer.rows
        /\ answer'.now \in {answer.now, now} /\ answer'.before \in {answer.before, before}
    <2> HIDE DEF now, before
    <2>1. CASE Insight!ReadCurrent
      BY <1>1, <2>1 DEF Insight!ReadCurrent, Insight!NoAnswer, now
    <2>2. CASE Insight!ReadPrior
      BY <1>1, <2>2 DEF Insight!ReadPrior, Insight!NoAnswer, before
    <2> QED
      BY <2>1, <2>2
  <1> HIDE DEF now, before
  <1>5. Insight!AnswerFits'
    BY <1>1, <1>2, <1>3, <1>4, InsightMarketRests DEF Insight!AnswerFits
  <1>6. Insight!TypeOK'
    BY <1>1, <1>3, <1>4, InsightMarketRests DEF Insight!TypeOK
  <1>7. Insight!StagesTellTheTruth' /\ Insight!DriversAddUp'
    <2>1. answer'.rows = {} /\ answer'.step # "idle"
      BY <1>1, <1>3, <1>4 DEF Insight!AnswerFits
    <2> QED
      BY <2>1 DEF Insight!StagesTellTheTruth, Insight!DriversAddUp
  <1> QED
    BY <1>3, <1>4, <1>5, <1>6, <1>7, InsightMarketRests DEF Insight!IInv

LEMMA InsightConcludeInv ==
  ASSUME Insight!InsightAssumption, Insight!IInv, Insight!Conclude
  PROVE  Insight!IInv'
  <1> DEFINE now == answer.now
             before == answer.before
             products == Insight!Drivers(now, before)
             drivers == {Insight!Driver(now, before, p) : p \in products}
             stages == {Insight!PerformanceRow(answer, p) : p \in products}
  <1>1. Insight!TypeOK /\ Insight!ArePoints(table) /\ Insight!AnswerFits
        /\ DOMAIN answer = DOMAIN Insight!NoAnswer
    BY DEF Insight!IInv
  <1>2. UNCHANGED Insight!market
    BY DEF Insight!Conclude
  <1> HIDE DEF products, drivers, stages
  <1>3. /\ DOMAIN answer' = DOMAIN Insight!NoAnswer
        /\ answer'.kind = answer.kind /\ answer'.step = "idle"
        /\ answer'.anchor = answer.anchor
        /\ answer'.from = answer.from /\ answer'.to = answer.to
        /\ answer'.now = now /\ answer'.before = before
        /\ answer'.rows = IF answer.kind = "diagnosis" THEN drivers ELSE stages
    BY <1>1 DEF Insight!Conclude, Insight!NoAnswer, products, drivers, stages
  <1>4. Insight!TypeOK'
    BY <1>1, <1>2, <1>3, InsightMarketRests DEF Insight!TypeOK
  <1>5. Insight!AnswerFits'
    BY <1>1, <1>2, <1>3, InsightMarketRests DEF Insight!AnswerFits
  <1>6. Insight!DriversAddUp'
    <2> SUFFICES ASSUME answer'.kind = "diagnosis"
                 PROVE  Insight!SumOf([r \in answer'.rows |-> r.price + r.volume + r.mix],
                                      answer'.rows)
                          = Insight!Revenue(answer'.now) - Insight!Revenue(answer'.before)
      BY DEF Insight!DriversAddUp
    <2>1. answer'.rows = drivers /\ answer'.now = now /\ answer'.before = before
      BY <1>3
    <2>2. Insight!ArePoints(now) /\ Insight!ArePoints(before)
      BY <1>1 DEF Insight!AnswerFits
    <2>3. drivers = {Insight!Driver(now, before, p) : p \in Insight!Drivers(now, before)}
      BY DEF drivers, products
    <2> HIDE DEF now, before
    <2>4. Insight!SumOf([r \in drivers |-> r.price + r.volume + r.mix], drivers)
            = Insight!Revenue(now) - Insight!Revenue(before)
      BY <2>2, <2>3, InsightDriversAddUp
    <2> QED
      BY <2>1, <2>4
  <1>7. Insight!StagesTellTheTruth'
    <2> SUFFICES ASSUME answer'.kind = "performance", NEW r \in answer'.rows
                 PROVE  /\ r.stage = "new" =>
                             \A m \in Insight!SaleMonths(r.product)' : m >= answer'.from
                        /\ r.stage = "end_of_life" =>
                             \A m \in Insight!SaleMonths(r.product)' :
                               m =< answer'.anchor - 6 \/ m >= answer'.anchor
      BY DEF Insight!StagesTellTheTruth
    <2>1. r \in stages
      BY <1>3
    <2>2. PICK p \in products : r = Insight!PerformanceRow(answer, p)
      BY <2>1 DEF stages
    <2>3. answer.from \in Int /\ answer.anchor \in Int
      BY <1>1 DEF Insight!AnswerFits
    <2>4. /\ r.product = p
          /\ r.stage = "new" => \A m \in Insight!SaleMonths(p) : m >= answer.from
          /\ r.stage = "end_of_life" => \A m \in Insight!SaleMonths(p) : m =< answer.anchor - 6
      BY <1>1, <2>2, <2>3, InsightStages
    <2>5. Insight!SaleMonths(p)' = Insight!SaleMonths(p)
      BY <1>2, InsightMarketRests
    <2> QED
      BY <1>3, <2>4, <2>5
  <1> QED
    BY <1>2, <1>3, <1>4, <1>5, <1>6, <1>7, InsightMarketRests DEF Insight!IInv

\* While the answer rests and the clock does not go back, a new sale is of the
\* current month.
LEMMA InsightMarketInv ==
  ASSUME Insight!InsightAssumption, Insight!IInv, answer' = answer,
         Insight!TypeOK', Insight!MadeByNow', Insight!ArePoints(table)', today =< today',
         \A p : Insight!SaleMonths(p)' \subseteq Insight!SaleMonths(p) \cup {Insight!Anchor}
  PROVE  Insight!IInv'
  <1>1. Insight!TypeOK /\ Insight!AnswerFits /\ Insight!StagesTellTheTruth
        /\ DOMAIN answer = DOMAIN Insight!NoAnswer
    BY DEF Insight!IInv
  <1>2. Insight!Anchor \in Nat /\ Insight!Anchor' \in Nat /\ Insight!Anchor =< Insight!Anchor'
    <2>1. today \in Nat /\ today' \in Nat
      BY <1>1, InsightConstants DEF Insight!TypeOK
    <2> QED
      BY <2>1, InsightMonths DEF Insight!Anchor
  <1>3. Insight!AnswerFits'
    <2>1. answer.kind = "performance" => answer.from =< answer.anchor
                                         /\ answer.anchor =< Insight!Anchor'
      BY <1>1, <1>2 DEF Insight!AnswerFits
    <2> QED
      BY <1>1, <2>1 DEF Insight!AnswerFits
  <1>4. Insight!DriversAddUp'
    BY DEF Insight!IInv, Insight!DriversAddUp
  <1>5. Insight!StagesTellTheTruth'
    <2> SUFFICES ASSUME answer.kind = "performance", NEW r \in answer.rows
                 PROVE  /\ r.stage = "new" =>
                             \A m \in Insight!SaleMonths(r.product)' : m >= answer.from
                        /\ r.stage = "end_of_life" =>
                             \A m \in Insight!SaleMonths(r.product)' :
                               m =< answer.anchor - 6 \/ m >= answer.anchor
      BY DEF Insight!StagesTellTheTruth
    <2>1. /\ r.stage = "new" => \A m \in Insight!SaleMonths(r.product) : m >= answer.from
          /\ r.stage = "end_of_life" => \A m \in Insight!SaleMonths(r.product) :
               m =< answer.anchor - 6 \/ m >= answer.anchor
      BY <1>1 DEF Insight!StagesTellTheTruth
    <2>2. /\ answer.from =< answer.anchor /\ answer.anchor =< Insight!Anchor
          /\ answer.from \in Int /\ answer.anchor \in Int
      BY <1>1 DEF Insight!AnswerFits
    <2>3. Insight!Anchor >= answer.from /\ Insight!Anchor >= answer.anchor
      BY <1>2, <2>2
    <2>4. Insight!SaleMonths(r.product)'
            \subseteq Insight!SaleMonths(r.product) \cup {Insight!Anchor}
      OBVIOUS
    <2> QED
      BY <2>1, <2>3, <2>4
  <1> QED
    BY <1>1, <1>3, <1>4, <1>5 DEF Insight!IInv

LEMMA InsightConfirmInv ==
  ASSUME Insight!InsightAssumption, Insight!IInv, NEW o \in Sale, Insight!ConfirmOrder(o)
  PROVE  Insight!IInv'
  <1> DEFINE snapshot == [p \in Article |-> IF p \in Insight!ProductsOf(o) THEN category[p]
                                            ELSE NoCategory]
  <1>1. Insight!TypeOK /\ sales[o].status = "pending"
    BY DEF Insight!IInv, Insight!ConfirmOrder
  <1>2. snapshot \in [Article -> Category \cup {NoCategory}]
    BY <1>1 DEF Insight!TypeOK
  <1>3. /\ today' = today /\ category' = category /\ table' = table /\ answer' = answer
        /\ sales' = [sales EXCEPT ![o].status = "confirmed", ![o].confirmed = today,
                       ![o].snapshot = snapshot]
    BY DEF Insight!ConfirmOrder
  <1>4. today \in 0 .. ClockEnd /\ today \in Nat
    BY <1>1, InsightConstants DEF Insight!TypeOK
  <1> HIDE DEF snapshot
  <1>5. /\ \A x \in Sale : x # o => sales'[x] = sales[x]
        /\ sales'[o] \in Insight!OrderRow /\ sales'[o].confirmed = today
        /\ sales'[o].created = sales[o].created
        /\ sales' \in [Sale -> Insight!OrderRow]
    <2>1. sales \in [Sale -> Insight!OrderRow] /\ sales[o] \in Insight!OrderRow
      BY <1>1 DEF Insight!TypeOK
    <2>2. sales'[o] = [sales[o] EXCEPT !.status = "confirmed", !.confirmed = today,
                         !.snapshot = snapshot]
      BY <1>3, <2>1
    <2>3. /\ sales[o].created \in 0 .. ClockEnd
          /\ DOMAIN sales[o] = {"status", "created", "confirmed", "snapshot"}
          /\ sales[o] = [x \in DOMAIN sales[o] |-> sales[o][x]]
      BY <2>1 DEF Insight!OrderRow
    <2>4. today \in Insight!NoDay .. ClockEnd
      BY <1>4, InsightConstants DEF Insight!NoDay
    <2>5. sales'[o] = [status |-> "confirmed", created |-> sales[o].created,
                       confirmed |-> today, snapshot |-> snapshot]
      BY <2>2, <2>3
    <2>6. /\ sales'[o] \in Insight!OrderRow /\ sales'[o].confirmed = today
          /\ sales'[o].created = sales[o].created
      BY <1>2, <2>3, <2>4, <2>5 DEF Insight!OrderRow
    <2> QED
      BY <1>3, <2>1, <2>6
  <1>6. Insight!TypeOK'
    BY <1>1, <1>3, <1>5 DEF Insight!TypeOK
  <1>7. ASSUME NEW p
        PROVE  Insight!SaleMonths(p)' \subseteq Insight!SaleMonths(p) \cup {Insight!Anchor}
    <2> SUFFICES ASSUME NEW x \in Sale, sales'[x].status = "confirmed",
                        p \in Insight!ProductsOf(x)
                 PROVE  Insight!MonthOf(Insight!At(sales'[x]))
                          \in Insight!SaleMonths(p) \cup {Insight!Anchor}
      BY DEF Insight!SaleMonths, Insight!Countable
    <2>1. CASE x = o
      <3>1. Insight!At(sales'[o]) = today
        BY <1>4, <1>5 DEF Insight!At, Insight!NoDay
      <3> QED
        BY <2>1, <3>1 DEF Insight!Anchor
    <2>2. CASE x # o
      BY <1>5, <2>2 DEF Insight!SaleMonths, Insight!Countable
    <2> QED
      BY <2>1, <2>2
  <1>8. Insight!ArePoints(table)'
    BY <1>3 DEF Insight!IInv
  <1>9. Insight!MadeByNow'
    BY <1>3, <1>5 DEF Insight!IInv, Insight!MadeByNow
  <1> QED
    BY <1>3, <1>4, <1>6, <1>7, <1>8, <1>9, InsightMarketInv

LEMMA InsightCancelInv ==
  ASSUME Insight!InsightAssumption, Insight!IInv, NEW o \in Sale, Insight!CancelOrder(o)
  PROVE  Insight!IInv'
  <1>1. Insight!TypeOK /\ today \in Nat
    BY InsightOrderRows DEF Insight!IInv
  <1>2. /\ today' = today /\ category' = category /\ table' = table /\ answer' = answer
        /\ sales' = [sales EXCEPT ![o].status = "cancelled"]
    BY DEF Insight!CancelOrder
  <1>3. /\ sales' \in [Sale -> Insight!OrderRow]
        /\ \A x \in Sale : x # o => sales'[x] = sales[x]
        /\ sales'[o].status = "cancelled" /\ sales'[o].created = sales[o].created
    <2>1. sales \in [Sale -> Insight!OrderRow] /\ sales[o] \in Insight!OrderRow
      BY <1>1 DEF Insight!TypeOK
    <2>2. sales'[o] = [sales[o] EXCEPT !.status = "cancelled"]
      BY <1>2, <2>1
    <2>3. /\ sales'[o] \in Insight!OrderRow /\ sales'[o].status = "cancelled"
          /\ sales'[o].created = sales[o].created
      BY <2>1, <2>2 DEF Insight!OrderRow
    <2> QED
      BY <1>2, <2>1, <2>3
  <1>4. Insight!TypeOK'
    BY <1>1, <1>2, <1>3 DEF Insight!TypeOK
  <1>5. \A p : Insight!SaleMonths(p)' \subseteq Insight!SaleMonths(p)
    <2>1. \A x \in Sale : sales'[x].status = "confirmed" => sales'[x] = sales[x]
      BY <1>3
    <2> QED
      BY <2>1 DEF Insight!SaleMonths, Insight!Countable
  <1>6. Insight!ArePoints(table)'
    BY <1>2 DEF Insight!IInv
  <1>7. Insight!MadeByNow'
    BY <1>2, <1>3 DEF Insight!IInv, Insight!MadeByNow
  <1> QED
    BY <1>1, <1>2, <1>4, <1>5, <1>6, <1>7, InsightMarketInv

\* Products that change category, months that end and refreshes of the table.
LEMMA InsightRestInv ==
  ASSUME Insight!InsightAssumption, Insight!IInv,
         \/ \E move \in Moves : Insight!UpdateCategory(move[1], move[2])
         \/ Insight!MonthPasses
         \/ \E m \in Refreshed : Insight!RefreshSalesMonthly(m)
  PROVE  Insight!IInv'
  <1>1. Insight!TypeOK /\ Insight!ArePoints(table) /\ today \in Nat /\ ClockEnd \in Nat
        /\ Today \in Nat /\ today \in Today .. ClockEnd
    BY InsightOrderRows, InsightConstants DEF Insight!IInv, Insight!TypeOK
  <1>2. answer' = answer /\ sales' = sales
    BY DEF Insight!UpdateCategory, Insight!MonthPasses, Insight!RefreshSalesMonthly
  <1>3. \A p : Insight!SaleMonths(p)' = Insight!SaleMonths(p)
    BY <1>2 DEF Insight!SaleMonths, Insight!Countable
  <1>4. today \in Nat /\ today' \in Nat /\ today =< today' => Insight!MadeByNow'
    <2>1. \A o \in Sale : sales[o].created \in Int /\ sales[o].created =< today
      BY <1>1, InsightOrderRows DEF Insight!IInv, Insight!MadeByNow, Insight!OrderRow
    <2> QED
      BY <1>2, <2>1 DEF Insight!MadeByNow
  <1>5. CASE \E move \in Moves : Insight!UpdateCategory(move[1], move[2])
    <2>1. PICK move \in Moves : Insight!UpdateCategory(move[1], move[2])
      BY <1>5
    <2>2. move[1] \in Article /\ move[2] \in Category
      BY InsightConstants
    <2>3. today' = today /\ table' = table
          /\ category' = [category EXCEPT ![move[1]] = move[2]]
      BY <2>1 DEF Insight!UpdateCategory
    <2>4. Insight!TypeOK'
      BY <1>1, <1>2, <2>2, <2>3 DEF Insight!TypeOK
    <2> QED
      BY <1>1, <1>2, <1>3, <1>4, <2>3, <2>4, InsightMarketInv
  <1>6. CASE Insight!MonthPasses
    <2>1. today' = today + 30 /\ today + 30 =< ClockEnd /\ category' = category /\ table' = table
      BY <1>6 DEF Insight!MonthPasses
    <2>2. Insight!TypeOK' /\ today =< today'
      BY <1>1, <1>2, <2>1 DEF Insight!TypeOK
    <2> QED
      BY <1>1, <1>2, <1>3, <1>4, <2>1, <2>2, InsightMarketInv
  <1>7. CASE \E m \in Refreshed : Insight!RefreshSalesMonthly(m)
    <2>1. PICK m \in Refreshed : Insight!RefreshSalesMonthly(m)
      BY <1>7
    <2>2. /\ today' = today /\ category' = category
          /\ table' = {x \in table : x.month # m} \cup Insight!Points(m)
      BY <2>1 DEF Insight!RefreshSalesMonthly
    <2>3. Insight!ArePoints(table')
      BY <1>1, <2>2, InsightConstants, InsightPoints, InsightPointsTogether
    <2>4. Insight!TypeOK'
      BY <1>1, <1>2, <2>2 DEF Insight!TypeOK
    <2> QED
      BY <1>1, <1>2, <1>3, <1>4, <2>2, <2>3, <2>4, InsightMarketInv
  <1> QED
    BY <1>5, <1>6, <1>7

LEMMA InsightNextInv ==
  ASSUME Insight!InsightAssumption, Insight!IInv, [Insight!Next]_(Insight!vars)
  PROVE  Insight!IInv'
  <1>1. CASE UNCHANGED Insight!vars
    <2>1. UNCHANGED Insight!market /\ answer' = answer /\ today =< today'
      BY <1>1, InsightOrderRows DEF Insight!vars, Insight!market, Insight!IInv
    <2>2. Insight!TypeOK'
      BY <2>1, InsightMarketRests DEF Insight!IInv, Insight!TypeOK
    <2> QED
      BY <2>1, <2>2, InsightMarketRests, InsightMarketInv
  <1>2. CASE \E b \in BOOLEAN : Insight!AskPerformance(b)
    <2>1. PICK b \in BOOLEAN : Insight!AskPerformance(b)
      BY <1>2
    <2> DEFINE to == IF b THEN Insight!Anchor ELSE Insight!Anchor - 1
    <2>2. /\ Insight!Anchor \in Nat /\ to \in Int /\ to - 11 \in Int
          /\ to - 11 =< Insight!Anchor
      BY InsightOrderRows DEF Insight!IInv
    <2>3. /\ UNCHANGED Insight!market
          /\ answer' = [Insight!NoAnswer EXCEPT !.kind = "performance", !.step = "now",
                          !.anchor = Insight!Anchor, !.from = to - 11, !.to = to]
      BY <2>1 DEF Insight!AskPerformance
    <2> HIDE DEF to
    <2> QED
      BY <2>2, <2>3, InsightAskInv
  <1>3. CASE \E n \in {1, 12} : Insight!AskDiagnosis(n)
    <2>1. PICK n \in {1, 12} : Insight!AskDiagnosis(n)
      BY <1>3
    <2>2. /\ Insight!Anchor \in Nat /\ Insight!Anchor \in Int
          /\ Insight!Anchor - n + 1 \in Int /\ Insight!Anchor - n + 1 =< Insight!Anchor
      BY InsightOrderRows DEF Insight!IInv
    <2>3. /\ UNCHANGED Insight!market
          /\ answer' = [Insight!NoAnswer EXCEPT !.kind = "diagnosis", !.step = "now",
                          !.anchor = Insight!Anchor, !.from = Insight!Anchor - n + 1,
                          !.to = Insight!Anchor]
      BY <2>1 DEF Insight!AskDiagnosis
    <2> QED
      BY <2>2, <2>3, InsightAskInv
  <1>4. CASE Insight!ReadCurrent \/ Insight!ReadPrior
    BY <1>4, InsightReadInv
  <1>5. CASE Insight!Conclude
    BY <1>5, InsightConcludeInv
  <1>6. CASE \E o \in Sale : Insight!ConfirmOrder(o) \/ Insight!CancelOrder(o)
    BY <1>6, InsightConfirmInv, InsightCancelInv
  <1>7. CASE \/ \E move \in Moves : Insight!UpdateCategory(move[1], move[2])
             \/ Insight!MonthPasses
             \/ \E m \in Refreshed : Insight!RefreshSalesMonthly(m)
    BY <1>7, InsightRestInv
  <1> QED
    BY <1>1, <1>2, <1>3, <1>4, <1>5, <1>6, <1>7 DEF Insight!Next, Insight!Reader
-----------------------------------------------------------------------------
(* Figures of different queries *)

\* When orders were made.
LEMMA InsightMade ==
  ASSUME Insight!InsightAssumption, Insight!IInv
  PROVE  /\ today \in Nat /\ Insight!Countable \in SUBSET Sale
         /\ \A o \in Sale : sales[o].created \in 0 .. today
         /\ \A os \in SUBSET Sale : os # {} =>
              /\ Insight!Min(Insight!Created(os)) \in 0 .. today
              /\ Insight!Max(Insight!Created(os)) \in 0 .. today
              /\ \A o \in os : /\ Insight!Min(Insight!Created(os)) =< sales[o].created
                               /\ sales[o].created =< Insight!Max(Insight!Created(os))
  <1>1. /\ today \in Nat /\ Insight!Countable \in SUBSET Sale
        /\ \A o \in Sale : sales[o].created \in 0 .. today
    <2>1. /\ today \in Nat /\ Insight!Countable \in SUBSET Sale
          /\ \A o \in Sale : sales[o] \in Insight!OrderRow
      BY InsightOrderRows DEF Insight!IInv
    <2>2. \A o \in Sale : sales[o].created \in 0 .. ClockEnd /\ sales[o].created =< today
      BY <2>1 DEF Insight!IInv, Insight!MadeByNow, Insight!OrderRow
    <2> QED
      BY <2>1, <2>2, InsightConstants
  <1>2. ASSUME NEW os \in SUBSET Sale, os # {}
        PROVE  /\ Insight!Min(Insight!Created(os)) \in 0 .. today
               /\ Insight!Max(Insight!Created(os)) \in 0 .. today
               /\ \A o \in os : /\ Insight!Min(Insight!Created(os)) =< sales[o].created
                                /\ sales[o].created =< Insight!Max(Insight!Created(os))
    <2>1. /\ Insight!Created(os) \in SUBSET (0 .. today) /\ Insight!Created(os) # {}
          /\ \A o \in os : sales[o].created \in Insight!Created(os)
      BY <1>1, <1>2 DEF Insight!Created
    <2> QED
      BY <1>1, <2>1, InsightExtremes
  <1> QED
    BY <1>1, <1>2

\* The risk list and the profile of a customer, and its tags as a prospect.
LEMMA InsightCustomer ==
  ASSUME Insight!InsightAssumption, Insight!IInv, NEW b \in Customer
  PROVE  LET ever == Insight!ByCustomer(Insight!Countable, b)
             now == Insight!ByCustomer(Insight!Between(today - 360, today), b)
             before == Insight!ByCustomer(Insight!Between(today - 720, today - 361), b)
             risk == Insight!Risk(b)
             profile == Insight!Profile(b)
         IN  /\ risk.status = "dormant" <=> Insight!Dormant(ever)
             /\ ever # {} => (risk.status = "new" <=> ~Insight!Dormant(ever)
                               /\ today - Insight!Min(Insight!Created(ever)) =< 90)
             /\ risk.revenue = Insight!Paid(now) /\ profile.revenue = Insight!Paid(now)
             /\ risk.prior = Insight!Paid(before) /\ profile.prior = Insight!Paid(before)
             /\ risk.orders = Insight!Cardinality(now)
             /\ profile.orders = Insight!Cardinality(now)
             /\ risk.priorOrders = Insight!Cardinality(before)
             /\ profile.priorOrders = Insight!Cardinality(before)
             /\ before # {} => risk.expanded = Insight!Categories(now) \ Insight!Categories(before)
             /\ before = {} => risk.expanded = {}
             /\ profile.new = Insight!NewCategories(b)
             /\ profile.dormant = Insight!Dormant(ever)
             /\ DOMAIN profile.categories =
                  {category[p] : p \in UNION {Insight!ProductsOf(o) : o \in now}} \ {NoCategory}
  <1> DEFINE ever == Insight!ByCustomer(Insight!Countable, b)
             now == Insight!ByCustomer(Insight!Between(today - 360, today), b)
             before == Insight!ByCustomer(Insight!Between(today - 720, today - 361), b)
             risk == Insight!Risk(b)
             profile == Insight!Profile(b)
  <1>1. today \in Nat /\ today - 2 * 360 = today - 720 /\ today - 360 - 1 = today - 361
    BY InsightMade
  <1>2. /\ risk.status = Insight!RiskStatus(b)
        /\ risk.revenue = Insight!Paid(now) /\ risk.prior = Insight!Paid(before)
        /\ risk.orders = Insight!Cardinality(now)
        /\ risk.priorOrders = Insight!Cardinality(before)
        /\ before # {} => risk.expanded = Insight!Categories(now) \ Insight!Categories(before)
        /\ before = {} => risk.expanded = {}
    BY DEF Insight!Risk
  <1>3. /\ Insight!RiskStatus(b) = "dormant" <=> Insight!Dormant(ever)
        /\ ever # {} => (Insight!RiskStatus(b) = "new" <=> ~Insight!Dormant(ever)
                               /\ today - Insight!Min(Insight!Created(ever)) =< 90)
    BY DEF Insight!RiskStatus, Insight!Dormant
  <1>4. Insight!Between(today - 2 * 360, today - 360 - 1) = Insight!Between(today - 720, today - 361)
    BY <1>1
  <1>5. /\ profile.revenue = Insight!Paid(now) /\ profile.prior = Insight!Paid(before)
        /\ profile.orders = Insight!Cardinality(now)
        /\ profile.priorOrders = Insight!Cardinality(before)
        /\ profile.new = Insight!NewCategories(b)
        /\ profile.dormant = Insight!Dormant(ever)
        /\ DOMAIN profile.categories =
             {category[p] : p \in UNION {Insight!ProductsOf(o) : o \in now}} \ {NoCategory}
    BY <1>4 DEF Insight!Profile
  <1> HIDE DEF ever, now, before, risk, profile
  <1>6. QED
    BY <1>2, <1>3, <1>5 DEF ever, now, before, risk, profile

\* A category that is new to a customer with a last year is one the customer
\* expanded into.
LEMMA InsightNewIsExpanded ==
  ASSUME Insight!InsightAssumption, Insight!IInv, NEW b \in Customer,
         NEW c \in Insight!NewCategories(b) \cap Insight!Merchandise
  PROVE  /\ c \in Insight!Categories(Insight!ByCustomer(Insight!Between(today - 360, today), b))
         /\ c \notin Insight!Categories(
                       Insight!ByCustomer(Insight!Between(today - 720, today - 361), b))
  <1> DEFINE ever == Insight!ByCustomer(Insight!Countable, b)
             os == Insight!In(ever, c)
             now == Insight!ByCustomer(Insight!Between(today - 360, today), b)
             before == Insight!ByCustomer(Insight!Between(today - 720, today - 361), b)
  <1>1. os # {} /\ Insight!Min(Insight!Created(os)) >= today - 90
    BY DEF Insight!NewCategories
  <1>2. os \in SUBSET Sale /\ ever \in SUBSET Sale /\ today \in Nat
    BY InsightMade DEF Insight!In, Insight!ByCustomer
  <1>3. \A o \in os : sales[o].created >= today - 90 /\ sales[o].created \in 0 .. today
    <2> HIDE DEF os
    <2>1. \A o \in os : /\ sales[o].created \in 0 .. today
                        /\ Insight!Min(Insight!Created(os)) =< sales[o].created
                        /\ Insight!Min(Insight!Created(os)) \in 0 .. today
      BY <1>1, <1>2, InsightMade
    <2> QED
      BY <1>1, <1>2, <2>1
  <1>4. c \in Insight!Categories(now)
    <2>1. PICK o \in os : TRUE
      BY <1>1
    <2>2. o \in ever /\ \E p \in Insight!ProductsOf(o) : category[p] = c
      BY <2>1 DEF Insight!In
    <2>3. sales[o].created \in today - 360 .. today
      BY <1>2, <1>3, <2>1
    <2>4. o \in now
      BY <2>2, <2>3 DEF Insight!ByCustomer, Insight!Between
    <2> HIDE DEF now
    <2> QED
      BY <2>2, <2>4 DEF Insight!Categories
  <1>5. c \notin Insight!Categories(before)
    <2> SUFFICES ASSUME c \in Insight!Categories(before) PROVE FALSE
      OBVIOUS
    <2>1. PICK o \in before : \E p \in Insight!ProductsOf(o) : category[p] = c
      BY DEF Insight!Categories
    <2>2. o \in ever /\ sales[o].created \in today - 720 .. today - 361
      BY <2>1 DEF Insight!ByCustomer, Insight!Between
    <2>3. o \in os
      BY <2>1, <2>2 DEF Insight!In
    <2> QED
      BY <1>2, <1>3, <2>2, <2>3
  <1> QED
    BY <1>4, <1>5

LEMMA InsightProspectTags ==
  ASSUME NEW t, NEW c, NEW b
  PROVE  LET ever == Insight!ByCustomer(Insight!Countable, b)
             tags == Insight!ProspectTags(t, c, b)
         IN  /\ "dormant" \in tags <=> today - Insight!Max(Insight!Created(ever)) > 90
             /\ "new_customer" \in tags <=> today - Insight!Min(Insight!Created(ever)) =< 90
             /\ "recent_activity" \in Insight!ProspectReasons(t, c, b)
                   <=> today - Insight!Max(Insight!Created(ever)) =< 90
  <1>1. LET created == Insight!Created(Insight!ByCustomer(Insight!Countable, b))
        IN  /\ "dormant" \in Insight!ProspectTags(t, c, b) <=> today - Insight!Max(created) > 90
            /\ "new_customer" \in Insight!ProspectTags(t, c, b) <=> today - Insight!Min(created) =< 90
    BY DEF Insight!ProspectTags
  <1>2. "recent_activity" \in Insight!ProspectReasons(t, c, b)
          <=> today - Insight!Max(Insight!Created(Insight!ByCustomer(Insight!Countable, b))) =< 90
    BY DEF Insight!ProspectReasons
  <1> QED
    BY <1>1, <1>2

LEMMA InsightSeenAlike ==
  ASSUME Insight!InsightAssumption, Insight!IInv
  PROVE  Insight!CustomersAreSeenAlike
  <1> SUFFICES ASSUME NEW b \in Customer
               PROVE  LET risk == Insight!Risk(b)
                          profile == Insight!Profile(b)
                      IN  /\ risk.status = "dormant" <=> profile.dormant
                          /\ risk.revenue = profile.revenue /\ risk.prior = profile.prior
                          /\ risk.orders = profile.orders
                          /\ risk.priorOrders = profile.priorOrders
                          /\ risk.priorOrders > 0
                               => profile.new \cap Insight!Merchandise \subseteq risk.expanded
                          /\ risk.expanded \subseteq DOMAIN profile.categories
                          /\ \A c \in Insight!Available("all") : b \in Insight!Prospects("all", c) =>
                               LET tags == Insight!ProspectTags("all", c, b)
                               IN  /\ "dormant" \in tags => profile.dormant
                                   /\ risk.status = "new"
                                        <=> "new_customer" \in tags /\ ~profile.dormant
                                   /\ "dormant" \in tags <=> "recent_activity"
                                        \notin Insight!ProspectReasons("all", c, b)
    BY DEF Insight!CustomersAreSeenAlike
  <1> DEFINE ever == Insight!ByCustomer(Insight!Countable, b)
             now == Insight!ByCustomer(Insight!Between(today - 360, today), b)
             before == Insight!ByCustomer(Insight!Between(today - 720, today - 361), b)
             risk == Insight!Risk(b)
             profile == Insight!Profile(b)
  <1>1. /\ risk.status = "dormant" <=> Insight!Dormant(ever)
        /\ ever # {} => (risk.status = "new" <=> ~Insight!Dormant(ever)
                          /\ today - Insight!Min(Insight!Created(ever)) =< 90)
        /\ risk.revenue = profile.revenue /\ risk.prior = profile.prior
        /\ risk.orders = profile.orders
        /\ risk.priorOrders = profile.priorOrders
        /\ risk.priorOrders = Insight!Cardinality(before)
        /\ before # {} => risk.expanded = Insight!Categories(now) \ Insight!Categories(before)
        /\ before = {} => risk.expanded = {}
        /\ profile.new = Insight!NewCategories(b)
        /\ profile.dormant = Insight!Dormant(ever)
        /\ DOMAIN profile.categories =
             {category[p] : p \in UNION {Insight!ProductsOf(o) : o \in now}} \ {NoCategory}
    BY InsightCustomer
  <1>2. \A c \in profile.new \cap Insight!Merchandise :
          c \in Insight!Categories(now) /\ c \notin Insight!Categories(before)
    BY <1>1, InsightNewIsExpanded
  <1>3. before = {} => Insight!Cardinality(before) = 0
    BY InsightLibrary, FS_EmptySet
  <1>4. Insight!Categories(now) \subseteq
          {category[p] : p \in UNION {Insight!ProductsOf(o) : o \in now}} \ {NoCategory}
    BY InsightConstants DEF Insight!Categories, Insight!Merchandise
  <1>5. ASSUME NEW c, b \in Insight!Prospects("all", c)
        PROVE  /\ ever # {} /\ ever \in SUBSET Sale
               /\ Insight!Max(Insight!Created(ever)) \in Int
               /\ today \in Int
    <2>1. Insight!Categories(ever) # {}
      BY <1>5 DEF Insight!Prospects
    <2>2. ever # {}
      BY <2>1 DEF Insight!Categories
    <2>3. ever \in SUBSET Sale
      BY InsightMade DEF Insight!ByCustomer
    <2> HIDE DEF ever
    <2> QED
      BY <2>2, <2>3, InsightMade
  <1>6. ASSUME NEW c, b \in Insight!Prospects("all", c)
        PROVE  LET tags == Insight!ProspectTags("all", c, b)
               IN  /\ "dormant" \in tags => profile.dormant
                   /\ risk.status = "new" <=> "new_customer" \in tags /\ ~profile.dormant
                   /\ "dormant" \in tags <=> "recent_activity"
                        \notin Insight!ProspectReasons("all", c, b)
    <2> DEFINE tags == Insight!ProspectTags("all", c, b)
               reasons == Insight!ProspectReasons("all", c, b)
    <2>1. /\ "dormant" \in tags <=> today - Insight!Max(Insight!Created(ever)) > 90
          /\ "new_customer" \in tags <=> today - Insight!Min(Insight!Created(ever)) =< 90
          /\ "recent_activity" \in reasons
                <=> today - Insight!Max(Insight!Created(ever)) =< 90
      BY InsightProspectTags
    <2>2. ever # {} /\ today - Insight!Max(Insight!Created(ever)) \in Int
      BY <1>5, <1>6
    <2>3. Insight!Dormant(ever) <=> today - Insight!Max(Insight!Created(ever)) > 60
      BY <2>2 DEF Insight!Dormant
    <2> HIDE DEF tags, reasons, ever, risk, profile
    <2>4. /\ "dormant" \in tags => profile.dormant
          /\ "dormant" \in tags <=> "recent_activity" \notin reasons
      BY <1>1, <2>1, <2>2, <2>3
    <2>5. risk.status = "new" <=> "new_customer" \in tags /\ ~profile.dormant
      BY <1>1, <2>1, <2>2
    <2> QED
      BY <2>4, <2>5 DEF tags, reasons
  <1> HIDE DEF ever, now, before, risk, profile
  <1>7. risk.priorOrders > 0 => profile.new \cap Insight!Merchandise \subseteq risk.expanded
    BY <1>1, <1>2, <1>3
  <1>8. risk.expanded \subseteq DOMAIN profile.categories
    BY <1>1, <1>4
  <1> QED
    BY <1>1, <1>6, <1>7, <1>8 DEF risk, profile

\* The lines of some orders.
SaleLines == {op \in Sale \X Article : op[2] \in Insight!ProductsOf(op[1])}

LEMMA InsightLines ==
  ASSUME Insight!InsightAssumption, NEW ops \in SUBSET SaleLines
  PROVE  /\ IsFiniteSet(ops) /\ Insight!LineRevenue(ops) \in Nat
         /\ [op \in ops |-> Charged[op[1]][op[2]]] \in [ops -> Nat]
         /\ Insight!LineRevenue(ops) = SumOf([op \in ops |-> Charged[op[1]][op[2]]], ops)
  <1> DEFINE w == [op \in ops |-> Charged[op[1]][op[2]]]
  <1>1. IsFiniteSet(ops)
    <2>1. IsFiniteSet(Sale \X Article)
      BY InsightConstants, FS_Product
    <2> QED
      BY <2>1, FS_Subset DEF SaleLines
  <1>2. w \in [ops -> Nat]
    BY InsightConstants DEF SaleLines
  <1>3. Insight!LineRevenue(ops) = Insight!SumOf(w, ops)
    BY DEF Insight!LineRevenue
  <1> HIDE DEF w
  <1>4. Insight!SumOf(w, ops) \in Nat /\ Insight!SumOf(w, ops) = SumOf(w, ops)
    BY <1>1, <1>2, InsightNaturals, InsightSums
  <1> QED
    BY <1>1, <1>2, <1>3, <1>4 DEF w

\* What lines brought in is what their parts did.
LEMMA InsightLinesByPart ==
  ASSUME Insight!InsightAssumption, NEW ops \in SUBSET SaleLines,
         NEW Q, IsFiniteSet(Q), NEW h \in [ops -> Q], NEW v, v = [q \in Q |-> v[q]],
         \A q \in Q : v[q] = Insight!LineRevenue({op \in ops : h[op] = q})
  PROVE  Insight!SumOf(v, Q) = Insight!LineRevenue(ops)
  <1> DEFINE w == [op \in ops |-> Charged[op[1]][op[2]]]
  <1>1. /\ IsFiniteSet(ops) /\ w \in [ops -> Int]
        /\ Insight!LineRevenue(ops) = SumOf(w, ops)
    BY InsightLines
  <1>2. ASSUME NEW q \in Q
        PROVE  v[q] = SumOf(w, With(h, ops, {q})) /\ v[q] \in Int
    <2> DEFINE some == {op \in ops : h[op] = q}
               u == [op \in some |-> Charged[op[1]][op[2]]]
    <2>1. some \in SUBSET SaleLines /\ some \subseteq ops /\ some = With(h, ops, {q})
      BY DEF With
    <2>2. \A op \in some : u[op] = w[op]
      BY <2>1
    <2>3. IsFiniteSet(some) /\ u \in [some -> Int] /\ v[q] = SumOf(u, some) /\ v[q] \in Int
      <3> HIDE DEF some
      <3> QED
        BY <2>1, InsightLines DEF some
    <2> HIDE DEF some, u, w
    <2>4. SumOf(u, some) = SumOf(w, some)
      BY <1>1, <2>1, <2>2, <2>3, SamePart
    <2> QED
      BY <2>1, <2>3, <2>4
  <1> HIDE DEF w
  <1>3. v \in [Q -> Int]
    BY <1>2
  <1>4. ArePartsOf(v, Q, w, ops, h)
    BY <1>1, <1>2, <1>3 DEF ArePartsOf
  <1> QED
    BY <1>1, <1>4, SumOfParts, InsightSums

\* The amount of an order, and what a product earned, by lines.
LEMMA InsightAmount ==
  ASSUME Insight!InsightAssumption, NEW o \in Sale
  PROVE  Insight!Amount(o) = Insight!LineRevenue({op \in SaleLines : op[1] = o})
  <1> DEFINE P == Insight!ProductsOf(o)
             ops == {op \in SaleLines : op[1] = o}
             w == [op \in ops |-> Charged[op[1]][op[2]]]
             g == [p \in P |-> <<o, p>>]
             v == Charged[o]
  <1>1. P \subseteq Article /\ IsFiniteSet(P) /\ v \in [P -> Int]
    <2>1. P \subseteq Article /\ IsFiniteSet(P)
      BY InsightConstants, FS_Subset
    <2>2. v \in [P -> Nat]
      BY DEF Insight!InsightAssumption, Insight!ProductsOf
    <2> QED
      BY <2>1, <2>2
  <1>2. /\ ops \in SUBSET SaleLines
        /\ \A op \in ops : op[2] \in P /\ op = <<o, op[2]>>
        /\ \A p \in P : <<o, p>> \in ops /\ g[p] = <<o, p>>
    BY <1>1 DEF SaleLines
  <1>3. IsFiniteSet(ops) /\ w \in [ops -> Int] /\ Insight!LineRevenue(ops) = SumOf(w, ops)
    <2> HIDE DEF ops
    <2>1. /\ IsFiniteSet(ops) /\ w \in [ops -> Nat]
          /\ Insight!LineRevenue(ops) = SumOf(w, ops)
      BY <1>2, InsightLines
    <2> HIDE DEF w
    <2> QED
      BY <2>1
  <1>4. g \in [P -> ops] /\ \A p, q \in P : g[p] = g[q] => p = q
    BY <1>2
  <1>5. \A p \in P : v[p] = w[g[p]]
    BY <1>2
  <1>6. ImageOf(g, P) = ops
    <2> HIDE DEF ops, P
    <2> QED
      BY <1>2, <1>4 DEF ImageOf
  <1> HIDE DEF P, ops, w, g, v
  <1>7. SumOf(v, P) = SumOf(w, ops)
    BY <1>1, <1>3, <1>4, <1>5, <1>6, Renamed
  <1> QED
    BY <1>3, <1>7, InsightSums DEF Insight!Amount, P, v, ops

LEMMA InsightEarnedLines ==
  ASSUME Insight!InsightAssumption, NEW p \in Article, NEW os \in SUBSET Sale,
         \A o \in os : p \in Insight!ProductsOf(o)
  PROVE  Insight!Earned(p, os) = Insight!LineRevenue({op \in SaleLines : op[1] \in os /\ op[2] = p})
  <1> DEFINE ops == {op \in SaleLines : op[1] \in os /\ op[2] = p}
             w == [op \in ops |-> Charged[op[1]][op[2]]]
             g == [o \in os |-> <<o, p>>]
             v == [o \in os |-> Charged[o][p]]
  <1>1. IsFiniteSet(os) /\ v \in [os -> Int]
    <2>1. v \in [os -> Nat]
      BY InsightEarned
    <2> QED
      BY <2>1, InsightEarned
  <1>2. /\ ops \in SUBSET SaleLines
        /\ \A op \in ops : op[1] \in os /\ op = <<op[1], p>>
        /\ \A o \in os : <<o, p>> \in ops /\ g[o] = <<o, p>>
    BY DEF SaleLines
  <1>3. IsFiniteSet(ops) /\ w \in [ops -> Int] /\ Insight!LineRevenue(ops) = SumOf(w, ops)
    <2> HIDE DEF ops
    <2>1. /\ IsFiniteSet(ops) /\ w \in [ops -> Nat]
          /\ Insight!LineRevenue(ops) = SumOf(w, ops)
      BY <1>2, InsightLines
    <2> HIDE DEF w
    <2> QED
      BY <2>1
  <1>4. g \in [os -> ops] /\ \A x, y \in os : g[x] = g[y] => x = y
    BY <1>2
  <1>5. \A o \in os : v[o] = w[g[o]]
    BY <1>2
  <1>6. ImageOf(g, os) = ops
    <2> HIDE DEF ops
    <2> QED
      BY <1>2, <1>4 DEF ImageOf
  <1>7. Insight!Earned(p, os) = SumOf(v, os)
    BY InsightSums DEF Insight!Earned
  <1> HIDE DEF ops, w, g, v
  <1>8. SumOf(v, os) = SumOf(w, ops)
    BY <1>1, <1>3, <1>4, <1>5, <1>6, Renamed
  <1> QED
    BY <1>3, <1>7, <1>8 DEF ops

\* What orders paid.
LEMMA InsightPaid ==
  ASSUME Insight!InsightAssumption, NEW os \in SUBSET Sale
  PROVE  /\ Insight!Paid(os) = Insight!LineRevenue({op \in SaleLines : op[1] \in os})
         /\ Insight!Paid(os) \in Nat
         /\ os = {} => Insight!Paid(os) = 0
  <1> DEFINE ops == {op \in SaleLines : op[1] \in os}
             h == [op \in ops |-> op[1]]
             v == [o \in os |-> Insight!Amount(o)]
  <1>1. ops \in SUBSET SaleLines /\ h \in [ops -> os] /\ IsFiniteSet(os)
    BY InsightConstants, FS_Subset
  <1>2. ASSUME NEW o \in os
        PROVE  v[o] = Insight!LineRevenue({op \in ops : h[op] = o})
    <2>1. {op \in ops : h[op] = o} = {op \in SaleLines : op[1] = o}
      OBVIOUS
    <2> QED
      BY <2>1, InsightAmount
  <1>3. Insight!Paid(os) = Insight!SumOf(v, os)
    BY DEF Insight!Paid
  <1>4. Insight!LineRevenue(ops) \in Nat
    BY <1>1, InsightLines
  <1>5. v = [o \in os |-> v[o]]
    OBVIOUS
  <1>6. os = {} => Insight!Paid(os) = 0
    <2>1. v \in [os -> Int] => SumsUp(v, os)
      BY <1>1, SumLaws
    <2>2. SumsUp(v, os) => SumOf(v, {}) = 0
      BY DEF SumsUp
    <2>3. os = {} => v \in [os -> Int]
      OBVIOUS
    <2> HIDE DEF v
    <2> QED
      BY <1>3, <2>1, <2>2, <2>3, InsightSums
  <1> HIDE DEF ops, h, v
  <1>7. Insight!SumOf(v, os) = Insight!LineRevenue(ops)
    BY <1>1, <1>2, <1>5, InsightLinesByPart
  <1> QED
    BY <1>3, <1>4, <1>6, <1>7 DEF ops

\* Customers of windows, and their number.
LEMMA InsightBuyers ==
  ASSUME Insight!InsightAssumption, NEW os \in SUBSET Sale
  PROVE  /\ Insight!Buyers(os) \in SUBSET Customer /\ IsFiniteSet(Insight!Buyers(os))
         /\ \A b : b \in Insight!Buyers(os) <=> \E o \in os : BuyerOf[o] = b
  <1>1. Insight!Buyers(os) \in SUBSET Customer
    BY InsightConstants DEF Insight!Buyers
  <1>2. IsFiniteSet(Insight!Buyers(os))
    BY <1>1, InsightConstants, FS_Subset
  <1> QED
    BY <1>1, <1>2 DEF Insight!Buyers

LEMMA InsightWindows ==
  ASSUME Insight!InsightAssumption, Insight!IInv, NEW n \in Nat
  PROVE  /\ Insight!Current(n) \in SUBSET Sale /\ Insight!Prior(n) \in SUBSET Sale
         /\ Insight!Current(n) \subseteq Insight!Countable
         /\ Insight!Prior(n) \subseteq Insight!Countable
         /\ Insight!Current(n) \cap Insight!Prior(n) = {}
         /\ \A os, c : Insight!In(os, c) \subseteq os
         /\ \A os, qs, c : os \subseteq qs => Insight!In(os, c) \subseteq Insight!In(qs, c)
         /\ \A os, qs, c : Insight!In(os, c) \cap qs \subseteq Insight!In(qs, c)
  <1>1. today \in Nat /\ Insight!Countable \in SUBSET Sale
        /\ \A o \in Sale : sales[o].created \in 0 .. today
    BY InsightMade
  <1>2. Insight!Current(n) \cap Insight!Prior(n) = {}
    <2> SUFFICES ASSUME NEW o \in Insight!Current(n) \cap Insight!Prior(n) PROVE FALSE
      OBVIOUS
    <2>1. /\ sales[o].created \in today - n .. today
          /\ sales[o].created \in today - 2 * n .. today - n - 1
      BY DEF Insight!Current, Insight!Prior, Insight!Between
    <2> QED
      BY <1>1, <2>1
  <1> QED
    BY <1>1, <1>2 DEF Insight!Current, Insight!Prior, Insight!Between, Insight!In

LEMMA InsightSpent ==
  ASSUME Insight!InsightAssumption, NEW os \in SUBSET Sale, NEW c
  PROVE  Insight!Spent(os, c) \in Nat
  <1> DEFINE of(o) == {p \in Insight!ProductsOf(o) : category[p] = c}
             w == [o \in os |-> Insight!SumOf(Charged[o], of(o))]
  <1>1. ASSUME NEW o \in os
        PROVE  Insight!SumOf(Charged[o], of(o)) \in Nat
    <2>1. IsFiniteSet(Insight!ProductsOf(o)) /\ of(o) \in SUBSET Insight!ProductsOf(o)
      BY InsightConstants, FS_Subset
    <2>2. Charged[o] \in [Insight!ProductsOf(o) -> Nat]
      BY DEF Insight!InsightAssumption, Insight!ProductsOf
    <2> HIDE DEF of
    <2> QED
      BY <2>1, <2>2, NaturalSums, InsightSums
  <1>2. IsFiniteSet(os)
    BY InsightConstants, FS_Subset
  <1> HIDE DEF of
  <1>3. w \in [os -> Nat]
    BY <1>1
  <1>4. Insight!Spent(os, c) = Insight!SumOf(w, os)
    BY DEF Insight!Spent, of
  <1> HIDE DEF w
  <1> QED
    BY <1>2, <1>3, <1>4, InsightNaturals

\* A current customer of a category is new to it or was there before; who was there
\* before has stayed or churned.
LEMMA InsightTrendFigures ==
  ASSUME Insight!InsightAssumption, Insight!IInv, NEW n \in Nat,
         NEW c \in DOMAIN Insight!Trends(n)
  PROVE  LET t == Insight!Trends(n)[c]
         IN  /\ t.new + (t.priorCustomers - t.churned) =< t.customers
             /\ t.customers =< Insight!Cardinality(Insight!ExistingBuyers("all", c))
             /\ c \in Insight!GrowthSignals(n) => t.revenue > t.prior
  <1> DEFINE N == Insight!NewCustomers(n, c)
             P == Insight!Buyers(Insight!In(Insight!Prior(n), c))
             C == Insight!Buyers(Insight!In(Insight!Current(n), c))
             E == Insight!ExistingBuyers("all", c)
             now == Insight!Spent(Insight!In(Insight!Current(n), c), c)
             before == Insight!Spent(Insight!In(Insight!Prior(n), c), c)
             t == Insight!Trends(n)[c]
  <1>1. /\ Insight!Trends(n)[c] = Insight!Trend(n, c)
        /\ t.new = Insight!Cardinality(N) /\ t.priorCustomers = Insight!Cardinality(P)
        /\ t.churned = Insight!Cardinality(P \ C) /\ t.customers = Insight!Cardinality(C)
        /\ t.revenue = now /\ t.prior = before
        /\ t.trend = "growing" => before > 0 /\ 10 * now > 11 * before
    <2>1. Insight!Trends(n)[c] = Insight!Trend(n, c)
      BY DEF Insight!Trends
    <2> QED
      BY <2>1 DEF Insight!Trend, Insight!ChurnedCustomers
  <1>2. now \in Nat /\ before \in Nat
    <2>1. /\ Insight!In(Insight!Current(n), c) \in SUBSET Sale
          /\ Insight!In(Insight!Prior(n), c) \in SUBSET Sale
      BY InsightWindows
    <2> QED
      BY <2>1, InsightSpent
  <1>3. /\ IsFiniteSet(P) /\ IsFiniteSet(C) /\ C \in SUBSET Customer
        /\ \A b : b \in P <=> \E o \in Insight!In(Insight!Prior(n), c) : BuyerOf[o] = b
        /\ \A b : b \in C <=> \E o \in Insight!In(Insight!Current(n), c) : BuyerOf[o] = b
    <2>1. /\ Insight!In(Insight!Current(n), c) \in SUBSET Sale
          /\ Insight!In(Insight!Prior(n), c) \in SUBSET Sale
      BY InsightWindows
    <2> QED
      BY <2>1, InsightBuyers
  <1>4. \A b : b \in N <=> /\ \E o \in Insight!In(Insight!Countable, c) : BuyerOf[o] = b
                           /\ \A o \in Insight!In(Insight!Countable, c) :
                                BuyerOf[o] = b => o \in Insight!Current(n)
    BY DEF Insight!NewCustomers, Insight!Buyers
  <1>5. N \subseteq C
    <2> SUFFICES ASSUME NEW b \in N PROVE b \in C
      OBVIOUS
    <2>1. PICK o \in Insight!In(Insight!Countable, c) : BuyerOf[o] = b /\ o \in Insight!Current(n)
      BY <1>4
    <2>2. o \in Insight!In(Insight!Current(n), c)
      BY <2>1, InsightWindows
    <2> QED
      BY <1>3, <2>1, <2>2
  <1>6. N \cap P = {}
    <2> SUFFICES ASSUME NEW b \in N, b \in P PROVE FALSE
      OBVIOUS
    <2>1. PICK o \in Insight!In(Insight!Prior(n), c) : BuyerOf[o] = b
      BY <1>3
    <2>2. o \in Insight!Prior(n) /\ o \in Insight!In(Insight!Countable, c)
      BY <2>1, InsightWindows
    <2> QED
      BY <1>4, <2>1, <2>2, InsightWindows
  <1>7. C \subseteq E /\ IsFiniteSet(E)
    <2>1. Insight!In(Insight!Countable, c) \in SUBSET Sale
          /\ Insight!In(Insight!Current(n), c) \subseteq Insight!In(Insight!Countable, c)
      BY InsightMade, InsightWindows
    <2>2. \A b : b \in Insight!Buyers(Insight!In(Insight!Countable, c))
                   <=> \E o \in Insight!In(Insight!Countable, c) : BuyerOf[o] = b
      BY <2>1, InsightBuyers
    <2>3. E = Insight!Buyers(Insight!In(Insight!Countable, c)) \cap Customer
      BY DEF Insight!ExistingBuyers, Insight!OfType
    <2>4. IsFiniteSet(E)
      BY <2>3, InsightConstants, FS_Subset
    <2> QED
      BY <1>3, <2>1, <2>2, <2>3, <2>4
  <1> HIDE DEF N, P, C, E, now, before, t
  <1>8. Cardinality(N) + (Cardinality(P) - Cardinality(P \ C)) =< Cardinality(C)
    <2>1. IsFiniteSet(N) /\ N \in SUBSET C /\ P \cap C \in SUBSET C
          /\ IsFiniteSet(P \cap C)
      BY <1>3, <1>5, FS_Subset
    <2>2. Cardinality(P \ C) = Cardinality(P) - Cardinality(P \cap C)
      BY <1>3, FS_Difference
    <2>3. /\ N \cap (P \cap C) = {} /\ N \cup (P \cap C) \in SUBSET C
      BY <1>5, <1>6
    <2>4. Cardinality(N \cup (P \cap C))
            = Cardinality(N) + Cardinality(P \cap C) - Cardinality(N \cap (P \cap C))
      BY <2>1, FS_Union
    <2>5. Cardinality(N \cap (P \cap C)) = 0
      BY <2>3, FS_EmptySet
    <2>6. Cardinality(N \cup (P \cap C)) =< Cardinality(C)
      BY <1>3, <2>3, FS_Subset
    <2>7. /\ Cardinality(N) \in Nat /\ Cardinality(P) \in Nat /\ Cardinality(C) \in Nat
          /\ Cardinality(P \cap C) \in Nat /\ Cardinality(P \ C) \in Nat
      BY <1>3, <2>1, FS_CardinalityType, FS_Difference
    <2> QED
      BY <2>2, <2>4, <2>5, <2>6, <2>7
  <1>9. Cardinality(C) =< Cardinality(E)
    BY <1>7, FS_Subset
  <1>10. ASSUME c \in Insight!GrowthSignals(n) PROVE now > before
    <2>1. Insight!Trends(n)[c].trend = "growing"
      BY <1>10 DEF Insight!GrowthSignals
    <2> QED
      BY <1>1, <1>2, <2>1 DEF t
  <1> QED
    BY <1>1, <1>8, <1>9, <1>10, InsightLibrary DEF t, E

LEMMA InsightConcentrated ==
  ASSUME Insight!InsightAssumption, Insight!IInv, NEW n \in Nat
  PROVE  Insight!Concentrated(n) \subseteq Insight!Buyers(Insight!Current(n))
  <1> SUFFICES ASSUME NEW b \in Insight!Concentrated(n)
               PROVE  b \in Insight!Buyers(Insight!Current(n))
    OBVIOUS
  <1> DEFINE whole == Insight!Paid(Insight!Current(n))
             own == Insight!ByCustomer(Insight!Current(n), b)
  <1>1. whole > 0 /\ 10 * Insight!Paid(own) > 3 * whole
    BY DEF Insight!Concentrated
  <1>2. Insight!Current(n) \in SUBSET Sale /\ own \in SUBSET Sale
    BY InsightWindows DEF Insight!ByCustomer
  <1>3. /\ whole \in Nat /\ Insight!Paid(own) \in Nat
        /\ own = {} => Insight!Paid(own) = 0
    BY <1>2, InsightPaid
  <1> HIDE DEF own, whole
  <1>4. own # {}
    BY <1>1, <1>3
  <1>5. PICK o \in own : TRUE
    BY <1>4
  <1> QED
    BY <1>5 DEF own, Insight!ByCustomer, Insight!Buyers

\* What the products of a window brought in is what its orders paid.
LEMMA InsightTopProducts ==
  ASSUME Insight!InsightAssumption, Insight!IInv, NEW n \in Nat
  PROVE  LET top == Insight!TopProducts(n)
         IN  Insight!SumOf([p \in DOMAIN top |-> top[p].revenue], DOMAIN top)
                = Insight!Paid(Insight!Current(n))
  <1> DEFINE os == Insight!Current(n)
             top == Insight!TopProducts(n)
             Q == UNION {Insight!ProductsOf(o) : o \in os}
             ops == {op \in SaleLines : op[1] \in os}
             h == [op \in ops |-> op[2]]
             v == [p \in Q |-> top[p].revenue]
             Of(p) == {o \in os : p \in Insight!ProductsOf(o)}
  <1>1. os \in SUBSET Sale
    BY InsightWindows
  <1>2. DOMAIN top = Q /\ \A p \in Q : top[p].revenue = Insight!Earned(p, Of(p))
    BY DEF Insight!TopProducts
  <1> HIDE DEF os, top
  <1>3. Q \subseteq Article /\ IsFiniteSet(Q)
    <2>1. Q \subseteq Article
      BY <1>1, InsightConstants
    <2> HIDE DEF Q
    <2> QED
      BY <2>1, InsightConstants, FS_Subset
  <1>4. ops \in SUBSET SaleLines /\ h \in [ops -> Q]
    BY DEF SaleLines
  <1>5. ASSUME NEW p \in Q
        PROVE  v[p] = Insight!LineRevenue({op \in ops : h[op] = p})
    <2>1. {op \in ops : h[op] = p} = {op \in SaleLines : op[1] \in Of(p) /\ op[2] = p}
      BY DEF SaleLines
    <2>2. Of(p) \in SUBSET Sale /\ \A o \in Of(p) : p \in Insight!ProductsOf(o)
      BY <1>1
    <2>3. p \in Article
      BY <1>3
    <2>4. v[p] = Insight!Earned(p, Of(p))
      BY <1>2
    <2> HIDE DEF Of, v
    <2>5. Insight!Earned(p, Of(p)) = Insight!LineRevenue({op \in SaleLines : op[1] \in Of(p) /\ op[2] = p})
      BY <2>2, <2>3, InsightEarnedLines
    <2> QED
      BY <2>1, <2>4, <2>5
  <1>6. v = [p \in Q |-> v[p]]
    OBVIOUS
  <1>7. Insight!Paid(os) = Insight!LineRevenue(ops)
    BY <1>1, InsightPaid
  <1> HIDE DEF Q, ops, h, v, Of
  <1>8. Insight!SumOf(v, Q) = Insight!LineRevenue(ops)
    BY <1>3, <1>4, <1>5, <1>6, InsightLinesByPart
  <1> QED
    BY <1>2, <1>7, <1>8 DEF v, top, os

\* Whoever buys merchandise has bought a category or is a prospect for it.
LEMMA InsightProspects ==
  ASSUME Insight!InsightAssumption, Insight!IInv, NEW c \in Insight!Available("all")
  PROVE  Insight!ExistingBuyers("all", c) \cup Insight!Prospects("all", c)
            = {b \in Customer : Insight!Categories(Insight!ByCustomer(Insight!Countable, b)) # {}}
  <1> DEFINE Has(b) == Insight!Categories(Insight!ByCustomer(Insight!Countable, b)) # {}
             E == Insight!ExistingBuyers("all", c)
  <1>1. Insight!OfType("all") = Customer
    BY DEF Insight!OfType
  <1>2. Insight!Prospects("all", c) = {b \in Customer \ E : Has(b)}
    BY <1>1 DEF Insight!Prospects
  <1>3. c \in Insight!Merchandise
    BY DEF Insight!Available, Insight!Categories
  <1>4. E \subseteq {b \in Customer : Has(b)}
    <2> SUFFICES ASSUME NEW b \in E PROVE b \in Customer /\ Has(b)
      OBVIOUS
    <2>1. b \in Customer /\ b \in Insight!Buyers(Insight!In(Insight!Countable, c))
      BY <1>1 DEF Insight!ExistingBuyers
    <2>2. PICK o \in Insight!In(Insight!Countable, c) : BuyerOf[o] = b
      BY <2>1 DEF Insight!Buyers
    <2>3. PICK p \in Insight!ProductsOf(o) : category[p] = c
      BY <2>2 DEF Insight!In
    <2>4. o \in Insight!ByCustomer(Insight!Countable, b)
      BY <2>2 DEF Insight!In, Insight!ByCustomer
    <2>5. c \in Insight!Categories(Insight!ByCustomer(Insight!Countable, b))
      BY <1>3, <2>3, <2>4 DEF Insight!Categories
    <2> QED
      BY <2>1, <2>5
  <1> HIDE DEF Has, E
  <1> QED
    BY <1>2, <1>4 DEF Has, E

\* Two products have the same customers when all of their customers are shared.
LEMMA InsightAffinity ==
  ASSUME Insight!InsightAssumption, Insight!IInv, NEW a \in Insight!AffinityPairs(1)
  PROVE  a.shared = a.either <=>
           \A p, q \in a.pair : Insight!CustomersOf(p) = Insight!CustomersOf(q)
  <1>1. PICK pq \in Article \X Article :
          a = [pair |-> {pq[1], pq[2]},
               shared |-> Insight!Cardinality(Insight!CustomersOf(pq[1]) \cap Insight!CustomersOf(pq[2])),
               either |-> Insight!Cardinality(Insight!CustomersOf(pq[1]))
                            + Insight!Cardinality(Insight!CustomersOf(pq[2]))
                            - Insight!Cardinality(Insight!CustomersOf(pq[1])
                                                   \cap Insight!CustomersOf(pq[2]))]
    BY DEF Insight!AffinityPairs
  <1> DEFINE A == Insight!CustomersOf(pq[1])
             B == Insight!CustomersOf(pq[2])
  <1>2. IsFiniteSet(A) /\ IsFiniteSet(B)
    <2>1. \A p : {o \in Insight!Countable : p \in Insight!ProductsOf(o)} \in SUBSET Sale
      BY InsightMade
    <2> QED
      BY <2>1, InsightBuyers DEF Insight!CustomersOf
  <1>3. /\ a.pair = {pq[1], pq[2]} /\ a.shared = Cardinality(A \cap B)
        /\ a.either = Cardinality(A) + Cardinality(B) - Cardinality(A \cap B)
    BY <1>1, InsightLibrary
  <1>4. (\A p, q \in a.pair : Insight!CustomersOf(p) = Insight!CustomersOf(q)) <=> A = B
    BY <1>3
  <1> HIDE DEF A, B
  <1>5. /\ Cardinality(A) \in Nat /\ Cardinality(B) \in Nat /\ Cardinality(A \cap B) \in Nat
        /\ Cardinality(A \cap B) =< Cardinality(A) /\ Cardinality(A \cap B) =< Cardinality(B)
        /\ Cardinality(A) = Cardinality(A \cap B) => A = A \cap B
        /\ Cardinality(B) = Cardinality(A \cap B) => B = A \cap B
    <2>1. A \cap B \in SUBSET A /\ A \cap B \in SUBSET B
      OBVIOUS
    <2>2. IsFiniteSet(A \cap B)
      BY <1>2, <2>1, FS_Subset
    <2> QED
      BY <1>2, <2>1, <2>2, FS_Subset, FS_CardinalityType
  <1>6. A = B => A \cap B = A
    OBVIOUS
  <1>7. a.shared = a.either <=> A = B
    <2>1. CASE A = B
      <3>1. Cardinality(A) = Cardinality(A \cap B) /\ Cardinality(B) = Cardinality(A \cap B)
        BY <1>6, <2>1
      <3> QED
        BY <1>3, <1>5, <2>1, <3>1
    <2>2. CASE A # B
      <3>1. Cardinality(A) # Cardinality(A \cap B) \/ Cardinality(B) # Cardinality(A \cap B)
        BY <1>5, <2>2
      <3> QED
        BY <1>3, <1>5, <2>2, <3>1
    <2> QED
      BY <2>1, <2>2
  <1> QED
    BY <1>4, <1>7

\* What the customers of one type buy together those of all types do.
LEMMA InsightCrossSell ==
  ASSUME Insight!InsightAssumption, Insight!IInv, NEW t, NEW from, NEW to
  PROVE  Insight!CrossSell(t, from, to) \subseteq Insight!CrossSell("all", from, to)
  <1>1. Insight!BehaviourLines(t, from, to) \subseteq Insight!BehaviourLines("all", from, to)
    <2>1. Insight!OfType(t) \subseteq Insight!OfType("all")
      BY DEF Insight!OfType
    <2> QED
      BY <2>1 DEF Insight!BehaviourLines
  <1>2. ASSUME NEW c, NEW d
        PROVE  /\ Insight!Cardinality(Insight!BuyersOfBoth(t, from, to, c, d)) \in Nat
               /\ Insight!Cardinality(Insight!BuyersOfBoth("all", from, to, c, d)) \in Nat
               /\ Insight!Cardinality(Insight!BuyersOfBoth(t, from, to, c, d))
                    =< Insight!Cardinality(Insight!BuyersOfBoth("all", from, to, c, d))
    <2> DEFINE S == Insight!BuyersOfBoth(t, from, to, c, d)
               T == Insight!BuyersOfBoth("all", from, to, c, d)
    <2>1. S \in SUBSET T /\ T \in SUBSET Customer
      BY <1>1 DEF Insight!BuyersOfBoth
    <2> HIDE DEF S, T
    <2>2. IsFiniteSet(T) /\ IsFiniteSet(S) /\ Cardinality(S) =< Cardinality(T)
      BY <2>1, InsightConstants, FS_Subset
    <2>3. Cardinality(S) \in Nat /\ Cardinality(T) \in Nat
      BY <2>2, FS_CardinalityType
    <2> QED
      BY <2>2, <2>3, InsightLibrary DEF S, T
  <1>3. AnchorCustomers \in Nat /\ SharedCustomers \in Nat
    BY DEF Insight!InsightAssumption
  <1> SUFFICES ASSUME NEW cd \in Insight!CrossSell(t, from, to)
               PROVE  cd \in Insight!CrossSell("all", from, to)
    OBVIOUS
  <1>4. /\ cd \in Insight!Merchandise \X Insight!Merchandise /\ cd[1] # cd[2]
        /\ Insight!Cardinality(Insight!BuyersOfBoth(t, from, to, cd[1], cd[1])) >= AnchorCustomers
        /\ Insight!Cardinality(Insight!BuyersOfBoth(t, from, to, cd[1], cd[2])) >= SharedCustomers
    BY DEF Insight!CrossSell
  <1>5. /\ Insight!Cardinality(Insight!BuyersOfBoth("all", from, to, cd[1], cd[1])) >= AnchorCustomers
        /\ Insight!Cardinality(Insight!BuyersOfBoth("all", from, to, cd[1], cd[2])) >= SharedCustomers
    BY <1>2, <1>3, <1>4
  <1> QED
    BY <1>4, <1>5 DEF Insight!CrossSell

\* What the lines of a month say was bought is what the categories of those lines
\* do, and what the monthly figures of merchandise do.
LEMMA InsightPattern ==
  ASSUME Insight!InsightAssumption, Insight!IInv
  PROVE  LET now == Insight!Anchor
             bought == Insight!BuyingPattern("all", now - 11, now)[now]
             byCategory == Insight!BuyingCategories("all", now, now)
         IN  /\ bought = Insight!SumOf(byCategory, Insight!Merchandise)
             /\ bought = Insight!Revenue({x \in Insight!ReadRange(now, now) :
                                            x.category \in Insight!Merchandise})
  <1> DEFINE now == Insight!Anchor
             ops == Insight!BehaviourLines("all", now, now)
             bought == Insight!BuyingPattern("all", now - 11, now)[now]
             byCategory == Insight!BuyingCategories("all", now, now)
             Q == Insight!Merchandise
             X == {x \in Insight!ReadRange(now, now) : x.category \in Q}
  <1>1. /\ now \in Nat /\ Insight!Countable \in SUBSET Sale
        /\ \A o \in Sale : sales[o] \in Insight!OrderRow
        /\ \A o \in Sale : Insight!MonthOf(Insight!At(sales[o])) \in Int
    BY InsightOrderRows DEF Insight!IInv
  <1> HIDE DEF now
  <1>2. \A op : op \in ops <=> /\ op \in Sale \X Article
                               /\ op[1] \in Insight!Countable
                               /\ op[2] \in Insight!ProductsOf(op[1])
                               /\ Insight!MonthOf(Insight!At(sales[op[1]])) = now
                               /\ sales[op[1]].snapshot[op[2]] \in Q
    <2>1. \A o \in Sale : BuyerOf[o] \in Insight!OfType("all")
      BY InsightConstants DEF Insight!OfType
    <2>2. \A o \in Sale : Insight!MonthOf(Insight!At(sales[o])) \in now .. now
                             <=> Insight!MonthOf(Insight!At(sales[o])) = now
      BY <1>1
    <2> HIDE DEF Q
    <2> QED
      BY <2>1, <2>2 DEF Insight!BehaviourLines, Q
  <1>3. ops \in SUBSET SaleLines
    BY <1>2 DEF SaleLines
  <1>4. bought = Insight!LineRevenue(ops)
    <2>1. now \in now - 11 .. now
      BY <1>1
    <2>2. bought = Insight!LineRevenue({op \in Insight!BehaviourLines("all", now - 11, now) :
                                          Insight!MonthOf(Insight!At(sales[op[1]])) = now})
      BY <2>1 DEF Insight!BuyingPattern
    <2>3. {op \in Insight!BehaviourLines("all", now - 11, now) :
             Insight!MonthOf(Insight!At(sales[op[1]])) = now} = ops
      <3>1. now \in now .. now
        BY <1>1
      <3>2. \A o \in Sale : Insight!MonthOf(Insight!At(sales[o])) \in now .. now
                               => Insight!MonthOf(Insight!At(sales[o])) = now
        BY <1>1
      <3> QED
        BY <2>1, <3>1, <3>2 DEF Insight!BehaviourLines
    <2> QED
      BY <2>2, <2>3
  <1>5. \A op \in ops : op[1] \in Sale /\ op[2] \in Article /\ op = <<op[1], op[2]>>
    BY <1>2
  <1>6. bought = Insight!SumOf(byCategory, Q)
    <2> DEFINE h == [op \in ops |-> sales[op[1]].snapshot[op[2]]]
    <2>1. h \in [ops -> Q]
      BY <1>2
    <2>2. IsFiniteSet(Q)
      <3>1. Q \in SUBSET Category
        BY DEF Insight!Merchandise
      <3> QED
        BY <3>1, InsightConstants, FS_Subset
    <2>3. /\ byCategory = [c \in Q |-> byCategory[c]]
          /\ \A c \in Q : byCategory[c] = Insight!LineRevenue({op \in ops : h[op] = c})
      BY DEF Insight!BuyingCategories
    <2> HIDE DEF h, ops, Q, byCategory, bought
    <2> QED
      BY <1>3, <1>4, <2>1, <2>2, <2>3, InsightLinesByPart
  <1>7. bought = Insight!Revenue(X)
    <2> DEFINE Sold(p, c) == Insight!SoldIn(now, p, c)
               Of(p, c) == [month |-> now, product |-> p, category |-> c,
                            units |-> Insight!Cardinality(Sold(p, c)),
                            revenue |-> Insight!Earned(p, Sold(p, c))]
               h == [op \in ops |-> Of(op[2], sales[op[1]].snapshot[op[2]])]
               v == [x \in X |-> x.revenue]
    <2>1. Insight!ReadRange(now, now) = Insight!Points(now)
      <3>1. {x \in table : x.month \in now .. now /\ x.month < Insight!Anchor} = {}
        BY <1>1 DEF now
      <3>2. Insight!Anchor \in now .. now
        BY <1>1 DEF now
      <3> QED
        BY <3>1, <3>2 DEF Insight!ReadRange, now
    <2>2. \A p, c, o : o \in Sold(p, c) <=> /\ o \in Insight!Countable
                                           /\ Insight!MonthOf(Insight!At(sales[o])) = now
                                           /\ p \in Insight!ProductsOf(o)
                                           /\ sales[o].snapshot[p] = c
      BY DEF Insight!SoldIn
    <2>3. \A x : x \in X <=> \E p \in Article, c \in Q : Sold(p, c) # {} /\ x = Of(p, c)
      <3>1. Q \subseteq Category
        BY DEF Insight!Merchandise
      <3>2. \A x : x \in Insight!Points(now) <=>
                     \E p \in Article, c \in Category : Sold(p, c) # {} /\ x = Of(p, c)
        <4> DEFINE Cell == {cell \in Article \X Category : Sold(cell[1], cell[2]) # {}}
        <4>1. Insight!Points(now) = {Of(cell[1], cell[2]) : cell \in Cell}
          BY DEF Insight!Points
        <4>2. /\ \A cell \in Cell : /\ cell[1] \in Article /\ cell[2] \in Category
                                  /\ Sold(cell[1], cell[2]) # {}
              /\ \A p \in Article, c \in Category : Sold(p, c) # {} => <<p, c>> \in Cell
          OBVIOUS
        <4> HIDE DEF Of, Sold, Cell
        <4>3. \A p, c : <<p, c>>[1] = p /\ <<p, c>>[2] = c
          OBVIOUS
        <4> QED
          BY <4>1, <4>2, <4>3
      <3>3. \A p, c : Of(p, c).category = c
        OBVIOUS
      <3> HIDE DEF Of, Sold, Q
      <3> QED
        BY <2>1, <3>1, <3>2, <3>3
    <2>4. \A p, c : /\ Of(p, c).product = p /\ Of(p, c).category = c
                    /\ Of(p, c).revenue = Insight!Earned(p, Sold(p, c))
      OBVIOUS
    <2>5. Insight!ArePoints(X)
      BY <1>1, <2>1, InsightPoints, InsightPointsTogether
    <2>6. IsFiniteSet(X) /\ v = [x \in X |-> v[x]]
      BY <2>5, InsightLibrary DEF Insight!ArePoints
    <2>7. h \in [ops -> X]
      <3> SUFFICES ASSUME NEW op \in ops
                   PROVE  Of(op[2], sales[op[1]].snapshot[op[2]]) \in X
        OBVIOUS
      <3>1. /\ op[2] \in Article /\ sales[op[1]].snapshot[op[2]] \in Q
            /\ op[1] \in Sold(op[2], sales[op[1]].snapshot[op[2]])
        BY <1>2, <2>2
      <3> HIDE DEF Of, Sold, Q, X
      <3> QED
        BY <2>3, <3>1
    <2>8. ASSUME NEW x \in X
          PROVE  v[x] = Insight!LineRevenue({op \in ops : h[op] = x})
      <3>1. PICK p \in Article, c \in Q : x = Of(p, c)
        BY <2>3
      <3>2. {op \in ops : h[op] = x} = {op \in SaleLines : op[1] \in Sold(p, c) /\ op[2] = p}
        <4>1. \A op \in ops : h[op] = x => op[2] = p /\ sales[op[1]].snapshot[op[2]] = c
          <5> HIDE DEF Of, ops
          <5> QED
            BY <2>4, <3>1
        <4>2. \A op \in ops : op[2] = p /\ sales[op[1]].snapshot[op[2]] = c => h[op] = x
          BY <3>1
        <4>3. \A op : op \in SaleLines <=> /\ op \in Sale \X Article
                                           /\ op[2] \in Insight!ProductsOf(op[1])
          BY DEF SaleLines
        <4> HIDE DEF ops, h, Of, Sold, Q, X
        <4>4. \A op : op \in ops /\ op[2] = p /\ sales[op[1]].snapshot[op[2]] = c
                        <=> op \in SaleLines /\ op[1] \in Sold(p, c) /\ op[2] = p
          BY <1>2, <2>2, <4>3
        <4> QED
          BY <4>1, <4>2, <4>4
      <3>3. v[x] = Insight!Earned(p, Sold(p, c))
        BY <2>4, <3>1
      <3>4. Sold(p, c) \in SUBSET Sale /\ \A o \in Sold(p, c) : p \in Insight!ProductsOf(o)
        BY <1>1, <2>2
      <3> HIDE DEF Sold, v, ops, h, Of, Q, X
      <3>5. Insight!Earned(p, Sold(p, c))
              = Insight!LineRevenue({op \in SaleLines : op[1] \in Sold(p, c) /\ op[2] = p})
        BY <3>4, InsightEarnedLines
      <3> QED
        BY <3>2, <3>3, <3>5
    <2>9. Insight!Revenue(X) = Insight!SumOf(v, X)
      BY DEF Insight!Revenue
    <2> HIDE DEF Sold, Of, h, v, X, ops, bought, Q
    <2>10. Insight!SumOf(v, X) = Insight!LineRevenue(ops)
      BY <1>3, <2>6, <2>7, <2>8, InsightLinesByPart
    <2> QED
      BY <1>4, <2>9, <2>10
  <1> QED
    BY <1>6, <1>7 DEF now

LEMMA InsightFits ==
  ASSUME Insight!InsightAssumption, Insight!IInv
  PROVE  Insight!FiguresFitTogether
  <1>1. ASSUME NEW n \in {30, 90, 365}, NEW c \in DOMAIN Insight!Trends(n)
        PROVE  LET t == Insight!Trends(n)[c]
               IN  /\ t.new + (t.priorCustomers - t.churned) =< t.customers
                   /\ t.customers =< Insight!Cardinality(Insight!ExistingBuyers("all", c))
                   /\ c \in Insight!GrowthSignals(n) => t.revenue > t.prior
    <2>1. n \in Nat
      OBVIOUS
    <2> QED
      BY <2>1, InsightTrendFigures
  <1>2. ASSUME NEW n \in {30, 90, 365}
        PROVE  /\ Insight!Concentrated(n) \subseteq Insight!Buyers(Insight!Current(n))
               /\ LET top == Insight!TopProducts(n)
                  IN  Insight!SumOf([p \in DOMAIN top |-> top[p].revenue], DOMAIN top)
                         = Insight!Paid(Insight!Current(n))
    <2>1. n \in Nat
      OBVIOUS
    <2> QED
      BY <2>1, InsightConcentrated, InsightTopProducts
  <1>3. LET pattern == Insight!BuyingPattern("all", Insight!Anchor - 11, Insight!Anchor)
            byCategory == Insight!BuyingCategories("all", Insight!Anchor, Insight!Anchor)
        IN  /\ pattern[Insight!Anchor] = Insight!SumOf(byCategory, Insight!Merchandise)
            /\ pattern[Insight!Anchor] =
                 Insight!Revenue({x \in Insight!ReadRange(Insight!Anchor, Insight!Anchor) :
                                    x.category \in Insight!Merchandise})
    BY InsightPattern
  <1> QED
    BY <1>1, <1>2, <1>3, InsightProspects, InsightCrossSell, InsightAffinity
       DEF Insight!FiguresFitTogether
-----------------------------------------------------------------------------
(* The theorems about the parts *)

\* Each part of a behaviour of the sales is a behaviour of its module; the queries
\* and the chart are, when they are the part that runs.
THEOREM Composition ==
  AllSpec => /\ Spec /\ Costs!Spec /\ Watch!Spec
             /\ part = "insight" => Insight!Spec
             /\ part = "trend" => Trend!Spec
  <1>1. AllInit => /\ Init /\ Costs!Init /\ Watch!Init
                   /\ part = "insight" => Insight!Init
                   /\ part = "trend" => Trend!Init
    BY DEF AllInit
  <1>2. ASSUME [AllNext]_all
        PROVE  /\ [Next]_vars /\ [Costs!Next]_(Costs!vars) /\ [Watch!Next]_(Watch!vars)
               /\ [Insight!Next]_(Insight!vars) /\ [Trend!Next]_(Trend!vars)
    <2>1. /\ UNCHANGED insight => UNCHANGED Insight!vars
          /\ UNCHANGED trend => UNCHANGED Trend!vars
          /\ UNCHANGED costs => UNCHANGED Costs!vars
          /\ UNCHANGED watch => UNCHANGED Watch!vars
      BY DEF insight, trend, costs, watch, Insight!vars, Insight!market, Trend!vars,
             Costs!vars, Costs!runs, Watch!vars, Watch!cycle, Watch!history
    <2>2. CASE UNCHANGED all
      BY <2>1, <2>2 DEF all
    <2>3. CASE OrderSteps
      BY <2>1, <2>3 DEF OrderSteps, Others
    <2>4. CASE InsightSteps
      BY <2>1, <2>4 DEF InsightSteps, Others
    <2>5. CASE TrendSteps
      BY <2>1, <2>5 DEF TrendSteps, Others
    <2>6. CASE CostSteps
      BY <2>1, <2>6 DEF CostSteps, Others
    <2>7. CASE WatchSteps
      BY <2>1, <2>7 DEF WatchSteps, Others
    <2> QED
      BY <1>2, <2>2, <2>3, <2>4, <2>5, <2>6, <2>7 DEF AllNext
  <1> QED
    BY <1>1, <1>2, PTL
       DEF AllSpec, Spec, Costs!Spec, Watch!Spec, Insight!Spec, Trend!Spec

\* The inductive invariant of the costs: what a backfill is about to write is the
\* price of a purchase made in time, and as long as nobody disturbs it there is
\* nothing to fill in behind its cursor.
THEOREM CostsInvariance == Costs!Spec => []Costs!IInv
  <1>1. Costs!Init => Costs!IInv
    BY CostsInitCosts
  <1>2. Costs!IInv /\ [Costs!Next]_(Costs!vars) => Costs!IInv'
    BY SalesAssumption, CostsNextInv
  <1> QED
    BY <1>1, <1>2, PTL DEF Costs!Spec

\* A known cost of an issued line never changes, one that is filled in is the price
\* of a purchase made by the date of the invoice, an undisturbed backfill leaves no
\* line out for which there is one, and the product page shows the cost of today.
THEOREM CostsStayFinal == AllSpec => CostsAreFinal
  <1>1. Costs!IInv => Costs!PageShowsTheCost
    BY CostsLibrary, CostsPageIsRight DEF Costs!IInv
  <1>2. ASSUME Costs!IInv, [Costs!Next]_(Costs!vars)
        PROVE  [\A l \in DOMAIN cost :
                   /\ l \in DOMAIN cost'
                   /\ cost[l] # NoCost => cost'[l] = cost[l]
                   /\ cost'[l] # cost[l] =>
                         \E p \in purchases : /\ p.price = cost'[l]
                                              /\ p.date =< DateOf[l]]_(Costs!vars)
    BY <1>2, SalesAssumption, CostsStepIsFinal
  <1>3. ASSUME Costs!IInv
        PROVE  [\A b \in Backfill : Costs!Finish(b) /\ undisturbed[b] =>
                   \A l \in DOMAIN cost : cost[l] = NoCost =>
                       Costs!Resolve(DateOf[l]) = NoCost]_(Costs!vars)
    BY <1>3, SalesAssumption, CostsNothingIsLeft
  <1> QED
    BY <1>1, <1>2, <1>3, Composition, CostsInvariance, PTL
       DEF CostsAreFinal, Costs!CostsAreFinal, Costs!NothingIsLeftOut, Costs!Spec

\* The inductive invariant of the watch: as long as no cycle has disturbed what is
\* remembered of an invoice, it has been seen at the last status shown or told.
THEOREM WatchInvariance == Watch!Spec => []Watch!IInv
  <1>1. Watch!Init => Watch!IInv
    BY SalesAssumption, WatchInitMonitor
  <1>2. Watch!IInv /\ [Watch!Next]_(Watch!vars) => Watch!IInv'
    BY SalesAssumption, WatchNextInv
  <1> QED
    BY <1>1, <1>2, PTL DEF Watch!Spec

\* A notification brings a status that was neither notified before nor shown by the
\* page, and an invoice whose page was opened stays tracked, as long as no cycle has
\* disturbed what is remembered of it.
THEOREM NewsIsAlwaysNew == AllSpec => NewsIsNew
  <1>1. Watch!IInv => Watch!StaysTracked
    BY DEF Watch!IInv, Watch!IsRemembered, Watch!StaysTracked
  <1>2. ASSUME Watch!IInv
        PROVE  [\A i \in Invoice :
                   (Watch!Notify /\ invoice = i /\ standing[i] # "disturbed")
                      => <<i, status>> \notin told \cup shown]_(Watch!vars)
    BY <1>2, WatchWhatIsToldIsNew
  <1> QED
    BY <1>1, <1>2, Composition, WatchInvariance, PTL DEF NewsIsNew, Watch!NewsIsNew

\* The inductive invariant of the chart: what an owner who waits for every answer is
\* shown are whole days or months, and the request under way joins the oldest.
THEOREM TrendInvariance == Trend!Spec => []Trend!IInv
  <1>1. Trend!Init => Trend!IInv
    BY SalesAssumption, TrendInitInv
  <1>2. Trend!IInv /\ [Trend!Next]_(Trend!vars) => Trend!IInv'
    BY SalesAssumption, TrendNextInv
  <1> QED
    BY <1>1, <1>2, PTL DEF Trend!Spec

\* The part that a behaviour is about stays the same, and a chart that is not looked
\* at stays empty.
LEMMA PartStays ==
  ASSUME [AllNext]_all
  PROVE  part' = part /\ (part # "trend" => items' = items)
  BY DEF AllNext, OrderSteps, InsightSteps, TrendSteps, CostSteps, WatchSteps, Others, all, trend

\* Pages of days and months of the chart of an owner who waits for every answer join:
\* from the oldest row shown to the newest, every day or month on which something was
\* sold appears once, in order, with everything sold in it.
THEOREM ChartPagesJoin ==
  ASSUME Patient
  PROVE  AllSpec => []PagesJoin
  <1>1. Trend!IInv => PagesJoin
    BY TrendPagesJoin DEF PagesJoin
  <1>2. items = <<>> => PagesJoin
    BY DEF PagesJoin, Trend!PagesJoin
  <1>3. AllInit => part = "trend" \/ items = <<>>
    BY DEF AllInit
  <1>4. part = "trend" /\ [AllNext]_all => (part = "trend")'
    BY PartStays
  <1>5. ~(part = "trend") /\ items = <<>> /\ [AllNext]_all => ~(part = "trend")' /\ (items = <<>>)'
    BY PartStays
  <1> QED
    BY <1>1, <1>2, <1>3, <1>4, <1>5, Composition, TrendInvariance, PTL DEF AllSpec

\* The inductive invariant of the answers that are read in several transactions: what
\* has been read are rows of the monthly table or of the orders, and the windows do
\* not lie ahead of the clock, to which every later sale belongs.
THEOREM InsightInvariance == Insight!Spec => []Insight!IInv
  <1>1. Insight!Init => Insight!IInv
    BY SalesAssumption, InsightInitInv
  <1>2. Insight!IInv /\ [Insight!Next]_(Insight!vars) => Insight!IInv'
    BY SalesAssumption, InsightNextInv
  <1> QED
    BY <1>1, <1>2, PTL DEF Insight!Spec

\* A product that is called new was first sold in the window, one called end-of-life
\* has not been sold for months, and the drivers of a change of revenue add up to it,
\* whatever the monthly table holds and whatever happens between the reads.
THEOREM AnswersAreTrue == AllSpec => []AnswersTellTheTruth
  <1>1. Insight!IInv => AnswersTellTheTruth
    BY DEF Insight!IInv, AnswersTellTheTruth
  <1>2. ~(part = "insight") => AnswersTellTheTruth
    BY DEF AnswersTellTheTruth
  <1>3. part = "insight" /\ [AllNext]_all => (part = "insight")'
    BY PartStays
  <1>4. ~(part = "insight") /\ [AllNext]_all => ~(part = "insight")'
    BY PartStays
  <1> QED
    BY <1>1, <1>2, <1>3, <1>4, Composition, InsightInvariance, PTL DEF AllSpec

\* Figures of different queries add up, and the risk list, a customer's profile and
\* the prospects agree about everybody, in every market.
THEOREM FiguresFit == AllSpec => []FiguresFitTogether
  <1>1. Insight!IInv => FiguresFitTogether
    BY SalesAssumption, InsightFits, InsightSeenAlike DEF FiguresFitTogether
  <1>2. ~(part = "insight") => FiguresFitTogether
    BY DEF FiguresFitTogether, JustLooking
  <1>3. part = "insight" /\ [AllNext]_all => (part = "insight")'
    BY PartStays
  <1>4. ~(part = "insight") /\ [AllNext]_all => ~(part = "insight")'
    BY PartStays
  <1> QED
    BY <1>1, <1>2, <1>3, <1>4, Composition, InsightInvariance, PTL DEF AllSpec

\* The types of all parts, those of the queries and of the chart when they run.
THEOREM AllTypesCorrect == AllSpec => []AllTypeOK
  <1> DEFINE InsightTyped == part = "insight" => Insight!TypeOK
             TrendTyped == part = "trend" => Trend!TypeOK
             Kinds == part \in Part
  <1>1. AllSpec => []InsightTyped
    <2>1. Insight!IInv => InsightTyped
      BY DEF Insight!IInv
    <2>2. ~(part = "insight") => InsightTyped
      OBVIOUS
    <2>3. part = "insight" /\ [AllNext]_all => (part = "insight")'
      BY PartStays
    <2>4. ~(part = "insight") /\ [AllNext]_all => ~(part = "insight")'
      BY PartStays
    <2> HIDE DEF InsightTyped
    <2> QED
      BY <2>1, <2>2, <2>3, <2>4, Composition, InsightInvariance, PTL DEF AllSpec
  <1>2. AllSpec => []TrendTyped
    <2>1. Trend!IInv => TrendTyped
      BY DEF Trend!IInv
    <2>2. ~(part = "trend") => TrendTyped
      OBVIOUS
    <2>3. part = "trend" /\ [AllNext]_all => (part = "trend")'
      BY PartStays
    <2>4. ~(part = "trend") /\ [AllNext]_all => ~(part = "trend")'
      BY PartStays
    <2> HIDE DEF TrendTyped
    <2> QED
      BY <2>1, <2>2, <2>3, <2>4, Composition, TrendInvariance, PTL DEF AllSpec
  <1>3. AllSpec => []Kinds
    <2>1. AllInit => Kinds
      BY DEF AllInit
    <2>2. Kinds /\ [AllNext]_all => Kinds'
      BY PartStays
    <2> HIDE DEF Kinds
    <2> QED
      BY <2>1, <2>2, PTL DEF AllSpec
  <1>4. Kinds /\ TypeOK /\ InsightTyped /\ TrendTyped /\ Costs!IInv /\ Watch!IInv => AllTypeOK
    BY DEF AllTypeOK, Costs!IInv, Watch!IInv
  <1> HIDE DEF InsightTyped, TrendTyped, Kinds
  <1> QED
    BY <1>1, <1>2, <1>3, <1>4, Composition, TypeCorrect, CostsInvariance, WatchInvariance, PTL
=============================================================================

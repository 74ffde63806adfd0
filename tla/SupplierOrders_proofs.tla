------------------------ MODULE SupplierOrders_proofs ------------------------
(***************************************************************************)
(* Proofs about SupplierOrders, for any lines and quantities, any receipts *)
(* people enter and any number of people who receive at once: what the     *)
(* order says has been received is what the stock has gained.              *)
(***************************************************************************)
EXTENDS SupplierOrders, SumFacts, TLAPS

\* What SupplierAssumption says of the lines, for the provers.
LEMMA Constants ==
  ASSUME SupplierAssumption
  PROVE  /\ IsFiniteSet(Line) /\ Line # {} /\ Ordered \in [Line -> Nat \ {0}]
         /\ \A q \in Receipt : q \in [DOMAIN q -> Int]
  BY DEF SupplierAssumption
-----------------------------------------------------------------------------
(* The units received *)

\* They are a sum over the lines: a natural number, none when every line says so.
LEMMA UnitsFacts ==
  ASSUME SupplierAssumption, NEW o, o.received \in [Line -> Nat]
  PROVE  /\ Units(o) \in Nat
         /\ (\A l \in Line : o.received[l] = 0) => Units(o) = 0
  <1>1. PICK r : r = o.received
    OBVIOUS
  <1>2. Units(o) = SumOf(r, Line)
    BY <1>1 DEF Units, SumOf
  <1>3. IsFiniteSet(Line) /\ Line \in SUBSET Line /\ r \in [Line -> Nat]
    BY <1>1, Constants
  <1>4. SumOf(r, Line) \in Nat
    BY <1>3, NaturalSums
  <1>5. ASSUME \A l \in Line : r[l] = 0 PROVE SumOf(r, Line) = 0
    <2>1. r \in [Line -> Int] /\ \A l \in Line : r[l] = -r[l]
      BY <1>3, <1>5
    <2>2. SumOf(r, Line) = -SumOf(r, Line)
      BY <1>3, <2>1, OppositeWeights
    <2> QED
      BY <1>4, <2>2
  <1> QED
    BY <1>1, <1>2, <1>4, <1>5

\* They only grow with the lines.
LEMMA UnitsGrow ==
  ASSUME SupplierAssumption, NEW o, o.received \in [Line -> Nat],
         NEW n, n.received \in [Line -> Nat],
         \A l \in Line : o.received[l] =< n.received[l]
  PROVE  Units(o) =< Units(n)
  <1>1. PICK r, t : r = o.received /\ t = n.received
    OBVIOUS
  <1>2. Units(o) = SumOf(r, Line) /\ Units(n) = SumOf(t, Line)
    BY <1>1 DEF Units, SumOf
  <1>3. /\ IsFiniteSet(Line) /\ Line \in SUBSET Line
        /\ r \in [Line -> Int] /\ t \in [Line -> Int] /\ \A l \in Line : r[l] =< t[l]
    BY <1>1, Constants
  <1> QED
    BY <1>2, <1>3, GreaterWeights

LEMMA SameUnits ==
  ASSUME NEW o, NEW n, o.received = n.received
  PROVE  Units(o) = Units(n)
  BY DEF Units
-----------------------------------------------------------------------------
(* What a request makes of the order *)

LEMMA OrderFields ==
  ASSUME NEW o \in Order
  PROVE  /\ o = [status |-> o.status, received |-> o.received]
         /\ o.status \in Status /\ o.received \in [Line -> Nat]
  BY DEF Order

LEMMA NoOrderFits ==
  ASSUME SupplierAssumption
  PROVE  /\ LinesFit(NoOrder) /\ Units(NoOrder) = 0 /\ NoOrder.status = "none"
         /\ NoOrder.received \in [Line -> Nat] /\ \A l \in Line : NoOrder.received[l] = 0
  <1>1. PICK r : r = [l \in Line |-> 0]
    OBVIOUS
  <1>2. NoOrder = [status |-> "none", received |-> r]
    BY <1>1 DEF NoOrder
  <1>3. r \in [Line -> Nat] /\ \A l \in Line : r[l] = 0
    BY <1>1
  <1>4. r # Ordered /\ \A l \in Line : 0 =< Ordered[l]
    BY <1>3, Constants
  <1>5. NoOrder.received = r /\ NoOrder.status = "none"
    BY <1>2
  <1>6. Units(NoOrder) = 0
    BY <1>3, <1>5, UnitsFacts
  <1>7. LinesFit(NoOrder)
    BY <1>3, <1>4, <1>5 DEF LinesFit
  <1> QED
    BY <1>3, <1>5, <1>6, <1>7

\* A receipt leaves an order whose lines fit its status, and takes nothing back.
LEMMA ReceivedFits ==
  ASSUME SupplierAssumption, NEW q \in Receipt \cup {Everything},
         NEW o, o.received \in [Line -> Nat], \A l \in Line : o.received[l] =< Ordered[l],
         ~TooMany(q, o), NEW n, n = Received(q, o)
  PROVE  n \in Order /\ LinesFit(n) /\ Units(o) =< Units(n)
  <1>1. PICK r : r = [l \in Line |-> IF l \in Open(o) THEN o.received[l] + Asked(q, o, l)
                                                     ELSE o.received[l]]
    OBVIOUS
  <1>2. n = [status |-> IF r = Ordered THEN "RECEIVED" ELSE "PARTIALLY_RECEIVED",
             received |-> r]
    BY <1>1 DEF Received
  <1>3. ASSUME NEW l \in Line
        PROVE  Asked(q, o, l) \in Nat /\ Ordered[l] \in Nat /\ o.received[l] \in Nat
    <2>1. Ordered[l] \in Nat /\ o.received[l] \in Nat /\ o.received[l] =< Ordered[l]
      BY Constants
    <2>2. CASE q = Everything
      BY <2>1, <2>2 DEF Asked
    <2>3. CASE q # Everything
      <3>1. l \in DOMAIN q => q[l] \in Int
        BY <2>3, Constants
      <3> QED
        BY <2>1, <2>3, <3>1 DEF Asked
    <2> QED
      BY <2>1, <2>2, <2>3
  <1>4. ASSUME NEW l \in Line
        PROVE  r[l] \in Nat /\ o.received[l] =< r[l] /\ r[l] =< Ordered[l]
    <2>1. CASE l \in Open(o)
      <3>1. o.received[l] + Asked(q, o, l) =< Ordered[l]
        BY <1>3, <2>1 DEF TooMany
      <3> QED
        BY <1>1, <1>3, <2>1, <3>1
    <2>2. CASE l \notin Open(o)
      BY <1>1, <1>3, <2>2
    <2> QED
      BY <2>1, <2>2
  <1>5. r \in [Line -> Nat]
    BY <1>1, <1>4
  <1>6. n.received = r
    BY <1>2
  <1>7. n \in Order
    BY <1>2, <1>5 DEF Order, Status
  <1>8. LinesFit(n)
    BY <1>2, <1>4 DEF LinesFit
  <1>9. Units(o) =< Units(n)
    BY <1>4, <1>5, <1>6, UnitsGrow
  <1> QED
    BY <1>7, <1>8, <1>9

\* So does a new status, before anything has been received.
LEMMA StatusFits ==
  ASSUME SupplierAssumption, NEW o \in Order, LinesFit(o), NEW k, <<o.status, k>> \in Allowed,
         NEW n, n = [o EXCEPT !.status = k]
  PROVE  n \in Order /\ LinesFit(n) /\ Units(n) = Units(o)
  <1>1. PICK a, r : o = [status |-> a, received |-> r] /\ r \in [Line -> Nat]
    BY OrderFields
  <1>2. n = [status |-> k, received |-> r]
    BY <1>1
  <1>3. /\ a \in {"PENDING", "CONFIRMED", "SHIPPED"}
        /\ k \in {"CONFIRMED", "SHIPPED", "CANCELLED"}
    BY <1>1 DEF Allowed
  <1>4. \A l \in Line : r[l] = 0
    BY <1>1, <1>3 DEF LinesFit
  <1>5. r # Ordered /\ \A l \in Line : 0 =< Ordered[l]
    BY <1>4, Constants
  <1>6. n \in Order
    BY <1>1, <1>2, <1>3 DEF Order, Status
  <1>7. LinesFit(n)
    BY <1>2, <1>3, <1>4, <1>5 DEF LinesFit
  <1>8. Units(n) = Units(o)
    BY <1>1, <1>2, SameUnits
  <1> QED
    BY <1>6, <1>7, <1>8
-----------------------------------------------------------------------------
(* The steps *)

LEMMA InitInv == SupplierAssumption /\ Init => IInv
  <1> SUFFICES ASSUME SupplierAssumption, Init PROVE IInv
    OBVIOUS
  <1>1. order = NoOrder /\ stock = 0 /\ LinesFit(NoOrder) /\ Units(NoOrder) = 0
    BY NoOrderFits DEF Init
  <1>2. TypeOK
    BY DEF Init, TypeOK, Unlocked
  <1>3. ASSUME NEW s \in Session PROVE InStep(s)
    BY NoSessionAssumption DEF Init, InStep, Unlocked
  <1> QED
    BY <1>1, <1>2, <1>3 DEF IInv

\* The units received so far, whatever is or is not ordered yet.
LEMMA OrderReceived ==
  ASSUME SupplierAssumption, order \in Order \cup {NoOrder}
  PROVE  order.received \in [Line -> Nat] /\ Units(order) \in Nat
  BY OrderFields, NoOrderFits, UnitsFacts

\* A session stays in step while its own state, its locks and the units received
\* stay as they are.
LEMMA StaysInStep ==
  ASSUME NEW t \in Session, InStep(t), Units(order') = Units(order),
         pc'[t] = pc[t], mine'[t] = mine[t], took'[t] = took[t],
         \A r \in {"order", "stock"} : owner'[r] = t <=> owner[r] = t
  PROVE  InStep(t)'
  <1>1. Units(mine'[t]) = Units(mine[t])
    OBVIOUS
  <1>2. LinesFit(mine[t])' <=> LinesFit(mine[t])
    BY DEF LinesFit
  <1> QED
    BY <1>1, <1>2 DEF InStep

\* The end of a request.
LEMMA Closed ==
  ASSUME NEW s \in Session, IInv, Close(s)
  PROVE  /\ owner' \in [{"order", "stock"} -> Session \cup {NoSession}]
         /\ pc' \in [Session -> {"idle", "order", "stock", "commit"}]
         /\ kind' \in [Session -> {"none", "receive"} \cup Status]
         /\ asks' \in [Session -> Receipt \cup {Everything}]
         /\ mine' \in [Session -> Order \cup {NoOrder}]
         /\ took' \in [Session -> Nat]
         /\ pc'[s] = "idle" /\ took'[s] = 0
         /\ \A r \in {"order", "stock"} : owner'[r] # s
         /\ \A t \in Session \ {s} :
               /\ pc'[t] = pc[t] /\ mine'[t] = mine[t] /\ took'[t] = took[t]
               /\ \A r \in {"order", "stock"} : owner'[r] = t <=> owner[r] = t
  <1>1. DOMAIN owner = {"order", "stock"}
    BY DEF IInv, TypeOK
  <1>2. /\ owner' \in [{"order", "stock"} -> Session \cup {NoSession}]
        /\ \A r \in {"order", "stock"} :
              owner'[r] = (IF owner[r] = s THEN NoSession ELSE owner[r])
    BY <1>1 DEF IInv, TypeOK, Close, Release
  <1>3. /\ \A r \in {"order", "stock"} : owner'[r] # s
        /\ \A t \in Session \ {s}, r \in {"order", "stock"} :
              owner'[r] = t <=> owner[r] = t
    BY <1>2, NoSessionAssumption
  <1> QED
    BY <1>2, <1>3 DEF IInv, TypeOK, Close, GoTo

LEMMA FailInv ==
  ASSUME NEW s \in Session, IInv, Close(s), UNCHANGED committed
  PROVE  IInv'
  <1>1. order' = order /\ stock' = stock
    BY DEF committed
  <1>2. TypeOK'
    BY <1>1, Closed DEF IInv, TypeOK
  <1>3. (stock = Units(order) /\ LinesFit(order))'
    BY <1>1 DEF IInv
  <1>4. ASSUME NEW t \in Session PROVE InStep(t)'
    <2>1. CASE t = s
      BY <2>1, Closed DEF InStep
    <2>2. CASE t # s
      <3>1. Units(order') = Units(order)
        BY <1>1
      <3> QED
        BY <2>2, <3>1, Closed, StaysInStep DEF IInv
    <2> QED
      BY <2>1, <2>2
  <1> QED
    BY <1>2, <1>3, <1>4 DEF IInv

LEMMA CreateInv ==
  ASSUME SupplierAssumption, IInv, CreateSupplierOrder
  PROVE  IInv'
  <1>1. PICK r : r = [l \in Line |-> 0]
    OBVIOUS
  <1>2. /\ order = NoOrder /\ order' = [status |-> "PENDING", received |-> r]
        /\ UNCHANGED <<stock, owner, pc, kind, asks, mine, took>>
    BY <1>1 DEF CreateSupplierOrder, request, objects
  <1>3. r \in [Line -> Nat] /\ \A l \in Line : r[l] = 0
    BY <1>1
  <1>4. order' \in Order
    BY <1>2, <1>3 DEF Order, Status
  <1>5. order'.received = r /\ order'.status = "PENDING"
    BY <1>2
  <1>6. Units(order') = 0 /\ Units(order) = 0
    BY <1>2, <1>3, <1>5, UnitsFacts, NoOrderFits
  <1>7. r # Ordered /\ \A l \in Line : 0 =< Ordered[l]
    BY <1>3, Constants
  <1>8. LinesFit(order')
    BY <1>3, <1>5, <1>7 DEF LinesFit
  <1>9. TypeOK'
    BY <1>2, <1>4 DEF IInv, TypeOK
  <1>10. (stock = Units(order) /\ LinesFit(order))'
    BY <1>2, <1>6, <1>8 DEF IInv
  <1>11. ASSUME NEW t \in Session PROVE InStep(t)'
    BY <1>2, <1>6, StaysInStep DEF IInv
  <1> QED
    BY <1>9, <1>10, <1>11 DEF IInv

LEMMA BeginInv ==
  ASSUME NEW s \in Session, IInv,
         NEW k \in {"receive"} \cup Status, NEW q \in Receipt \cup {Everything},
         Begin(s, k, q)
  PROVE  IInv'
  <1>1. /\ pc[s] = "idle" /\ pc' = [pc EXCEPT ![s] = "order"]
        /\ kind' = [kind EXCEPT ![s] = k] /\ asks' = [asks EXCEPT ![s] = q]
        /\ UNCHANGED <<order, stock, owner, mine, took>>
    BY DEF Begin, GoTo, committed, objects
  <1>2. TypeOK'
    BY <1>1 DEF IInv, TypeOK
  <1>3. Units(order') = Units(order) /\ (LinesFit(order') <=> LinesFit(order))
    BY <1>1
  <1>4. ASSUME NEW t \in Session PROVE InStep(t)'
    <2>1. CASE t = s
      <3>1. pc'[s] = "order"
        BY <1>1 DEF IInv, TypeOK
      <3>2. owner["order"] # s /\ took[s] = 0 /\ owner["stock"] # s
        BY <1>1 DEF IInv, InStep
      <3> QED
        BY <1>1, <2>1, <3>1, <3>2 DEF InStep
    <2>2. CASE t # s
      <3>1. pc'[t] = pc[t]
        BY <1>1, <2>2 DEF IInv, TypeOK
      <3> QED
        BY <1>1, <1>3, <3>1, StaysInStep DEF IInv
    <2> QED
      BY <2>1, <2>2
  <1> QED
    BY <1>1, <1>2, <1>3, <1>4 DEF IInv

\* The lock of the order: what the session makes of it fits what it adds.
LEMMA LockOrderInv ==
  ASSUME SupplierAssumption, NEW s \in Session, IInv, LockOrder(s)
  PROVE  IInv'
  <1>1. /\ pc[s] = "order" /\ owner["order"] \in {NoSession, s}
        /\ owner' = [owner EXCEPT !["order"] = s]
        /\ UNCHANGED <<order, stock, kind, asks>>
    BY DEF LockOrder, ForUpdate, Available, Acquire, committed, request
  <1>2. order.received \in [Line -> Nat] /\ Units(order) \in Nat /\ LinesFit(order)
    BY OrderReceived DEF IInv, TypeOK
  <1>3. took[s] = 0 /\ owner["stock"] # s
    BY <1>1 DEF IInv, InStep
  <1>4. PICK n, more, label :
          /\ mine' = [mine EXCEPT ![s] = n] /\ took' = [took EXCEPT ![s] = more]
          /\ pc' = [pc EXCEPT ![s] = label]
          /\ n \in Order /\ LinesFit(n) /\ more \in Nat /\ Units(n) = Units(order) + more
          /\ label \in {"stock", "commit"} /\ (label = "commit" => more = 0)
    <2>1. CASE /\ kind[s] = "receive" /\ Receivable(order) /\ ~TooMany(asks[s], order)
               /\ mine' = [mine EXCEPT ![s] = Received(asks[s], order)]
               /\ took' = [took EXCEPT ![s] = Units(mine'[s]) - Units(order)]
               /\ GoTo(s, IF took'[s] > 0 THEN "stock" ELSE "commit")
      <3>1. PICK n, more : n = Received(asks[s], order) /\ more = Units(n) - Units(order)
        OBVIOUS
      <3>2. asks[s] \in Receipt \cup {Everything}
        BY DEF IInv, TypeOK
      <3>3. \A l \in Line : order.received[l] =< Ordered[l]
        BY <1>2 DEF LinesFit
      <3>4. n \in Order /\ LinesFit(n) /\ Units(order) =< Units(n)
        BY <1>2, <2>1, <3>1, <3>2, <3>3, ReceivedFits
      <3>5. Units(n) \in Nat
        BY <3>4, OrderFields, UnitsFacts
      <3>6. more \in Nat /\ Units(n) = Units(order) + more
        BY <1>2, <3>1, <3>4, <3>5
      <3>7. mine' = [mine EXCEPT ![s] = n] /\ mine'[s] = n
        BY <2>1, <3>1 DEF IInv, TypeOK
      <3>8. took' = [took EXCEPT ![s] = more] /\ took'[s] = more
        BY <2>1, <3>1, <3>7 DEF IInv, TypeOK
      <3>9. PICK label : label = IF more > 0 THEN "stock" ELSE "commit"
        OBVIOUS
      <3>10. pc' = [pc EXCEPT ![s] = label]
        BY <2>1, <3>8, <3>9 DEF GoTo
      <3>11. label \in {"stock", "commit"} /\ (label = "commit" => more = 0)
        BY <3>6, <3>9
      <3> QED
        BY <3>4, <3>6, <3>7, <3>8, <3>10, <3>11
    <2>2. CASE /\ <<order.status, kind[s]>> \in Allowed
               /\ mine' = [mine EXCEPT ![s] = [order EXCEPT !.status = kind[s]]]
               /\ GoTo(s, "commit")
               /\ UNCHANGED took
      <3>1. PICK n : n = [order EXCEPT !.status = kind[s]]
        OBVIOUS
      <3>2. order \in Order
        BY <2>2, NoOrderFits DEF IInv, TypeOK, Allowed
      <3>3. n \in Order /\ LinesFit(n) /\ Units(n) = Units(order)
        BY <1>2, <2>2, <3>1, <3>2, StatusFits
      <3>4. took' = [took EXCEPT ![s] = 0]
        BY <1>3, <2>2 DEF IInv, TypeOK
      <3>5. Units(n) = Units(order) + 0
        BY <1>2, <3>3
      <3>6. mine' = [mine EXCEPT ![s] = n] /\ pc' = [pc EXCEPT ![s] = "commit"]
        BY <2>2, <3>1 DEF GoTo
      <3> QED
        BY <3>3, <3>4, <3>5, <3>6
    <2> QED
      BY <2>1, <2>2 DEF LockOrder
  <1>5. TypeOK'
    BY <1>1, <1>4 DEF IInv, TypeOK
  <1>6. Units(order') = Units(order) /\ (LinesFit(order') <=> LinesFit(order))
    BY <1>1
  <1>7. InStep(s)'
    <2>1. /\ pc'[s] = label /\ mine'[s] = n /\ took'[s] = more
          /\ owner'["order"] = s /\ owner'["stock"] = owner["stock"]
      BY <1>1, <1>4 DEF IInv, TypeOK
    <2>2. Units(mine'[s]) = Units(order') + took'[s] /\ LinesFit(mine'[s]) /\ mine'[s] \in Order
      BY <1>1, <1>4, <2>1
    <2> QED
      BY <1>3, <1>4, <2>1, <2>2 DEF InStep
  <1>8. ASSUME NEW t \in Session \ {s} PROVE InStep(t)'
    <2>1. /\ pc'[t] = pc[t] /\ mine'[t] = mine[t] /\ took'[t] = took[t]
          /\ \A r \in {"order", "stock"} : owner'[r] = t <=> owner[r] = t
      BY <1>1, <1>4, NoSessionAssumption DEF IInv, TypeOK
    <2> QED
      BY <1>6, <2>1, StaysInStep DEF IInv
  <1> QED
    BY <1>1, <1>5, <1>6, <1>7, <1>8 DEF IInv

LEMMA LockStockInv ==
  ASSUME NEW s \in Session, IInv, LockStock(s)
  PROVE  IInv'
  <1>1. /\ pc[s] = "stock" /\ owner["stock"] \in {NoSession, s}
        /\ owner' = [owner EXCEPT !["stock"] = s]
        /\ pc' = [pc EXCEPT ![s] = "commit"]
        /\ UNCHANGED <<order, stock, kind, asks, mine, took>>
    BY DEF LockStock, GoTo, Available, Acquire, committed, request, objects
  <1>2. TypeOK'
    BY <1>1 DEF IInv, TypeOK
  <1>3. Units(order') = Units(order) /\ (LinesFit(order') <=> LinesFit(order))
    BY <1>1
  <1>4. InStep(s)'
    <2>1. pc'[s] = "commit" /\ owner'["stock"] = s /\ owner'["order"] = owner["order"]
      BY <1>1 DEF IInv, TypeOK
    <2>2. /\ owner["order"] = s /\ mine[s] \in Order /\ LinesFit(mine[s])
          /\ Units(mine[s]) = Units(order) + took[s]
      BY <1>1 DEF IInv, InStep
    <2>3. LinesFit(mine'[s]) /\ Units(mine'[s]) = Units(order') + took'[s] /\ mine'[s] \in Order
      BY <1>1, <1>3, <2>2
    <2> QED
      BY <2>1, <2>2, <2>3 DEF InStep
  <1>5. ASSUME NEW t \in Session \ {s} PROVE InStep(t)'
    <2>1. pc'[t] = pc[t] /\ \A r \in {"order", "stock"} : owner'[r] = t <=> owner[r] = t
      BY <1>1, NoSessionAssumption DEF IInv, TypeOK
    <2> QED
      BY <1>1, <1>3, <2>1, StaysInStep DEF IInv
  <1> QED
    BY <1>1, <1>2, <1>3, <1>4, <1>5 DEF IInv

\* The commit: the order and the stock move by the same units, and nobody else is
\* about to write the order.
LEMMA CommitInv ==
  ASSUME SupplierAssumption, NEW s \in Session, IInv, Commit(s)
  PROVE  IInv'
  <1>1. /\ pc[s] = "commit" /\ order' = mine[s] /\ Close(s)
        /\ stock' = IF owner["stock"] = s THEN stock + took[s] ELSE stock
    BY DEF Commit
  <1>2. /\ owner["order"] = s /\ mine[s] \in Order /\ LinesFit(mine[s])
        /\ Units(mine[s]) = Units(order) + took[s]
        /\ owner["stock"] # s => took[s] = 0
        /\ took[s] \in Nat
    BY <1>1 DEF IInv, TypeOK, InStep
  <1>3. stock = Units(order) /\ stock \in Nat
    BY DEF IInv, TypeOK
  <1>4. stock' = stock + took[s]
    BY <1>1, <1>2, <1>3
  <1>5. (stock = Units(order))'
    BY <1>1, <1>2, <1>3, <1>4
  <1>6. LinesFit(order)'
    BY <1>1, <1>2
  <1>7. order' \in Order /\ stock' \in Nat
    BY <1>1, <1>2, <1>3, <1>4
  <1>8. TypeOK'
    BY <1>1, <1>7, Closed DEF TypeOK
  <1>9. InStep(s)'
    BY <1>1, Closed DEF InStep
  <1>10. ASSUME NEW t \in Session \ {s} PROVE InStep(t)'
    <2>1. pc[t] \in {"idle", "order"} /\ owner["order"] # t /\ took[t] = 0 /\ owner["stock"] # t
      BY <1>2 DEF IInv, TypeOK, InStep
    <2> QED
      BY <1>1, <2>1, Closed DEF InStep
  <1> QED
    BY <1>5, <1>6, <1>8, <1>9, <1>10 DEF IInv

LEMMA NextInv ==
  ASSUME SupplierAssumption, IInv, [Next]_vars
  PROVE  IInv'
  <1>1. ASSUME NEW s \in Session, Statement(s) \/ Abort(s) PROVE IInv'
    BY <1>1, FailInv, LockOrderInv, LockStockInv, CommitInv DEF Statement, Refuse, Abort
  <1>2. ASSUME NEW s \in Session, NEW q \in Receipt \cup {Everything}, Receive(s, q)
        PROVE  IInv'
    BY <1>2, BeginInv DEF Receive
  <1>3. ASSUME NEW s \in Session, NEW st \in Status, ChangeStatus(s, st) PROVE IInv'
    BY <1>3, BeginInv DEF ChangeStatus
  <1>4. CASE UNCHANGED vars
    <2>1. UNCHANGED <<order, stock, owner, pc, kind, asks, mine, took>>
      BY <1>4 DEF vars, committed, request, objects
    <2>2. Units(order') = Units(order) /\ (LinesFit(order') <=> LinesFit(order))
      BY <2>1
    <2>3. ASSUME NEW t \in Session PROVE InStep(t)'
      BY <2>1, <2>2, StaysInStep DEF IInv
    <2> QED
      BY <2>1, <2>2, <2>3 DEF IInv, TypeOK
  <1> QED
    BY <1>1, <1>2, <1>3, <1>4, CreateInv DEF Next
-----------------------------------------------------------------------------
(* The theorems *)

\* The inductive invariant, for any constants the assumption allows.
THEOREM Invariance == SupplierAssumption => (Spec => []IInv)
  <1>1. SupplierAssumption /\ Init => SupplierAssumption /\ IInv
    BY InitInv
  <1>2. (SupplierAssumption /\ IInv) /\ [Next]_vars => (SupplierAssumption /\ IInv)'
    BY NextInv DEF SupplierAssumption
  <1> QED
    BY <1>1, <1>2, PTL DEF Spec

\* The order, its lines, the stock and every request are of their types.
THEOREM TypeCorrect == SupplierAssumption => (Spec => []TypeOK)
  BY Invariance, PTL DEF IInv

\* What the order's lines say has been received is what the stock has gained, no
\* line gets more than was ordered, however many people receive and cancel at once.
THEOREM AllDeliveriesAreBooked == SupplierAssumption => (Spec => []DeliveriesAreBooked)
  <1>1. SupplierAssumption /\ IInv => DeliveriesAreBooked
    <2> SUFFICES ASSUME SupplierAssumption, IInv PROVE DeliveriesAreBooked
      OBVIOUS
    <2>1. order.received \in [Line -> Nat] /\ stock = Units(order) /\ LinesFit(order)
      BY OrderReceived DEF IInv, TypeOK
    <2>2. order.status = "CANCELLED" => stock = 0
      BY <2>1, UnitsFacts DEF LinesFit
    <2> QED
      BY <2>1, <2>2 DEF DeliveriesAreBooked, LinesFit
  <1>2. SupplierAssumption /\ Init => SupplierAssumption /\ IInv
    BY InitInv
  <1>3. (SupplierAssumption /\ IInv) /\ [Next]_vars => (SupplierAssumption /\ IInv)'
    BY NextInv DEF SupplierAssumption
  <1> QED
    BY <1>1, <1>2, <1>3, PTL DEF Spec
=============================================================================

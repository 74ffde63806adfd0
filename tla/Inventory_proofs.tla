-------------------------- MODULE Inventory_proofs --------------------------
(***************************************************************************)
(* Proofs about the inventory, for any products, warehouses, sessions and  *)
(* requests.  The ledger: the quantity of a stock row is the sum of its    *)
(* adjustment records and stays within 0 .. MaxInt, since what a session   *)
(* has read under its row lock is still the committed quantity; and every  *)
(* commit is one whole movement of StockMovements, for which the invariant *)
(* must know besides how much of its request a session is through with.    *)
(* The alerts: what ReorderAlerts_proofs proves.  Reorder points: what an  *)
(* apply has written is settled.  The product page: a row says what has    *)
(* moved in and out of it, an open page what had when it was opened.       *)
(***************************************************************************)
EXTENDS Inventory, SumFacts, SequenceTheorems, TLAPS

USE StockAssumption, NoSessionAssumption

LEMMA InitInv == Init => IInv
  BY DEF Init, IInv, TypeOK, LedgerBalanced, NoStaleWrite, OwnRowsOnly, AtALine,
         StandsAtALine, Unlocked, Quantity, Kind, Leg

\* A function that maps the positions of one sequence into S is a sequence.
LEMMA MapSeq ==
  ASSUME NEW S, NEW T, NEW seq \in Seq(T), NEW f,
         f = [i \in DOMAIN seq |-> f[i]],
         \A i \in 1 .. Len(seq) : f[i] \in S
  PROVE  f \in Seq(S)
  <1>1. Len(seq) \in Nat /\ DOMAIN seq = 1 .. Len(seq)
    BY LenProperties
  <1>2. f \in [1 .. Len(seq) -> S]
    BY <1>1
  <1> QED
    BY <1>1, <1>2, SeqDef

\* The line a session stands at names a row and a change.
LEMMA LegType ==
  ASSUME IInv, NEW s \in Session, pc[s] \in {"lock", "insert"}
  PROVE  CurrentLeg(s).row \in Row /\ CurrentLeg(s).change \in Int
  <1>1. legs[s] \in Seq(Leg) /\ at[s] \in DOMAIN legs[s]
    BY DEF IInv, TypeOK, AtALine, StandsAtALine
  <1>2. at[s] \in 1 .. Len(legs[s])
    BY <1>1, LenProperties
  <1>3. legs[s][at[s]] \in Leg
    BY <1>1, <1>2, ElementOfSeq
  <1> QED
    BY <1>3 DEF CurrentLeg, Leg

\* A step of one session leaves the others at their line, unless it gives one
\* of them a row.
LEMMA OthersStand ==
  ASSUME NEW s \in Session, IInv, StandsAtALine(s)',
         NEW a, at' = [at EXCEPT ![s] = a],
         NEW b, pc' = [pc EXCEPT ![s] = b],
         NEW c, kind' = [kind EXCEPT ![s] = c],
         NEW d, legs' = [legs EXCEPT ![s] = d],
         \A t \in Session, r \in Row : t # s /\ owner[r] # t => owner'[r] # t
  PROVE  AtALine'
  <1> SUFFICES ASSUME NEW t \in Session, t # s PROVE StandsAtALine(t)'
    BY DEF AtALine
  <1>1. /\ at'[t] = at[t] /\ pc'[t] = pc[t]
        /\ kind'[t] = kind[t] /\ legs'[t] = legs[t]
    BY DEF IInv, TypeOK
  <1>2. StandsAtALine(t)
    BY DEF IInv, AtALine
  <1>3. CASE pc[t] = "insert"
    <2>1. legs[t][at[t]].row \in Row
      BY <1>3, LegType DEF CurrentLeg
    <2> QED
      BY <1>1, <1>2, <1>3, <2>1 DEF StandsAtALine
  <1>4. CASE pc[t] # "insert"
    BY <1>1, <1>2, <1>4 DEF StandsAtALine
  <1> QED
    BY <1>3, <1>4

\* The lines of a request are well formed whatever the endpoint is given.
LEMMA RequestLegs ==
  ASSUME NEW s \in Session, IInv, NEW k \in Kind, NEW ls \in Seq(Leg),
         k = "transfer" => Len(ls) = 2, Begin(s, k, ls)
  PROVE  IInv'
  <1>1. Len(ls) \in Nat \ {0}
    BY DEF Begin
  <1>2. TypeOK'
    BY DEF IInv, TypeOK, Begin, committed
  <1>3. AtALine'
    <2>1. DOMAIN ls = 1 .. Len(ls)
      BY LenProperties
    <2>2. /\ at' = [at EXCEPT ![s] = at[s]]
          /\ pc' = [pc EXCEPT ![s] = "lock"]
          /\ kind' = [kind EXCEPT ![s] = k]
          /\ legs' = [legs EXCEPT ![s] = ls]
          /\ owner' = owner
          /\ at[s] = 1
      BY DEF IInv, TypeOK, AtALine, StandsAtALine, Begin
    <2>3. StandsAtALine(s)'
      BY <1>1, <2>1, <2>2 DEF IInv, TypeOK, StandsAtALine
    <2> QED
      BY <2>2, <2>3, OthersStand
  <1>4. LedgerBalanced' /\ NoStaleWrite' /\ OwnRowsOnly'
    BY DEF IInv, TypeOK, LedgerBalanced, NoStaleWrite, OwnRowsOnly, Begin, committed
  <1> QED
    BY <1>2, <1>3, <1>4 DEF IInv

LEMMA RequestsInv ==
  ASSUME NEW s \in Session, IInv, Requests(s)
  PROVE  IInv'
  <1>1. ASSUME NEW r \in Row, NEW change \in AdjustChange,
               CreateStockAdjustment(s, r, change)
        PROVE  IInv'
    <2> DEFINE ls == AdjustmentLegs(r, change)
    <2>1. ls \in Seq(Leg)
      BY DEF Leg, AdjustmentLegs
    <2> QED
      BY <1>1, <2>1, RequestLegs DEF CreateStockAdjustment, Kind
  <1>2. ASSUME NEW p \in Product, NEW from \in Warehouse, NEW to \in Warehouse,
               NEW q \in TransferQuantity, TransferStock(s, p, from, to, q)
        PROVE  IInv'
    <2> DEFINE ls == TransferLegs(p, from, to, q)
    <2>1. ls \in Seq(Leg) /\ Len(ls) = 2
      BY DEF Leg, Row, TransferLegs
    <2> QED
      BY <1>2, <2>1, RequestLegs DEF TransferStock, Kind
  <1>3. ASSUME NEW lines \in OrderLines, ReserveStock(s, lines)
        PROVE  IInv'
    <2>1. PICK w \in DefaultWarehouses({lines[i].product : i \in DOMAIN lines}) :
              Begin(s, "reserve", ReservationLegs(lines, w))
      BY <1>3 DEF ReserveStock
    <2>2. w \in Warehouse
      BY DEF DefaultWarehouses, IInv, TypeOK, Row
    <2> DEFINE ls == ReservationLegs(lines, w)
    <2>3. lines \in Seq([product : Product, quantity : Nat])
      OBVIOUS
    <2>4. ls \in Seq(Leg)
      <3>1. ASSUME NEW i \in 1 .. Len(lines) PROVE ls[i] \in Leg
        <4>1. lines[i] \in [product : Product, quantity : Nat]
          BY <2>3, ElementOfSeq
        <4>2. i \in DOMAIN lines
          BY <2>3, LenProperties
        <4> QED
          BY <2>2, <4>1, <4>2 DEF Leg, Row, ReservationLegs
      <3> HIDE DEF ls
      <3>2. ls = [i \in DOMAIN lines |-> ls[i]]
        BY DEF ls, ReservationLegs
      <3> QED
        BY <2>3, <3>1, <3>2, MapSeq
    <2> QED
      BY <2>1, <2>4, RequestLegs DEF Kind
  <1>4. ASSUME NEW lines \in Deliveries, ReceiveSupplierOrder(s, lines)
        PROVE  IInv'
    <2> DEFINE ls == ReceiptLegs(lines)
    <2>1. lines \in Seq([product : Product, warehouse : Warehouse,
                         quantity : Nat \ {0}])
      OBVIOUS
    <2>2. ls \in Seq(Leg)
      <3>1. ASSUME NEW i \in 1 .. Len(lines) PROVE ls[i] \in Leg
        <4>1. lines[i] \in [product : Product, warehouse : Warehouse,
                            quantity : Nat \ {0}]
          BY <2>1, ElementOfSeq
        <4>2. i \in DOMAIN lines
          BY <2>1, LenProperties
        <4> QED
          BY <4>1, <4>2 DEF Leg, Row, ReceiptLegs
      <3> HIDE DEF ls
      <3>2. ls = [i \in DOMAIN lines |-> ls[i]]
        BY DEF ls, ReceiptLegs
      <3> QED
        BY <2>1, <3>1, <3>2, MapSeq
    <2> QED
      BY <1>4, <2>2, RequestLegs DEF ReceiveSupplierOrder, Kind
  <1> QED
    BY <1>1, <1>2, <1>3, <1>4 DEF Requests

\* Releasing its locks gives a session no row and takes none from another.
LEMMA ReleaseOthers ==
  ASSUME NEW s \in Session, NEW r \in Row, IInv
  PROVE  /\ Release(owner, s) \in [Row -> Session \cup {NoSession}]
         /\ Release(owner, s)[r] # s
         /\ \A t \in Session : owner[r] # t => Release(owner, s)[r] # t
  BY DEF IInv, TypeOK, Release

\* A session that ends without a commit leaves nothing behind.
LEMMA CloseInv ==
  ASSUME NEW s \in Session, IInv, CloseSession(s), UNCHANGED committed
  PROVE  /\ LedgerBalanced' /\ NoStaleWrite' /\ OwnRowsOnly'
         /\ owner' \in [Row -> Session \cup {NoSession}]
         /\ local' \in [Session -> [Row -> Quantity]]
         /\ pending' \in [Session -> [Row -> Int]]
         /\ at' \in [Session -> Nat \ {0}]
  BY DEF IInv, TypeOK, LedgerBalanced, NoStaleWrite, OwnRowsOnly, CloseSession,
         committed, Release, Quantity

LEMMA FailInv ==
  ASSUME NEW s \in Session, IInv, Fail(s)
  PROVE  IInv'
  <1>1. /\ LedgerBalanced' /\ NoStaleWrite' /\ OwnRowsOnly'
        /\ owner' \in [Row -> Session \cup {NoSession}]
        /\ local' \in [Session -> [Row -> Quantity]]
        /\ pending' \in [Session -> [Row -> Int]]
        /\ at' \in [Session -> Nat \ {0}]
    BY CloseInv DEF Fail
  <1>2. /\ pc' = [pc EXCEPT ![s] = "idle"]
        /\ kind' = [kind EXCEPT ![s] = "none"]
        /\ legs' = [legs EXCEPT ![s] = <<>>]
        /\ at' = [at EXCEPT ![s] = 1]
        /\ owner' = Release(owner, s)
        /\ UNCHANGED committed
    BY DEF Fail, Done, CloseSession
  <1>3. TypeOK'
    BY <1>1, <1>2 DEF IInv, TypeOK, committed, Kind
  <1>4. StandsAtALine(s)'
    BY <1>2 DEF IInv, TypeOK, StandsAtALine
  <1>5. AtALine'
    BY <1>2, <1>4, ReleaseOthers, OthersStand
  <1> QED
    BY <1>1, <1>3, <1>5 DEF IInv

LEMMA CommitInv ==
  ASSUME NEW s \in Session, IInv, Commit(s)
  PROVE  IInv'
  <1>1. /\ exists' = exists \cup {r \in Row : owner[r] = s}
        /\ stock' = [r \in Row |-> IF owner[r] = s THEN local[s][r] ELSE stock[r]]
        /\ ledger' = [r \in Row |-> ledger[r] + pending[s][r]]
        /\ owner' = Release(owner, s)
        /\ local' = [local EXCEPT ![s] = [r \in Row |-> 0]]
        /\ pending' = [pending EXCEPT ![s] = [r \in Row |-> 0]]
        /\ at' = [at EXCEPT ![s] = 1]
        /\ pc' = [pc EXCEPT ![s] = "idle"]
        /\ kind' = [kind EXCEPT ![s] = "none"]
        /\ legs' = [legs EXCEPT ![s] = <<>>]
    BY DEF Commit, CloseSession, Done
  <1>2. TypeOK'
    BY <1>1 DEF IInv, TypeOK, Release, Quantity, Kind
  <1>3. LedgerBalanced'
    BY <1>1 DEF IInv, TypeOK, LedgerBalanced, NoStaleWrite, OwnRowsOnly
  <1>4. NoStaleWrite'
    BY <1>1 DEF IInv, TypeOK, NoStaleWrite, Release
  <1>5. OwnRowsOnly'
    BY <1>1 DEF IInv, TypeOK, OwnRowsOnly, Release
  <1>6. StandsAtALine(s)'
    BY <1>1 DEF IInv, TypeOK, StandsAtALine
  <1>7. AtALine'
    BY <1>1, <1>6, ReleaseOthers, OthersStand
  <1> QED
    BY <1>2, <1>3, <1>4, <1>5, <1>7 DEF IInv

\* A change made under the row lock, on the quantity that is committed (plus
\* what this session has changed already).
LEMMA ChangeInv ==
  ASSUME NEW s \in Session, IInv, pc[s] \in {"lock", "insert"},
         NEW before \in Quantity,
         before = stock[CurrentLeg(s).row] + pending[s][CurrentLeg(s).row],
         Available(owner, s, CurrentLeg(s).row),
         Change(s, before)
  PROVE  IInv'
  <1> DEFINE r == CurrentLeg(s).row
             change == CurrentLeg(s).change
  <1>1. r \in Row /\ change \in Int
    BY LegType
  <1>2. before + change \in Quantity
    BY <1>1 DEF Change, Acceptable, Quantity
  <1>3. /\ owner' = [owner EXCEPT ![r] = s]
        /\ local' = [local EXCEPT ![s][r] = before + change]
        /\ pending' = [pending EXCEPT ![s][r] = @ + change]
        /\ UNCHANGED <<exists, stock, ledger, kind, legs>>
    BY DEF Change, Acquire, Recorded, committed, request
  <1>4. at' = [at EXCEPT ![s] = @ + 1] /\ pc' = [pc EXCEPT ![s] = NextPc(s)]
    BY DEF Change
  <1>5. TypeOK'
    BY <1>1, <1>2, <1>3, <1>4 DEF IInv, TypeOK, NextPc
  <1>6. AtALine'
    <2>1. at[s] \in 1 .. Len(legs[s]) /\ DOMAIN legs[s] = 1 .. Len(legs[s])
      BY LenProperties DEF IInv, TypeOK, AtALine, StandsAtALine
    <2>2. /\ at' = [at EXCEPT ![s] = at[s] + 1]
          /\ kind' = [kind EXCEPT ![s] = kind[s]]
          /\ legs' = [legs EXCEPT ![s] = legs[s]]
      BY <1>3, <1>4 DEF IInv, TypeOK
    <2>3. StandsAtALine(s)'
      <3>1. /\ pc'[s] = NextPc(s) /\ at'[s] = at[s] + 1
            /\ legs'[s] = legs[s] /\ kind'[s] = kind[s]
        BY <1>4, <2>2 DEF IInv, TypeOK
      <3>2. NextPc(s) = "lock" => at[s] + 1 \in 1 .. Len(legs[s])
        BY <2>1 DEF NextPc
      <3>3. NextPc(s) \in {"commit", "lock"}
        BY DEF NextPc
      <3> QED
        BY <2>1, <3>1, <3>2, <3>3 DEF IInv, AtALine, StandsAtALine
    <2>4. \A t \in Session, q \in Row : t # s /\ owner[q] # t => owner'[q] # t
      BY <1>3 DEF IInv, TypeOK
    <2> QED
      BY <1>4, <2>2, <2>3, <2>4, OthersStand
  <1>7. LedgerBalanced'
    BY <1>3 DEF IInv, LedgerBalanced
  <1>8. NoStaleWrite'
    <2> SUFFICES ASSUME NEW t \in Session, NEW q \in Row, owner'[q] = t
                 PROVE  local'[t][q] = stock'[q] + pending'[t][q]
      BY DEF NoStaleWrite
    <2>1. CASE q = r
      <3>1. t = s
        BY <1>1, <1>3, <2>1 DEF IInv, TypeOK
      <3>2. local'[s][r] = before + change /\ pending'[s][r] = pending[s][r] + change
        BY <1>1, <1>3 DEF IInv, TypeOK
      <3>3. stock[r] \in Int /\ pending[s][r] \in Int
        BY <1>1 DEF IInv, TypeOK, Quantity
      <3> QED
        BY <1>1, <1>3, <2>1, <3>1, <3>2, <3>3
    <2>2. CASE q # r
      BY <1>1, <1>3, <2>2 DEF IInv, TypeOK, NoStaleWrite
    <2> QED
      BY <2>1, <2>2
  <1>9. OwnRowsOnly'
    BY <1>1, <1>3 DEF IInv, TypeOK, OwnRowsOnly, Available
  <1> QED
    BY <1>5, <1>6, <1>7, <1>8, <1>9 DEF IInv

LEMMA StatementInv ==
  ASSUME NEW s \in Session, IInv, Statement(s)
  PROVE  IInv'
  <1>1. CASE RejectZero(s)
    BY <1>1, FailInv DEF RejectZero
  <1>2. CASE LockRow(s)
    <2> DEFINE r == CurrentLeg(s).row
    <2>1. r \in Row /\ Available(owner, s, r) /\ pc[s] = "lock"
      BY <1>2, LegType DEF LockRow, ForUpdate
    <2>2. CASE Change(s, Loaded(s, r))
      <3>1. Loaded(s, r) \in Quantity /\ Loaded(s, r) = stock[r] + pending[s][r]
        BY <2>1 DEF Loaded, IInv, TypeOK, NoStaleWrite, OwnRowsOnly, Quantity
      <3> QED
        BY <2>1, <2>2, <3>1, ChangeInv
    <2>3. CASE Refuse(s, Loaded(s, r))
      BY <2>3, FailInv DEF Refuse
    <2> QED
      BY <1>2, <2>2, <2>3 DEF LockRow
  <1>3. CASE MissRow(s)
    <2>1. CASE Fail(s)
      BY <2>1, FailInv
    <2>2. CASE /\ pc' = [pc EXCEPT ![s] = "insert"]
               /\ UNCHANGED <<committed, owner, request, at, local, pending>>
      <3>1. pc[s] = "lock" /\ owner[CurrentLeg(s).row] # s
        BY <1>3 DEF MissRow
      <3>2. TypeOK' /\ LedgerBalanced' /\ NoStaleWrite' /\ OwnRowsOnly'
        BY <2>2 DEF IInv, TypeOK, LedgerBalanced, NoStaleWrite, OwnRowsOnly,
                    committed, request
      <3>3. StandsAtALine(s)'
        BY <2>2, <3>1 DEF IInv, TypeOK, AtALine, StandsAtALine, CurrentLeg, request
      <3>4. /\ at' = [at EXCEPT ![s] = at[s]]
            /\ kind' = [kind EXCEPT ![s] = kind[s]]
            /\ legs' = [legs EXCEPT ![s] = legs[s]]
            /\ owner' = owner
        BY <2>2 DEF IInv, TypeOK, request
      <3>5. AtALine'
        BY <2>2, <3>3, <3>4, OthersStand
      <3> QED
        BY <3>2, <3>5 DEF IInv
    <2> QED
      BY <1>3, <2>1, <2>2 DEF MissRow
  <1>4. CASE InsertRow(s)
    <2> DEFINE r == CurrentLeg(s).row
    <2>1. r \in Row /\ Available(owner, s, r) /\ pc[s] = "insert"
      BY <1>4, LegType DEF InsertRow
    <2>2. CASE r \notin exists /\ Change(s, 0)
      <3>1. owner[r] # s
        BY <2>1 DEF IInv, AtALine, StandsAtALine, CurrentLeg
      <3>2. stock[r] + pending[s][r] = 0 /\ 0 \in Quantity
        BY <2>1, <2>2, <3>1 DEF IInv, TypeOK, OwnRowsOnly, Quantity
      <3> QED
        BY <2>1, <2>2, <3>2, ChangeInv
    <2>3. CASE Refuse(s, 0)
      BY <2>3, FailInv DEF Refuse
    <2>4. CASE Fail(s)
      BY <2>4, FailInv
    <2>5. CASE /\ CloseSession(s)
               /\ pc' = [pc EXCEPT ![s] = "retry"]
               /\ UNCHANGED <<committed, request>>
      <3>1. UNCHANGED committed
        BY <2>5
      <3>2. /\ LedgerBalanced' /\ NoStaleWrite' /\ OwnRowsOnly'
            /\ owner' \in [Row -> Session \cup {NoSession}]
            /\ local' \in [Session -> [Row -> Quantity]]
            /\ pending' \in [Session -> [Row -> Int]]
            /\ at' \in [Session -> Nat \ {0}]
        BY <2>5, <3>1, CloseInv
      <3>3. TypeOK'
        BY <2>5, <3>2 DEF IInv, TypeOK, committed, request
      <3>4. /\ at' = [at EXCEPT ![s] = 1]
            /\ kind' = [kind EXCEPT ![s] = kind[s]]
            /\ legs' = [legs EXCEPT ![s] = legs[s]]
            /\ owner' = Release(owner, s)
        BY <2>5 DEF IInv, TypeOK, CloseSession, request
      <3>5. StandsAtALine(s)'
        BY <2>5, <3>4 DEF IInv, TypeOK, AtALine, StandsAtALine
      <3>6. AtALine'
        BY <2>5, <3>4, <3>5, ReleaseOthers, OthersStand
      <3> QED
        BY <3>2, <3>3, <3>6 DEF IInv
    <2> QED
      BY <1>4, <2>2, <2>3, <2>4, <2>5 DEF InsertRow
  <1>5. CASE RetryTarget(s)
    BY <1>5, FailInv DEF RetryTarget
  <1>6. CASE Commit(s)
    BY <1>6, CommitInv
  <1> QED
    BY <1>1, <1>2, <1>3, <1>4, <1>5, <1>6 DEF Statement

LEMMA NextInv == IInv /\ [Next]_vars => IInv'
  <1> SUFFICES ASSUME IInv, [Next]_vars PROVE IInv'
    OBVIOUS
  <1>1. ASSUME NEW s \in Session, Requests(s) PROVE IInv'
    BY <1>1, RequestsInv
  <1>2. ASSUME NEW s \in Session, Statement(s) PROVE IInv'
    BY <1>2, StatementInv
  <1>3. ASSUME NEW s \in Session, Abort(s) \/ BreakDeadlock(s) PROVE IInv'
    BY <1>3, FailInv DEF Abort, BreakDeadlock
  <1>4. CASE UNCHANGED vars
    BY <1>4 DEF vars, IInv, TypeOK, LedgerBalanced, NoStaleWrite, OwnRowsOnly,
                AtALine, StandsAtALine
  <1> QED
    BY <1>1, <1>2, <1>3, <1>4 DEF Next

THEOREM Invariance == Spec => []IInv
  BY InitInv, NextInv, PTL DEF Spec

\* Type correctness; with it, no request leaves a negative quantity or one that
\* the column cannot hold.
THEOREM TypeCorrect == Spec => []TypeOK
  <1>1. IInv => TypeOK
    BY DEF IInv
  <1> QED
    BY <1>1, Invariance, PTL

\* The quantity of every stock row is the sum of its adjustment records.
THEOREM Balanced == Spec => []LedgerBalanced
  <1>1. IInv => LedgerBalanced
    BY DEF IInv
  <1> QED
    BY <1>1, Invariance, PTL

\* What a session has loaded under a row lock does not go stale before it is
\* written back.
THEOREM NoLostUpdate == Spec => []NoStaleWrite
  <1>1. IInv => NoStaleWrite
    BY DEF IInv
  <1> QED
    BY <1>1, Invariance, PTL
-----------------------------------------------------------------------------
(* Every commit is one whole movement. *)

\* The changes of a request's lines.
ChangesOf(ls) == [i \in DOMAIN ls |-> ls[i].change]
\* What the first n lines of a request change of a row.
Changed(ls, n, r) == SumOf(ChangesOf(ls), {i \in 1 .. n : ls[i].row = r})

\* The lines are those of a request of the kind.
LegsFit(k, ls) ==
    \/ k = "none" /\ ls = << >>
    \/ /\ k = "adjust"
       /\ \E r \in Row, c \in AdjustChange : c # 0 /\ ls = AdjustmentLegs(r, c)
    \/ /\ k = "transfer"
       /\ \E p \in Product, from, to \in Warehouse, q \in TransferQuantity :
             from # to /\ q > 0 /\ ls = TransferLegs(p, from, to, q)
    \/ /\ k = "reserve"
       /\ \E lines \in OrderLines, w \in Warehouse : ls = ReservationLegs(lines, w)
    \/ k = "receive" /\ \E lines \in Deliveries : ls = ReceiptLegs(lines)

\* The rows a session has are those of the lines it is through with, its pending
\* adjustments are what these lines change, and only a line that adds has made
\* a row.
Through(s) ==
    /\ LegsFit(kind[s], legs[s])
    /\ at[s] =< Len(legs[s]) + 1
    /\ pc[s] = "commit" => at[s] = Len(legs[s]) + 1
    /\ pc[s] = "insert" => CurrentLeg(s).change > 0
    /\ \A r \in Row : owner[r] = s <=> \E i \in 1 .. at[s] - 1 : legs[s][i].row = r
    /\ \A r \in Row : pending[s][r] = Changed(legs[s], at[s] - 1, r)
    /\ \A r \in Row : owner[r] = s /\ r \notin exists =>
          \E i \in 1 .. at[s] - 1 : legs[s][i].row = r /\ legs[s][i].change > 0

\* The inductive invariant of the refinement.
MInv == IInv /\ \A s \in Session : Through(s)

\* The lines of a request, one by one.
LEMMA SequenceFacts ==
  ASSUME NEW ls \in Seq(Leg)
  PROVE  /\ Len(ls) \in Nat /\ DOMAIN ls = 1 .. Len(ls)
         /\ \A i \in 1 .. Len(ls) :
               ls[i] \in Leg /\ ls[i].change \in Int /\ ls[i].row \in Row
  <1>1. Len(ls) \in Nat /\ DOMAIN ls = 1 .. Len(ls)
    BY LenProperties
  <1>2. \A i \in 1 .. Len(ls) : ls[i] \in Leg
    BY ElementOfSeq
  <1> QED
    BY <1>1, <1>2 DEF Leg

\* One line more changes its row by so much more.
LEMMA ChangedFacts ==
  ASSUME NEW ls \in Seq(Leg)
  PROVE  /\ \A r : Changed(ls, 0, r) = 0
         /\ \A n \in 1 .. Len(ls) : \A r :
               /\ Changed(ls, n - 1, r) \in Int
               /\ Changed(ls, n, r) = Changed(ls, n - 1, r) +
                                        IF ls[n].row = r THEN ls[n].change ELSE 0
  <1>0. PICK P : P = 1 .. Len(ls)
    OBVIOUS
  <1>1. Len(ls) \in Nat /\ DOMAIN ls = P /\ \A i \in P : ls[i].change \in Int
    BY <1>0, SequenceFacts
  <1>2. IsFiniteSet(P)
    <2>1. \A a, b \in Int : IsFiniteSet(a .. b)
      BY FS_Interval
    <2> QED
      BY <1>0, <1>1, <2>1
  <1>3. ChangesOf(ls) \in [P -> Int]
    BY <1>1 DEF ChangesOf
  <1>4. SumsUp(ChangesOf(ls), P)
    BY <1>2, <1>3, SumLaws
  <1>5. ASSUME NEW r PROVE Changed(ls, 0, r) = 0
    <2>1. {i \in 1 .. 0 : ls[i].row = r} = {}
      OBVIOUS
    <2> QED
      BY <1>4, <2>1 DEF Changed, SumsUp
  <1>6. ASSUME NEW n \in 1 .. Len(ls), NEW r
        PROVE  /\ Changed(ls, n - 1, r) \in Int
               /\ Changed(ls, n, r) = Changed(ls, n - 1, r) +
                                        IF ls[n].row = r THEN ls[n].change ELSE 0
    <2>1. PICK A, B : /\ A = {i \in 1 .. n - 1 : ls[i].row = r}
                      /\ B = {i \in 1 .. n : ls[i].row = r}
      OBVIOUS
    <2>2. A \in SUBSET P /\ B \in SUBSET P
      BY <1>0, <1>1, <2>1
    <2>3. n \notin A /\ B = IF ls[n].row = r THEN A \cup {n} ELSE A
      BY <1>1, <2>1
    <2>4. SumOf(ChangesOf(ls), A) \in Int
      BY <1>4, <2>2 DEF SumsUp
    <2>5. ls[n].row = r => SumOf(ChangesOf(ls), B) = ls[n].change + SumOf(ChangesOf(ls), A)
      <3>1. SUFFICES ASSUME ls[n].row = r
                     PROVE  SumOf(ChangesOf(ls), B) = ls[n].change + SumOf(ChangesOf(ls), A)
        OBVIOUS
      <3>2. n \in B /\ B \ {n} = A
        BY <2>3, <3>1
      <3>3. ChangesOf(ls)[n] = ls[n].change
        BY <1>0, <1>1 DEF ChangesOf
      <3> QED
        BY <1>4, <2>2, <3>2, <3>3 DEF SumsUp
    <2>6. ls[n].change \in Int
      BY <1>0, <1>1
    <2>7. /\ Changed(ls, n - 1, r) = SumOf(ChangesOf(ls), A)
          /\ Changed(ls, n, r) = SumOf(ChangesOf(ls), B)
      BY <2>1 DEF Changed
    <2>8. CASE ls[n].row = r
      BY <2>4, <2>5, <2>6, <2>7, <2>8
    <2>9. CASE ls[n].row # r
      BY <2>3, <2>4, <2>7, <2>9
    <2> QED
      BY <2>8, <2>9
  <1> QED
    BY <1>5, <1>6

LEMMA InitThrough == Init => \A s \in Session : Through(s)
  <1> SUFFICES ASSUME Init, NEW s \in Session PROVE Through(s)
    OBVIOUS
  <1>1. /\ kind[s] = "none" /\ legs[s] = << >> /\ at[s] = 1 /\ pc[s] = "idle"
        /\ \A r \in Row : owner[r] # s /\ pending[s][r] = 0
    <2>1. NoSession # s
      BY NoSessionAssumption
    <2> QED
      BY <2>1 DEF Init, Unlocked
  <1>2. << >> \in Seq(Leg) /\ Len(<< >>) = 0
    BY EmptySeq
  <1>3. \A r \in Row : Changed(legs[s], at[s] - 1, r) = 0
    <2>1. at[s] - 1 = 0
      BY <1>1
    <2> QED
      BY <1>1, <1>2, <2>1, ChangedFacts
  <1> QED
    BY <1>1, <1>2, <1>3 DEF Through, LegsFit

\* The other sessions keep their requests and their rows.
OthersStay(s) ==
    \A t \in Session \ {s} :
        /\ kind'[t] = kind[t] /\ legs'[t] = legs[t] /\ at'[t] = at[t]
        /\ pc'[t] = pc[t] /\ pending'[t] = pending[t]
        /\ \A r \in Row : owner'[r] = t <=> owner[r] = t

\* A step of one session leaves the others where they are.
LEMMA OthersGoOn ==
  ASSUME MInv, NEW s \in Session, Through(s)', exists \subseteq exists',
         OthersStay(s)
  PROVE  \A t \in Session : Through(t)'
  <1> SUFFICES ASSUME NEW t \in Session, t # s PROVE Through(t)'
    OBVIOUS
  <1>1. /\ kind'[t] = kind[t] /\ legs'[t] = legs[t] /\ at'[t] = at[t] /\ pc'[t] = pc[t]
        /\ pending'[t] = pending[t]
        /\ \A r \in Row : owner'[r] = t <=> owner[r] = t
    BY DEF OthersStay
  <1>2. Through(t)
    BY DEF MInv
  <1>3. CurrentLeg(t)' = CurrentLeg(t)
    BY <1>1 DEF CurrentLeg
  <1>4. \A r \in Row : Changed(legs'[t], at'[t] - 1, r) = Changed(legs[t], at[t] - 1, r)
    BY <1>1
  <1> QED
    BY <1>1, <1>2, <1>3, <1>4 DEF Through

\* A session that has closed is through with no line and has no row.
LEMMA ClosedFits ==
  ASSUME MInv, NEW s \in Session, owner' = Release(owner, s), at'[s] = 1,
         \A r \in Row : pending'[s][r] = 0,
         legs'[s] \in Seq(Leg), LegsFit(kind'[s], legs'[s]), pc'[s] \in {"idle", "retry"}
  PROVE  Through(s)'
  <1>1. \A r \in Row : owner'[r] # s
    BY ReleaseOthers DEF MInv
  <1>2. at'[s] - 1 = 0 /\ Len(legs'[s]) \in Nat
    BY SequenceFacts
  <1>3. \A r \in Row : Changed(legs'[s], at'[s] - 1, r) = 0
    BY <1>2, ChangedFacts
  <1> QED
    BY <1>1, <1>2, <1>3 DEF Through

\* A session that fails is through with nothing.
LEMMA FailFits ==
  ASSUME MInv, NEW s \in Session, Fail(s)
  PROVE  \A t \in Session : Through(t)'
  <1>1. /\ pc' = [pc EXCEPT ![s] = "idle"]
        /\ kind' = [kind EXCEPT ![s] = "none"]
        /\ legs' = [legs EXCEPT ![s] = << >>]
        /\ at' = [at EXCEPT ![s] = 1]
        /\ pending' = [pending EXCEPT ![s] = [r \in Row |-> 0]]
        /\ owner' = Release(owner, s)
        /\ exists' = exists
    BY DEF Fail, Done, CloseSession, committed
  <1>2. << >> \in Seq(Leg)
    BY EmptySeq
  <1>3. /\ pc'[s] = "idle" /\ kind'[s] = "none" /\ legs'[s] = << >> /\ at'[s] = 1
        /\ \A r \in Row : pending'[s][r] = 0
    BY <1>1 DEF MInv, IInv, TypeOK
  <1>4. LegsFit(kind'[s], legs'[s])
    BY <1>3 DEF LegsFit
  <1>5. Through(s)'
    BY <1>1, <1>2, <1>3, <1>4, ClosedFits
  <1>6. OthersStay(s)
    BY <1>1, NoSessionAssumption DEF OthersStay, MInv, IInv, TypeOK, Release
  <1> QED
    BY <1>1, <1>5, <1>6, OthersGoOn

\* After its commit a session has nothing left to do.
LEMMA CommitFits ==
  ASSUME MInv, NEW s \in Session, Commit(s)
  PROVE  \A t \in Session : Through(t)'
  <1>1. /\ pc' = [pc EXCEPT ![s] = "idle"]
        /\ kind' = [kind EXCEPT ![s] = "none"]
        /\ legs' = [legs EXCEPT ![s] = << >>]
        /\ at' = [at EXCEPT ![s] = 1]
        /\ pending' = [pending EXCEPT ![s] = [r \in Row |-> 0]]
        /\ owner' = Release(owner, s)
        /\ exists \subseteq exists'
    BY DEF Commit, Done, CloseSession
  <1>2. << >> \in Seq(Leg)
    BY EmptySeq
  <1>3. /\ pc'[s] = "idle" /\ kind'[s] = "none" /\ legs'[s] = << >> /\ at'[s] = 1
        /\ \A r \in Row : pending'[s][r] = 0
    BY <1>1 DEF MInv, IInv, TypeOK
  <1>4. LegsFit(kind'[s], legs'[s])
    BY <1>3 DEF LegsFit
  <1>5. Through(s)'
    BY <1>1, <1>2, <1>3, <1>4, ClosedFits
  <1>6. OthersStay(s)
    BY <1>1, NoSessionAssumption DEF OthersStay, MInv, IInv, TypeOK, Release
  <1> QED
    BY <1>1, <1>5, <1>6, OthersGoOn

\* A request begins before its first line.
LEMMA BeginFits ==
  ASSUME MInv, IInv', NEW s \in Session, NEW k, NEW ls, LegsFit(k, ls), Begin(s, k, ls)
  PROVE  \A t \in Session : Through(t)'
  <1>1. /\ pc' = [pc EXCEPT ![s] = "lock"] /\ kind' = [kind EXCEPT ![s] = k]
        /\ legs' = [legs EXCEPT ![s] = ls] /\ UNCHANGED <<exists, owner, at, pending>>
        /\ pc[s] = "idle"
    BY DEF Begin, committed
  <1>2. at[s] = 1 /\ Through(s)
    BY <1>1 DEF MInv, IInv, AtALine, StandsAtALine
  <1>3. pc'[s] = "lock" /\ kind'[s] = k /\ legs'[s] = ls
    BY <1>1 DEF MInv, IInv, TypeOK
  <1>4. ls \in Seq(Leg) /\ Len(ls) \in Nat
    BY <1>3, SequenceFacts DEF IInv, TypeOK
  <1>5. legs[s] \in Seq(Leg)
    BY DEF MInv, IInv, TypeOK
  <1>6. \A r \in Row : pending[s][r] = 0 /\ Changed(ls, 0, r) = 0
    BY <1>2, <1>4, <1>5, ChangedFacts DEF Through
  <1>7. \A r \in Row : owner[r] # s
    BY <1>2 DEF Through
  <1>8. Through(s)'
    <2>1. /\ at'[s] = 1 /\ at'[s] - 1 = 0
          /\ \A r \in Row : owner'[r] # s /\ pending'[s][r] = 0
      BY <1>1, <1>2, <1>6, <1>7
    <2> QED
      BY <1>3, <1>4, <1>6, <2>1 DEF Through
  <1>9. OthersStay(s)
    BY <1>1 DEF OthersStay, MInv, IInv, TypeOK
  <1> QED
    BY <1>1, <1>8, <1>9, OthersGoOn

LEMMA RequestsFit ==
  ASSUME MInv, NEW s \in Session, Requests(s)
  PROVE  \A t \in Session : Through(t)'
  <1>1. IInv'
    BY RequestsInv DEF MInv
  <1>2. ASSUME NEW r \in Row, NEW c \in AdjustChange, CreateStockAdjustment(s, r, c)
        PROVE  \A t \in Session : Through(t)'
    <2>1. LegsFit("adjust", AdjustmentLegs(r, c))
      BY <1>2 DEF CreateStockAdjustment, LegsFit
    <2> QED
      BY <1>1, <1>2, <2>1, BeginFits DEF CreateStockAdjustment
  <1>3. ASSUME NEW p \in Product, NEW from \in Warehouse, NEW to \in Warehouse,
               NEW q \in TransferQuantity, TransferStock(s, p, from, to, q)
        PROVE  \A t \in Session : Through(t)'
    <2>1. LegsFit("transfer", TransferLegs(p, from, to, q))
      BY <1>3 DEF TransferStock, LegsFit
    <2> QED
      BY <1>1, <1>3, <2>1, BeginFits DEF TransferStock
  <1>4. ASSUME NEW lines \in OrderLines, ReserveStock(s, lines)
        PROVE  \A t \in Session : Through(t)'
    <2>1. PICK w \in DefaultWarehouses({lines[i].product : i \in DOMAIN lines}) :
              Begin(s, "reserve", ReservationLegs(lines, w))
      BY <1>4 DEF ReserveStock
    <2>2. w \in Warehouse
      BY DEF DefaultWarehouses, MInv, IInv, TypeOK, Row
    <2>3. LegsFit("reserve", ReservationLegs(lines, w))
      BY <2>2 DEF LegsFit
    <2> QED
      BY <1>1, <2>1, <2>3, BeginFits
  <1>5. ASSUME NEW lines \in Deliveries, ReceiveSupplierOrder(s, lines)
        PROVE  \A t \in Session : Through(t)'
    <2>1. LegsFit("receive", ReceiptLegs(lines))
      BY DEF LegsFit
    <2> QED
      BY <1>1, <1>5, <2>1, BeginFits DEF ReceiveSupplierOrder
  <1> QED
    BY <1>2, <1>3, <1>4, <1>5 DEF Requests

\* A change is one line more that the session is through with.
LEMMA ChangeFits ==
  ASSUME MInv, NEW s \in Session, pc[s] \in {"lock", "insert"},
         NEW before, Change(s, before), Available(owner, s, CurrentLeg(s).row),
         \/ CurrentLeg(s).row \in exists \/ owner[CurrentLeg(s).row] = s
         \/ CurrentLeg(s).change > 0
  PROVE  \A t \in Session : Through(t)'
  <1>0. PICK ls, n, x, y : ls = legs[s] /\ n = at[s] /\ x = CurrentLeg(s).row
                           /\ y = CurrentLeg(s).change
    OBVIOUS
  <1>1. ls \in Seq(Leg) /\ Len(ls) \in Nat /\ n \in 1 .. Len(ls)
        /\ x = ls[n].row /\ y = ls[n].change /\ x \in Row /\ y \in Int
    <2>1. ls \in Seq(Leg) /\ n \in DOMAIN ls
      BY <1>0 DEF MInv, IInv, TypeOK, AtALine, StandsAtALine
    <2>2. IInv
      BY DEF MInv
    <2> QED
      BY <1>0, <2>1, <2>2, SequenceFacts, LegType DEF CurrentLeg
  <1>2. /\ owner' = [owner EXCEPT ![x] = s]
        /\ pending' = [pending EXCEPT ![s][x] = @ + y]
        /\ at' = [at EXCEPT ![s] = n + 1]
        /\ pc' = [pc EXCEPT ![s] = NextPc(s)]
        /\ UNCHANGED <<exists, kind, legs>>
    BY <1>0 DEF Change, Acquire, Recorded, committed, request
  <1>3. Through(s) /\ owner \in [Row -> Session \cup {NoSession}]
        /\ pending \in [Session -> [Row -> Int]] /\ owner[x] \in {NoSession, s}
    BY <1>0 DEF MInv, IInv, TypeOK, Available
  <1>4. at'[s] = n + 1 /\ at'[s] - 1 = n /\ pc'[s] = NextPc(s) /\ n \in Int
    BY <1>0, <1>1, <1>2 DEF MInv, IInv, TypeOK
  <1>5. 1 .. n = (1 .. n - 1) \cup {n}
    BY <1>1
  <1>6. \A r \in Row : owner'[r] = s <=> \E i \in 1 .. n : ls[i].row = r
    <2>1. \A r \in Row : owner'[r] = s <=> (owner[r] = s \/ r = x)
      BY <1>1, <1>2, <1>3
    <2> QED
      BY <1>0, <1>1, <1>3, <1>5, <2>1 DEF Through
  <1>7. \A r \in Row : pending'[s][r] = Changed(ls, n, r)
    <2> SUFFICES ASSUME NEW r \in Row PROVE pending'[s][r] = Changed(ls, n, r)
      OBVIOUS
    <2>1. pending[s][r] = Changed(ls, n - 1, r) /\ pending[s][r] \in Int
      BY <1>0, <1>3 DEF Through
    <2>2. Changed(ls, n, r) = pending[s][r] + IF x = r THEN y ELSE 0
      BY <1>1, <2>1, ChangedFacts
    <2>3. pending'[s][r] = IF r = x THEN pending[s][r] + y ELSE pending[s][r]
      BY <1>1, <1>2, <1>3
    <2> QED
      BY <2>1, <2>2, <2>3
  <1>8. \A r \in Row : owner'[r] = s /\ r \notin exists =>
            \E i \in 1 .. n : ls[i].row = r /\ ls[i].change > 0
    <2> SUFFICES ASSUME NEW r \in Row, owner'[r] = s, r \notin exists
                 PROVE  \E i \in 1 .. n : ls[i].row = r /\ ls[i].change > 0
      OBVIOUS
    <2>1. CASE owner[r] = s
      BY <1>0, <1>3, <1>5, <2>1 DEF Through
    <2>2. CASE owner[r] # s
      <3>1. r = x
        BY <1>1, <1>2, <1>3, <2>2
      <3>2. y > 0
        BY <1>0, <2>2, <3>1
      <3> QED
        BY <1>1, <1>5, <3>1, <3>2
    <2> QED
      BY <2>1, <2>2
  <1>9. Through(s)'
    <2>1. kind'[s] = kind[s] /\ legs'[s] = ls /\ LegsFit(kind[s], ls)
      BY <1>0, <1>2, <1>3 DEF Through
    <2>2. NextPc(s) \in {"commit", "lock"} /\ (NextPc(s) = "commit" => n = Len(ls))
      BY <1>0 DEF NextPc
    <2>3. at'[s] =< Len(legs'[s]) + 1 /\ pc'[s] # "insert"
          /\ (pc'[s] = "commit" => at'[s] = Len(legs'[s]) + 1)
      BY <1>1, <1>4, <2>1, <2>2
    <2>4. exists' = exists
      BY <1>2
    <2> QED
      BY <1>4, <1>6, <1>7, <1>8, <2>1, <2>3, <2>4 DEF Through
  <1>10. OthersStay(s)
    <2> SUFFICES ASSUME NEW t \in Session \ {s}
                 PROVE  /\ kind'[t] = kind[t] /\ legs'[t] = legs[t] /\ at'[t] = at[t]
                        /\ pc'[t] = pc[t] /\ pending'[t] = pending[t]
                        /\ \A r \in Row : owner'[r] = t <=> owner[r] = t
      BY DEF OthersStay
    <2>1. kind'[t] = kind[t] /\ legs'[t] = legs[t] /\ at'[t] = at[t] /\ pc'[t] = pc[t]
      BY <1>2 DEF MInv, IInv, TypeOK
    <2>2. pending'[t] = pending[t]
      BY <1>2, <1>3
    <2>3. \A r \in Row : owner'[r] = t <=> owner[r] = t
      BY <1>1, <1>2, <1>3, NoSessionAssumption
    <2> QED
      BY <2>1, <2>2, <2>3
  <1>11. exists \subseteq exists'
    BY <1>2
  <1> QED
    BY <1>9, <1>10, <1>11, OthersGoOn

\* One statement, of whichever kind.
LEMMA StatementFits ==
  ASSUME MInv, NEW s \in Session, Statement(s)
  PROVE  \A t \in Session : Through(t)'
  <1>0. IInv
    BY DEF MInv
  <1>1. CASE RejectZero(s)
    BY <1>1, FailFits DEF RejectZero
  <1>2. CASE LockRow(s)
    <2>1. CASE Change(s, Loaded(s, CurrentLeg(s).row))
      <3>1. /\ pc[s] \in {"lock", "insert"} /\ Available(owner, s, CurrentLeg(s).row)
            /\ CurrentLeg(s).row \in exists \/ owner[CurrentLeg(s).row] = s
        BY <1>2 DEF LockRow, ForUpdate
      <3> QED
        BY <2>1, <3>1, ChangeFits
    <2>2. CASE Refuse(s, Loaded(s, CurrentLeg(s).row))
      BY <2>2, FailFits DEF Refuse
    <2> QED
      BY <1>2, <2>1, <2>2 DEF LockRow
  <1>3. CASE MissRow(s)
    <2>1. CASE Fail(s)
      BY <2>1, FailFits
    <2>2. CASE /\ CurrentLeg(s).change > 0
               /\ pc' = [pc EXCEPT ![s] = "insert"]
               /\ UNCHANGED <<committed, owner, request, at, local, pending>>
      <3>1. /\ kind' = kind /\ legs' = legs /\ at' = at /\ pending' = pending
            /\ owner' = owner /\ exists' = exists
        BY <2>2 DEF request, committed
      <3>2. Through(s) /\ pc'[s] = "insert" /\ CurrentLeg(s)' = CurrentLeg(s)
        BY <2>2, <3>1 DEF MInv, IInv, TypeOK, CurrentLeg
      <3>3. Through(s)'
        BY <2>2, <3>1, <3>2 DEF Through
      <3>4. OthersStay(s)
        BY <2>2, <3>1 DEF OthersStay, MInv, IInv, TypeOK
      <3> QED
        BY <3>1, <3>3, <3>4, OthersGoOn
    <2> QED
      BY <1>3, <2>1, <2>2 DEF MissRow
  <1>4. CASE InsertRow(s)
    <2>1. CASE Change(s, 0)
      <3>1. /\ pc[s] \in {"lock", "insert"} /\ Available(owner, s, CurrentLeg(s).row)
            /\ CurrentLeg(s).change > 0
        BY <1>4 DEF InsertRow, MInv, Through
      <3> QED
        BY <2>1, <3>1, ChangeFits
    <2>2. CASE Refuse(s, 0) \/ Fail(s)
      BY <2>2, FailFits DEF Refuse
    <2>3. CASE /\ CloseSession(s) /\ pc' = [pc EXCEPT ![s] = "retry"]
               /\ UNCHANGED <<committed, request>>
      <3>1. /\ owner' = Release(owner, s) /\ at' = [at EXCEPT ![s] = 1]
            /\ pending' = [pending EXCEPT ![s] = [r \in Row |-> 0]]
            /\ pc' = [pc EXCEPT ![s] = "retry"]
            /\ kind' = kind /\ legs' = legs /\ exists' = exists
        BY <2>3 DEF CloseSession, committed, request
      <3>2. /\ at'[s] = 1 /\ pc'[s] = "retry" /\ \A r \in Row : pending'[s][r] = 0
            /\ legs'[s] \in Seq(Leg)
        BY <3>1 DEF MInv, IInv, TypeOK
      <3>3. LegsFit(kind'[s], legs'[s])
        BY <3>1 DEF MInv, Through
      <3>4. Through(s)'
        BY <3>1, <3>2, <3>3, ClosedFits
      <3>5. OthersStay(s)
        BY <3>1, NoSessionAssumption DEF OthersStay, MInv, IInv, TypeOK, Release
      <3> QED
        BY <3>1, <3>4, <3>5, OthersGoOn
    <2> QED
      BY <1>4, <2>1, <2>2, <2>3 DEF InsertRow
  <1>5. CASE RetryTarget(s)
    BY <1>5, FailFits DEF RetryTarget
  <1>6. CASE Commit(s)
    BY <1>6, CommitFits
  <1> QED
    BY <1>1, <1>2, <1>3, <1>4, <1>5, <1>6 DEF Statement

LEMMA NextFits == MInv /\ [Next]_vars => MInv'
  <1> SUFFICES ASSUME MInv, [Next]_vars PROVE MInv'
    OBVIOUS
  <1>1. IInv'
    BY NextInv DEF MInv
  <1>2. ASSUME NEW s \in Session, Requests(s) PROVE MInv'
    BY <1>1, <1>2, RequestsFit DEF MInv
  <1>3. ASSUME NEW s \in Session, Statement(s) PROVE MInv'
    BY <1>1, <1>3, StatementFits DEF MInv
  <1>4. ASSUME NEW s \in Session, Abort(s) \/ BreakDeadlock(s) PROVE MInv'
    BY <1>1, <1>4, FailFits DEF MInv, Abort, BreakDeadlock
  <1>5. CASE UNCHANGED vars
    <2>1. \A s \in Session : Through(s)'
      BY <1>5 DEF MInv, vars, Through, CurrentLeg
    <2> QED
      BY <1>1, <2>1 DEF MInv
  <1> QED
    BY <1>2, <1>3, <1>4, <1>5 DEF Next

\* What a commit does to the stock: it brings every change of the request.
LEMMA CommitMoves ==
  ASSUME MInv, NEW s \in Session, Commit(s)
  PROVE  /\ legs[s] \in Seq(Leg) /\ LegsFit(kind[s], legs[s])
         /\ stock' \in [Row -> Quantity]
         /\ \A r \in Row : stock'[r] = stock[r] + Changed(legs[s], Len(legs[s]), r)
         /\ exists' = exists \cup {legs[s][i].row : i \in 1 .. Len(legs[s])}
         /\ \A r \in exists' \ exists : \E i \in 1 .. Len(legs[s]) :
               legs[s][i].row = r /\ legs[s][i].change > 0
  <1>1. /\ pc[s] = "commit"
        /\ exists' = exists \cup {r \in Row : owner[r] = s}
        /\ stock' = [r \in Row |-> IF owner[r] = s THEN local[s][r] ELSE stock[r]]
    BY DEF Commit
  <1>2. /\ Through(s) /\ legs[s] \in Seq(Leg) /\ LegsFit(kind[s], legs[s])
        /\ at[s] = Len(legs[s]) + 1
    BY <1>1 DEF MInv, IInv, TypeOK, Through
  <1>3. Len(legs[s]) \in Nat /\ at[s] - 1 = Len(legs[s])
        /\ \A i \in 1 .. Len(legs[s]) : legs[s][i].row \in Row
    BY <1>2, SequenceFacts
  <1>4. ASSUME NEW r \in Row
        PROVE  stock'[r] = stock[r] + Changed(legs[s], Len(legs[s]), r)
    <2>1. pending[s][r] = Changed(legs[s], Len(legs[s]), r)
      BY <1>2, <1>3 DEF Through
    <2>2. stock[r] \in Int
      BY DEF MInv, IInv, TypeOK, Quantity
    <2>3. stock'[r] = stock[r] + pending[s][r]
      BY <1>1, <2>2 DEF MInv, IInv, NoStaleWrite, OwnRowsOnly
    <2> QED
      BY <2>1, <2>3
  <1>5. {r \in Row : owner[r] = s} = {legs[s][i].row : i \in 1 .. Len(legs[s])}
    BY <1>2, <1>3 DEF Through
  <1>6. \A r \in exists' \ exists : \E i \in 1 .. Len(legs[s]) :
               legs[s][i].row = r /\ legs[s][i].change > 0
    BY <1>1, <1>2, <1>3 DEF Through
  <1>7. stock' \in [Row -> Quantity]
    BY NextInv, CommitInv DEF MInv, IInv, TypeOK
  <1> QED
    BY <1>1, <1>2, <1>4, <1>5, <1>6, <1>7

\* The promise has the same rows and quantities.
LEMMA SameTypes ==
  Movements!Row = Row /\ Movements!Quantity = Quantity
  BY DEF Movements!Row, Movements!Quantity, Row, Quantity

\* What the commit of a request has to do with the stock.
Moved(ls) ==
    /\ stock' \in [Row -> Quantity]
    /\ \A r \in Row : stock'[r] = stock[r] + Changed(ls, Len(ls), r)
    /\ exists' = exists \cup {ls[i].row : i \in 1 .. Len(ls)}
    /\ \A r \in exists' \ exists :
          \E i \in 1 .. Len(ls) : ls[i].row = r /\ ls[i].change > 0

\* The commit of an adjustment is one adjustment of the promise.
LEMMA AdjustmentMoves ==
  ASSUME IInv, NEW x \in Row, NEW c \in AdjustChange, c # 0, Moved(AdjustmentLegs(x, c))
  PROVE  Movements!Next
  <1>0. PICK ls : ls = AdjustmentLegs(x, c)
    OBVIOUS
  <1>1. ls \in Seq(Leg) /\ Len(ls) = 1 /\ ls[1].row = x /\ ls[1].change = c /\ c \in Int
    BY <1>0 DEF AdjustmentLegs, Leg
  <1>2. \A r \in Row : Changed(ls, 1, r) = IF x = r THEN c ELSE 0
    <2>1. \A r \in Row : Changed(ls, 1 - 1, r) = 0
      <3>1. 1 - 1 = 0
        OBVIOUS
      <3> QED
        BY <1>1, <3>1, ChangedFacts
    <2>2. \A r \in Row : Changed(ls, 1, r) = Changed(ls, 1 - 1, r) +
                            IF ls[1].row = r THEN ls[1].change ELSE 0
      <3>1. 1 \in 1 .. Len(ls)
        BY <1>1
      <3> QED
        BY <1>1, <3>1, ChangedFacts
    <2> QED
      BY <1>1, <2>1, <2>2
  <1>3. stock \in [Row -> Int] /\ stock' \in [Row -> Int] /\ stock' \in [Row -> Quantity]
    BY DEF IInv, TypeOK, Quantity, Moved
  <1>4. stock' = [stock EXCEPT ![x] = @ + c]
    <2>1. \A r \in Row : stock'[r] = stock[r] + Changed(ls, 1, r)
      BY <1>0, <1>1 DEF Moved
    <2> QED
      BY <1>1, <1>2, <1>3, <2>1
  <1>5. exists' = exists \cup {x}
    <2>1. {ls[i].row : i \in 1 .. Len(ls)} = {x}
      BY <1>1
    <2> QED
      BY <1>0, <2>1 DEF Moved
  <1>6. stock[x] + c \in Quantity
    BY <1>3, <1>4
  <1>7. Movements!Adjust(x, c)
    BY <1>4, <1>5, <1>6, SameTypes DEF Movements!Adjust
  <1> QED
    BY <1>7, SameTypes DEF Movements!Next

\* The commit of a transfer takes from one row what it brings to the other; the
\* source, from which it has taken, was there.
LEMMA TransferMoves ==
  ASSUME IInv, NEW p \in Product, NEW from \in Warehouse, NEW to \in Warehouse,
         NEW q \in TransferQuantity, from # to, q > 0, Moved(TransferLegs(p, from, to, q))
  PROVE  Movements!Next
  <1>0. PICK ls, a, b : /\ ls = TransferLegs(p, from, to, q)
                       /\ a = <<p, from>> /\ b = <<p, to>>
    OBVIOUS
  <1>1. /\ ls \in Seq(Leg) /\ Len(ls) = 2 /\ ls[1].row = a /\ ls[1].change = -q
        /\ ls[2].row = b /\ ls[2].change = q /\ q \in Int
        /\ a \in Row /\ b \in Row /\ a # b
    BY <1>0 DEF TransferLegs, Leg, Row
  <1>2. \A r \in Row :
           Changed(ls, 2, r) = (IF a = r THEN -q ELSE 0) + (IF b = r THEN q ELSE 0)
    <2>1. \A r \in Row : Changed(ls, 1 - 1, r) = 0
      <3>1. 1 - 1 = 0
        OBVIOUS
      <3> QED
        BY <1>1, <3>1, ChangedFacts
    <2>2. \A r \in Row : Changed(ls, 1, r) = Changed(ls, 1 - 1, r) + IF a = r THEN -q ELSE 0
      <3>1. 1 \in 1 .. Len(ls)
        BY <1>1
      <3> QED
        BY <1>1, <3>1, ChangedFacts
    <2>3. \A r \in Row : Changed(ls, 2, r) = Changed(ls, 2 - 1, r) + IF b = r THEN q ELSE 0
      <3>1. 2 \in 1 .. Len(ls)
        BY <1>1
      <3> QED
        BY <1>1, <3>1, ChangedFacts
    <2>4. 2 - 1 = 1
      OBVIOUS
    <2> QED
      BY <1>1, <2>1, <2>2, <2>3, <2>4
  <1>3. stock \in [Row -> Int] /\ stock' \in [Row -> Int] /\ stock' \in [Row -> Quantity]
    BY DEF IInv, TypeOK, Quantity, Moved
  <1>4. \A r \in Row : stock'[r] = stock[r] + Changed(ls, 2, r)
    BY <1>0, <1>1 DEF Moved
  <1>5. /\ stock'[a] = stock[a] - q /\ stock'[b] = stock[b] + q
        /\ \A r \in Row \ {a, b} : stock'[r] = stock[r]
    <2>1. Changed(ls, 2, a) = -q /\ Changed(ls, 2, b) = q
      BY <1>1, <1>2
    <2>2. stock[a] \in Int /\ stock[b] \in Int /\ q \in Int
      BY <1>1, <1>3
    <2>3. \A r \in Row \ {a, b} : stock[r] \in Int /\ Changed(ls, 2, r) = 0
      BY <1>2, <1>3
    <2>4. stock'[a] = stock[a] + (-q) /\ stock'[b] = stock[b] + q
      BY <1>1, <1>4, <2>1
    <2>5. \A r \in Row \ {a, b} : stock'[r] = stock[r]
      BY <1>4, <2>3
    <2> QED
      BY <2>2, <2>4, <2>5
  <1>6. stock' = [stock EXCEPT ![a] = @ - q, ![b] = @ + q]
    BY <1>1, <1>3, <1>5
  <1>7. stock[a] >= q /\ stock[b] + q \in Quantity
    BY <1>1, <1>3, <1>5 DEF Quantity
  <1>8. exists' = exists \cup {b}
    <2>1. {ls[i].row : i \in 1 .. Len(ls)} = {a, b}
      BY <1>1
    <2>2. a \in exists
      <3> SUFFICES ASSUME a \notin exists PROVE FALSE
        OBVIOUS
      <3>1. a \in exists' \ exists
        BY <1>0, <2>1 DEF Moved
      <3>2. PICK i \in 1 .. Len(ls) : ls[i].row = a /\ ls[i].change > 0
        BY <1>0, <3>1 DEF Moved
      <3>3. i \in {1, 2}
        BY <1>1
      <3> QED
        BY <1>1, <3>2, <3>3
    <2>3. exists' = exists \cup {a, b}
      BY <1>0, <2>1 DEF Moved
    <2> QED
      BY <2>2, <2>3
  <1>9. Movements!Transfer(p, from, to, q)
    BY <1>0, <1>6, <1>7, <1>8, SameTypes DEF Movements!Transfer
  <1> QED
    BY <1>9 DEF Movements!Next

\* What the lines of a request take of a row, as the promise adds it up.
LEMMA TotalIsSum ==
  ASSUME NEW lines, NEW S
  PROVE  Movements!Total(lines, S) = SumOf([i \in DOMAIN lines |-> lines[i].quantity], S)
  BY DEF Movements!Total, Movements!SumFunctionOnSet, Movements!FoldFunctionOnSet,
         Movements!MapThenFoldSet, SumOf, MapThenSumSet, MapThenFoldSet

\* The lines of a product.
OfProduct(lines, p) == {i \in DOMAIN lines : lines[i].product = p}

\* The commit of a reservation takes all lines of the order, and makes no row.
LEMMA ReservationMoves ==
  ASSUME IInv, NEW lines \in OrderLines, NEW w \in Warehouse,
         Moved(ReservationLegs(lines, w))
  PROVE  Movements!Next
  <1>0. PICK ls, P, taken : ls = ReservationLegs(lines, w) /\ P = 1 .. Len(lines)
                            /\ taken = [i \in P |-> lines[i].quantity]
    OBVIOUS
  <1>1. /\ lines \in Seq([product : Product, quantity : Nat])
        /\ Len(lines) \in Nat /\ DOMAIN lines = P
        /\ \A i \in P : lines[i].quantity \in Nat /\ lines[i].product \in Product
    <2>1. lines \in Seq([product : Product, quantity : Nat])
      BY StockAssumption
    <2>2. \A i \in 1 .. Len(lines) : lines[i] \in [product : Product, quantity : Nat]
      BY <2>1, ElementOfSeq
    <2> QED
      BY <1>0, <2>1, <2>2, LenProperties
  <1>2. /\ DOMAIN ls = P
        /\ \A i \in P : /\ ls[i].row = <<lines[i].product, w>>
                        /\ ls[i].change = -lines[i].quantity
    BY <1>0, <1>1 DEF ReservationLegs
  <1>3. Len(ls) = Len(lines)
    <2>1. ls = [i \in 1 .. Len(lines) |-> ls[i]]
      BY <1>0, <1>1 DEF ReservationLegs
    <2>2. ls \in Seq(Leg)
      <3>1. \A i \in P : ls[i] \in Leg
        BY <1>0, <1>1 DEF ReservationLegs, Leg, Row
      <3> QED
        BY <1>0, <1>1, <2>1, <3>1, MapSeq
    <2>3. Len(ls) \in Nat /\ 1 .. Len(ls) = 1 .. Len(lines)
      BY <1>0, <1>2, <2>2, SequenceFacts
    <2> QED
      BY <1>1, <2>3
  <1>4. IsFiniteSet(P)
    <2>1. \A a, b \in Int : IsFiniteSet(a .. b)
      BY FS_Interval
    <2>2. 1 \in Int /\ Len(lines) \in Int /\ P = 1 .. Len(lines)
      BY <1>0, <1>1
    <2> QED
      BY <2>1, <2>2
  <1>5. /\ ChangesOf(ls) \in [P -> Int] /\ taken \in [P -> Int]
        /\ \A i \in P : ChangesOf(ls)[i] = -taken[i]
    <2>1. ChangesOf(ls) = [i \in P |-> ls[i].change]
      BY <1>2 DEF ChangesOf
    <2>2. \A i \in P : ls[i].change \in Int /\ lines[i].quantity \in Int
      BY <1>1, <1>2
    <2>3. ChangesOf(ls) \in [P -> Int] /\ taken \in [P -> Int]
      BY <1>0, <2>1, <2>2
    <2>4. \A i \in P : ChangesOf(ls)[i] = -lines[i].quantity /\ taken[i] = lines[i].quantity
      BY <1>0, <1>2, <2>1
    <2> QED
      BY <2>3, <2>4
  <1>6. SumsUp(taken, P)
    BY <1>4, <1>5, SumLaws
  <1>7. ASSUME NEW r \in Row
        PROVE  stock'[r] = IF r[2] = w
                           THEN stock[r] - Movements!Total(lines, OfProduct(lines, r[1]))
                           ELSE stock[r]
    <2>1. PICK S : S = {i \in P : ls[i].row = r}
      OBVIOUS
    <2>2. S \in SUBSET P
      BY <2>1
    <2>3. Changed(ls, Len(ls), r) = SumOf(ChangesOf(ls), S)
      BY <1>0, <1>3, <2>1 DEF Changed
    <2>4. SumOf(ChangesOf(ls), S) = -SumOf(taken, S)
      <3>1. \A i \in S : ChangesOf(ls)[i] = -taken[i]
        BY <1>5, <2>2
      <3>2. PICK v : v = ChangesOf(ls)
        OBVIOUS
      <3>3. v \in [P -> Int] /\ \A i \in S : v[i] = -taken[i]
        BY <1>5, <3>1, <3>2
      <3>4. taken \in [P -> Int]
        BY <1>5
      <3>5. SumOf(v, S) = -SumOf(taken, S)
        BY <1>4, <2>2, <3>3, <3>4, OppositeWeights
      <3> QED
        BY <3>2, <3>5
    <2>5. SumOf(taken, S) \in Int /\ SumOf(taken, {}) = 0
      BY <1>6, <2>2 DEF SumsUp
    <2>6. stock'[r] = stock[r] - SumOf(taken, S)
      <3>1. stock'[r] = stock[r] + Changed(ls, Len(ls), r) /\ stock[r] \in Int
        BY <1>0 DEF Moved, IInv, TypeOK, Quantity
      <3> QED
        BY <2>3, <2>4, <2>5, <3>1
    <2>7. CASE r[2] = w
      <3>1. S = OfProduct(lines, r[1])
        <4>1. PICK x \in Product : r = <<x, w>>
          BY <2>7 DEF Row
        <4>2. \A i \in P : ls[i].row = r <=> lines[i].product = x
          BY <1>2, <4>1
        <4> QED
          BY <1>1, <2>1, <4>1, <4>2 DEF OfProduct
      <3>2. taken = [i \in DOMAIN lines |-> lines[i].quantity]
        BY <1>0, <1>1
      <3> QED
        BY <2>6, <2>7, <3>1, <3>2, TotalIsSum
    <2>8. CASE r[2] # w
      <3>1. S = {}
        BY <1>2, <2>1, <2>8 DEF Row
      <3>2. stock[r] \in Int
        BY DEF IInv, TypeOK, Quantity
      <3> QED
        BY <2>5, <2>6, <2>8, <3>1, <3>2
    <2> QED
      BY <2>7, <2>8
  <1>8. exists' = exists
    <2>1. \A i \in 1 .. Len(ls) : ~(ls[i].change > 0)
      BY <1>0, <1>1, <1>2, <1>3
    <2>2. exists \subseteq exists' /\ exists' \ exists = {}
      BY <1>0, <2>1 DEF Moved
    <2> QED
      BY <2>2
  <1>9. stock' \in [Row -> Quantity]
    BY DEF Moved
  <1>10. Movements!Reserve(lines, w)
    <2>1. stock' = [r \in Row |->
                     IF r[2] = w
                     THEN stock[r] - Movements!Total(lines, OfProduct(lines, r[1]))
                     ELSE stock[r]]
      BY <1>7, <1>9
    <2> QED
      BY <1>8, <1>9, <2>1, SameTypes DEF Movements!Reserve, OfProduct
  <1> QED
    BY <1>10 DEF Movements!Next

\* The commit of a receipt brings all lines of the delivery.
LEMMA ReceiptMoves ==
  ASSUME IInv, NEW lines \in Deliveries, Moved(ReceiptLegs(lines))
  PROVE  Movements!Next
  <1>0. PICK ls, P, brought : ls = ReceiptLegs(lines) /\ P = 1 .. Len(lines)
                              /\ brought = [i \in DOMAIN lines |-> lines[i].quantity]
    OBVIOUS
  <1>1. /\ Len(lines) \in Nat /\ DOMAIN lines = P
        /\ \A i \in P : /\ lines[i].quantity \in Nat /\ lines[i].product \in Product
                        /\ lines[i].warehouse \in Warehouse
    <2>1. lines \in Seq([product : Product, warehouse : Warehouse, quantity : Nat \ {0}])
      BY StockAssumption
    <2>2. \A i \in 1 .. Len(lines) :
             lines[i] \in [product : Product, warehouse : Warehouse, quantity : Nat \ {0}]
      BY <2>1, ElementOfSeq
    <2> QED
      BY <1>0, <2>1, <2>2, LenProperties
  <1>2. /\ DOMAIN ls = P
        /\ \A i \in P : /\ ls[i].row = <<lines[i].product, lines[i].warehouse>>
                        /\ ls[i].change = lines[i].quantity
    BY <1>0, <1>1 DEF ReceiptLegs
  <1>3. Len(ls) = Len(lines)
    <2>1. \A i \in P : ls[i] \in Leg
      BY <1>0, <1>1 DEF ReceiptLegs, Leg, Row
    <2>2. ls = [i \in 1 .. Len(lines) |-> ls[i]]
      BY <1>0, <1>1 DEF ReceiptLegs
    <2>3. lines \in Seq([product : Product, warehouse : Warehouse, quantity : Nat \ {0}])
      BY StockAssumption
    <2>4. ls \in Seq(Leg)
      BY <1>0, <1>1, <2>1, <2>2, <2>3, MapSeq
    <2>5. Len(ls) \in Nat /\ 1 .. Len(ls) = 1 .. Len(lines)
      BY <1>0, <1>2, <2>4, SequenceFacts
    <2> QED
      BY <1>1, <2>5
  <1>4. ChangesOf(ls) = brought
    BY <1>0, <1>1, <1>2 DEF ChangesOf
  <1>5. ASSUME NEW r \in Row
        PROVE  stock'[r] = stock[r] + Movements!Total(lines,
                   {i \in DOMAIN lines : <<lines[i].product, lines[i].warehouse>> = r})
    <2>1. {i \in 1 .. Len(ls) : ls[i].row = r} =
             {i \in DOMAIN lines : <<lines[i].product, lines[i].warehouse>> = r}
      BY <1>0, <1>1, <1>2, <1>3
    <2>2. stock'[r] = stock[r] + Changed(ls, Len(ls), r)
      BY <1>0 DEF Moved
    <2> QED
      BY <1>0, <1>4, <2>1, <2>2, TotalIsSum DEF Changed
  <1>6. exists' = exists \cup {<<lines[i].product, lines[i].warehouse>> : i \in DOMAIN lines}
    <2>1. {ls[i].row : i \in 1 .. Len(ls)} =
             {<<lines[i].product, lines[i].warehouse>> : i \in DOMAIN lines}
      BY <1>0, <1>1, <1>2, <1>3
    <2> QED
      BY <1>0, <2>1 DEF Moved
  <1>7. stock' \in [Row -> Quantity]
    BY DEF Moved
  <1>8. Movements!Receive(lines)
    <2>1. stock' = [r \in Row |-> stock[r] + Movements!Total(lines,
                   {i \in DOMAIN lines : <<lines[i].product, lines[i].warehouse>> = r})]
      BY <1>5, <1>7
    <2> QED
      BY <1>6, <1>7, <2>1, SameTypes DEF Movements!Receive
  <1> QED
    BY <1>8 DEF Movements!Next

\* Every step is a movement of the promise or leaves the committed rows alone.
LEMMA StepMoves == MInv /\ [Next]_vars => [Movements!Next]_<<exists, stock>>
  <1> SUFFICES ASSUME MInv, [Next]_vars PROVE [Movements!Next]_<<exists, stock>>
    OBVIOUS
  <1>1. ASSUME NEW s \in Session, Commit(s) PROVE [Movements!Next]_<<exists, stock>>
    <2>1. LegsFit(kind[s], legs[s]) /\ Moved(legs[s]) /\ IInv
      BY <1>1, CommitMoves DEF Moved, MInv
    <2>2. CASE legs[s] = << >>
      <3>1. << >> \in Seq(Leg) /\ Len(<< >>) = 0
        BY EmptySeq
      <3>2. \A r \in Row : stock'[r] = stock[r] + 0 /\ stock[r] \in Int
        BY <2>1, <2>2, <3>1, ChangedFacts DEF Moved, IInv, TypeOK, Quantity
      <3>3. stock' = stock
        BY <2>1, <3>2 DEF Moved, IInv, TypeOK
      <3>4. exists' = exists
        BY <2>1, <2>2, <3>1 DEF Moved
      <3> QED
        BY <3>3, <3>4
    <2>3. ASSUME NEW r \in Row, NEW c \in AdjustChange, c # 0,
                 legs[s] = AdjustmentLegs(r, c)
          PROVE  Movements!Next
      BY <2>1, <2>3, AdjustmentMoves
    <2>4. ASSUME NEW p \in Product, NEW from \in Warehouse, NEW to \in Warehouse,
                 NEW q \in TransferQuantity, from # to, q > 0,
                 legs[s] = TransferLegs(p, from, to, q)
          PROVE  Movements!Next
      BY <2>1, <2>4, TransferMoves
    <2>5. ASSUME NEW lines \in OrderLines, NEW w \in Warehouse,
                 legs[s] = ReservationLegs(lines, w)
          PROVE  Movements!Next
      BY <2>1, <2>5, ReservationMoves
    <2>6. ASSUME NEW lines \in Deliveries, legs[s] = ReceiptLegs(lines)
          PROVE  Movements!Next
      BY <2>1, <2>6, ReceiptMoves
    <2> QED
      BY <2>1, <2>2, <2>3, <2>4, <2>5, <2>6 DEF LegsFit
  <1>2. ASSUME NEW s \in Session, Requests(s) PROVE UNCHANGED <<exists, stock>>
    BY <1>2 DEF Requests, CreateStockAdjustment, TransferStock, ReserveStock,
                ReceiveSupplierOrder, Begin, committed
  <1>3. ASSUME NEW s \in Session,
               RejectZero(s) \/ LockRow(s) \/ MissRow(s) \/ InsertRow(s) \/ RetryTarget(s)
        PROVE  UNCHANGED <<exists, stock>>
    BY <1>3 DEF RejectZero, LockRow, MissRow, InsertRow, RetryTarget, Change, Refuse,
                Fail, committed
  <1>4. ASSUME NEW s \in Session, Abort(s) \/ BreakDeadlock(s)
        PROVE  UNCHANGED <<exists, stock>>
    BY <1>4 DEF Abort, BreakDeadlock, Fail, committed
  <1>5. CASE UNCHANGED vars
    BY <1>5 DEF vars
  <1> QED
    BY <1>1, <1>2, <1>3, <1>4, <1>5 DEF Next, Statement

\* The transactions implement StockMovements: every commit is one whole adjustment,
\* transfer, reservation or receipt, made on the quantities of that instant, and
\* nothing else changes the stock.
THEOREM WholeMovements == Spec => MovesAreAtomic
  <1>1. Init => MInv
    BY InitInv, InitThrough DEF MInv
  <1>2. Init => Movements!Init
    BY SameTypes DEF Init, Movements!Init
  <1> QED
    BY <1>1, <1>2, NextFits, StepMoves, PTL DEF Spec, MovesAreAtomic, Movements!Spec
-----------------------------------------------------------------------------
(***************************************************************************)
(* The reorder alerts of the inventory are those of ReorderAlerts_proofs.  *)
(***************************************************************************)
Alerting == INSTANCE ReorderAlerts_proofs WITH
    stock <- row, owner <- aOwner, pc <- aPc, kind <- aKind, asks <- aAsks, mine <- aMine

LEMMA SameAlertAssumption == Alerting!ReorderAssumption
  BY InventoryAssumption DEF Alerts!ReorderAssumption, Alerting!ReorderAssumption

\* What is made of an alert.
LEMMA SameAlertData ==
  ASSUME NEW a, NEW b, NEW verb, NEW units, NEW point, NEW filter
  PROVE  /\ Alerts!Released(a) = Alerting!Released(a)
         /\ Alerts!Judged(a, units, point) = Alerting!Judged(a, units, point)
         /\ Alerts!Answered(verb, a) = Alerting!Answered(verb, a)
         /\ Alerts!Changed(verb, a, b) = Alerting!Changed(verb, a, b)
         /\ Alerts!Overwrite(a, b) = Alerting!Overwrite(a, b)
         /\ Alerts!ListedUnder(a, filter) = Alerting!ListedUnder(a, filter)
         /\ Alerts!ListedAs(a) = Alerting!ListedAs(a)
  <1>1. Alerts!Released(a) = Alerting!Released(a)
    BY DEF Alerts!Released, Alerting!Released
  <1>2. Alerts!Judged(a, units, point) = Alerting!Judged(a, units, point)
    BY DEF Alerts!Judged, Alerts!Low, Alerts!Breached, Alerts!Restored,
           Alerts!Released, Alerts!NoAlert, Alerting!Judged, Alerting!Low,
           Alerting!Breached, Alerting!Restored, Alerting!Released,
           Alerting!NoAlert
  <1>3. Alerts!Answered(verb, a) = Alerting!Answered(verb, a)
    BY DEF Alerts!Answered, Alerts!Released, Alerting!Answered,
           Alerting!Released
  <1>4. Alerts!Changed(verb, a, b) = Alerting!Changed(verb, a, b)
    BY DEF Alerts!Changed, Alerts!Column, Alerts!NoAlert, Alerting!Changed,
           Alerting!Column, Alerting!NoAlert
  <1>5. Alerts!Overwrite(a, b) = Alerting!Overwrite(a, b)
    BY DEF Alerts!Overwrite, Alerts!Column, Alerting!Overwrite, Alerting!Column
  <1>6. Alerts!ListedUnder(a, filter) = Alerting!ListedUnder(a, filter)
    BY DEF Alerts!ListedUnder, Alerts!Over, Alerting!ListedUnder, Alerting!Over
  <1>7. Alerts!ListedAs(a) = Alerting!ListedAs(a)
    BY DEF Alerts!ListedAs, Alerts!Over, Alerting!ListedAs, Alerting!Over
  <1> QED
    BY <1>1, <1>2, <1>3, <1>4, <1>5, <1>6, <1>7

\* What a request does.
LEMMA SameAlertStatement ==
  ASSUME NEW s
  PROVE  Alerts!Statement(s) \/ Alerts!Abort(s)
            => Alerting!Statement(s) \/ Alerting!Abort(s)
  <1>1. Alerts!LockStock(s) => Alerting!LockStock(s)
    BY DEF Alerts!LockStock, Alerts!ForUpdate, Alerts!GoTo, Alerts!Available,
           Alerts!Acquire, Alerts!committed, Alerting!LockStock,
           Alerting!ForUpdate, Alerting!GoTo, Alerting!Available,
           Alerting!Acquire, Alerting!committed
  <1>2. Alerts!Refuse(s) => Alerting!Refuse(s)
    BY DEF Alerts!Refuse, Alerts!Fail, Alerts!ForUpdate, Alerts!Available,
           Alerts!Close, Alerts!GoTo, Alerts!Release, Alerts!NoStock,
           Alerts!Nothing, Alerts!committed, Alerting!Refuse, Alerting!Fail,
           Alerting!ForUpdate, Alerting!Available, Alerting!Close,
           Alerting!GoTo, Alerting!Release, Alerting!NoStock, Alerting!Nothing,
           Alerting!committed
  <1>3. Alerts!SelectAlert(s) => Alerting!SelectAlert(s)
    <2>1. /\ Alerts!Judged(alert, aMine[s].quantity, aMine[s].point)
                = Alerting!Judged(alert, aMine[s].quantity, aMine[s].point)
          /\ Alerts!Answered(aKind[s], alert) = Alerting!Answered(aKind[s], alert)
          /\ Alerts!Released(alert) = Alerting!Released(alert)
          /\ \A new : Alerts!Changed(aKind[s], alert, new)
                        = Alerting!Changed(aKind[s], alert, new)
      BY SameAlertData
    <2> QED
      BY <2>1 DEF Alerts!SelectAlert, Alerts!GoTo, Alerts!Verb, Alerts!NoAlert,
             Alerts!committed, Alerts!request, Alerting!SelectAlert, Alerting!GoTo,
             Alerting!Verb, Alerting!NoAlert, Alerting!committed, Alerting!request
  <1>4. Alerts!AlreadyClosed(s) => Alerting!AlreadyClosed(s)
    BY SameAlertData DEF Alerts!AlreadyClosed, Alerts!Fail, Alerts!Verb,
           Alerts!Close, Alerts!GoTo, Alerts!Release, Alerts!NoStock,
           Alerts!Nothing, Alerts!committed, Alerting!AlreadyClosed,
           Alerting!Fail, Alerting!Verb, Alerting!Close, Alerting!GoTo,
           Alerting!Release, Alerting!NoStock, Alerting!Nothing,
           Alerting!committed
  <1>5. Alerts!Update(s) => Alerting!Update(s)
    BY DEF Alerts!Update, Alerts!GoTo, Alerts!Available, Alerts!Acquire,
           Alerts!committed, Alerts!request, Alerts!objects, Alerting!Update,
           Alerting!GoTo, Alerting!Available, Alerting!Acquire,
           Alerting!committed, Alerting!request, Alerting!objects
  <1>6. Alerts!Insert(s) => Alerting!Insert(s)
    BY DEF Alerts!Insert, Alerts!GoTo, Alerts!Available, Alerts!Acquire,
           Alerts!NoAlert, Alerts!committed, Alerts!request, Alerts!objects,
           Alerting!Insert, Alerting!GoTo, Alerting!Available,
           Alerting!Acquire, Alerting!NoAlert, Alerting!committed,
           Alerting!request, Alerting!objects
  <1>7. Alerts!Commit(s) => Alerting!Commit(s)
    BY SameAlertData DEF Alerts!Commit, Alerts!Close, Alerts!GoTo,
           Alerts!Release, Alerts!NoStock, Alerts!Nothing, Alerting!Commit,
           Alerting!Close, Alerting!GoTo, Alerting!Release, Alerting!NoStock,
           Alerting!Nothing
  <1>8. Alerts!Abort(s) => Alerting!Abort(s)
    BY DEF Alerts!Abort, Alerts!Fail, Alerts!Close, Alerts!GoTo,
           Alerts!Release, Alerts!NoStock, Alerts!Nothing, Alerts!committed,
           Alerting!Abort, Alerting!Fail, Alerting!Close, Alerting!GoTo,
           Alerting!Release, Alerting!NoStock, Alerting!Nothing,
           Alerting!committed
  <1> QED
    BY <1>1, <1>2, <1>3, <1>4, <1>5, <1>6, <1>7, <1>8
       DEF Alerts!Statement, Alerting!Statement

LEMMA SameAlertNext == Alerts!Next => Alerting!Next
  <1>1. Alerts!SnoozeOver => Alerting!SnoozeOver
    BY DEF Alerts!SnoozeOver, Alerts!request, Alerts!objects,
           Alerting!SnoozeOver, Alerting!request, Alerting!objects
  <1>2. \A s, change : Alerts!ChangeStock(s, change) => Alerting!ChangeStock(s, change)
    BY DEF Alerts!ChangeStock, Alerts!Begin, Alerts!GoTo, Alerts!committed,
           Alerts!objects, Alerting!ChangeStock, Alerting!Begin, Alerting!GoTo,
           Alerting!committed, Alerting!objects
  <1>3. \A s, point : Alerts!SetReorderPoint(s, point) => Alerting!SetReorderPoint(s, point)
    BY DEF Alerts!SetReorderPoint, Alerts!Begin, Alerts!GoTo, Alerts!committed,
           Alerts!objects, Alerting!SetReorderPoint, Alerting!Begin,
           Alerting!GoTo, Alerting!committed, Alerting!objects
  <1>4. \A s, verb : Alerts!AnswerAlert(s, verb) => Alerting!AnswerAlert(s, verb)
    BY DEF Alerts!AnswerAlert, Alerts!Begin, Alerts!GoTo, Alerts!NoAlert,
           Alerts!committed, Alerts!objects, Alerting!AnswerAlert,
           Alerting!Begin, Alerting!GoTo, Alerting!NoAlert, Alerting!committed,
           Alerting!objects
  <1> QED
    BY <1>1, <1>2, <1>3, <1>4, SameAlertStatement DEF Alerts!Next, Alerts!Verb,
           Alerting!Next, Alerting!Verb

LEMMA SameAlertSpec == Alerts!Spec => Alerting!Spec
  <1>1. Alerts!Init => Alerting!Init
    BY DEF Alerts!Init, Alerts!Stock, Alerts!NoAlert, Alerts!Nothing, Alerts!NoStock,
           Alerts!Unlocked, Alerting!Init, Alerting!Stock, Alerting!NoAlert,
           Alerting!Nothing, Alerting!NoStock, Alerting!Unlocked
  <1>2. [Alerts!Next]_(Alerts!vars) => [Alerting!Next]_(Alerting!vars)
    BY SameAlertNext
       DEF Alerts!vars, Alerts!committed, Alerts!request, Alerts!objects,
           Alerting!vars, Alerting!committed, Alerting!request, Alerting!objects
  <1> QED
    BY <1>1, <1>2, PTL DEF Alerts!Spec, Alerting!Spec
-----------------------------------------------------------------------------
(***************************************************************************)
(* Reorder points: what an apply has written is settled.                   *)
(***************************************************************************)

LEMMA PlanningConstants ==
  /\ Opening \in [StockRow -> Nat] /\ Active \subseteq Supplier
  /\ Default \in [Supplier -> Nat] /\ BusinessDefault \in Nat \ {0}
  /\ DemandDays \in Nat \ {0} /\ Today \in Nat
  /\ PastSales \in [StockRow -> Seq(Planning!Sale)] /\ Delivered \in Seq(Planning!Line)
  /\ First \subseteq [StockRow -> Planning!Settings]
  /\ Factor \subseteq Nat \ {0} /\ Selection \subseteq SUBSET StockRow
  /\ Lot \subseteq Nat \ {0} /\ IsFiniteSet(Ordered)
  BY InventoryAssumption DEF Planning!PlanningAssumption, Planning!IsFiniteSet, IsFiniteSet

LEMMA PlanningSums ==
  ASSUME NEW w, NEW S
  PROVE  Planning!SumOf(w, S) = SumOf(w, S)
  BY DEF Planning!SumOf, Planning!MapThenSumSet, Planning!MapThenFoldSet,
         SumOf, MapThenSumSet, MapThenFoldSet

\* The positions of a sequence.
LEMMA Positions ==
  ASSUME NEW T, NEW q \in Seq(T)
  PROVE  /\ Len(q) \in Nat /\ DOMAIN q = 1 .. Len(q) /\ IsFiniteSet(DOMAIN q)
         /\ \A i \in DOMAIN q : q[i] \in T
  <1>1. Len(q) \in Nat /\ DOMAIN q = 1 .. Len(q) /\ \A i \in 1 .. Len(q) : q[i] \in T
    BY LenProperties, ElementOfSeq
  <1>2. IsFiniteSet(1 .. Len(q))
    BY <1>1, FS_Interval
  <1> QED
    BY <1>1, <1>2

LEMMA SaleFields ==
  ASSUME NEW x \in Planning!Sale
  PROVE  x.at \in Nat /\ x.units \in Nat \ {0}
  BY DEF Planning!Sale

LEMMA SaleWeights ==
  ASSUME NEW q \in Seq(Planning!Sale)
  PROVE  /\ IsFiniteSet(DOMAIN q)
         /\ [i \in DOMAIN q |-> q[i].units] \in [DOMAIN q -> Nat]
         /\ [i \in DOMAIN q |-> q[i].units] \in [DOMAIN q -> Int]
  <1>1. IsFiniteSet(DOMAIN q) /\ \A i \in DOMAIN q : q[i] \in Planning!Sale
    BY Positions
  <1>2. \A i \in DOMAIN q : q[i].units \in Nat
    BY <1>1, SaleFields
  <1> QED
    BY <1>1, <1>2

\* What a row has sold is a number of units.
LEMMA SoldUnits ==
  ASSUME NEW r \in StockRow, sales[r] \in Seq(Planning!Sale), NEW S \in SUBSET DOMAIN sales[r]
  PROVE  Planning!Sold(r, S) \in Nat
  <1> DEFINE w == [i \in DOMAIN sales[r] |-> sales[r][i].units]
  <1>1. IsFiniteSet(DOMAIN sales[r]) /\ w \in [DOMAIN sales[r] -> Nat]
    BY SaleWeights
  <1>2. Planning!Sold(r, S) = SumOf(w, S)
    BY PlanningSums DEF Planning!Sold
  <1> QED
    BY <1>1, <1>2, NaturalSums

LEMMA Demand ==
  ASSUME NEW r \in StockRow, sales[r] \in Seq(Planning!Sale)
  PROVE  Planning!Usage(r) \in Nat /\ Planning!Quantity(r) \in Int
  <1>1. Planning!Demanded(r) \in SUBSET DOMAIN sales[r]
    BY DEF Planning!Demanded
  <1>2. Planning!Sold(r, Planning!Demanded(r)) \in Nat
        /\ Planning!Sold(r, DOMAIN sales[r]) \in Nat
    BY <1>1, SoldUnits
  <1> QED
    BY <1>2, PlanningConstants DEF Planning!Usage, Planning!Quantity

\* A sale more.
LEMMA OneSaleMore ==
  ASSUME NEW r \in StockRow, sales[r] \in Seq(Planning!Sale), NEW sale \in Planning!Sale,
         sales'[r] = Append(sales[r], sale)
  PROVE  Planning!Quantity(r)' = Planning!Quantity(r) - sale.units
  <1> DEFINE n == Len(sales[r])
             D == DOMAIN sales[r]
             E == DOMAIN sales'[r]
             w == [i \in D |-> sales[r][i].units]
             v == [i \in E |-> sales'[r][i].units]
  <1>1. n \in Nat /\ D = 1 .. n /\ E = 1 .. n + 1 /\ sale.units \in Nat
        /\ (\A i \in D : sales'[r][i] = sales[r][i]) /\ sales'[r][n + 1] = sale
        /\ sales'[r] \in Seq(Planning!Sale)
    BY Positions, AppendProperties, SaleFields
  <1>2. IsFiniteSet(D) /\ IsFiniteSet(E) /\ w \in [D -> Int] /\ v \in [E -> Int]
    BY <1>1, SaleWeights
  <1>3. D \subseteq E /\ \A i \in D : w[i] = v[i]
    BY <1>1
  <1>4. SumOf(w, D) = SumOf(v, D)
    <2> HIDE DEF D, E, w, v
    <2> QED
      BY <1>2, <1>3, SamePart
  <1>5. SumOf(v, E) = v[n + 1] + SumOf(v, E \ {n + 1}) /\ SumOf(v, D) \in Int
    <2>1. n + 1 \in E /\ D \in SUBSET E /\ E \in SUBSET E
      BY <1>1
    <2>2. SumsUp(v, E)
      <3> HIDE DEF D, E, w, v
      <3> QED
        BY <1>2, SumLaws
    <2> HIDE DEF D, E, w, v
    <2> QED
      BY <2>1, <2>2 DEF SumsUp
  <1>6. E \ {n + 1} = D /\ v[n + 1] = sale.units
    BY <1>1
  <1>7. /\ Planning!Quantity(r) = Opening[r] - SumOf(w, D)
        /\ Planning!Quantity(r)' = Opening[r] - SumOf(v, E)
    BY PlanningSums DEF Planning!Quantity, Planning!Sold
  <1>8. Opening[r] \in Nat
    BY PlanningConstants
  <1>9. SumOf(w, D) \in Int /\ SumOf(v, E) = sale.units + SumOf(w, D)
    <2> HIDE DEF D, E, w, v
    <2> QED
      BY <1>4, <1>5, <1>6
  <1>10. sale.units \in Nat
    BY <1>1
  <1> HIDE DEF D, E, w, v, n
  <1> QED
    BY <1>7, <1>8, <1>9, <1>10

LEMMA Rounded ==
  ASSUME NEW n \in Nat, NEW d \in Nat \ {0}
  PROVE  Planning!Round(n, d) \in Nat
  <1>1. n \div d \in Nat
    OBVIOUS
  <1> QED
    BY <1>1 DEF Planning!Round

LEMMA PlannedUnits ==
  ASSUME NEW usage \in Nat, NEW days \in Nat, NEW factor \in Nat, NEW lead \in Nat
  PROVE  Planning!Round(usage * (2 * days + factor * lead), 2 * DemandDays) \in Nat
  <1>1. factor * lead \in Nat
    OBVIOUS
  <1>2. 2 * days + factor * lead \in Nat
    BY <1>1
  <1>3. usage * (2 * days + factor * lead) \in Nat
    BY <1>2
  <1>4. 2 * DemandDays \in Nat \ {0}
    BY PlanningConstants
  <1> QED
    BY <1>3, <1>4, Rounded

\* The values of a function on a finite set.
LEMMA FiniteImage ==
  ASSUME NEW S, IsFiniteSet(S), NEW f
  PROVE  IsFiniteSet({f[x] : x \in S})
  <1> DEFINE T == {f[x] : x \in S}
             g == [x \in S |-> f[x]]
  <1>1. g \in Surjection(S, T)
    BY DEF Surjection
  <1> HIDE DEF T, g
  <1>2. IsFiniteSet(T)
    BY <1>1, FS_Surjection
  <1> QED
    BY <1>2 DEF T

\* A finite set of natural numbers has a greatest one.
LEMMA GreatestOfNats ==
  ASSUME NEW S, S \subseteq Nat, IsFiniteSet(S), S # {}
  PROVE  Planning!Max(S) \in S
  <1> DEFINE w == [x \in S |-> x]
             Bounds == {n \in Nat : \A x \in S : x =< n}
  <1>1. w \in [S -> Nat] /\ w \in [S -> Int]
    OBVIOUS
  <1>2. SumsUp(w, S) /\ \A T \in SUBSET S : SumOf(w, T) \in Nat
    BY <1>1, SumLaws, NaturalSums
  <1>3. \A x \in S : x =< SumOf(w, S)
    <2> SUFFICES ASSUME NEW x \in S PROVE x =< SumOf(w, S)
      OBVIOUS
    <2>1. SumOf(w, S) = w[x] + SumOf(w, S \ {x})
      BY <1>2 DEF SumsUp
    <2>2. SumOf(w, S \ {x}) \in Nat /\ w[x] = x /\ x \in Nat
      BY <1>2
    <2> HIDE DEF w
    <2> QED
      BY <2>1, <2>2
  <1>4. SumOf(w, S) \in Bounds
    BY <1>2, <1>3
  <1>5. PICK n \in Bounds : \A m \in Bounds : n =< m
    BY <1>4, LeastNat
  <1>6. n \in S
    <2> SUFFICES ASSUME n \notin S PROVE FALSE
      OBVIOUS
    <2>1. \A x \in S : x \in Nat /\ x =< n - 1
      BY <1>5
    <2>2. n - 1 \in Nat
      <3>1. PICK x \in S : TRUE
        OBVIOUS
      <3>2. x \in Nat /\ x =< n - 1 /\ n \in Nat
        BY <2>1, <1>5
      <3> HIDE DEF Bounds
      <3> QED
        BY <3>2
    <2>3. n - 1 \in Bounds
      BY <2>1, <2>2
    <2> QED
      BY <2>2, <2>3, <1>5
  <1>7. \E x \in S : \A y \in S : x >= y
    BY <1>5, <1>6
  <1> QED
    BY <1>7 DEF Planning!Max

LEMMA PlanningCounts ==
  ASSUME NEW S
  PROVE  /\ Planning!Cardinality(S) = Cardinality(S)
         /\ Planning!IsFiniteSet(S) = IsFiniteSet(S)
  BY DEF Planning!Cardinality, Planning!IsFiniteSet, Cardinality, IsFiniteSet

\* get_lead_time_details finds at least a day.
LEMMA LeadTimeIsPositive ==
  ASSUME NEW r, deliveries \in Seq(Planning!Line)
  PROVE  Planning!LeadTime(r) \in Nat \ {0}
  <1> DEFINE D == DOMAIN deliveries
  <1>1. /\ IsFiniteSet(D)
        /\ \A i \in D : /\ deliveries[i].supplier \in Supplier
                         /\ deliveries[i].took \in Int
    <2>1. IsFiniteSet(D) /\ \A i \in D : deliveries[i] \in Planning!Line
      BY Positions
    <2> QED
      BY <2>1 DEF Planning!Line
  <1>2. ASSUME NEW n \in Nat PROVE Planning!OrTheDefault(n) \in Nat \ {0}
    BY <1>2, PlanningConstants DEF Planning!OrTheDefault
  <1>3. CASE Planning!Dominant(r) = {}
    <2> DEFINE lines == {j \in D : deliveries[j].row = r}
               delivered == {deliveries[i].supplier : i \in lines}
               asked == {o \in Ordered : o[1] = r}
               ever == delivered \cup {o[2] : o \in asked}
               days == {Default[x] : x \in ever \cap Active} \cup {0}
    <2>1. IsFiniteSet(lines)
      BY <1>1, FS_Subset
    <2>2. IsFiniteSet(ever)
      <3> DEFINE f == [i \in D |-> deliveries[i].supplier]
                 g == [o \in Ordered |-> o[2]]
      <3>1. IsFiniteSet({f[i] : i \in lines})
        BY <2>1, FiniteImage
      <3>2. IsFiniteSet({g[o] : o \in asked})
        <4>1. IsFiniteSet(asked)
          BY PlanningConstants, FS_Subset
        <4> QED
          BY <4>1, FiniteImage
      <3>3. delivered = {f[i] : i \in lines} /\ {o[2] : o \in asked} = {g[o] : o \in asked}
        OBVIOUS
      <3> QED
        BY <3>1, <3>2, <3>3, FS_Union
    <2>3. IsFiniteSet(ever \cap Active)
      <3> HIDE DEF ever
      <3> QED
        BY <2>2, FS_Subset
    <2>4. IsFiniteSet({Default[x] : x \in ever \cap Active})
      <3> HIDE DEF ever
      <3> QED
        BY <2>3, FiniteImage
    <2>5. IsFiniteSet(days)
      BY <2>4, FS_AddElement
    <2>6. days \subseteq Nat /\ days # {}
      BY PlanningConstants
    <2>7. Planning!Max(days) \in Nat
      <3> HIDE DEF days
      <3> QED
        BY <2>5, <2>6, GreatestOfNats
    <2>8. Planning!LeadTime(r) = Planning!OrTheDefault(Planning!Max(days))
      BY <1>3 DEF Planning!LeadTime
    <2> HIDE DEF days
    <2> QED
      BY <1>2, <2>7, <2>8
  <1>4. CASE Planning!Dominant(r) # {}
    <2> DEFINE x == CHOOSE y \in Planning!Dominant(r) : TRUE
               lines == Planning!Of(x, Planning!Received(r))
               w == [i \in lines |-> deliveries[i].took]
    <2>1. x \in Planning!Dominant(r)
      BY <1>4
    <2>2. x \in Supplier /\ 10 * Cardinality(lines) > 6 * Cardinality(Planning!Received(r))
      BY <2>1, PlanningCounts DEF Planning!Dominant
    <2>3. Planning!Received(r) \subseteq D /\ lines \subseteq D
      BY DEF Planning!Received, Planning!Of
    <2>4. /\ IsFiniteSet(lines) /\ Cardinality(lines) \in Nat
          /\ Cardinality(Planning!Received(r)) \in Nat
      <3> HIDE DEF D, lines
      <3> QED
        BY <1>1, <2>3, FS_Subset, FS_CardinalityType
    <2>5. Cardinality(lines) \in Nat \ {0}
      <3> HIDE DEF lines
      <3> QED
        BY <2>2, <2>4
    <2>6. w \in [lines -> Int] /\ lines \in SUBSET lines
      BY <1>1, <2>3
    <2>7. SumOf(w, lines) \in Int
      <3>1. SumsUp(w, lines)
        <4> HIDE DEF w, lines
        <4> QED
          BY <2>4, <2>6, SumLaws
      <3> HIDE DEF w, lines
      <3> QED
        BY <3>1, <2>6 DEF SumsUp
    <2>8. Planning!Actual(r, x) \in Nat
      <3>1. CASE SumOf(w, lines) < 0
        BY <3>1, PlanningSums DEF Planning!Actual
      <3>2. CASE ~(SumOf(w, lines) < 0)
        <4>1. Planning!Round(SumOf(w, lines), Cardinality(lines)) \in Nat
          <5> HIDE DEF w, lines
          <5> QED
            BY <2>5, <2>7, <3>2, Rounded
        <4>2. Planning!Actual(r, x) = Planning!AtLeast(
                  Planning!Round(SumOf(w, lines), Cardinality(lines)), 1)
          BY <3>2, PlanningSums, PlanningCounts DEF Planning!Actual
        <4> HIDE DEF w, lines
        <4> QED
          BY <4>1, <4>2 DEF Planning!AtLeast
      <3> QED
        BY <3>1, <3>2
    <2>9. Planning!OrTheDefault(Default[x]) \in Nat \ {0}
      BY <1>2, <2>2, PlanningConstants
    <2>10. Planning!LeadTime(r) = IF Planning!Actual(r, x) > 0 THEN Planning!Actual(r, x)
                                  ELSE Planning!OrTheDefault(Default[x])
      BY <1>4 DEF Planning!LeadTime
    <2> HIDE DEF x
    <2> QED
      BY <2>8, <2>9, <2>10
  <1> QED
    BY <1>3, <1>4

\* The settings of a row, as a record and column by column.
LEMMA SettingsFields ==
  ASSUME NEW st \in Planning!Settings
  PROVE  /\ {st.point, st.factor, st.lead, st.target, st.horizon, st.cycle} \subseteq Nat
         /\ st.policy \in Planning!Policy /\ st.coming \in Int
         /\ DOMAIN st = Planning!Column /\ st = [c \in Planning!Column |-> st[c]]
         /\ \A c \in Planning!Column : st[c] \in Planning!Value(c)
  BY DEF Planning!Settings, Planning!Column, Planning!Value

LEMMA ColumnsSettings ==
  ASSUME NEW st, st = [c \in Planning!Column |-> st[c]],
         \A c \in Planning!Column : st[c] \in Planning!Value(c)
  PROVE  st \in Planning!Settings
  BY DEF Planning!Settings, Planning!Column, Planning!Value

\* What a locked row is given is settings again; all columns sent replace it.
LEMMA OverwrittenSettings ==
  ASSUME NEW r, settings[r] \in Planning!Settings, NEW sent, Planning!Sends(sent)
  PROVE  /\ Planning!Overwritten(r, sent) \in Planning!Settings
         /\ sent \in Planning!Settings => Planning!Overwritten(r, sent) = sent
  <1> DEFINE new == Planning!Overwritten(r, sent)
  <1>1. new = [c \in Planning!Column |-> new[c]]
        /\ \A c \in Planning!Column :
              new[c] = IF c \in DOMAIN sent THEN sent[c] ELSE settings[r][c]
    BY DEF Planning!Overwritten
  <1>2. \A c \in Planning!Column : new[c] \in Planning!Value(c)
    BY <1>1, SettingsFields DEF Planning!Sends
  <1>3. new \in Planning!Settings
    <2> HIDE DEF new
    <2> QED
      BY <1>1, <1>2, ColumnsSettings
  <1>4. ASSUME sent \in Planning!Settings PROVE new = sent
    <2>1. DOMAIN sent = Planning!Column /\ sent = [c \in Planning!Column |-> sent[c]]
      BY <1>4, SettingsFields
    <2> QED
      BY <1>1, <2>1
  <1> QED
    BY <1>3, <1>4

LEMMA SettingsAreSent ==
  ASSUME NEW st \in Planning!Settings
  PROVE  Planning!Sends(st)
  BY SettingsFields DEF Planning!Sends

LEMMA NormalizedPolicy ==
  ASSUME NEW st \in Planning!Settings
  PROVE  Planning!Normalized(st) \in Planning!Policy
  BY SettingsFields DEF Planning!Normalized, Planning!Policy

\* What a preview of a row consists of.
LEMMA PlanFields ==
  ASSUME NEW r, NEW st \in Planning!Settings, NEW factor,
         NEW plan, plan = Planning!Plan(r, st, factor)
  PROVE  /\ plan.lead = Planning!LeadOf(r, st)
         /\ plan.factor = Planning!FactorOf(st, factor)
         /\ plan.policy = Planning!Normalized(st)
         /\ plan.point = Planning!Units(r, plan.lead, plan.factor, plan.lead)
         /\ plan.target = st.target /\ plan.horizon = st.horizon
         /\ plan.cycle = st.cycle /\ plan.coming = st.coming
         /\ DOMAIN plan = Planning!Column
  BY DEF Planning!Plan, Planning!Settings, Planning!Column

LEMMA PlanIsSettled ==
  ASSUME NEW r, Planning!Usage(r) \in Nat, Planning!LeadTime(r) \in Nat \ {0},
         NEW st \in Planning!Settings, NEW factor \in Nat \ {0},
         NEW plan, plan = Planning!Plan(r, st, factor)
  PROVE  plan \in Planning!Settings /\ Planning!Settled(plan, Planning!Usage(r))
  <1> DEFINE usage == Planning!Usage(r)
  <1>0. /\ plan.lead = Planning!LeadOf(r, st)
        /\ plan.factor = Planning!FactorOf(st, factor)
        /\ plan.policy = Planning!Normalized(st)
        /\ plan.point = Planning!Units(r, plan.lead, plan.factor, plan.lead)
        /\ plan.target = st.target /\ plan.horizon = st.horizon
        /\ plan.cycle = st.cycle /\ plan.coming = st.coming
    BY PlanFields
  <1>00. /\ {st.factor, st.lead, st.target, st.horizon, st.cycle} \subseteq Nat
         /\ st.policy \in Planning!Policy /\ st.coming \in Int
    BY SettingsFields
  <1>1. plan.lead \in Nat \ {0} /\ plan.factor \in Nat \ {0}
    BY <1>0, <1>00 DEF Planning!LeadOf, Planning!FactorOf
  <1>2. plan.point \in Nat
        /\ plan.point = Planning!Round(usage * (2 * plan.lead + plan.factor * plan.lead),
                                       2 * DemandDays)
    <2>1. plan.point = Planning!Round(usage * (2 * plan.lead + plan.factor * plan.lead),
                                      2 * DemandDays)
      BY <1>0 DEF Planning!Units
    <2>2. usage \in Nat /\ plan.lead \in Nat /\ plan.factor \in Nat
      BY <1>1
    <2> HIDE DEF usage
    <2> QED
      BY <2>1, <2>2, PlannedUnits
  <1>3. plan.policy \in Planning!Policy /\ Planning!Normalized(plan) = plan.policy
    BY <1>0, <1>00, NormalizedPolicy DEF Planning!Normalized
  <1>4. plan \in Planning!Settings
    <2>1. plan = [c \in Planning!Column |-> plan[c]]
      BY DEF Planning!Plan, Planning!Settings, Planning!Column
    <2>2. \A c \in Planning!Column : plan[c] \in Planning!Value(c)
      BY <1>0, <1>00, <1>1, <1>2, <1>3 DEF Planning!Column, Planning!Value
    <2> QED
      BY <2>1, <2>2, ColumnsSettings
  <1> QED
    BY <1>1, <1>2, <1>3, <1>4 DEF Planning!Settled

\* Computed again, settled settings stay as they are, but for the reorder point.
LEMMA PlanSettles ==
  ASSUME NEW r, NEW st \in Planning!Settings, NEW usage, Planning!Settled(st, usage),
         NEW factor, NEW plan, plan = Planning!Plan(r, st, factor)
  PROVE  /\ \A c \in Planning!Column \ {"point"} : plan[c] = st[c]
         /\ Planning!Usage(r) = usage => plan.point = st.point
  <1>1. /\ plan.lead = Planning!LeadOf(r, st)
        /\ plan.factor = Planning!FactorOf(st, factor)
        /\ plan.policy = Planning!Normalized(st)
        /\ plan.point = Planning!Units(r, plan.lead, plan.factor, plan.lead)
        /\ plan.target = st.target /\ plan.horizon = st.horizon
        /\ plan.cycle = st.cycle /\ plan.coming = st.coming
    BY PlanFields
  <1>2. plan.lead = st.lead /\ plan.factor = st.factor /\ plan.policy = st.policy
    BY <1>1 DEF Planning!Settled, Planning!LeadOf, Planning!FactorOf
  <1>3. \A c \in Planning!Column \ {"point"} : plan[c] = st[c]
    BY <1>1, <1>2 DEF Planning!Column
  <1>4. ASSUME Planning!Usage(r) = usage PROVE plan.point = st.point
    BY <1>1, <1>2, <1>4 DEF Planning!Settled, Planning!Units
  <1> QED
    BY <1>3, <1>4

\* What is suggested fills up to the level: once it is on order, nothing more is.
LEMMA SuggestedIsEnough ==
  ASSUME NEW r \in StockRow, sales[r] \in Seq(Planning!Sale),
         NEW plan \in Planning!Settings,
         NEW ordered, ordered = [plan EXCEPT !.coming = @ + Planning!Suggested(r, plan)]
  PROVE  Planning!Suggested(r, ordered) = 0
  <1>1. plan.coming \in Int /\ DOMAIN plan = Planning!Column
        /\ {plan.point, plan.factor, plan.lead, plan.target, plan.horizon, plan.cycle}
              \subseteq Nat
    BY SettingsFields
  <1>2. /\ ordered.coming = plan.coming + Planning!Suggested(r, plan)
        /\ ordered.point = plan.point /\ ordered.factor = plan.factor
        /\ ordered.lead = plan.lead /\ ordered.target = plan.target
        /\ ordered.horizon = plan.horizon /\ ordered.cycle = plan.cycle
        /\ ordered.policy = plan.policy
    BY <1>1 DEF Planning!Column
  <1>3. Planning!Level(r, ordered) = Planning!Level(r, plan)
    BY <1>2 DEF Planning!Level
  <1>4. Planning!Usage(r) \in Nat /\ Planning!Quantity(r) \in Int
    BY Demand
  <1>5. ASSUME NEW horizon \in Nat
        PROVE  Planning!Units(r, plan.lead + horizon, plan.factor, plan.lead) \in Nat
    <2>1. plan.lead + horizon \in Nat
      BY <1>1
    <2> QED
      BY <1>1, <1>4, <2>1, PlannedUnits DEF Planning!Units
  <1>6. Planning!Level(r, plan) \in Nat
    BY <1>1, <1>5 DEF Planning!Level
  <1> DEFINE level == Planning!Level(r, plan)
             had == Planning!Quantity(r)
  <1>7. /\ Planning!Suggested(r, plan)
              = IF level - (had + plan.coming) < 0 THEN 0 ELSE level - (had + plan.coming)
        /\ Planning!Suggested(r, ordered)
              = IF level - (had + ordered.coming) < 0 THEN 0
                ELSE level - (had + ordered.coming)
    BY <1>3 DEF Planning!Suggested, Planning!AtLeast
  <1> HIDE DEF level, had
  <1>8. level \in Int /\ had \in Int
    BY <1>4, <1>6 DEF level, had
  <1> QED
    BY <1>1, <1>2, <1>7, <1>8

LEMMA PlanningIInvSettles ==
  ASSUME Planning!IInv
  PROVE  Planning!PlansSettle
  <1> SUFFICES ASSUME NEW r \in StockRow, NEW f \in 1 .. 4,
                      applied[r] # Planning!NotApplied,
                      NEW plan, plan = Planning!Plan(r, settings[r], f),
                      NEW ordered,
                      ordered = [plan EXCEPT !.coming = @ + Planning!Suggested(r, plan)]
               PROVE  /\ \A c \in Planning!Column \ {"point"} : plan[c] = settings[r][c]
                      /\ Planning!Usage(r) = applied[r] => plan.point = settings[r].point
                      /\ Planning!Suggested(r, ordered) = 0
    BY DEF Planning!PlansSettle
  <1> DEFINE st == settings[r]
             usage == applied[r]
  <1>1. /\ st \in Planning!Settings /\ Planning!Settled(st, usage)
        /\ sales[r] \in Seq(Planning!Sale) /\ deliveries \in Seq(Planning!Line)
        /\ f \in Nat \ {0} /\ plan = Planning!Plan(r, st, f)
    BY DEF Planning!IInv, Planning!TypeOK
  <1> HIDE DEF st, usage
  <1>2. /\ \A c \in Planning!Column \ {"point"} : plan[c] = st[c]
        /\ Planning!Usage(r) = usage => plan.point = st.point
    BY <1>1, PlanSettles
  <1>3. plan \in Planning!Settings
    BY <1>1, Demand, LeadTimeIsPositive, PlanIsSettled
  <1>4. Planning!Suggested(r, ordered) = 0
    BY <1>1, <1>3, SuggestedIsEnough
  <1> QED
    BY <1>2, <1>4 DEF st, usage

LEMMA PlanningInitInv == Planning!Init => Planning!IInv
  <1> SUFFICES ASSUME Planning!Init PROVE Planning!IInv
    OBVIOUS
  <1>1. /\ sales = PastSales /\ deliveries = Delivered /\ pToday = Today
        /\ settings \in [StockRow -> Planning!Settings]
        /\ pOwner = [r \in StockRow |-> NoSession]
        /\ pPc = [s \in Session |-> "idle"] /\ pKind = [s \in Session |-> "none"]
        /\ pAsks = [s \in Session |-> Planning!NoRequest]
        /\ found = [s \in Session |-> Planning!None]
        /\ pMine = [s \in Session |-> Planning!None]
        /\ usages = [s \in Session |-> Planning!None]
        /\ applied = [r \in StockRow |-> Planning!NotApplied]
    BY PlanningConstants DEF Planning!Init, Planning!Unlocked
  <1>2. ASSUME NEW r \in StockRow
        PROVE  sales[r] \in Seq(Planning!Sale) /\ Planning!Quantity(r) >= 0
    <2>1. sales[r] \in Seq(Planning!Sale)
      BY <1>1, PlanningConstants
    <2>2. Planning!Sold(r, DOMAIN sales[r]) \in Nat
      BY <2>1, SoldUnits
    <2>3. Planning!Sold(r, DOMAIN sales[r]) =< Opening[r]
      BY <1>1, InventoryAssumption DEF Planning!PlanningAssumption, Planning!Sold
    <2>4. Opening[r] \in Nat
      BY PlanningConstants
    <2> QED
      BY <2>1, <2>2, <2>3, <2>4 DEF Planning!Quantity
  <1>3. Planning!TypeOK
    BY <1>1, <1>2 DEF Planning!TypeOK
  <1>4. ASSUME NEW s \in Session PROVE Planning!InStep(s)
    BY <1>1 DEF Planning!InStep, Planning!FitsItsRequest, Planning!WritesSettled,
                Planning!NoRequest, Planning!None
  <1> QED
    BY <1>1, <1>3, <1>4, PlanningConstants DEF Planning!IInv

\* The parts of the inductive invariant that a step of a request may change.
LEMMA PlanningIInvParts ==
  ASSUME Planning!IInv
  PROVE  /\ settings \in [StockRow -> Planning!Settings]
         /\ pOwner \in [StockRow -> Session \cup {NoSession}]
         /\ pPc \in [Session -> {"idle", "select", "preview", "lock"}]
         /\ pKind \in [Session -> {"none", "apply", "patch"}]
         /\ DOMAIN pAsks = Session /\ DOMAIN found = Session
         /\ DOMAIN pMine = Session /\ DOMAIN usages = Session
         /\ \A s \in Session : Planning!InStep(s)
  BY DEF Planning!IInv, Planning!TypeOK

\* A session is in step with its request as long as its own state stays.
LEMMA PlanningStays ==
  ASSUME NEW s \in Session, Planning!InStep(s),
         pPc'[s] = pPc[s], pKind'[s] = pKind[s], pAsks'[s] = pAsks[s],
         found'[s] = found[s], pMine'[s] = pMine[s], usages'[s] = usages[s],
         \A r \in StockRow : pOwner'[r] = s => pOwner[r] = s
  PROVE  Planning!InStep(s)'
  BY DEF Planning!InStep, Planning!FitsItsRequest, Planning!WritesSettled, Planning!Settled,
         Planning!Normalized, Planning!Sends

\* A step of a request that writes no settings keeps the rest of the invariant.
LEMMA PlanningRequestInv ==
  ASSUME Planning!IInv, UNCHANGED <<sales, deliveries, pToday, settings, applied>>,
         pOwner' \in [StockRow -> Session \cup {NoSession}],
         pPc' \in [Session -> {"idle", "select", "preview", "lock"}],
         pKind' \in [Session -> {"none", "apply", "patch"}],
         DOMAIN pAsks' = Session, DOMAIN found' = Session,
         DOMAIN pMine' = Session, DOMAIN usages' = Session,
         \A s \in Session : Planning!InStep(s)'
  PROVE  Planning!IInv'
  BY DEF Planning!IInv, Planning!TypeOK, Planning!Quantity, Planning!Sold, Planning!Settled,
         Planning!Normalized

LEMMA PlanningBeginInv ==
  ASSUME NEW s \in Session, Planning!IInv, NEW k \in {"apply", "patch"}, NEW what,
         Planning!Begin(s, k, what), what.rows \subseteq StockRow,
         k = "apply" => what.factor \in Nat \ {0},
         k = "patch" => Planning!Sends(what.body)
  PROVE  Planning!IInv'
  <1>1. /\ pPc[s] = "idle" /\ pKind' = [pKind EXCEPT ![s] = k]
        /\ pAsks' = [pAsks EXCEPT ![s] = what] /\ pPc' = [pPc EXCEPT ![s] = "select"]
        /\ UNCHANGED <<sales, deliveries, pToday, settings, pOwner, found, pMine, usages,
                       applied>>
    BY DEF Planning!Begin, Planning!GoTo, Planning!outside, Planning!objects
  <1>2. /\ pPc'[s] = "select" /\ pKind'[s] = k /\ pAsks'[s] = what
        /\ found'[s] = found[s] /\ pMine'[s] = pMine[s] /\ usages'[s] = usages[s]
        /\ \A t \in Session : t # s => /\ pPc'[t] = pPc[t] /\ pKind'[t] = pKind[t]
                                       /\ pAsks'[t] = pAsks[t]
    BY <1>1, PlanningIInvParts
  <1>3. Planning!InStep(s)'
    <2>1. Planning!InStep(s)
      BY PlanningIInvParts
    <2>2. DOMAIN pMine[s] = {} /\ DOMAIN usages[s] = {}
          /\ \A r \in StockRow : pOwner[r] # s
      BY <1>1, <2>1 DEF Planning!InStep, Planning!FitsItsRequest
    <2>3. Planning!FitsItsRequest(s)'
      BY <1>2, <2>2 DEF Planning!FitsItsRequest, Planning!Sends
    <2> QED
      BY <1>1, <1>2, <2>1, <2>2, <2>3 DEF Planning!InStep, Planning!WritesSettled
  <1>4. \A t \in Session : t # s => Planning!InStep(t)'
    BY <1>1, <1>2, PlanningIInvParts, PlanningStays
  <1> QED
    BY <1>1, <1>3, <1>4, PlanningIInvParts, PlanningRequestInv

LEMMA PlanningRequestsInv ==
  ASSUME NEW s \in Session, Planning!IInv,
         \/ \E factor \in Factor, rows \in Selection :
                Planning!ApplyReorderPoints(s, factor, rows)
         \/ \E p \in Patch : Planning!UpdateStockSettings(s, p)
  PROVE  Planning!IInv'
  <1>1. ASSUME NEW factor \in Factor, NEW rows \in Selection,
               Planning!ApplyReorderPoints(s, factor, rows)
        PROVE  Planning!IInv'
    <2> DEFINE what == [factor |-> factor, rows |-> rows, body |-> Planning!None]
    <2>1. /\ Planning!Begin(s, "apply", what) /\ what.rows \subseteq StockRow
          /\ what.factor \in Nat \ {0}
      BY <1>1, PlanningConstants DEF Planning!ApplyReorderPoints
    <2> HIDE DEF what
    <2> QED
      BY <2>1, PlanningBeginInv
  <1>2. ASSUME NEW p \in Patch, Planning!UpdateStockSettings(s, p)
        PROVE  Planning!IInv'
    <2> DEFINE what == [factor |-> 0, rows |-> {p.row}, body |-> p.body]
    <2>1. p.row \in StockRow /\ Planning!Sends(p.body)
      BY InventoryAssumption DEF Planning!PlanningAssumption, Planning!Sends
    <2>2. /\ Planning!Begin(s, "patch", what) /\ what.rows \subseteq StockRow
          /\ what.body = p.body
      BY <1>2, <2>1 DEF Planning!UpdateStockSettings
    <2> HIDE DEF what
    <2> QED
      BY <2>1, <2>2, PlanningBeginInv
  <1> QED
    BY <1>1, <1>2

LEMMA SelectRowsInv ==
  ASSUME NEW s \in Session, Planning!IInv, Planning!Select(s)
  PROVE  Planning!IInv'
  <1> DEFINE rows == pAsks[s].rows
             body == pAsks[s].body
             Differing(st) == [c \in {d \in DOMAIN body : st[d] # body[d]} |-> body[c]]
  <1>1. /\ pPc[s] = "select"
        /\ UNCHANGED <<sales, deliveries, pToday, settings, pOwner, pKind, pAsks, usages,
                       applied>>
        /\ \/ /\ pKind[s] = "apply" /\ pPc' = [pPc EXCEPT ![s] = "preview"]
              /\ found' = [found EXCEPT ![s] = [r \in rows |-> settings[r]]]
              /\ UNCHANGED pMine
           \/ /\ pKind[s] # "apply" /\ pPc' = [pPc EXCEPT ![s] = "lock"]
              /\ pMine' = [pMine EXCEPT ![s] = [r \in rows |-> Differing(settings[r])]]
              /\ UNCHANGED found
    BY DEF Planning!Select, Planning!GoTo, Planning!outside, Planning!request
  <1>2. /\ Planning!InStep(s) /\ rows \subseteq StockRow
        /\ pKind[s] \in {"apply", "patch"} /\ DOMAIN pMine[s] = {} /\ DOMAIN usages[s] = {}
        /\ \A r \in StockRow : pOwner[r] # s
        /\ \A r \in rows : settings[r] \in Planning!Settings
    BY <1>1, PlanningIInvParts DEF Planning!InStep, Planning!FitsItsRequest
  <1>3. \A t \in Session : t # s => Planning!InStep(t)'
    BY <1>1, PlanningIInvParts, PlanningStays
  <1>4. CASE pKind[s] = "apply"
    <2>1. /\ pPc'[s] = "preview" /\ pMine'[s] = pMine[s]
          /\ found'[s] = [r \in rows |-> settings[r]]
      BY <1>1, <1>4, PlanningIInvParts
    <2>2. Planning!InStep(s)'
      BY <1>1, <1>2, <1>4, <2>1
         DEF Planning!InStep, Planning!FitsItsRequest, Planning!WritesSettled
    <2> QED
      BY <1>1, <1>3, <1>4, <2>2, PlanningIInvParts, PlanningRequestInv
  <1>5. CASE pKind[s] = "patch"
    <2>1. /\ pPc'[s] = "lock" /\ found'[s] = found[s]
          /\ pMine'[s] = [r \in rows |-> Differing(settings[r])]
      BY <1>1, <1>5, PlanningIInvParts
    <2>2. Planning!Sends(body)
      BY <1>2, <1>5 DEF Planning!InStep, Planning!FitsItsRequest
    <2>3. \A st : Planning!Sends(Differing(st))
      BY <2>2 DEF Planning!Sends
    <2>4. DOMAIN pMine'[s] = rows /\ \A r \in rows : Planning!Sends(pMine'[s][r])
      BY <2>1, <2>3
    <2>5. Planning!FitsItsRequest(s)'
      BY <1>1, <1>2, <1>5, <2>1 DEF Planning!FitsItsRequest, Planning!InStep, Planning!Sends
    <2>6. \A r \in rows : Planning!Sends(pMine[s][r])'
      BY <2>4 DEF Planning!Sends
    <2>7. Planning!InStep(s)'
      BY <1>1, <1>2, <1>5, <2>1, <2>4, <2>5, <2>6 DEF Planning!InStep
    <2> QED
      BY <1>1, <1>3, <1>5, <2>7, PlanningIInvParts, PlanningRequestInv
  <1> QED
    BY <1>2, <1>4, <1>5

LEMMA PreviewRowInv ==
  ASSUME NEW s \in Session, Planning!IInv, Planning!PreviewRow(s)
  PROVE  Planning!IInv'
  <1>1. PICK r \in DOMAIN found[s] :
          /\ pPc[s] = "preview" /\ found' = [found EXCEPT ![s] = Planning!Without(@, r)]
          /\ IF Planning!Skipped(r, found[s][r])
             THEN UNCHANGED <<pMine, usages>>
             ELSE /\ pMine' = [pMine EXCEPT ![s] = Planning!Extended(@, r,
                                 Planning!Plan(r, found[s][r], pAsks[s].factor))]
                  /\ usages' = [usages EXCEPT ![s] =
                                 Planning!Extended(@, r, Planning!Usage(r))]
          /\ \/ pPc' = [pPc EXCEPT ![s] = "lock"]
             \/ UNCHANGED pPc
          /\ UNCHANGED <<sales, deliveries, pToday, settings, pOwner, pKind, pAsks, applied>>
    BY DEF Planning!PreviewRow, Planning!GoTo, Planning!outside, Planning!request
  <1> DEFINE st == found[s][r]
             plan == Planning!Plan(r, st, pAsks[s].factor)
             usage == Planning!Usage(r)
  <1>2. Planning!InStep(s)
    BY PlanningIInvParts
  <1>3. /\ pKind[s] = "apply" /\ r \in StockRow /\ st \in Planning!Settings
        /\ pAsks[s].factor \in Nat \ {0} /\ Planning!WritesSettled(s)
        /\ DOMAIN pMine[s] \subseteq StockRow
        /\ \A q \in StockRow : pOwner[q] # s
    BY <1>1, <1>2 DEF Planning!InStep, Planning!FitsItsRequest
  <1>4. /\ plan \in Planning!Settings /\ Planning!Settled(plan, usage) /\ usage \in Nat
    <2>1. sales[r] \in Seq(Planning!Sale) /\ deliveries \in Seq(Planning!Line)
      BY <1>3 DEF Planning!IInv
    <2>2. usage \in Nat /\ Planning!LeadTime(r) \in Nat \ {0}
      BY <1>3, <2>1, Demand, LeadTimeIsPositive
    <2> QED
      BY <1>3, <2>2, PlanIsSettled
  <1> HIDE DEF plan, usage
  <1>5. /\ DOMAIN found'[s] \subseteq DOMAIN found[s]
        /\ \A q \in DOMAIN found'[s] : found'[s][q] = found[s][q]
    BY <1>1, PlanningIInvParts DEF Planning!Without
  <1>6. /\ DOMAIN pMine'[s] \subseteq StockRow /\ DOMAIN usages'[s] = DOMAIN pMine'[s]
        /\ \A q \in DOMAIN pMine'[s] : /\ pMine'[s][q] \in Planning!Settings
                                       /\ usages'[s][q] \in Nat
                                       /\ Planning!Settled(pMine'[s][q], usages'[s][q])
    <2>1. CASE Planning!Skipped(r, found[s][r])
      BY <1>1, <1>3, <2>1 DEF Planning!WritesSettled
    <2>2. CASE ~Planning!Skipped(r, found[s][r])
      <3>1. /\ pMine'[s] = Planning!Extended(pMine[s], r, plan)
            /\ usages'[s] = Planning!Extended(usages[s], r, usage)
        BY <1>1, <2>2, PlanningIInvParts DEF plan, usage
      <3> QED
        BY <1>3, <1>4, <3>1 DEF Planning!WritesSettled, Planning!Extended
    <2> QED
      BY <2>1, <2>2
  <1>7. Planning!WritesSettled(s)'
    BY <1>6 DEF Planning!WritesSettled, Planning!Settled, Planning!Normalized
  <1>8. pPc'[s] \in {"preview", "lock"} /\ pKind'[s] = "apply" /\ pAsks' = pAsks
    BY <1>1, <1>3, PlanningIInvParts
  <1>9. Planning!FitsItsRequest(s)'
    BY <1>2, <1>3, <1>8 DEF Planning!InStep, Planning!FitsItsRequest
  <1>10. Planning!InStep(s)'
    BY <1>1, <1>2, <1>3, <1>5, <1>6, <1>7, <1>8, <1>9 DEF Planning!InStep
  <1>11. \A t \in Session : t # s => Planning!InStep(t)'
    BY <1>1, PlanningIInvParts, PlanningStays
  <1>12. pPc' \in [Session -> {"idle", "select", "preview", "lock"}]
         /\ DOMAIN found' = Session /\ DOMAIN pMine' = Session /\ DOMAIN usages' = Session
    BY <1>1, PlanningIInvParts
  <1> QED
    BY <1>1, <1>10, <1>11, <1>12, PlanningIInvParts, PlanningRequestInv

LEMMA LockRowInv ==
  ASSUME NEW s \in Session, Planning!IInv, Planning!LockRow(s)
  PROVE  Planning!IInv'
  <1>1. PICK r \in DOMAIN pMine[s] :
          /\ pPc[s] = "lock" /\ pOwner[r] \in {NoSession, s}
          /\ pOwner' = [pOwner EXCEPT ![r] = s]
          /\ UNCHANGED <<sales, deliveries, pToday, settings, pPc, pKind, pAsks, found, pMine,
                         usages, applied>>
    BY DEF Planning!LockRow, Planning!ToLock, Planning!Available, Planning!Acquire,
           Planning!outside, Planning!request, Planning!objects
  <1>2. Planning!InStep(s) /\ r \in StockRow
    BY <1>1, PlanningIInvParts DEF Planning!InStep
  <1>3. pOwner' \in [StockRow -> Session \cup {NoSession}]
        /\ pOwner'[r] = s /\ \A q \in StockRow : q # r => pOwner'[q] = pOwner[q]
    BY <1>1, <1>2, PlanningIInvParts
  <1>4. Planning!InStep(s)'
    BY <1>1, <1>2, <1>3 DEF Planning!InStep, Planning!FitsItsRequest,
         Planning!WritesSettled, Planning!Settled, Planning!Normalized, Planning!Sends
  <1>5. \A t \in Session : t # s => Planning!InStep(t)'
    BY <1>1, <1>3, PlanningIInvParts, PlanningStays
  <1> QED
    BY <1>1, <1>3, <1>4, <1>5, PlanningIInvParts, PlanningRequestInv

\* The end of a transaction.
LEMMA PlanningClosed ==
  ASSUME NEW s \in Session, Planning!IInv, Planning!Close(s)
  PROVE  /\ pOwner' \in [StockRow -> Session \cup {NoSession}]
         /\ pPc' \in [Session -> {"idle", "select", "preview", "lock"}]
         /\ pKind' \in [Session -> {"none", "apply", "patch"}]
         /\ DOMAIN pAsks' = Session /\ DOMAIN found' = Session
         /\ DOMAIN pMine' = Session /\ DOMAIN usages' = Session
         /\ UNCHANGED <<sales, deliveries, pToday>>
         /\ \A t \in Session : Planning!InStep(t)'
  <1>1. /\ pPc' = [pPc EXCEPT ![s] = "idle"] /\ pKind' = [pKind EXCEPT ![s] = "none"]
        /\ pAsks' = [pAsks EXCEPT ![s] = Planning!NoRequest]
        /\ found' = [found EXCEPT ![s] = Planning!None]
        /\ pMine' = [pMine EXCEPT ![s] = Planning!None]
        /\ usages' = [usages EXCEPT ![s] = Planning!None]
        /\ UNCHANGED <<sales, deliveries, pToday>>
        /\ pOwner' = [r \in DOMAIN pOwner |-> IF pOwner[r] = s THEN NoSession ELSE pOwner[r]]
    BY DEF Planning!Close, Planning!GoTo, Planning!Release, Planning!outside
  <1>2. /\ pOwner' \in [StockRow -> Session \cup {NoSession}]
        /\ \A r \in StockRow : pOwner'[r] = IF pOwner[r] = s THEN NoSession ELSE pOwner[r]
    BY <1>1, PlanningIInvParts
  <1>3. Planning!InStep(s)'
    <2>1. /\ pPc'[s] = "idle" /\ pKind'[s] = "none" /\ pAsks'[s] = Planning!NoRequest
          /\ found'[s] = Planning!None /\ pMine'[s] = Planning!None
          /\ usages'[s] = Planning!None /\ \A r \in StockRow : pOwner'[r] # s
      BY <1>1, <1>2, PlanningIInvParts
    <2> QED
      BY <2>1 DEF Planning!InStep, Planning!FitsItsRequest, Planning!NoRequest,
                  Planning!None
  <1>4. \A t \in Session : t # s => Planning!InStep(t)'
    BY <1>1, <1>2, PlanningIInvParts, PlanningStays
  <1> QED
    BY <1>1, <1>2, <1>3, <1>4, PlanningIInvParts

LEMMA PlanningAbortInv ==
  ASSUME NEW s \in Session, Planning!IInv, Planning!Abort(s)
  PROVE  Planning!IInv'
  <1>1. Planning!Close(s) /\ UNCHANGED <<settings, applied>>
    BY DEF Planning!Abort
  <1> QED
    BY <1>1, PlanningClosed, PlanningRequestInv

\* What is written to the rows a session has locked is settings, and settled if an
\* apply has written them.
LEMMA PlanningCommitInv ==
  ASSUME NEW s \in Session, Planning!IInv, Planning!Commit(s)
  PROVE  Planning!IInv'
  <1>1. /\ pPc[s] = "lock" /\ Planning!Close(s)
        /\ settings' = [r \in StockRow |-> IF pOwner[r] = s
                            THEN Planning!Overwritten(r, pMine[s][r]) ELSE settings[r]]
        /\ applied' = [r \in StockRow |-> IF pOwner[r] # s THEN applied[r]
                            ELSE IF pKind[s] = "apply" THEN usages[s][r]
                            ELSE Planning!NotApplied]
    BY DEF Planning!Commit
  <1>2. /\ Planning!InStep(s) /\ pKind[s] \in {"apply", "patch"}
        /\ \A r \in StockRow : pOwner[r] = s => r \in DOMAIN pMine[s]
    BY <1>1, PlanningIInvParts DEF Planning!InStep, Planning!FitsItsRequest
  <1>3. /\ settings \in [StockRow -> Planning!Settings]
        /\ applied \in [StockRow -> Nat \cup {Planning!NotApplied}]
        /\ \A r \in StockRow : applied[r] # Planning!NotApplied
              => Planning!Settled(settings[r], applied[r])
    BY DEF Planning!IInv, Planning!TypeOK
  <1>4. ASSUME NEW r \in StockRow
        PROVE  /\ settings'[r] \in Planning!Settings
               /\ applied'[r] \in Nat \cup {Planning!NotApplied}
               /\ applied'[r] # Planning!NotApplied
                     => Planning!Settled(settings'[r], applied'[r])
    <2>1. CASE pOwner[r] # s
      BY <1>1, <1>3, <2>1
    <2>2. CASE pOwner[r] = s /\ pKind[s] = "apply"
      <3>1. /\ pMine[s][r] \in Planning!Settings /\ usages[s][r] \in Nat
            /\ Planning!Settled(pMine[s][r], usages[s][r])
        BY <1>2, <2>2 DEF Planning!InStep, Planning!WritesSettled
      <3>2. Planning!Overwritten(r, pMine[s][r]) = pMine[s][r]
        BY <1>3, <3>1, SettingsAreSent, OverwrittenSettings
      <3>3. settings'[r] = pMine[s][r] /\ applied'[r] = usages[s][r]
        BY <1>1, <2>2, <3>2
      <3> QED
        BY <3>1, <3>3
    <2>3. CASE pOwner[r] = s /\ pKind[s] = "patch"
      <3>1. Planning!Sends(pMine[s][r])
        BY <1>2, <2>3 DEF Planning!InStep
      <3>2. Planning!Overwritten(r, pMine[s][r]) \in Planning!Settings
        BY <1>3, <3>1, OverwrittenSettings
      <3> QED
        BY <1>1, <2>3, <3>2
    <2> QED
      BY <1>2, <2>1, <2>2, <2>3
  <1>5. settings' \in [StockRow -> Planning!Settings]
        /\ applied' \in [StockRow -> Nat \cup {Planning!NotApplied}]
    BY <1>1, <1>4
  <1>6. \A r \in StockRow : applied'[r] # Planning!NotApplied
              => Planning!Settled(settings[r], applied[r])'
    BY <1>4 DEF Planning!Settled, Planning!Normalized
  <1>7. UNCHANGED <<sales, deliveries, pToday>>
    BY <1>1, PlanningClosed
  <1>8. \A r \in StockRow : Planning!Quantity(r)' = Planning!Quantity(r)
    BY <1>7 DEF Planning!Quantity, Planning!Sold
  <1>9. Planning!TypeOK'
    BY <1>1, <1>5, <1>7, <1>8, PlanningClosed DEF Planning!IInv, Planning!TypeOK
  <1> QED
    BY <1>1, <1>5, <1>6, <1>7, <1>9, PlanningClosed DEF Planning!IInv
-----------------------------------------------------------------------------
LEMMA OthersInStep ==
  ASSUME Planning!IInv, UNCHANGED <<pPc, pKind, pAsks, found, pMine, usages, pOwner>>
  PROVE  \A s \in Session : Planning!InStep(s)'
  BY PlanningIInvParts, PlanningStays

LEMMA SellInv ==
  ASSUME NEW r \in StockRow, NEW units \in Lot, Planning!IInv, Planning!Sell(r, units)
  PROVE  Planning!IInv'
  <1> DEFINE sale == [at |-> pToday, units |-> units]
  <1>1. /\ units =< Planning!Quantity(r)
        /\ sales' = [sales EXCEPT ![r] = Append(@, sale)]
        /\ UNCHANGED <<deliveries, pToday, settings, pOwner, pPc, pKind, pAsks, found, pMine,
                       usages, applied>>
    BY DEF Planning!Sell, Planning!request, Planning!objects
  <1>2. sale \in Planning!Sale /\ sales \in [StockRow -> Seq(Planning!Sale)]
        /\ sale.units = units /\ units \in Nat
    BY PlanningConstants DEF Planning!IInv, Planning!Sale
  <1> HIDE DEF sale
  <1>3. /\ sales'[r] = Append(sales[r], sale) /\ sales[r] \in Seq(Planning!Sale)
        /\ \A q \in StockRow : q # r => sales'[q] = sales[q]
    BY <1>1, <1>2
  <1>4. Append(sales[r], sale) \in Seq(Planning!Sale)
    BY <1>2, <1>3, AppendProperties
  <1>5. sales' \in [StockRow -> Seq(Planning!Sale)]
    BY <1>1, <1>2, <1>4
  <1>6. Planning!Quantity(r)' = Planning!Quantity(r) - units
    BY <1>2, <1>3, OneSaleMore
  <1>7. Planning!Quantity(r) \in Int
    BY <1>3, Demand
  <1>8. \A q \in StockRow : q # r => Planning!Quantity(q)' = Planning!Quantity(q)
    BY <1>3 DEF Planning!Quantity, Planning!Sold
  <1>9. \A q \in StockRow : Planning!Quantity(q)' >= 0
    BY <1>1, <1>2, <1>6, <1>7, <1>8 DEF Planning!IInv, Planning!TypeOK
  <1>10. Planning!TypeOK'
    BY <1>1, <1>5, <1>9 DEF Planning!IInv, Planning!TypeOK
  <1>11. \A q \in StockRow : applied'[q] # Planning!NotApplied
              => Planning!Settled(settings[q], applied[q])'
    BY <1>1 DEF Planning!IInv, Planning!Settled, Planning!Normalized
  <1> QED
    BY <1>1, <1>5, <1>10, <1>11, OthersInStep DEF Planning!IInv

LEMMA OutsideInv ==
  ASSUME Planning!IInv, \/ \E d \in Delivery : Planning!Deliver(d)
                        \/ Planning!DayPasses
  PROVE  Planning!IInv'
  <1>1. UNCHANGED <<sales, settings, pOwner, pPc, pKind, pAsks, found, pMine, usages, applied>>
    BY DEF Planning!Deliver, Planning!DayPasses, Planning!request, Planning!objects
  <1>2. deliveries' \in Seq(Planning!Line) /\ pToday' \in Nat
    <2>1. deliveries \in Seq(Planning!Line) /\ pToday \in Nat
      BY DEF Planning!IInv
    <2>2. ASSUME NEW d \in Delivery, Planning!Deliver(d)
          PROVE  deliveries' \in Seq(Planning!Line) /\ pToday' \in Nat
      <3> DEFINE line == [row |-> d.row, supplier |-> d.supplier, took |-> d.took,
                          on |-> pToday]
      <3>1. line \in Planning!Line
        BY <2>1, InventoryAssumption DEF Planning!PlanningAssumption, Planning!Line
      <3>2. deliveries' = Append(deliveries, line) /\ pToday' = pToday
        BY <2>2 DEF Planning!Deliver
      <3> HIDE DEF line
      <3> QED
        BY <2>1, <3>1, <3>2, AppendProperties
    <2>3. CASE Planning!DayPasses
      BY <2>1, <2>3 DEF Planning!DayPasses
    <2> QED
      BY <2>2, <2>3
  <1>3. \A r \in StockRow : Planning!Quantity(r)' = Planning!Quantity(r)
    BY <1>1 DEF Planning!Quantity, Planning!Sold
  <1>4. Planning!TypeOK'
    BY <1>1, <1>3 DEF Planning!IInv, Planning!TypeOK
  <1>5. \A q \in StockRow : applied'[q] # Planning!NotApplied
              => Planning!Settled(settings[q], applied[q])'
    BY <1>1 DEF Planning!IInv, Planning!Settled, Planning!Normalized
  <1> QED
    BY <1>1, <1>2, <1>4, <1>5, OthersInStep DEF Planning!IInv

LEMMA PlanningNextInv ==
  ASSUME Planning!IInv, [Planning!Next]_(Planning!vars)
  PROVE  Planning!IInv'
  <1>1. CASE UNCHANGED Planning!vars
    <2>1. UNCHANGED <<sales, deliveries, pToday, settings, pOwner, pPc, pKind, pAsks, found,
                      pMine, usages, applied>>
      BY <1>1 DEF Planning!vars, Planning!outside, Planning!request, Planning!objects
    <2> QED
      BY <2>1, OthersInStep, PlanningIInvParts, PlanningRequestInv
  <1>2. ASSUME NEW r \in StockRow, NEW units \in Lot, Planning!Sell(r, units)
        PROVE  Planning!IInv'
    BY <1>2, SellInv
  <1>3. ASSUME \/ \E d \in Delivery : Planning!Deliver(d)
               \/ Planning!DayPasses
        PROVE  Planning!IInv'
    BY <1>3, OutsideInv
  <1>4. ASSUME NEW s \in Session,
               \/ \E factor \in Factor, rows \in Selection :
                      Planning!ApplyReorderPoints(s, factor, rows)
               \/ \E p \in Patch : Planning!UpdateStockSettings(s, p)
        PROVE  Planning!IInv'
    BY <1>4, PlanningRequestsInv
  <1>5. ASSUME NEW s \in Session, Planning!Statement(s)
        PROVE  Planning!IInv'
    BY <1>5, SelectRowsInv, PreviewRowInv, LockRowInv, PlanningCommitInv
       DEF Planning!Statement
  <1>6. ASSUME NEW s \in Session, Planning!Abort(s) \/ Planning!BreakDeadlock(s)
        PROVE  Planning!IInv'
    BY <1>6, PlanningAbortInv DEF Planning!BreakDeadlock
  <1> QED
    BY <1>1, <1>2, <1>3, <1>4, <1>5, <1>6 DEF Planning!Next

THEOREM PlanningInvariance == Planning!Spec => []Planning!IInv
  <1>1. Planning!Init => Planning!IInv
    BY PlanningInitInv
  <1>2. Planning!IInv /\ [Planning!Next]_(Planning!vars) => Planning!IInv'
    BY PlanningNextInv
  <1> QED
    BY <1>1, <1>2, PTL DEF Planning!Spec
-----------------------------------------------------------------------------
(***************************************************************************)
(* The product page: what it tells of the past, and what its figures say   *)
(* of one another.                                                         *)
(***************************************************************************)

LEMMA PageConstants ==
  /\ IsFiniteSet(StockRow) /\ PageOpening \in [StockRow -> Nat]
  /\ PastMoves \in [StockRow -> Seq(Page!Move)]
  /\ \A r \in StockRow : /\ \A i \in DOMAIN PastMoves[r] : PastMoves[r][i].at =< Today
                         /\ PageOpening[r] + Page!Changes(PastMoves[r]) >= 0
  /\ DemandDays \in Nat \ {0} /\ MonthDays \in Nat \ {0} /\ YearDays \in Nat \ {0}
  /\ DemandDays =< YearDays /\ Today \in Int /\ LastPageDay \in Int
  /\ Today =< LastPageDay /\ MaxMoves \in Nat
  <1>1. Page!IsFiniteSet(StockRow) = IsFiniteSet(StockRow)
    BY DEF Page!IsFiniteSet, IsFiniteSet
  <1> QED
    BY <1>1, InventoryAssumption DEF Page!PageAssumption

LEMMA PageSums ==
  ASSUME NEW w, NEW S
  PROVE  Page!SumOf(w, S) = SumOf(w, S)
  BY DEF Page!SumOf, Page!MapThenSumSet, Page!MapThenFoldSet,
         SumOf, MapThenSumSet, MapThenFoldSet

LEMMA PageTotalIsSum ==
  ASSUME NEW r, NEW S
  PROVE  /\ Page!Total(r, S) = SumOf(ChangesOf(moves[r]), S)
         /\ Page!Changes(moves[r]) = SumOf(ChangesOf(moves[r]), DOMAIN moves[r])
         /\ Page!Changes(PastMoves[r]) = SumOf(ChangesOf(PastMoves[r]), DOMAIN PastMoves[r])
  BY PageSums DEF Page!Total, Page!Changes, ChangesOf

LEMMA MoveFields ==
  ASSUME NEW m \in Page!Move
  PROVE  /\ m.at \in Int /\ m.change \in Int /\ m.sale \in BOOLEAN
         /\ m.sale => m.change < 0
  BY DEF Page!Move

LEMMA MoveWeights ==
  ASSUME NEW q \in Seq(Page!Move)
  PROVE  /\ Len(q) \in Nat /\ DOMAIN q = 1 .. Len(q) /\ IsFiniteSet(DOMAIN q)
         /\ ChangesOf(q) \in [DOMAIN q -> Int]
         /\ \A i \in DOMAIN q : q[i] \in Page!Move /\ ChangesOf(q)[i] = q[i].change
  <1>1. /\ Len(q) \in Nat /\ DOMAIN q = 1 .. Len(q) /\ IsFiniteSet(DOMAIN q)
        /\ \A i \in DOMAIN q : q[i] \in Page!Move
    BY Positions
  <1>2. \A i \in DOMAIN q : q[i].change \in Int
    BY <1>1, MoveFields
  <1> QED
    BY <1>1, <1>2 DEF ChangesOf

\* The movements of some positions, and those of others, add up to those of both.
Both(r, A, B, C) ==
  /\ Page!Total(r, C) = Page!Total(r, A) + Page!Total(r, B)
  /\ Page!Total(r, A) \in Int /\ Page!Total(r, B) \in Int /\ Page!Total(r, C) \in Int

LEMMA TotalOfBoth ==
  ASSUME NEW r, moves[r] \in Seq(Page!Move),
         NEW A \in SUBSET DOMAIN moves[r], NEW B \in SUBSET DOMAIN moves[r],
         A \cap B = {}, NEW C, C = A \cup B
  PROVE  Both(r, A, B, C)
  <1> DEFINE w == ChangesOf(moves[r])
             P == DOMAIN moves[r]
  <1>1. IsFiniteSet(P) /\ w \in [P -> Int] /\ A \in SUBSET P /\ B \in SUBSET P
    BY MoveWeights
  <1>2. /\ Page!Total(r, A \cup B) = SumOf(w, A \cup B)
        /\ Page!Total(r, A) = SumOf(w, A) /\ Page!Total(r, B) = SumOf(w, B)
    BY PageTotalIsSum
  <1> HIDE DEF w, P
  <1>3. SumsUp(w, P)
    BY <1>1, SumLaws
  <1>4. SumOf(w, A) \in Int /\ SumOf(w, B) \in Int
    BY <1>1, <1>3 DEF SumsUp
  <1>5. SumOf(w, A \cup B) = SumOf(w, A) + SumOf(w, B)
    BY <1>1, SumOfUnion
  <1>6. Page!Total(r, C) = Page!Total(r, A) + Page!Total(r, B)
    BY <1>2, <1>5
  <1> QED
    BY <1>2, <1>4, <1>6 DEF Both

\* One movement more adds its change, and leaves the sums of the first ones.
OneMore(p, q, m) ==
  /\ p \in Seq(Page!Move) /\ Len(p) = Len(q) + 1
  /\ \A i \in DOMAIN p : p[i] = m \/ (i \in DOMAIN q /\ p[i] = q[i])
  /\ SumOf(ChangesOf(p), DOMAIN p) = SumOf(ChangesOf(q), DOMAIN q) + m.change
  /\ \A S \in SUBSET DOMAIN q : SumOf(ChangesOf(p), S) = SumOf(ChangesOf(q), S)

LEMMA OneMoveMore ==
  ASSUME NEW q \in Seq(Page!Move), NEW m \in Page!Move, NEW p, p = Append(q, m)
  PROVE  OneMore(p, q, m)
  <1> DEFINE n == Len(q)
             D == DOMAIN q
             E == DOMAIN p
             w == ChangesOf(q)
             v == ChangesOf(p)
  <1>1. /\ n \in Nat /\ D = 1 .. n /\ E = 1 .. n + 1 /\ p \in Seq(Page!Move)
        /\ Len(p) = n + 1 /\ (\A i \in D : p[i] = q[i]) /\ p[n + 1] = m
    BY Positions, AppendProperties
  <1>2. /\ IsFiniteSet(D) /\ w \in [D -> Int] /\ IsFiniteSet(E) /\ v \in [E -> Int]
        /\ \A i \in D : w[i] = q[i].change
        /\ \A i \in E : v[i] = p[i].change
    BY <1>1, MoveWeights
  <1>3. D \in SUBSET E /\ n + 1 \in E /\ E \ {n + 1} = D
        /\ (\A i \in D : w[i] = v[i]) /\ v[n + 1] = m.change
    BY <1>1, <1>2
  <1>4. \A i \in E : p[i] = m \/ (i \in D /\ p[i] = q[i])
    BY <1>1
  <1>5. m.change \in Int
    BY MoveFields
  <1> HIDE DEF n, D, E, w, v
  <1>6. ASSUME NEW S \in SUBSET D PROVE SumOf(v, S) = SumOf(w, S)
    <2>1. PICK u : u = [i \in S |-> w[i]]
      OBVIOUS
    <2>2. /\ u \in [S -> Int] /\ IsFiniteSet(S) /\ S \subseteq D /\ S \subseteq E
          /\ (\A i \in S : u[i] = w[i]) /\ \A i \in S : u[i] = v[i]
      BY <1>2, <1>3, <2>1, FS_Subset
    <2>3. SumOf(u, S) = SumOf(w, S)
      BY <1>2, <2>2, SamePart
    <2>4. SumOf(u, S) = SumOf(v, S)
      BY <1>2, <2>2, SamePart
    <2> QED
      BY <2>3, <2>4
  <1>7. SumOf(v, E) = v[n + 1] + SumOf(v, D) /\ SumOf(v, D) \in Int
    <2>1. SumsUp(v, E)
      BY <1>2, SumLaws
    <2>2. E \in SUBSET E
      OBVIOUS
    <2> QED
      BY <1>3, <2>1, <2>2 DEF SumsUp
  <1>8. SumOf(v, D) = SumOf(w, D)
    BY <1>6
  <1>9. SumOf(v, E) = SumOf(w, D) + m.change
    BY <1>3, <1>5, <1>7, <1>8
  <1> QED
    BY <1>1, <1>4, <1>6, <1>9 DEF OneMore, n, D, E, w, v

LEMMA TotalsNext ==
  \A r \in StockRow :
     /\ Page!Total(r, DOMAIN moves[r])' = SumOf(ChangesOf(moves'[r]), DOMAIN moves'[r])
     /\ Page!Total(r, 1 .. page.seen[r])' = SumOf(ChangesOf(moves'[r]), 1 .. page'.seen[r])
  BY PageSums DEF Page!Total, ChangesOf

LEMMA PageInitInv == Page!Init => Page!IInv
  <1> SUFFICES ASSUME Page!Init PROVE Page!IInv
    OBVIOUS
  <1>1. /\ moves = PastMoves /\ today = Today /\ page = Page!NoPage
        /\ quantity = [r \in StockRow |-> PageOpening[r] + Page!Changes(PastMoves[r])]
    BY DEF Page!Init
  <1>2. ASSUME NEW r \in StockRow
        PROVE  /\ Page!Total(r, DOMAIN moves[r]) = Page!Changes(PastMoves[r])
               /\ Page!Changes(PastMoves[r]) \in Int
               /\ Len(moves[r]) \in Nat
    <2>1. PastMoves[r] \in Seq(Page!Move)
      BY PageConstants
    <2>2. Page!Changes(PastMoves[r]) \in Int
      <3> DEFINE w == ChangesOf(PastMoves[r])
                 P == DOMAIN PastMoves[r]
      <3>1. IsFiniteSet(P) /\ w \in [P -> Int]
        BY <2>1, MoveWeights
      <3>2. Page!Changes(PastMoves[r]) = SumOf(w, P)
        BY PageTotalIsSum
      <3> HIDE DEF w, P
      <3>3. SumsUp(w, P) /\ P \in SUBSET P
        BY <3>1, SumLaws
      <3> QED
        BY <3>2, <3>3 DEF SumsUp
    <2>3. Page!Total(r, DOMAIN moves[r]) = Page!Changes(PastMoves[r])
      BY <1>1, PageTotalIsSum
    <2> QED
      BY <1>1, <2>1, <2>2, <2>3, MoveWeights
  <1>3. /\ quantity \in [StockRow -> Nat]
        /\ \A r \in StockRow : quantity[r] = PageOpening[r] + Page!Total(r, DOMAIN moves[r])
    BY <1>1, <1>2, PageConstants
  <1>4. /\ page \in [open : BOOLEAN, quantity : [StockRow -> Nat], seen : [StockRow -> Nat]]
        /\ page.open = FALSE /\ \A r \in StockRow : page.seen[r] = 0
    BY <1>1 DEF Page!NoPage
  <1>5. Page!TypeOK
    BY <1>1, <1>3, <1>4, PageConstants DEF Page!TypeOK
  <1> QED
    BY <1>1, <1>2, <1>3, <1>4, <1>5, PageConstants DEF Page!IInv

LEMMA MoveStockInv ==
  ASSUME NEW r \in StockRow, NEW change \in Int \ {0}, NEW sale \in BOOLEAN, NEW day \in Int,
         sale => change < 0, day =< today, Page!IInv, Page!MoveStock(r, change, sale, day)
  PROVE  Page!IInv'
  <1> DEFINE m == [at |-> day, change |-> change, sale |-> sale]
  <1>1. m \in Page!Move
    BY DEF Page!Move
  <1>2. /\ quantity[r] + change >= 0 /\ quantity' = [quantity EXCEPT ![r] = @ + change]
        /\ moves' = [moves EXCEPT ![r] = Append(@, m)]
        /\ today' = today /\ page' = page
    BY DEF Page!MoveStock
  <1>3. /\ quantity \in [StockRow -> Nat] /\ moves \in [StockRow -> Seq(Page!Move)]
        /\ page \in [open : BOOLEAN, quantity : [StockRow -> Nat], seen : [StockRow -> Nat]]
        /\ today \in Today .. LastPageDay
        /\ \A t \in StockRow :
              /\ \A i \in DOMAIN moves[t] : moves[t][i].at =< today
              /\ quantity[t] = PageOpening[t] + Page!Total(t, DOMAIN moves[t])
              /\ page.seen[t] =< Len(moves[t])
              /\ page.open => page.quantity[t] = PageOpening[t] + Page!Total(t, 1 .. page.seen[t])
    BY DEF Page!IInv, Page!TypeOK
  <1>4. PICK p : p = Append(moves[r], m)
    OBVIOUS
  <1>5. /\ moves'[r] = p /\ m.at = day /\ m.change = change
        /\ \A t \in StockRow \ {r} : moves'[t] = moves[t]
    BY <1>2, <1>3, <1>4
  <1> HIDE DEF m
  <1>6. /\ p \in Seq(Page!Move) /\ Len(p) = Len(moves[r]) + 1
        /\ \A i \in DOMAIN p : p[i] = m \/ (i \in DOMAIN moves[r] /\ p[i] = moves[r][i])
        /\ SumOf(ChangesOf(p), DOMAIN p) = SumOf(ChangesOf(moves[r]), DOMAIN moves[r]) + change
        /\ \A S \in SUBSET DOMAIN moves[r] : SumOf(ChangesOf(p), S) = SumOf(ChangesOf(moves[r]), S)
    <2>1. PICK q : q = moves[r]
      OBVIOUS
    <2>2. q \in Seq(Page!Move) /\ p = Append(q, m)
      BY <1>3, <1>4, <2>1
    <2>3. OneMore(p, q, m)
      BY <1>1, <2>2, OneMoveMore, Zenon
    <2> QED
      BY <1>5, <2>1, <2>3 DEF OneMore
  <1>7. Page!TypeOK'
    <2>1. quantity[r] + change \in Nat
      BY <1>2, <1>3
    <2>2. quantity' \in [StockRow -> Nat]
      BY <1>2, <1>3, <2>1
    <2>3. moves' \in [StockRow -> Seq(Page!Move)]
      BY <1>2, <1>3, <1>4, <1>6
    <2> QED
      BY <1>2, <1>3, <2>2, <2>3 DEF Page!TypeOK
  <1>8. ASSUME NEW t \in StockRow
        PROVE  /\ \A i \in DOMAIN moves'[t] : moves'[t][i].at =< today'
               /\ quantity'[t] = PageOpening[t] + SumOf(ChangesOf(moves'[t]), DOMAIN moves'[t])
               /\ page'.seen[t] =< Len(moves'[t])
               /\ page'.open => page'.quantity[t] =
                      PageOpening[t] + SumOf(ChangesOf(moves'[t]), 1 .. page'.seen[t])
    <2>0. /\ Page!Total(t, DOMAIN moves[t]) = SumOf(ChangesOf(moves[t]), DOMAIN moves[t])
          /\ Page!Total(t, 1 .. page.seen[t]) = SumOf(ChangesOf(moves[t]), 1 .. page.seen[t])
      BY PageTotalIsSum
    <2>1. CASE t # r
      <3>1. moves'[t] = moves[t] /\ quantity'[t] = quantity[t]
        BY <1>2, <1>3, <1>5, <2>1
      <3> QED
        BY <1>2, <1>3, <2>0, <3>1
    <2>2. CASE t = r
      <3>1. \A i \in DOMAIN p : p[i].at =< today
        BY <1>3, <1>5, <1>6
      <3>2. /\ quantity'[r] = quantity[r] + change /\ quantity[r] \in Nat
            /\ PageOpening[r] \in Nat
        BY <1>2, <1>3, PageConstants
      <3>3. SumOf(ChangesOf(moves[r]), DOMAIN moves[r]) \in Int
        <4>1. moves[r] \in Seq(Page!Move) /\ DOMAIN moves[r] \in SUBSET DOMAIN moves[r]
              /\ {} \in SUBSET DOMAIN moves[r] /\ DOMAIN moves[r] \cap {} = {}
          BY <1>3
        <4>2. DOMAIN moves[r] = DOMAIN moves[r] \cup {}
          OBVIOUS
        <4>3. Both(r, DOMAIN moves[r], {}, DOMAIN moves[r])
          BY <4>1, <4>2, TotalOfBoth, Zenon
        <4> QED
          BY <4>3, PageTotalIsSum DEF Both
      <3>4. quantity'[r] = PageOpening[r] + SumOf(ChangesOf(p), DOMAIN p)
        BY <1>3, <1>6, <2>0, <2>2, <3>2, <3>3
      <3>5. /\ DOMAIN moves[r] = 1 .. Len(moves[r]) /\ Len(moves[r]) \in Nat
            /\ page.seen[r] \in Nat /\ page.seen[r] =< Len(moves[r])
        BY <1>3, MoveWeights
      <3>6. 1 .. page.seen[r] \in SUBSET DOMAIN moves[r] /\ page.seen[r] =< Len(p)
        BY <1>6, <3>5
      <3>7. SumOf(ChangesOf(p), 1 .. page.seen[r]) = SumOf(ChangesOf(moves[r]), 1 .. page.seen[r])
        BY <1>6, <3>6
      <3>8. moves'[r] = p /\ today' = today /\ page' = page
        BY <1>2, <1>5
      <3>9. page.open => page.quantity[r] =
               PageOpening[r] + SumOf(ChangesOf(p), 1 .. page.seen[r])
        BY <1>3, <2>0, <2>2, <3>7
      <3> QED
        BY <2>2, <3>1, <3>4, <3>6, <3>8, <3>9
    <2> QED
      BY <2>1, <2>2
  <1> QED
    BY <1>7, <1>8, TotalsNext DEF Page!IInv

LEMMA OpenPageInv ==
  ASSUME Page!IInv, Page!OpenPage
  PROVE  Page!IInv'
  <1>1. /\ page' = [open |-> TRUE, quantity |-> quantity,
                    seen |-> [r \in StockRow |-> Len(moves[r])]]
        /\ quantity' = quantity /\ moves' = moves /\ today' = today
    BY DEF Page!OpenPage
  <1>2. Page!TypeOK
    BY DEF Page!IInv
  <1>3. \A r \in StockRow : Len(moves[r]) \in Nat /\ DOMAIN moves[r] = 1 .. Len(moves[r])
    BY <1>2, MoveWeights DEF Page!TypeOK
  <1>4. Page!TypeOK'
    BY <1>1, <1>2, <1>3 DEF Page!TypeOK
  <1>5. ASSUME NEW r \in StockRow
        PROVE  /\ page'.seen[r] = Len(moves[r]) /\ page'.quantity[r] = quantity[r]
               /\ 1 .. page'.seen[r] = DOMAIN moves[r]
    BY <1>1, <1>3
  <1>6. \A r \in StockRow :
           /\ Page!Total(r, DOMAIN moves[r])' = Page!Total(r, DOMAIN moves[r])
           /\ Page!Total(r, 1 .. page.seen[r])' = Page!Total(r, DOMAIN moves[r])
    BY <1>1, <1>5, PageTotalIsSum, TotalsNext
  <1> QED
    BY <1>1, <1>3, <1>4, <1>5, <1>6 DEF Page!IInv

LEMMA DayPassesInv ==
  ASSUME Page!IInv, Page!DayPasses
  PROVE  Page!IInv'
  <1>1. /\ today < LastPageDay /\ today' = today + 1
        /\ quantity' = quantity /\ moves' = moves /\ page' = page
    BY DEF Page!DayPasses
  <1>2. Page!TypeOK /\ today \in Int /\ today \in Today .. LastPageDay
    BY PageConstants DEF Page!IInv, Page!TypeOK
  <1>3. Page!TypeOK'
    BY <1>1, <1>2, PageConstants DEF Page!TypeOK
  <1>4. ASSUME NEW r \in StockRow, NEW i \in DOMAIN moves[r]
        PROVE  moves[r][i].at =< today'
    <2>1. moves[r][i].at \in Int /\ moves[r][i].at =< today
      BY <1>2, MoveWeights, MoveFields DEF Page!IInv, Page!TypeOK
    <2> QED
      BY <1>1, <1>2, <2>1
  <1>5. \A r \in StockRow :
           /\ Page!Total(r, DOMAIN moves[r])' = Page!Total(r, DOMAIN moves[r])
           /\ Page!Total(r, 1 .. page.seen[r])' = Page!Total(r, 1 .. page.seen[r])
    BY <1>1, PageTotalIsSum, TotalsNext
  <1> QED
    BY <1>1, <1>3, <1>4, <1>5 DEF Page!IInv

THEOREM PageInvariance == Page!Spec => []Page!IInv
  <1>1. Page!Init => Page!IInv
    BY PageInitInv
  <1>2. Page!IInv /\ [Page!Next]_(Page!vars) => Page!IInv'
    <2> SUFFICES ASSUME Page!IInv, [Page!Next]_(Page!vars) PROVE Page!IInv'
      OBVIOUS
    <2>1. CASE UNCHANGED Page!vars
      <3>1. quantity' = quantity /\ moves' = moves /\ today' = today /\ page' = page
        BY <2>1 DEF Page!vars
      <3>2. \A r \in StockRow :
               /\ Page!Total(r, DOMAIN moves[r])' = Page!Total(r, DOMAIN moves[r])
               /\ Page!Total(r, 1 .. page.seen[r])' = Page!Total(r, 1 .. page.seen[r])
        BY <3>1, PageTotalIsSum, TotalsNext
      <3>3. Page!TypeOK'
        BY <3>1 DEF Page!IInv, Page!TypeOK
      <3> QED
        BY <3>1, <3>2, <3>3 DEF Page!IInv
    <2>2. CASE Page!DayPasses
      BY <2>2, DayPassesInv
    <2>3. CASE Page!OpenPage
      BY <2>3, OpenPageInv
    <2>4. ASSUME NEW r \in StockRow, NEW back \in {0, 1},
                 \/ Page!MoveStock(r, -1, TRUE, today - back)
                 \/ Page!MoveStock(r, 1, FALSE, today - back)
          PROVE  Page!IInv'
      <3>1. today \in Int /\ today - back \in Int /\ today - back =< today
        BY PageConstants DEF Page!IInv, Page!TypeOK
      <3>2. /\ -1 \in Int \ {0} /\ 1 \in Int \ {0} /\ -1 < 0
            /\ TRUE \in BOOLEAN /\ FALSE \in BOOLEAN
        OBVIOUS
      <3>3. CASE Page!MoveStock(r, -1, TRUE, today - back)
        BY <3>1, <3>2, <3>3, MoveStockInv
      <3>4. CASE Page!MoveStock(r, 1, FALSE, today - back)
        BY <3>1, <3>2, <3>4, MoveStockInv
      <3> QED
        BY <2>4, <3>3, <3>4
    <2> QED
      BY <2>1, <2>2, <2>3, <2>4 DEF Page!Next
  <1> QED
    BY <1>1, <1>2, PTL DEF Page!Spec

\* Counted back from what the first statement has read, the stock at the end of a
\* day is off by the same for every day.
LEMMA PageTellsThePast ==
  ASSUME Page!IInv
  PROVE  Page!HistoryIsTrue
  <1> SUFFICES ASSUME page.open, NEW r \in StockRow,
                      NEW from \in Today - 2 .. LastPageDay,
                      NEW to \in Today - 2 .. LastPageDay, NEW d \in from .. to
               PROVE  Page!RunningStock(r, from, to, d) =
                        PageOpening[r] + Page!Total(r, Page!Until(r, DOMAIN moves[r], d))
                        + Page!Total(r, {i \in DOMAIN moves[r] :
                                           i =< page.seen[r] /\ moves[r][i].at > to})
                        - Page!Total(r, {i \in DOMAIN moves[r] :
                                           ~(i =< page.seen[r]) /\ moves[r][i].at =< to})
    BY DEF Page!HistoryIsTrue
  <1> DEFINE n == page.seen[r]
             D == DOMAIN moves[r]
             first == 1 .. n
             counted == {i \in D : moves[r][i].at \in from .. to}
             since == {i \in counted : moves[r][i].at =< d}
             before == {i \in D : moves[r][i].at < from}
             untilD == {i \in D : moves[r][i].at =< d}
             untilTo == {i \in D : moves[r][i].at =< to}
             late == {i \in D : i =< n /\ moves[r][i].at > to}
             meanwhile == {i \in D : ~(i =< n) /\ moves[r][i].at =< to}
  <1>1. /\ moves[r] \in Seq(Page!Move) /\ n \in Nat /\ n =< Len(moves[r])
        /\ page.quantity[r] = PageOpening[r] + Page!Total(r, first)
        /\ PageOpening[r] \in Nat
    BY PageConstants DEF Page!IInv, Page!TypeOK
  <1>2. /\ D = 1 .. Len(moves[r]) /\ Len(moves[r]) \in Nat
        /\ \A i \in D : moves[r][i].at \in Int
    BY <1>1, MoveWeights, MoveFields
  <1>3. from \in Int /\ to \in Int /\ d \in Int /\ from =< d /\ d =< to
    BY PageConstants
  <1>4. first \in SUBSET D
    BY <1>1, <1>2
  <1>5. untilD = before \cup since /\ before \cap since = {}
    BY <1>2, <1>3
  <1>6. untilTo = before \cup counted /\ before \cap counted = {}
    BY <1>2, <1>3
  <1>7. first \cup meanwhile = untilTo \cup late
        /\ first \cap meanwhile = {} /\ untilTo \cap late = {}
    <2>1. \A i \in D : i \in Int /\ (i \in first <=> i =< n)
      BY <1>1, <1>2
    <2>2. \A i \in D : ~(moves[r][i].at > to) <=> moves[r][i].at =< to
      BY <1>2, <1>3
    <2> HIDE DEF D, n, first
    <2> QED
      BY <1>4, <2>1, <2>2
  <1>8. /\ before \in SUBSET D /\ since \in SUBSET D /\ counted \in SUBSET D
        /\ untilTo \in SUBSET D /\ late \in SUBSET D /\ meanwhile \in SUBSET D
    OBVIOUS
  <1>9. Page!RunningStock(r, from, to, d) =
           page.quantity[r] - Page!Total(r, counted) + Page!Total(r, since)
    BY DEF Page!RunningStock, Page!Initial, Page!Counted, Page!Until
  <1>10. Page!Until(r, D, d) = untilD
    BY DEF Page!Until
  <1> HIDE DEF first, counted, since, before, untilD, untilTo, late, meanwhile
  <1>11. Both(r, before, since, untilD)
    BY <1>1, <1>5, <1>8, TotalOfBoth, Zenon
  <1>12. Both(r, before, counted, untilTo)
    BY <1>1, <1>6, <1>8, TotalOfBoth, Zenon
  <1>13. PICK seenOrOld : seenOrOld = first \cup meanwhile
    OBVIOUS
  <1>14. Both(r, first, meanwhile, seenOrOld) /\ Both(r, untilTo, late, seenOrOld)
    BY <1>1, <1>4, <1>7, <1>8, <1>13, TotalOfBoth, Zenon
  <1>15. Page!RunningStock(r, from, to, d) =
           PageOpening[r] + Page!Total(r, untilD) + Page!Total(r, late)
           - Page!Total(r, meanwhile)
    <2>1. /\ Page!Total(r, untilD) = Page!Total(r, before) + Page!Total(r, since)
          /\ Page!Total(r, first) + Page!Total(r, meanwhile) =
                Page!Total(r, before) + Page!Total(r, counted) + Page!Total(r, late)
          /\ Page!Total(r, before) \in Int /\ Page!Total(r, since) \in Int
          /\ Page!Total(r, counted) \in Int /\ Page!Total(r, first) \in Int
          /\ Page!Total(r, meanwhile) \in Int /\ Page!Total(r, late) \in Int
      BY <1>11, <1>12, <1>14 DEF Both
    <2>2. /\ page.quantity[r] = PageOpening[r] + Page!Total(r, first)
          /\ PageOpening[r] \in Int
      BY <1>1
    <2>3. PICK tb, ts, tc, tf, tm, tl, o \in Int :
            /\ tb = Page!Total(r, before) /\ ts = Page!Total(r, since)
            /\ tc = Page!Total(r, counted) /\ tf = Page!Total(r, first)
            /\ tm = Page!Total(r, meanwhile) /\ tl = Page!Total(r, late)
            /\ o = PageOpening[r]
      BY <2>1, <2>2
    <2>4. /\ tf + tm = tb + tc + tl /\ Page!Total(r, untilD) = tb + ts
          /\ Page!RunningStock(r, from, to, d) = (o + tf) - tc + ts
      BY <1>9, <2>1, <2>2, <2>3
    <2>5. /\ tb \in Int /\ ts \in Int /\ tc \in Int /\ tf \in Int /\ tm \in Int
          /\ tl \in Int /\ o \in Int /\ tf + tm = tb + tc + tl
      BY <2>3, <2>4
    <2>6. (o + tf) - tc + ts = o + (tb + ts) + tl - tm
      BY <2>5
    <2> QED
      BY <2>3, <2>4, <2>6
  <1> QED
    BY <1>10, <1>15 DEF late, meanwhile

-----------------------------------------------------------------------------
(* The figures of a page *)

LEMMA MonthStartOf ==
  ASSUME NEW d \in Int
  PROVE  Page!MonthStart(d) \in Int /\ Page!MonthStart(d) =< d
  <1>1. d % MonthDays \in 0 .. MonthDays - 1
    BY PageConstants
  <1> QED
    BY <1>1, PageConstants DEF Page!MonthStart

LEMMA PageTotalStock ==
  ASSUME Page!IInv, page.open
  PROVE  Page!TotalStock =
           Page!SumOf([r \in StockRow |->
              (PageOpening[r] + Page!Total(r, DOMAIN moves[r]))
              - Page!Total(r, page.seen[r] + 1 .. Len(moves[r]))], StockRow)
  <1> DEFINE w == [r \in StockRow |->
                     (PageOpening[r] + Page!Total(r, DOMAIN moves[r]))
                     - Page!Total(r, page.seen[r] + 1 .. Len(moves[r]))]
             v == page.quantity
  <1>1. ASSUME NEW r \in StockRow
        PROVE  /\ (PageOpening[r] + Page!Total(r, DOMAIN moves[r]))
                    - Page!Total(r, page.seen[r] + 1 .. Len(moves[r])) = page.quantity[r]
               /\ page.quantity[r] \in Int
    <2> DEFINE n == page.seen[r]
               A == 1 .. n
               B == n + 1 .. Len(moves[r])
    <2>1. /\ moves[r] \in Seq(Page!Move) /\ n \in Nat /\ n =< Len(moves[r])
          /\ page.quantity[r] = PageOpening[r] + Page!Total(r, A)
          /\ PageOpening[r] \in Nat /\ page.quantity[r] \in Int
      BY PageConstants DEF Page!IInv, Page!TypeOK
    <2>2. DOMAIN moves[r] = 1 .. Len(moves[r]) /\ Len(moves[r]) \in Nat
      BY <2>1, MoveWeights
    <2>3. A \in SUBSET DOMAIN moves[r] /\ B \in SUBSET DOMAIN moves[r]
          /\ A \cap B = {} /\ DOMAIN moves[r] = A \cup B
      BY <2>1, <2>2
    <2> HIDE DEF A, B
    <2>4. Both(r, A, B, DOMAIN moves[r])
      BY <2>1, <2>3, TotalOfBoth, Zenon
    <2>5. (PageOpening[r] + Page!Total(r, DOMAIN moves[r])) - Page!Total(r, B) = page.quantity[r]
      BY <2>1, <2>4 DEF Both
    <2> QED
      BY <2>1, <2>5 DEF B
  <1>2. \A r \in StockRow : v[r] = w[r] /\ w[r] \in Int
    BY <1>1
  <1>3. v \in [StockRow -> Int] /\ w \in [StockRow -> Int]
    <2>1. v \in [StockRow -> Nat]
      BY DEF Page!IInv, Page!TypeOK
    <2> QED
      BY <1>2, <2>1
  <1>4. IsFiniteSet(StockRow) /\ StockRow \in SUBSET StockRow
    BY PageConstants
  <1>5. Page!TotalStock = Page!SumOf(v, StockRow)
    BY DEF Page!TotalStock
  <1> HIDE DEF v, w
  <1>6. SumOf(v, StockRow) = SumOf(w, StockRow)
    BY <1>2, <1>3, <1>4, SameWeights
  <1>7. Page!TotalStock = Page!SumOf(w, StockRow)
    BY <1>5, <1>6, PageSums
  <1> QED
    BY <1>7 DEF w

\* Sales only take.
LEMMA SalesTake ==
  ASSUME NEW r, moves[r] \in Seq(Page!Move), NEW S \in SUBSET DOMAIN moves[r],
         \A i \in S : moves[r][i].sale
  PROVE  Page!Total(r, S) \in Int /\ Page!Total(r, S) =< 0
  <1> DEFINE P == DOMAIN moves[r]
             w == ChangesOf(moves[r])
  <1>1. /\ IsFiniteSet(P) /\ w \in [P -> Int]
        /\ \A i \in P : moves[r][i] \in Page!Move /\ w[i] = moves[r][i].change
    BY MoveWeights
  <1>2. \A i \in S : w[i] =< 0
    BY <1>1, MoveFields
  <1>3. Page!Total(r, S) = SumOf(w, S)
    BY PageTotalIsSum
  <1> HIDE DEF P, w
  <1>4. PICK v : v = [i \in S |-> w[i]]
    OBVIOUS
  <1>5. S \subseteq P
    BY DEF P
  <1>6. /\ v \in [S -> Int] /\ IsFiniteSet(S)
        /\ (\A i \in S : v[i] =< 0) /\ (\A i \in S : v[i] = w[i])
    BY <1>1, <1>2, <1>4, <1>5, FS_Subset
  <1>7. SumOf(v, S) \in Int /\ SumOf(v, S) =< 0
    BY <1>6, NoPositiveSum
  <1>8. SumOf(v, S) = SumOf(w, S)
    BY <1>1, <1>5, <1>6, SamePart
  <1> QED
    BY <1>3, <1>7, <1>8

Months == {Page!MonthStart(d) : d \in Page!YearAgo .. LastPageDay}
InMonth(r, m) ==
    {i \in Page!SoldSince(r, Page!YearAgo) : Page!MonthStart(moves[r][i].at) = m}

LEMMA MonthsAreFinite ==
  ASSUME Page!IInv
  PROVE  Page!YearAgo \in Int /\ IsFiniteSet(Months)
  <1>1. today \in Int
    BY PageConstants DEF Page!IInv, Page!TypeOK
  <1>2. Page!YearAgo \in Int
    BY <1>1, MonthStartOf, PageConstants DEF Page!YearAgo
  <1>3. IsFiniteSet(Page!YearAgo .. LastPageDay)
    BY <1>2, PageConstants, FS_Interval
  <1>4. PICK f : f = [d \in Page!YearAgo .. LastPageDay |-> Page!MonthStart(d)]
    OBVIOUS
  <1>5. Months = {f[d] : d \in Page!YearAgo .. LastPageDay}
    BY <1>4 DEF Months
  <1> QED
    BY <1>2, <1>3, <1>5, FiniteImage

\* The sales of a year, month by month.
LEMMA SalesOfTheYear ==
  ASSUME Page!IInv, NEW r \in StockRow
  PROVE  /\ \A m : InMonth(r, m) \in SUBSET DOMAIN moves[r]
                   /\ \A i \in InMonth(r, m) : moves[r][i].sale
         /\ SumOf([m \in Months |-> Page!Total(r, InMonth(r, m))], Months) =
              Page!Total(r, Page!SoldSince(r, Page!YearAgo))
  <1> DEFINE P == DOMAIN moves[r]
             w == ChangesOf(moves[r])
             sold == Page!SoldSince(r, Page!YearAgo)
             parts == [m \in Months |-> Page!Total(r, InMonth(r, m))]
  <1>1. /\ moves[r] \in Seq(Page!Move) /\ today \in Int /\ today =< LastPageDay
        /\ \A i \in P : moves[r][i].at =< today
    BY PageConstants DEF Page!IInv, Page!TypeOK
  <1>2. /\ IsFiniteSet(P) /\ w \in [P -> Int]
        /\ \A i \in P : moves[r][i] \in Page!Move /\ w[i] = moves[r][i].change
                        /\ moves[r][i].at \in Int
    BY <1>1, MoveWeights, MoveFields
  <1>3. Page!YearAgo \in Int
    BY MonthsAreFinite
  <1>4. IsFiniteSet(Months)
    BY MonthsAreFinite
  <1>5. sold \in SUBSET P /\ \A i \in sold : moves[r][i].sale /\ moves[r][i].at >= Page!YearAgo
    BY DEF Page!SoldSince
  <1>6. \A i \in sold : Page!MonthStart(moves[r][i].at) \in Months
    <2>1. \A i \in sold : moves[r][i].at \in Page!YearAgo .. LastPageDay
      BY <1>1, <1>2, <1>3, <1>5, PageConstants
    <2> QED
      BY <2>1 DEF Months
  <1>7. \A m : InMonth(r, m) \in SUBSET sold
    BY DEF InMonth
  <1>8. \A m \in Months : parts[m] \in Int /\ parts[m] = SumOf(w, InMonth(r, m))
    <2> SUFFICES ASSUME NEW m \in Months
                 PROVE  parts[m] \in Int /\ parts[m] = SumOf(w, InMonth(r, m))
      OBVIOUS
    <2>1. parts[m] = Page!Total(r, InMonth(r, m))
      OBVIOUS
    <2>2. InMonth(r, m) \in SUBSET DOMAIN moves[r] /\ \A i \in InMonth(r, m) : moves[r][i].sale
      BY <1>5, <1>7
    <2>3. Page!Total(r, InMonth(r, m)) \in Int
      BY <1>1, <2>2, SalesTake
    <2> QED
      BY <2>1, <2>3, PageTotalIsSum
  <1>9. PICK g : g = [i \in sold |-> Page!MonthStart(moves[r][i].at)]
    OBVIOUS
  <1>10. g \in [sold -> Months] /\ \A m \in Months : With(g, sold, {m}) = InMonth(r, m)
    BY <1>6, <1>9 DEF With, InMonth
  <1>11. PICK v : v = [i \in sold |-> w[i]]
    OBVIOUS
  <1>12. Page!Total(r, sold) = SumOf(w, sold)
    BY PageTotalIsSum
  <1>13. parts \in [Months -> Int]
    BY <1>8
  <1>14. \A m : InMonth(r, m) \in SUBSET DOMAIN moves[r]
                /\ \A i \in InMonth(r, m) : moves[r][i].sale
    BY <1>5, <1>7
  <1> HIDE DEF P, w, sold, parts
  <1>15. /\ v \in [sold -> Int] /\ IsFiniteSet(sold) /\ \A i \in sold : v[i] = w[i]
    BY <1>2, <1>5, <1>11, FS_Subset
  <1>16. ASSUME NEW S \in SUBSET sold PROVE SumOf(v, S) = SumOf(w, S)
    <2>1. PICK u : u = [i \in S |-> v[i]]
      OBVIOUS
    <2>2. /\ u \in [S -> Int] /\ IsFiniteSet(S) /\ S \subseteq sold /\ S \subseteq P
          /\ (\A i \in S : u[i] = v[i]) /\ \A i \in S : u[i] = w[i]
      BY <1>5, <1>15, <2>1, FS_Subset
    <2>3. SumOf(u, S) = SumOf(v, S)
      BY <1>15, <2>2, SamePart
    <2>4. SumOf(u, S) = SumOf(w, S)
      BY <1>2, <2>2, SamePart
    <2> QED
      BY <2>3, <2>4
  <1>17. \A m \in Months : parts[m] = SumOf(v, With(g, sold, {m}))
    BY <1>7, <1>8, <1>10, <1>16
  <1>18. SumOf(parts, Months) = SumOf(v, sold)
    <2>1. PICK P1, Q, p : P1 = sold /\ Q = Months /\ p = parts
      OBVIOUS
    <2>2. /\ IsFiniteSet(P1) /\ v \in [P1 -> Int] /\ IsFiniteSet(Q)
          /\ g \in [P1 -> Q] /\ p \in [Q -> Int]
      BY <1>4, <1>10, <1>13, <1>15, <2>1
    <2>3. \A q \in Q : p[q] = SumOf(v, With(g, P1, {q}))
      BY <1>17, <2>1
    <2>4. ArePartsOf(p, Q, v, P1, g)
      BY <2>2, <2>3 DEF ArePartsOf
    <2>5. SumOf(p, Q) = SumOf(v, P1)
      BY <2>4, SumOfParts
    <2> QED
      BY <2>1, <2>5
  <1>19. SumOf(v, sold) = SumOf(w, sold)
    BY <1>16
  <1>20. SumOf(parts, Months) = Page!Total(r, sold)
    BY <1>12, <1>18, <1>19
  <1> QED
    BY <1>14, <1>20 DEF parts, sold

\* The usage counts less of the past than the months do.
LEMMA UsageIsInTheMonths ==
  ASSUME Page!IInv, NEW r \in StockRow
  PROVE  /\ Page!Usage(r) \in Int
         /\ Page!Total(r, Page!SoldSince(r, Page!YearAgo)) \in Int
         /\ Page!Usage(r) =< -Page!Total(r, Page!SoldSince(r, Page!YearAgo))
  <1> DEFINE sold == Page!SoldSince(r, Page!YearAgo)
             counted == Page!SoldSince(r, today - DemandDays)
             older == sold \ counted
  <1>1. moves[r] \in Seq(Page!Move) /\ today \in Int
    BY PageConstants DEF Page!IInv, Page!TypeOK
  <1>2. \A i \in DOMAIN moves[r] : moves[r][i].at \in Int
    BY <1>1, MoveWeights, MoveFields
  <1>3. Page!YearAgo \in Int /\ Page!YearAgo =< today - DemandDays
    <2>1. PICK start : start = Page!MonthStart(today)
      OBVIOUS
    <2>2. start \in Int /\ start =< today
      BY <1>1, <2>1, MonthStartOf
    <2>3. Page!YearAgo = start - YearDays
      BY <2>1 DEF Page!YearAgo
    <2> QED
      BY <1>1, <2>2, <2>3, PageConstants
  <1>4. /\ sold \in SUBSET DOMAIN moves[r] /\ counted \in SUBSET DOMAIN moves[r]
        /\ \A i \in sold : moves[r][i].sale
    BY DEF Page!SoldSince
  <1>5. counted \subseteq sold
    <2>1. today - DemandDays \in Int
      BY <1>1, PageConstants
    <2> SUFFICES ASSUME NEW i \in counted PROVE i \in sold
      OBVIOUS
    <2>2. i \in DOMAIN moves[r] /\ moves[r][i].sale /\ moves[r][i].at >= today - DemandDays
      BY DEF Page!SoldSince
    <2>3. moves[r][i].at >= Page!YearAgo
      BY <1>2, <1>3, <2>1, <2>2
    <2> QED
      BY <2>2, <2>3 DEF Page!SoldSince
  <1>6. Page!Usage(r) = -Page!Total(r, counted)
    BY DEF Page!Usage
  <1> HIDE DEF sold, counted
  <1>7. /\ older \in SUBSET DOMAIN moves[r] /\ counted \cap older = {}
        /\ sold = counted \cup older /\ \A i \in older : moves[r][i].sale
    BY <1>4, <1>5
  <1> HIDE DEF older
  <1>8. Both(r, counted, older, sold)
    BY <1>1, <1>4, <1>7, TotalOfBoth, Zenon
  <1>9. Page!Total(r, older) =< 0
    BY <1>1, <1>7, SalesTake
  <1>10. /\ Page!Total(r, sold) = Page!Total(r, counted) + Page!Total(r, older)
         /\ Page!Total(r, counted) \in Int /\ Page!Total(r, older) \in Int
         /\ Page!Total(r, sold) \in Int
    BY <1>8 DEF Both
  <1>11. Page!Usage(r) \in Int /\ Page!Usage(r) =< -Page!Total(r, sold)
    BY <1>6, <1>9, <1>10
  <1> QED
    BY <1>10, <1>11 DEF sold

\* Added month by month or row by row, the sales of the year are the same.
LEMMA MonthsHoldTheUsage ==
  ASSUME Page!IInv
  PROVE  /\ \A m \in Months : Page!MonthlyDemand(m) \in Int /\ Page!MonthlyDemand(m) =< 0
         /\ SumOf([r \in StockRow |-> Page!Usage(r)], StockRow) =<
              SumOf([m \in Months |-> -Page!MonthlyDemand(m)], Months)
  <1> DEFINE year(r) == Page!Total(r, Page!SoldSince(r, Page!YearAgo))
             cells == [r \in StockRow |->
                         [m \in Months |-> Page!Total(r, InMonth(r, m))]]
             rows == [r \in StockRow |-> year(r)]
             cols == [m \in Months |-> Page!MonthlyDemand(m)]
             usage == [r \in StockRow |-> Page!Usage(r)]
             yearly == [r \in StockRow |-> -year(r)]
             monthly == [m \in Months |-> -Page!MonthlyDemand(m)]
  <1>1. \A r \in StockRow : moves[r] \in Seq(Page!Move)
    BY DEF Page!IInv, Page!TypeOK
  <1>2. ASSUME NEW r \in StockRow, NEW m \in Months
        PROVE  /\ Page!Total(r, InMonth(r, m)) \in Int
               /\ Page!Total(r, InMonth(r, m)) =< 0
    <2>1. InMonth(r, m) \in SUBSET DOMAIN moves[r] /\ \A i \in InMonth(r, m) : moves[r][i].sale
      BY SalesOfTheYear
    <2> QED
      BY <1>1, <2>1, SalesTake
  <1>3. \A r \in StockRow : year(r) \in Int /\ Page!Usage(r) \in Int /\ Page!Usage(r) =< -year(r)
    BY UsageIsInTheMonths
  <1>4. ASSUME NEW m \in Months
        PROVE  /\ Page!MonthlyDemand(m) = SumOf([r \in StockRow |-> cells[r][m]], StockRow)
               /\ Page!MonthlyDemand(m) \in Int /\ Page!MonthlyDemand(m) =< 0
    <2> DEFINE w == [r \in StockRow |-> Page!Total(r, InMonth(r, m))]
    <2>1. Page!MonthlyDemand(m) = SumOf(w, StockRow)
      BY PageSums DEF Page!MonthlyDemand, InMonth
    <2>2. w = [r \in StockRow |-> cells[r][m]]
      OBVIOUS
    <2>3. w \in [StockRow -> Int] /\ (\A r \in StockRow : w[r] =< 0) /\ IsFiniteSet(StockRow)
      BY <1>2, PageConstants
    <2> HIDE DEF w
    <2>4. SumOf(w, StockRow) \in Int /\ SumOf(w, StockRow) =< 0
      BY <2>3, NoPositiveSum
    <2> QED
      BY <2>1, <2>2, <2>4
  <1>5. ASSUME NEW r \in StockRow
        PROVE  /\ cells[r] \in [Months -> Int]
               /\ rows[r] = SumOf(cells[r], Months)
    <2>1. SumOf([m \in Months |-> Page!Total(r, InMonth(r, m))], Months) = year(r)
      BY SalesOfTheYear
    <2>2. cells[r] = [m \in Months |-> Page!Total(r, InMonth(r, m))]
      OBVIOUS
    <2>3. rows[r] = year(r)
      OBVIOUS
    <2>4. cells[r] \in [Months -> Int]
      BY <1>2, <2>2
    <2> HIDE DEF cells, rows, year
    <2> QED
      BY <2>1, <2>2, <2>3, <2>4
  <1>6. /\ rows \in [StockRow -> Int] /\ usage \in [StockRow -> Int]
        /\ yearly \in [StockRow -> Int] /\ cols \in [Months -> Int]
        /\ monthly \in [Months -> Int] /\ IsFiniteSet(StockRow)
        /\ StockRow \in SUBSET StockRow /\ Months \in SUBSET Months
        /\ (\A r \in StockRow : usage[r] =< yearly[r])
        /\ (\A r \in StockRow : yearly[r] = -rows[r])
        /\ (\A m \in Months : monthly[m] = -cols[m])
        /\ (\A m \in Months : cols[m] = SumOf([r \in StockRow |-> cells[r][m]], StockRow))
    <2> HIDE DEF year, cells
    <2>1. /\ rows \in [StockRow -> Int] /\ usage \in [StockRow -> Int]
          /\ yearly \in [StockRow -> Int]
          /\ (\A r \in StockRow : usage[r] =< yearly[r])
          /\ (\A r \in StockRow : yearly[r] = -rows[r])
      BY <1>3
    <2>2. /\ cols \in [Months -> Int] /\ monthly \in [Months -> Int]
          /\ (\A m \in Months : monthly[m] = -cols[m])
      <3>1. \A m \in Months : Page!MonthlyDemand(m) \in Int
        BY <1>4
      <3> QED
        BY <3>1
    <2>3. ASSUME NEW m \in Months
          PROVE  cols[m] = SumOf([r \in StockRow |-> cells[r][m]], StockRow)
      <3>1. cols[m] = Page!MonthlyDemand(m)
        OBVIOUS
      <3> QED
        BY <1>4, <3>1, Zenon
    <2> QED
      BY <2>1, <2>2, <2>3, PageConstants
  <1> HIDE DEF year, cells, rows, cols, usage, yearly, monthly
  <1>7. IsFiniteSet(Months)
    BY MonthsAreFinite
  <1>8. SumOf(rows, StockRow) = SumOf(cols, Months)
    <2>1. PICK P, Q : P = StockRow /\ Q = Months
      OBVIOUS
    <2>2. /\ IsFiniteSet(P) /\ IsFiniteSet(Q) /\ rows \in [P -> Int] /\ cols \in [Q -> Int]
          /\ \A p \in P : cells[p] \in [Q -> Int]
          /\ \A p \in P : rows[p] = SumOf(cells[p], Q)
      BY <1>5, <1>6, <1>7, <2>1
    <2>3. \A q \in Q : cols[q] = SumOf([p \in P |-> cells[p][q]], P)
      BY <1>6, <2>1
    <2>4. AreSumsOf(rows, P, cols, Q, cells)
      BY <2>2, <2>3 DEF AreSumsOf
    <2>5. SumOf(rows, P) = SumOf(cols, Q)
      BY <2>4, RowsAndColumns
    <2> QED
      BY <2>1, <2>5
  <1>9. SumOf(usage, StockRow) =< SumOf(yearly, StockRow)
    BY <1>6, GreaterWeights
  <1>10. SumOf(yearly, StockRow) = -SumOf(rows, StockRow)
    <2>1. PICK P : P = StockRow
      OBVIOUS
    <2>2. /\ IsFiniteSet(P) /\ yearly \in [P -> Int] /\ rows \in [P -> Int]
          /\ P \in SUBSET P /\ \A x \in P : yearly[x] = -rows[x]
      BY <1>6, <2>1
    <2>3. SumOf(yearly, P) = -SumOf(rows, P)
      BY <2>2, OppositeWeights
    <2> QED
      BY <2>1, <2>3
  <1>11. SumOf(monthly, Months) = -SumOf(cols, Months)
    <2>1. PICK P : P = Months
      OBVIOUS
    <2>2. /\ IsFiniteSet(P) /\ monthly \in [P -> Int] /\ cols \in [P -> Int]
          /\ P \in SUBSET P /\ \A x \in P : monthly[x] = -cols[x]
      BY <1>6, <1>7, <2>1
    <2>3. SumOf(monthly, P) = -SumOf(cols, P)
      BY <2>2, OppositeWeights
    <2> QED
      BY <2>1, <2>3
  <1>12. SumOf(usage, StockRow) =< SumOf(monthly, Months)
    BY <1>8, <1>9, <1>10, <1>11
  <1> QED
    BY <1>4, <1>12 DEF usage, monthly

LEMMA PageFiguresAgree ==
  ASSUME Page!IInv
  PROVE  Page!PageAgrees
  <1>1. /\ \A m \in Months : Page!MonthlyDemand(m) =< 0
        /\ Page!SumOf([r \in StockRow |-> Page!Usage(r)], StockRow) =<
             Page!SumOf([m \in Months |-> -Page!MonthlyDemand(m)], Months)
    BY MonthsHoldTheUsage, PageSums
  <1>2. page.open => Page!TotalStock =
           Page!SumOf([r \in StockRow |->
              (PageOpening[r] + Page!Total(r, DOMAIN moves[r]))
              - Page!Total(r, page.seen[r] + 1 .. Len(moves[r]))], StockRow)
    BY PageTotalStock
  <1> QED
    BY <1>1, <1>2, Zenon DEF Page!PageAgrees, Months
-----------------------------------------------------------------------------
(* The theorems about the inventory *)

\* Each part of a behaviour of the inventory is a behaviour of its module.
THEOREM Composition == AllSpec => Spec /\ Alerts!Spec /\ Planning!Spec /\ Page!Spec
  <1>1. AllInit => Init /\ Alerts!Init /\ Planning!Init /\ Page!Init
    BY DEF AllInit
  <1>2. ASSUME [AllNext]_inventory
        PROVE  /\ [Next]_vars /\ [Alerts!Next]_(Alerts!vars)
               /\ [Planning!Next]_(Planning!vars) /\ [Page!Next]_(Page!vars)
    <2>1. /\ UNCHANGED alerts => UNCHANGED Alerts!vars
          /\ UNCHANGED planning => UNCHANGED Planning!vars
          /\ UNCHANGED pages => UNCHANGED Page!vars
      BY DEF alerts, planning, pages, Alerts!vars, Alerts!committed, Alerts!request,
             Alerts!objects, Planning!vars, Planning!outside, Planning!request,
             Planning!objects, Page!vars
    <2>2. CASE UNCHANGED inventory
      BY <2>1, <2>2 DEF inventory
    <2>3. CASE LedgerSteps
      BY <2>1, <2>3 DEF LedgerSteps, Others
    <2>4. CASE AlertSteps
      BY <2>1, <2>4 DEF AlertSteps, Others
    <2>5. CASE PlanningSteps
      BY <2>1, <2>5 DEF PlanningSteps, Others
    <2>6. CASE PageSteps
      BY <2>1, <2>6 DEF PageSteps, Others
    <2> QED
      BY <1>2, <2>2, <2>3, <2>4, <2>5, <2>6 DEF AllNext
  <1> QED
    BY <1>1, <1>2, PTL DEF AllSpec, Spec, Alerts!Spec, Planning!Spec, Page!Spec

\* The alert follows the stock whatever people answer meanwhile, comes back from
\* every snooze and is listed once.
THEOREM AlertsFollow == AllSpec => []AlertFollowsStock
  <1>1. Alerting!Spec => []Alerting!AlertFollowsStock
    BY SameAlertAssumption, Alerting!FollowsStock
  <1>2. Alerting!Spec => []Alerting!SnoozeEnds
    BY SameAlertAssumption, Alerting!SnoozesEnd
  <1>3. Alerting!Spec => []Alerting!ListedOnce
    BY SameAlertAssumption, Alerting!IsListedOnce
  <1>4. /\ Alerting!AlertFollowsStock /\ Alerting!SnoozeEnds /\ Alerting!ListedOnce
        => AlertFollowsStock
    BY SameAlertData DEF AlertFollowsStock, Alerts!AlertFollowsStock, Alerts!SnoozeEnds,
           Alerts!ListedOnce, Alerts!NoAlert, Alerts!AlertStatus,
           Alerting!AlertFollowsStock, Alerting!SnoozeEnds,
           Alerting!ListedOnce, Alerting!NoAlert, Alerting!AlertStatus
  <1> QED
    BY <1>1, <1>2, <1>3, <1>4, Composition, SameAlertSpec, PTL

\* What an apply of reorder points has written stays as it is when it is computed
\* again, whoever else applied or patched meanwhile.
THEOREM PlansStaySettled == AllSpec => []PlansSettle
  <1>1. Planning!IInv => PlansSettle
    BY PlanningIInvSettles DEF PlansSettle
  <1> QED
    BY <1>1, Composition, PlanningInvariance, PTL

\* The stock history is off by the same for every day, and the figures of a page
\* agree, whatever moves between its statements.
THEOREM PastIsTold == AllSpec => []HistoryIsTrue
  <1>1. Page!IInv => HistoryIsTrue
    BY PageTellsThePast, PageFiguresAgree DEF HistoryIsTrue
  <1> QED
    BY <1>1, Composition, PageInvariance, PTL

\* Type correctness of all parts.
THEOREM AllTypesCorrect == AllSpec => []AllTypeOK
  <1>1. Alerting!Spec => []Alerting!TypeOK
    BY SameAlertAssumption, Alerting!TypeCorrect
  <1>2. AllSpec => [](part \in Part)
    <2>1. AllInit => part \in Part
      BY DEF AllInit
    <2>2. part \in Part /\ [AllNext]_inventory => (part \in Part)'
      BY DEF AllNext, LedgerSteps, AlertSteps, PlanningSteps, PageSteps, Others, inventory
    <2> QED
      BY <2>1, <2>2, PTL DEF AllSpec
  <1>3. Alerting!TypeOK => Alerts!TypeOK
    <2>1. /\ Alerts!Stock = Alerting!Stock /\ Alerts!Verb = Alerting!Verb
          /\ Alerts!Column = Alerting!Column /\ Alerts!NoAlert = Alerting!NoAlert
          /\ Alerts!AlertStatus = Alerting!AlertStatus
      BY Zenon DEF Alerts!Stock, Alerting!Stock, Alerts!Verb, Alerting!Verb,
             Alerts!Column, Alerting!Column, Alerts!NoAlert, Alerting!NoAlert,
             Alerts!AlertStatus, Alerting!AlertStatus
    <2>2. Alerts!Alert = Alerting!Alert
      BY <2>1, Zenon DEF Alerts!Alert, Alerting!Alert
    <2>3. Alerts!Sent = Alerting!Sent
      <3>1. \A x \in Alerts!Sent : x \in Alerting!Sent
        BY <2>1, <2>2 DEF Alerts!Sent, Alerting!Sent
      <3>2. \A x \in Alerting!Sent : x \in Alerts!Sent
        BY <2>1, <2>2 DEF Alerts!Sent, Alerting!Sent
      <3> QED
        BY <3>1, <3>2
    <2> QED
      BY <2>1, <2>2, <2>3, Zenon DEF Alerts!TypeOK, Alerting!TypeOK
  <1>4. /\ part \in Part /\ TypeOK /\ Alerts!TypeOK /\ Planning!IInv /\ Page!IInv
        => AllTypeOK
    BY DEF AllTypeOK, Planning!IInv, Page!IInv
  <1> QED
    BY <1>1, <1>2, <1>3, <1>4, TypeCorrect, SameAlertSpec, Composition,
       PlanningInvariance, PageInvariance, PTL
=============================================================================

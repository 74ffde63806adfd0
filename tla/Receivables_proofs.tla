------------------------- MODULE Receivables_proofs -------------------------
(***************************************************************************)
(* Proofs about Receivables, for any invoices, payments, amounts, dates    *)
(* and number of sessions.  Whatever runs together, no money is booked on  *)
(* a voided invoice and no void is taken back.  While reconciliations run  *)
(* alone, invoices are settled exactly, matches stand, each committed      *)
(* transaction is one indivisible booking of AccountsReceivable, and all   *)
(* reports agree.                                                          *)
(***************************************************************************)
EXTENDS Payments, SumFacts

\* What the proofs keep needing of the assumptions: rows differ.
LEMMA RowsDiffer ==
  /\ Invoice \subseteq Nat /\ Payment \subseteq Nat /\ Invoice \cap Payment = {}
  /\ NoRow \notin Invoice /\ NoRow \notin Payment
  /\ NoSession \notin Session
  BY ReceivablesAssumption, NoSessionAssumption

USE RowsDiffer

\* The rows that can be locked.
Rows == Invoice \cup Payment

\* Where a request of each kind can be, and the rows it is about.
InItsRequest(s) ==
    /\ kind[s] # "reconcile" => found[s] = {}
    /\ \/ kind[s] = "none" /\ pc[s] = "idle"
       \/ /\ kind[s] = "record" /\ pc[s] \in {"invoice", "sum", "commit"}
          /\ thePayment[s] \in Payment /\ theInvoice[s] \in Invoice
       \/ /\ kind[s] \in {"match", "confirm"}
          /\ pc[s] \in {"payment", "invoice", "sum", "allocate", "commit"}
          /\ thePayment[s] \in Payment
          /\ (kind[s] = "confirm" /\ pc[s] = "payment") \/ theInvoice[s] \in Invoice
       \/ /\ kind[s] = "void" /\ pc[s] \in {"invoice", "sum", "commit"}
          /\ theInvoice[s] \in Invoice
       \/ /\ kind[s] = "reconcile" /\ pc[s] \in {"read", "next", "exact", "date", "commit"}
          /\ pc[s] \in {"exact", "date"} => thePayment[s] \in Payment

\* The locks a session has on the way, and what it knows of the locked rows.
HasNoLock(s) == \A r \in Rows : owner[r] # s
HasNoPayment(s) == \A p \in Payment : owner[p] # s
HasNoInvoice(s) == \A i \in Invoice : owner[i] # s
HasItsPayment(s) ==
    LET p == thePayment[s]
    IN  owner[p] = s /\ newPayments[p] = payments[p] /\ payments[p].match # "matched"
HasItsInvoice(s) ==
    LET i == theInvoice[s]
    IN  owner[i] = s /\ newStatus[i] = status[i] /\ Open(s, status[i])

HasItsLocks(s) ==
    /\ pc[s] \in {"idle", "payment", "read"} => HasNoLock(s)
    /\ pc[s] = "invoice" => HasNoInvoice(s)
    /\ kind[s] = "void" \/ (kind[s] = "record" /\ pc[s] # "commit") => HasNoPayment(s)
    /\ kind[s] \in {"match", "confirm"} /\ pc[s] \in {"invoice", "sum", "allocate"} =>
           HasItsPayment(s)
    /\ pc[s] \in {"sum", "allocate"} => HasItsInvoice(s)

\* A payment a session works on, or has locked, has been recorded by somebody, or
\* is the one the session itself records.
OnRecordedPayments(s) ==
    /\ kind[s] \in {"match", "confirm"} \/ pc[s] \in {"exact", "date"} =>
           payments[thePayment[s]] # Absent
    /\ \A p \in todo[s] : payments[p] # Absent
    /\ \A p \in Payment : owner[p] = s =>
           \/ payments[p] # Absent
           \/ kind[s] = "record" /\ thePayment[s] = p

\* A session that has booked a payment on an invoice has the invoice too, and
\* neither it nor anybody else has voided it; and so for those it has found.
NotVoided(s, i) == owner[i] = s /\ newStatus[i] # "voided"
BooksOnItsInvoices(s) ==
    /\ \A p \in Payment : owner[p] = s /\ newPayments[p].match = "matched" =>
           NotVoided(s, newPayments[p].invoice)
    /\ \A i \in found[s] : NotVoided(s, i)

\* A payment that is being recorded against an invoice is known to nobody else.
NewPaymentsAreOwn ==
    \A s \in Session : kind[s] = "record" =>
        /\ payments[thePayment[s]] = Absent
        /\ \A t \in Session \ {s} : thePayment[t] # thePayment[s]

\* A session at its place in its request.
InStep(s) ==
    InItsRequest(s) /\ HasItsLocks(s) /\ OnRecordedPayments(s) /\ BooksOnItsInvoices(s)

\* What nobody has locked has one version; a locked payment is recorded at the
\* latest in the newest one.
VersionsAgree ==
    /\ \A i \in Invoice : owner[i] = NoSession => newStatus[i] = status[i]
    /\ \A p \in Payment : owner[p] = NoSession => newPayments[p] = payments[p]
    /\ \A p \in Payment : owner[p] = NoSession \/ newPayments[p] # Absent

\* Voiding is final in the newest version already, and whoever voids an invoice
\* keeps payments away from it until the void is committed.
VoidsStand ==
    \A i \in Invoice :
        /\ status[i] = "voided" => newStatus[i] = "voided"
        /\ owner[i] # NoSession /\ newStatus[i] = "voided" => Settles(i) = {}

\* The inductive invariant, whoever runs beside whom: the versions of each row, the
\* voids, the payments being recorded, and every session at its place.
IInv ==
    /\ TypeOK
    /\ VersionsAgree
    /\ VoidsStand
    /\ VoidedHasNoPayments
    /\ NewPaymentsAreOwn
    /\ \A s \in Session : InStep(s)
-----------------------------------------------------------------------------
\* The least number of a set is one of its members.
LEMMA MinIsMember ==
  ASSUME NEW S, S \subseteq Nat, S # {}
  PROVE  Min(S) \in S
  BY LeastNat DEF Min

\* A set with members is not empty.
LEMMA SomeMember ==
  ASSUME NEW S, Cardinality(S) = 1 \/ Cardinality(S) > 1
  PROVE  S # {}
  BY FS_EmptySet

\* The nearest candidate is a candidate.
LEMMA NearestIsMember ==
  ASSUME TypeOK, NEW s \in Session, thePayment[s] \in Payment, candidates[s] # {}
  PROVE  Nearest(s) \in candidates[s]
  <1> DEFINE d(i) == Distance[thePayment[s]][i]
             ds == {d(i) : i \in candidates[s]}
  <1>1. candidates[s] \subseteq Invoice
    BY DEF TypeOK
  <1>2. \A i \in Invoice : d(i) \in Nat
    <2>1. Distance[thePayment[s]] \in [Invoice -> Nat]
      BY ReceivablesAssumption
    <2> QED
      BY <2>1
  <1>3. ds \subseteq Nat /\ ds # {}
    BY <1>1, <1>2
  <1>4. PICK n \in ds : \A m \in ds : n =< m
    BY <1>3, LeastNat
  <1>5. \E i \in candidates[s] : \A j \in candidates[s] : d(i) =< d(j)
    BY <1>4
  <1> QED
    BY <1>5 DEF Nearest

\* When nobody has started a request everybody is in step.
LEMMA InitInv == Init => IInv
  <1> SUFFICES ASSUME Init PROVE IInv
    OBVIOUS
  <1>1. \A p \in Payment : payments[p].match # "matched"
    BY DEF Init, Unallocated, Absent, Row
  <1>2. TypeOK
    BY DEF Init, TypeOK, Unlocked, Status
  <1>3. VersionsAgree /\ VoidsStand /\ VoidedHasNoPayments /\ NewPaymentsAreOwn
    BY DEF Init, VersionsAgree, VoidsStand, VoidedHasNoPayments, NewPaymentsAreOwn, Unlocked
  <1>4. ASSUME NEW s \in Session PROVE InStep(s)
    BY DEF Init, InStep, InItsRequest, HasItsLocks, HasNoLock, HasNoPayment,
           HasNoInvoice, OnRecordedPayments, BooksOnItsInvoices, Unlocked, Rows
  <1> QED
    BY <1>2, <1>3, <1>4 DEF IInv
-----------------------------------------------------------------------------
\* A step of s disturbs nobody else: it keeps its hands off the others' requests
\* and off the rows they have locked, and unrecords no payment.
LeavesAlone(t) ==
    /\ pc'[t] = pc[t] /\ kind'[t] = kind[t]
    /\ thePayment'[t] = thePayment[t] /\ theInvoice'[t] = theInvoice[t]
    /\ todo'[t] = todo[t] /\ candidates'[t] = candidates[t] /\ found'[t] = found[t]
    /\ \A r \in Rows : owner'[r] = t <=> owner[r] = t
    /\ \A i \in Invoice : owner[i] = t =>
           newStatus'[i] = newStatus[i] /\ status'[i] = status[i]
    /\ \A p \in Payment : owner[p] = t =>
           newPayments'[p] = newPayments[p] /\ payments'[p] = payments[p]
    /\ \A p \in Payment : payments[p] # Absent => payments'[p] # Absent

LEMMA StaysInStep ==
  ASSUME NEW t \in Session, TypeOK, InStep(t), LeavesAlone(t)
  PROVE  InStep(t)'
  <1>1. InItsRequest(t)'
    BY DEF InStep, InItsRequest, LeavesAlone
  <1>2. HasItsLocks(t)'
    <2>1. HasNoLock(t) => HasNoLock(t)'
      BY DEF LeavesAlone, HasNoLock
    <2>2. /\ HasNoPayment(t) => HasNoPayment(t)'
          /\ HasNoInvoice(t) => HasNoInvoice(t)'
      BY DEF LeavesAlone, HasNoPayment, HasNoInvoice, Rows
    <2>3. thePayment[t] \in Payment /\ HasItsPayment(t) => HasItsPayment(t)'
      BY DEF LeavesAlone, HasItsPayment, Rows
    <2>4. theInvoice[t] \in Invoice /\ HasItsInvoice(t) => HasItsInvoice(t)'
      BY DEF LeavesAlone, HasItsInvoice, Open, Rows
    <2> QED
      BY <2>1, <2>2, <2>3, <2>4 DEF InStep, InItsRequest, HasItsLocks, LeavesAlone
  <1>3. OnRecordedPayments(t)'
    BY DEF InStep, InItsRequest, OnRecordedPayments, LeavesAlone, TypeOK, Rows
  <1>4. BooksOnItsInvoices(t)'
    <2>1. ASSUME NEW i \in Invoice, NotVoided(t, i) PROVE NotVoided(t, i)'
      BY <2>1 DEF LeavesAlone, NotVoided, Rows
    <2>2. ASSUME NEW i \in found'[t] PROVE NotVoided(t, i)'
      BY <2>1, <2>2 DEF InStep, BooksOnItsInvoices, LeavesAlone, TypeOK
    <2>3. ASSUME NEW p \in Payment, owner'[p] = t, newPayments'[p].match = "matched"
          PROVE  NotVoided(t, newPayments[p].invoice)' /\ newPayments'[p] = newPayments[p]
      <3>1. owner[p] = t /\ newPayments'[p] = newPayments[p]
        BY <2>3 DEF LeavesAlone, Rows
      <3>2. NotVoided(t, newPayments[p].invoice) /\ newPayments[p].invoice \in Invoice
        BY <2>3, <3>1 DEF InStep, BooksOnItsInvoices, TypeOK, PaymentRow
      <3> QED
        BY <2>1, <3>1, <3>2
    <2> QED
      BY <2>2, <2>3 DEF BooksOnItsInvoices
  <1> QED
    BY <1>1, <1>2, <1>3, <1>4 DEF InStep
-----------------------------------------------------------------------------
\* The request of session t and its place in it stay as they are.
SameRequest(t) ==
    /\ pc'[t] = pc[t] /\ kind'[t] = kind[t]
    /\ thePayment'[t] = thePayment[t] /\ theInvoice'[t] = theInvoice[t]
    /\ todo'[t] = todo[t] /\ candidates'[t] = candidates[t] /\ found'[t] = found[t]

\* A step that touches no row.
LEMMA LocalInv ==
  ASSUME NEW s \in Session, IInv, UNCHANGED <<committed, newest, owner>>, TypeOK',
         \A t \in Session \ {s} : SameRequest(t), InStep(s)', NewPaymentsAreOwn'
  PROVE  IInv'
  <1>1. VersionsAgree' /\ VoidsStand' /\ VoidedHasNoPayments'
    BY DEF IInv, VersionsAgree, VoidsStand, VoidedHasNoPayments, Settles, committed, newest
  <1>2. \A t \in Session \ {s} : LeavesAlone(t)
    BY DEF SameRequest, LeavesAlone, committed, newest
  <1>3. \A t \in Session \ {s} : InStep(t)'
    BY <1>2, StaysInStep DEF IInv
  <1> QED
    BY <1>1, <1>3 DEF IInv

\* A step that locks a row and writes nothing.
LEMMA LockInv ==
  ASSUME NEW s \in Session, IInv, UNCHANGED <<committed, newest>>, TypeOK',
         NEW r \in Rows, Available(owner, s, r), owner' = Acquire(owner, s, r),
         r \in Payment => payments[r] # Absent,
         \A t \in Session \ {s} : SameRequest(t), InStep(s)',
         UNCHANGED <<kind, thePayment>>
  PROVE  IInv'
  <1>1. \A q \in Rows : owner'[q] = IF q = r THEN s ELSE owner[q]
    BY DEF IInv, TypeOK, Acquire, Rows
  <1>2. VersionsAgree'
    BY <1>1 DEF IInv, VersionsAgree, Available, committed, newest, Rows
  <1>3. VoidsStand' /\ VoidedHasNoPayments'
    <2>1. \A i \in Invoice : Settles(i)' = Settles(i) /\ status'[i] = status[i]
      BY DEF Settles, committed
    <2>2. VoidedHasNoPayments'
      BY <2>1 DEF IInv, VoidedHasNoPayments
    <2>3. \A i \in Invoice : owner'[i] # NoSession /\ newStatus[i] = "voided" => Settles(i) = {}
      BY <1>1 DEF IInv, VersionsAgree, VoidsStand, VoidedHasNoPayments, Available, Rows
    <2> QED
      BY <2>1, <2>2, <2>3 DEF IInv, VoidsStand, newest
  <1>4. \A t \in Session \ {s} : LeavesAlone(t)
    BY <1>1 DEF SameRequest, LeavesAlone, Available, committed, newest
  <1>5. \A t \in Session \ {s} : InStep(t)'
    BY <1>4, StaysInStep DEF IInv
  <1>6. NewPaymentsAreOwn'
    BY DEF IInv, NewPaymentsAreOwn, committed
  <1> QED
    BY <1>2, <1>3, <1>5, <1>6 DEF IInv

\* A step that locks and writes a payment, and writes an invoice its session has.
LEMMA WriteInv ==
  ASSUME NEW s \in Session, IInv, UNCHANGED committed, TypeOK',
         NEW p \in Payment, Available(owner, s, p), owner' = Acquire(owner, s, p),
         \A q \in Payment \ {p} : newPayments'[q] = newPayments[q],
         newPayments'[p] # Absent,
         \A i \in Invoice : \/ newStatus'[i] = newStatus[i]
                            \/ /\ owner[i] = s
                               /\ newStatus[i] # "voided" /\ newStatus'[i] # "voided",
         \A t \in Session \ {s} : SameRequest(t), InStep(s)',
         UNCHANGED <<kind, thePayment>>
  PROVE  IInv'
  <1>1. \A q \in Rows : owner'[q] = IF q = p THEN s ELSE owner[q]
    BY DEF IInv, TypeOK, Acquire, Rows
  <1>2. VersionsAgree'
    BY <1>1 DEF IInv, VersionsAgree, Available, committed, Rows
  <1>3. VoidsStand' /\ VoidedHasNoPayments'
    <2>1. \A i \in Invoice : Settles(i)' = Settles(i) /\ status'[i] = status[i]
      BY DEF Settles, committed
    <2>2. \A i \in Invoice : owner'[i] = owner[i]
      BY <1>1 DEF Rows
    <2>3. VoidedHasNoPayments'
      BY <2>1 DEF IInv, VoidedHasNoPayments
    <2> HIDE DEF committed
    <2> QED
      BY <2>1, <2>2, <2>3 DEF IInv, VoidsStand
  <1>4. \A t \in Session \ {s} : LeavesAlone(t)
    BY <1>1 DEF SameRequest, LeavesAlone, Available, committed, Rows
  <1>5. \A t \in Session \ {s} : InStep(t)'
    BY <1>4, StaysInStep DEF IInv
  <1>6. NewPaymentsAreOwn'
    BY DEF IInv, NewPaymentsAreOwn, committed
  <1> QED
    BY <1>2, <1>3, <1>5, <1>6 DEF IInv
-----------------------------------------------------------------------------
\* The end of a transaction: the session is out of every request.
LEMMA CloseFacts ==
  ASSUME NEW s \in Session, TypeOK, CloseSession(s)
  PROVE  /\ \A q \in Rows : owner'[q] = IF owner[q] = s THEN NoSession ELSE owner[q]
         /\ owner' \in [Rows -> Session \cup {NoSession}]
         /\ \A t \in Session \ {s} : SameRequest(t)
         /\ kind'[s] = "none" /\ thePayment'[s] = NoRow
         /\ InItsRequest(s)' /\ HasItsLocks(s)' /\ OnRecordedPayments(s)'
         /\ BooksOnItsInvoices(s)'
  <1>1. /\ \A q \in Rows : owner'[q] = IF owner[q] = s THEN NoSession ELSE owner[q]
        /\ owner' \in [Rows -> Session \cup {NoSession}]
    BY DEF TypeOK, CloseSession, Release, Rows
  <1>2. \A t \in Session \ {s} : SameRequest(t)
    BY DEF TypeOK, CloseSession, SameRequest
  <1>3. /\ pc'[s] = "idle" /\ kind'[s] = "none" /\ todo'[s] = {} /\ found'[s] = {}
        /\ thePayment'[s] = NoRow /\ HasNoLock(s)'
    BY <1>1 DEF TypeOK, CloseSession, HasNoLock
  <1>4. InItsRequest(s)' /\ HasItsLocks(s)'
    BY <1>3 DEF InItsRequest, HasItsLocks
  <1>5. OnRecordedPayments(s)' /\ BooksOnItsInvoices(s)'
    BY <1>3 DEF OnRecordedPayments, BooksOnItsInvoices, HasNoLock, Rows
  <1> QED
    BY <1>1, <1>2, <1>3, <1>4, <1>5

\* The end of a transaction keeps the types.
LEMMA CloseTypes ==
  ASSUME NEW s \in Session, TypeOK, CloseSession(s),
         status' \in [Invoice -> Status], newStatus' \in [Invoice -> Status],
         payments' \in [Payment -> PaymentRow], newPayments' \in [Payment -> PaymentRow]
  PROVE  TypeOK'
  <1>1. owner' \in [Rows -> Session \cup {NoSession}]
    BY CloseFacts
  <1> QED
    BY <1>1 DEF TypeOK, CloseSession, Rows

\* A rollback.
LEMMA FailInv ==
  ASSUME NEW s \in Session, IInv, Fail(s)
  PROVE  IInv' /\ \A t \in Session \ {s} : LeavesAlone(t)
  <1>1. CloseSession(s) /\ UNCHANGED committed
    BY DEF Fail
  <1>2. /\ \A i \in Invoice : newStatus'[i] = IF owner[i] = s THEN status[i] ELSE newStatus[i]
        /\ \A p \in Payment :
              newPayments'[p] = IF owner[p] = s THEN payments[p] ELSE newPayments[p]
    BY DEF Fail
  <1>3. TypeOK'
    <2>1. newStatus' \in [Invoice -> Status] /\ newPayments' \in [Payment -> PaymentRow]
      BY DEF IInv, TypeOK, Fail
    <2> QED
      BY <1>1, <2>1, CloseTypes DEF IInv, TypeOK, committed
  <1>4. VersionsAgree'
    BY <1>1, <1>2, CloseFacts DEF IInv, VersionsAgree, committed, Rows
  <1>5. VoidsStand' /\ VoidedHasNoPayments'
    <2>1. \A i \in Invoice : Settles(i)' = Settles(i) /\ status'[i] = status[i]
      BY <1>1 DEF Settles, committed
    <2>2. VoidedHasNoPayments'
      BY <2>1 DEF IInv, VoidedHasNoPayments
    <2>3. \A i \in Invoice : owner'[i] # NoSession => owner'[i] = owner[i] /\ owner[i] # s
      BY <1>1, CloseFacts DEF IInv, Rows
    <2>4. VoidsStand'
      BY <1>2, <2>1, <2>3 DEF IInv, VoidsStand
    <2> QED
      BY <2>2, <2>4
  <1>6. \A t \in Session \ {s} : LeavesAlone(t)
    BY <1>1, <1>2, CloseFacts DEF IInv, SameRequest, LeavesAlone, committed
  <1>7. \A t \in Session : InStep(t)'
    BY <1>1, <1>6, CloseFacts, StaysInStep DEF IInv, InStep
  <1>8. NewPaymentsAreOwn'
    BY <1>1, CloseFacts DEF IInv, NewPaymentsAreOwn, InStep, InItsRequest, SameRequest, committed
  <1> QED
    BY <1>3, <1>4, <1>5, <1>6, <1>7, <1>8 DEF IInv

\* A commit: what was written becomes what everybody reads.
LEMMA CommitInv ==
  ASSUME NEW s \in Session, IInv, Commit(s)
  PROVE  /\ IInv' /\ \A t \in Session \ {s} : LeavesAlone(t)
         /\ \A i \in Invoice : status[i] = "voided" => status'[i] = "voided"
  <1>1. CloseSession(s) /\ UNCHANGED newest
    BY DEF Commit
  <1>2. /\ \A i \in Invoice : status'[i] = IF owner[i] = s THEN newStatus[i] ELSE status[i]
        /\ \A p \in Payment : payments'[p] = IF owner[p] = s THEN newPayments[p] ELSE payments[p]
    BY DEF Commit, StatusFor, PaymentFor
  <1>3. TypeOK'
    <2>1. status' \in [Invoice -> Status] /\ payments' \in [Payment -> PaymentRow]
      BY DEF IInv, TypeOK, Commit, StatusFor, PaymentFor
    <2> QED
      BY <1>1, <2>1, CloseTypes DEF IInv, TypeOK, newest
  <1>4. VersionsAgree'
    BY <1>1, <1>2, CloseFacts DEF IInv, VersionsAgree, newest, Rows
  <1>5. \A i \in Invoice : status[i] = "voided" => status'[i] = "voided"
    BY <1>2 DEF IInv, VoidsStand
  \* Who books on an invoice has it, and whoever has it has not voided it.
  <1>6. ASSUME NEW i \in Invoice, newStatus[i] = "voided", Settles(i) = {}
        PROVE  Settles(i)' = {}
    <2> SUFFICES ASSUME NEW p \in Payment, payments'[p].match = "matched",
                        payments'[p].invoice = i
                 PROVE  FALSE
      BY DEF Settles
    <2>1. owner[p] = s /\ payments'[p] = newPayments[p]
      BY <1>2, <1>6 DEF Settles
    <2>2. InStep(s)
      BY DEF IInv
    <2>3. NotVoided(s, i)
      BY <2>1, <2>2 DEF InStep, BooksOnItsInvoices
    <2> QED
      BY <1>6, <2>3 DEF NotVoided
  <1>7. VoidedHasNoPayments'
    BY <1>2, <1>6 DEF IInv, VoidsStand, VoidedHasNoPayments
  <1>8. VoidsStand'
    BY <1>1, <1>2, <1>6, CloseFacts DEF IInv, VoidsStand, newest, Rows
  <1>9. \A t \in Session \ {s} : LeavesAlone(t)
    BY <1>1, <1>2, CloseFacts DEF IInv, VersionsAgree, SameRequest, LeavesAlone, newest
  <1>10. \A t \in Session : InStep(t)'
    BY <1>1, <1>9, CloseFacts, StaysInStep DEF IInv, InStep
  <1>11. NewPaymentsAreOwn'
    <2> SUFFICES ASSUME NEW t \in Session, kind'[t] = "record"
                 PROVE  /\ payments'[thePayment'[t]] = Absent
                        /\ \A u \in Session \ {t} : thePayment'[u] # thePayment'[t]
      BY DEF NewPaymentsAreOwn
    <2>1. t # s /\ SameRequest(t) /\ kind[t] = "record" /\ thePayment[t] \in Payment
      BY <1>1, CloseFacts DEF IInv, InStep, InItsRequest, SameRequest
    <2>2. /\ payments[thePayment[t]] = Absent
          /\ \A u \in Session \ {t} : thePayment[u] # thePayment[t]
      BY <2>1 DEF IInv, NewPaymentsAreOwn
    <2>3. owner[thePayment[t]] # s
      BY <2>1, <2>2 DEF IInv, InStep, OnRecordedPayments
    <2>4. \A u \in Session \ {t} : thePayment'[u] \in {thePayment[u], NoRow}
      BY <1>1, CloseFacts DEF IInv, SameRequest
    <2> QED
      BY <1>2, <2>1, <2>2, <2>3, <2>4 DEF SameRequest
  <1> QED
    BY <1>3, <1>4, <1>5, <1>7, <1>8, <1>9, <1>10, <1>11 DEF IInv
-----------------------------------------------------------------------------
(* Requests *)

\* A request begins.
LEMMA BeginInv ==
  ASSUME NEW s \in Session, IInv, NEW k, NEW p, NEW i, NEW first,
         Begin(s, k, p, i, first),
         \/ k = "record" /\ first = "invoice" /\ p \in Payment /\ i \in Invoice /\ Fresh(p)
         \/ k = "match" /\ first = "payment" /\ p \in Payment /\ i \in Invoice
                /\ payments[p] # Absent
         \/ k = "confirm" /\ first = "payment" /\ p \in Payment /\ i = NoRow
                /\ payments[p] # Absent
         \/ k = "void" /\ first = "invoice" /\ p = NoRow /\ i \in Invoice
         \/ k = "reconcile" /\ first = "read" /\ p = NoRow /\ i = NoRow
  PROVE  IInv'
  <1>1. UNCHANGED <<committed, newest, owner>> /\ UNCHANGED <<todo, query>>
    BY DEF Begin
  <1>2. /\ pc[s] = "idle" /\ pc' = [pc EXCEPT ![s] = first]
        /\ kind' = [kind EXCEPT ![s] = k]
        /\ thePayment' = [thePayment EXCEPT ![s] = p]
        /\ theInvoice' = [theInvoice EXCEPT ![s] = i]
    BY DEF Begin
  <1>3. TypeOK'
    BY <1>1, <1>2 DEF IInv, TypeOK, committed, newest, query
  <1>4. \A t \in Session \ {s} : SameRequest(t)
    BY <1>1, <1>2 DEF IInv, TypeOK, SameRequest, query
  <1>5. /\ pc'[s] = first /\ kind'[s] = k /\ thePayment'[s] = p /\ theInvoice'[s] = i
        /\ todo'[s] = todo[s] /\ found'[s] = found[s]
    BY <1>1, <1>2 DEF IInv, TypeOK, query
  <1>6. HasNoLock(s) /\ HasNoLock(s)' /\ \A q \in todo[s] : payments[q] # Absent
    BY <1>1, <1>2 DEF IInv, InStep, HasItsLocks, HasNoLock, OnRecordedPayments
  <1>7. found[s] = {}
    BY <1>6 DEF IInv, TypeOK, InStep, BooksOnItsInvoices, NotVoided, HasNoLock, Rows
  <1>8. InStep(s)'
    <2>1. InItsRequest(s)'
      BY <1>5, <1>7 DEF InItsRequest
    <2>2. HasItsLocks(s)'
      BY <1>5, <1>6 DEF HasItsLocks, HasNoLock, HasNoPayment, HasNoInvoice, Rows
    <2>3. OnRecordedPayments(s)'
      BY <1>1, <1>5, <1>6 DEF OnRecordedPayments, HasNoLock, Rows, committed
    <2>4. BooksOnItsInvoices(s)'
      BY <1>5, <1>6, <1>7 DEF BooksOnItsInvoices, HasNoLock, Rows
    <2> QED
      BY <2>1, <2>2, <2>3, <2>4 DEF InStep
  <1>9. NewPaymentsAreOwn'
    <2>1. \A t \in Session \ {s} : kind'[t] = kind[t] /\ thePayment'[t] = thePayment[t]
      BY <1>4 DEF SameRequest
    <2>2. \A t \in Session : kind[t] = "record" =>
              thePayment[t] \in Payment /\ payments[thePayment[t]] = Absent
      BY DEF IInv, InStep, InItsRequest, NewPaymentsAreOwn
    <2>3. \A t \in Session \ {s} : kind[t] = "record" => thePayment[t] # p
      BY <2>2 DEF Fresh
    <2> QED
      BY <1>1, <1>5, <2>1, <2>3 DEF IInv, NewPaymentsAreOwn, Fresh, committed
  <1> QED
    BY <1>1, <1>3, <1>4, <1>8, <1>9, LocalInv

\* POST /payments/unmatched.
LEMMA RecordUnmatchedInv ==
  ASSUME NEW s \in Session, IInv, NEW p \in Payment, RecordUnmatchedPayment(s, p)
  PROVE  IInv'
  <1> DEFINE row == Row("unmatched", NoRow, NoRow)
  <1>1. /\ payments' = [payments EXCEPT ![p] = row]
        /\ newPayments' = [newPayments EXCEPT ![p] = row]
        /\ UNCHANGED <<status, newStatus, owner, pc, request, todo, query>>
    BY DEF RecordUnmatchedPayment, IInv, TypeOK
  <1>2. /\ payments[p] = Absent /\ \A t \in Session : thePayment[t] # p
    BY DEF RecordUnmatchedPayment, Fresh
  <1>3. row \in PaymentRow /\ row # Absent /\ row.match # "matched"
    BY DEF Row, Absent, PaymentRow, Match
  <1> HIDE DEF row
  <1>4. TypeOK'
    BY <1>1, <1>3 DEF IInv, TypeOK, request, query
  \* Nobody has locked a payment that no request is about and nobody has recorded.
  <1>5. owner[p] = NoSession
    BY <1>2 DEF IInv, TypeOK, InStep, OnRecordedPayments
  <1>6. VersionsAgree'
    BY <1>1, <1>3 DEF IInv, TypeOK, VersionsAgree
  <1>7. \A i \in Invoice : Settles(i)' \subseteq Settles(i)
    BY <1>1, <1>3 DEF IInv, TypeOK, Settles
  <1>8. VoidsStand' /\ VoidedHasNoPayments'
    BY <1>1, <1>7 DEF IInv, VoidsStand, VoidedHasNoPayments
  <1>9. \A t \in Session : LeavesAlone(t)
    BY <1>1, <1>3, <1>5 DEF IInv, TypeOK, LeavesAlone, request, query
  <1>10. \A t \in Session : InStep(t)'
    BY <1>9, StaysInStep DEF IInv
  <1>11. NewPaymentsAreOwn'
    BY <1>1, <1>2 DEF IInv, TypeOK, NewPaymentsAreOwn, request
  <1> QED
    BY <1>4, <1>6, <1>8, <1>10, <1>11 DEF IInv

\* Any request.
LEMMA RequestsInv ==
  ASSUME NEW s \in Session, IInv, Requests(s)
  PROVE  IInv'
  <1>1. ASSUME NEW p \in Payment, RecordUnmatchedPayment(s, p) PROVE IInv'
    BY <1>1, RecordUnmatchedInv
  <1>2. ASSUME NEW p \in Payment, ConfirmSuggestedMatch(s, p) PROVE IInv'
    BY <1>2, BeginInv DEF ConfirmSuggestedMatch
  <1>3. ASSUME NEW p \in Payment, NEW i \in Invoice, RecordPayment(s, p, i) PROVE IInv'
    BY <1>3, BeginInv DEF RecordPayment
  <1>4. ASSUME NEW p \in Payment, NEW i \in Invoice, ManualMatch(s, p, i) PROVE IInv'
    BY <1>4, BeginInv DEF ManualMatch
  <1>5. ASSUME NEW i \in Invoice, VoidInvoice(s, i) PROVE IInv'
    BY <1>5, BeginInv DEF VoidInvoice
  <1>6. CASE RunReconciliation(s)
    BY <1>6, BeginInv DEF RunReconciliation
  <1> QED
    BY <1>1, <1>2, <1>3, <1>4, <1>5, <1>6 DEF Requests
-----------------------------------------------------------------------------
(* Statements *)

\* The payment of a match is locked.
LEMMA LockPaymentInv ==
  ASSUME NEW s \in Session, IInv, LockPayment(s)
  PROVE  IInv'
  <1> DEFINE p == thePayment[s]
  <1>1. CASE Fail(s)
    BY <1>1, FailInv
  <1>2. CASE ~Fail(s)
    <2>1. /\ pc[s] = "payment" /\ Available(owner, s, p)
          /\ Matchable(s, payments[p]) /\ owner' = Acquire(owner, s, p)
          /\ theInvoice' = [theInvoice EXCEPT ![s] =
                               IF kind[s] = "confirm" THEN payments[p].suggested ELSE @]
          /\ pc' = [pc EXCEPT ![s] = "invoice"]
          /\ UNCHANGED <<committed, newest, kind, thePayment, todo, query>>
      BY <1>2 DEF LockPayment, GoTo
    <2>2. /\ p \in Payment /\ kind[s] \in {"match", "confirm"} /\ payments[p] # Absent
          /\ HasNoLock(s)
      BY <2>1 DEF IInv, InStep, InItsRequest, OnRecordedPayments, HasItsLocks
    <2>3. /\ payments[p].match # "matched" /\ newPayments[p] = payments[p]
      BY <2>1, <2>2 DEF IInv, VersionsAgree, Available, Matchable, HasNoLock, Rows
    <2>4. theInvoice'[s] \in Invoice
      BY <2>1, <2>2 DEF IInv, TypeOK, InStep, InItsRequest, Matchable, PaymentRow
    <2>5. TypeOK'
      BY <2>1, <2>2, <2>4 DEF IInv, TypeOK, Acquire, committed, newest, query
    <2>6. \A t \in Session \ {s} : SameRequest(t)
      BY <2>1 DEF IInv, TypeOK, SameRequest, query
    <2>7. \A r \in Rows : owner'[r] = s <=> r = p
      BY <2>1, <2>2 DEF IInv, TypeOK, Acquire, HasNoLock, Rows
    <2>8. /\ pc'[s] = "invoice" /\ kind'[s] = kind[s] /\ thePayment'[s] = p
          /\ todo'[s] = todo[s] /\ found'[s] = found[s]
      BY <2>1 DEF IInv, TypeOK, query
    <2>9. InItsRequest(s)'
      BY <2>2, <2>4, <2>8 DEF IInv, InStep, InItsRequest
    <2>10. HasItsLocks(s)'
      BY <2>1, <2>2, <2>3, <2>7, <2>8
         DEF HasItsLocks, HasItsPayment, HasNoInvoice, committed, newest, Rows
    <2>11. OnRecordedPayments(s)'
      BY <2>1, <2>2, <2>7, <2>8 DEF IInv, InStep, OnRecordedPayments, committed, Rows
    <2>12. BooksOnItsInvoices(s)'
      <3>1. found[s] = {}
        BY <2>2 DEF IInv, TypeOK, InStep, BooksOnItsInvoices, NotVoided, HasNoLock, Rows
      <3> QED
        BY <2>1, <2>3, <2>7, <2>8, <3>1 DEF BooksOnItsInvoices, newest, Rows
    <2>13. InStep(s)'
      BY <2>9, <2>10, <2>11, <2>12 DEF InStep
    <2> QED
      BY <2>1, <2>2, <2>5, <2>6, <2>13, LockInv DEF Rows
  <1> QED
    BY <1>1, <1>2

\* What a lock on an invoice leaves as it was in the session that takes it.
LEMMA LocksAnInvoice ==
  ASSUME NEW s \in Session, IInv, NEW i \in Invoice, Available(owner, s, i),
         owner' = Acquire(owner, s, i), UNCHANGED <<committed, newest, request, todo>>
  PROVE  /\ owner' \in [Rows -> Session \cup {NoSession}]
         /\ owner'[i] = s /\ \A r \in Rows : owner[r] = s => owner'[r] = s
         /\ \A p \in Payment : owner'[p] = owner[p]
         /\ \A j \in Invoice : NotVoided(s, j) => NotVoided(s, j)'
         /\ newStatus[i] = StatusFor(s, i)
         /\ newStatus' = newStatus /\ newPayments' = newPayments
         /\ pc'[s] \notin {"exact", "date"} \/ pc[s] \in {"exact", "date"} => OnRecordedPayments(s)'
  <1>1. /\ owner' \in [Rows -> Session \cup {NoSession}] /\ owner'[i] = s
        /\ \A r \in Rows : owner[r] = s => owner'[r] = s
        /\ \A p \in Payment : owner'[p] = owner[p]
    BY DEF IInv, TypeOK, Acquire, Rows
  <1>2. newStatus' = newStatus /\ newPayments' = newPayments
    BY DEF newest
  <1>3. \A j \in Invoice : NotVoided(s, j) => NotVoided(s, j)'
    BY <1>1, <1>2 DEF NotVoided, Rows
  <1>4. newStatus[i] = StatusFor(s, i)
    BY DEF IInv, VersionsAgree, Available, StatusFor
  <1>5. pc'[s] \notin {"exact", "date"} \/ pc[s] \in {"exact", "date"} => OnRecordedPayments(s)'
    BY <1>1 DEF IInv, TypeOK, InStep, OnRecordedPayments, committed, request
  <1> QED
    BY <1>1, <1>2, <1>3, <1>4, <1>5

\* The invoice of a record, a match or a void is locked.
LEMMA LockInvoiceInv ==
  ASSUME NEW s \in Session, IInv, LockInvoice(s)
  PROVE  IInv'
  <1> DEFINE i == theInvoice[s]
  <1>1. CASE Fail(s)
    BY <1>1, FailInv
  <1>2. CASE ~Fail(s)
    <2>1. /\ pc[s] = "invoice" /\ Available(owner, s, i) /\ Open(s, status[i])
          /\ owner' = Acquire(owner, s, i) /\ pc' = [pc EXCEPT ![s] = "sum"]
          /\ UNCHANGED <<committed, newest, request, todo, query>>
      BY <1>2 DEF LockInvoice, ForUpdate, GoTo
    <2>2. i \in Invoice /\ InStep(s)
      BY <2>1 DEF IInv, InStep, InItsRequest
    <2>3. /\ owner' \in [Rows -> Session \cup {NoSession}]
          /\ owner'[i] = s /\ \A p \in Payment : owner'[p] = owner[p]
          /\ \A j \in Invoice : NotVoided(s, j) => NotVoided(s, j)'
          /\ newStatus[i] = StatusFor(s, i)
      BY <2>1, <2>2, LocksAnInvoice
    <2>4. /\ pc'[s] = "sum" /\ kind'[s] = kind[s] /\ thePayment'[s] = thePayment[s]
          /\ theInvoice'[s] = i /\ todo'[s] = todo[s] /\ found'[s] = found[s]
      BY <2>1 DEF IInv, TypeOK, query, request
    <2>5. TypeOK'
      BY <2>1, <2>3 DEF IInv, TypeOK, committed, newest, query, request, Rows
    <2>6. \A t \in Session \ {s} : SameRequest(t)
      BY <2>1 DEF IInv, TypeOK, SameRequest, query, request
    <2>7. InItsRequest(s)'
      BY <2>1, <2>2, <2>4 DEF InStep, InItsRequest
    <2>8. HasItsLocks(s)'
      <3>1. HasNoPayment(s) => HasNoPayment(s)'
        BY <2>3 DEF HasNoPayment
      <3>2. kind[s] \in {"match", "confirm"} => HasItsPayment(s)'
        BY <2>1, <2>2, <2>3, <2>4
           DEF InStep, InItsRequest, HasItsLocks, HasItsPayment, committed, newest
      <3>3. newStatus[i] = status[i]
        BY <2>1, <2>3, <2>2 DEF IInv, VersionsAgree, Available, StatusFor,
                                     HasItsLocks, HasNoInvoice, InStep
      <3>4. HasItsInvoice(s)'
        BY <2>1, <2>2, <2>3, <2>4, <3>3 DEF HasItsInvoice, Open, committed, newest
      <3> QED
        BY <2>1, <2>2, <2>4, <3>1, <3>2, <3>4 DEF InStep, HasItsLocks
    <2>9. OnRecordedPayments(s)'
      BY <2>1, <2>2, <2>4, LocksAnInvoice
    <2>10. BooksOnItsInvoices(s)'
      BY <2>1, <2>2, <2>3, <2>4
         DEF IInv, TypeOK, PaymentRow, InStep, BooksOnItsInvoices, newest
    <2>11. InStep(s)'
      BY <2>7, <2>8, <2>9, <2>10 DEF InStep
    <2> QED
      BY <2>1, <2>2, <2>5, <2>6, <2>11, LockInv DEF Rows, request
  <1> QED
    BY <1>1, <1>2
\* A session that books payment p on invoice i, which it has and which is not voided.
LEMMA BookInv ==
  ASSUME NEW s \in Session, IInv, NEW p \in Payment, NEW i \in Invoice,
         NotVoided(s, i), Available(owner, s, p), owner' = Acquire(owner, s, p),
         NEW row \in PaymentRow, row.match = "matched", row.invoice = i,
         newPayments' = [newPayments EXCEPT ![p] = row],
         NEW left, newStatus' = [newStatus EXCEPT ![i] = StatusAfter(@, left)],
         UNCHANGED <<committed, request, todo, query>>,
         payments[p] # Absent \/ (kind[s] = "record" /\ thePayment[s] = p),
         kind[s] # "void", NEW next, pc' = [pc EXCEPT ![s] = next],
         next = "commit" \/ (next = "next" /\ kind[s] = "reconcile")
  PROVE  IInv'
  <1>1. newStatus[i] \in Status /\ newStatus'[i] \in {newStatus[i], "paid"} /\ owner[i] = s
    BY DEF IInv, TypeOK, NotVoided, StatusAfter
  <1>2. /\ newStatus' \in [Invoice -> Status] /\ newPayments' \in [Payment -> PaymentRow]
        /\ owner' \in [Rows -> Session \cup {NoSession}]
    BY DEF IInv, TypeOK, StatusAfter, Status, Acquire, Rows
  <1>3. TypeOK'
    BY <1>2 DEF IInv, TypeOK, committed, query, request, Rows
  <1>4. \A t \in Session \ {s} : SameRequest(t)
    BY DEF IInv, TypeOK, SameRequest, query, request
  <1>5. /\ \A r \in Rows : owner'[r] = IF r = p THEN s ELSE owner[r]
        /\ newPayments'[p] = row /\ \A q \in Payment \ {p} : newPayments'[q] = newPayments[q]
        /\ \A j \in Invoice \ {i} : newStatus'[j] = newStatus[j]
    BY DEF IInv, TypeOK, Acquire, Rows
  <1>6. /\ pc'[s] = next /\ kind'[s] = kind[s] /\ thePayment'[s] = thePayment[s]
        /\ theInvoice'[s] = theInvoice[s] /\ todo'[s] = todo[s] /\ found'[s] = found[s]
    BY DEF IInv, TypeOK, query, request
  <1>7. InItsRequest(s)'
    BY <1>1, <1>6 DEF IInv, InStep, InItsRequest, HasItsLocks, HasNoLock, Rows
  <1>8. HasItsLocks(s)'
    BY <1>6 DEF HasItsLocks
  <1>9. OnRecordedPayments(s)'
    <2>1. OnRecordedPayments(s) /\ payments' = payments
      BY DEF IInv, InStep, committed
    <2>2. \A q \in Payment : owner'[q] = s => q = p \/ owner[q] = s
      BY <1>5 DEF Rows
    <2>3. ~(pc'[s] \in {"exact", "date"})
      BY <1>6
    <2> QED
      BY <1>6, <2>1, <2>2, <2>3 DEF OnRecordedPayments
  <1>10. BooksOnItsInvoices(s)'
    <2>1. \A j \in Invoice : NotVoided(s, j) => NotVoided(s, j)'
      BY <1>1, <1>5 DEF NotVoided, Rows
    <2>2. \A j \in found'[s] : NotVoided(s, j)'
      BY <1>6, <2>1 DEF IInv, TypeOK, InStep, BooksOnItsInvoices
    <2>3. ASSUME NEW q \in Payment, owner'[q] = s, newPayments'[q].match = "matched"
          PROVE  NotVoided(s, newPayments[q].invoice)'
      <3>1. CASE q = p
        BY <1>5, <2>1, <3>1
      <3>2. CASE q # p
        <4>1. newPayments'[q] = newPayments[q] /\ owner[q] = s
          BY <1>5, <2>3, <3>2 DEF Rows
        <4>2. newPayments[q].invoice \in Invoice /\ NotVoided(s, newPayments[q].invoice)
          BY <2>3, <4>1 DEF IInv, TypeOK, PaymentRow, InStep, BooksOnItsInvoices
        <4> QED
          BY <2>1, <4>1, <4>2
      <3> QED
        BY <3>1, <3>2
    <2> QED
      BY <2>2, <2>3 DEF BooksOnItsInvoices
  <1>11. InStep(s)'
    BY <1>7, <1>8, <1>9, <1>10 DEF InStep
  <1>12. row # Absent
    BY DEF Absent, Row
  <1>13. \A j \in Invoice : \/ newStatus'[j] = newStatus[j]
                            \/ /\ owner[j] = s
                               /\ newStatus[j] # "voided" /\ newStatus'[j] # "voided"
    BY <1>1, <1>5 DEF NotVoided
  <1> QED
    BY <1>3, <1>4, <1>5, <1>11, <1>12, <1>13, WriteInv DEF request

\* A payment is recorded against its invoice.
LEMMA InsertPaymentInv ==
  ASSUME NEW s \in Session, IInv, InsertPayment(s)
  PROVE  IInv'
  <1> DEFINE p == thePayment[s]
             i == theInvoice[s]
             left == Outstanding(s, i) - Amount[p]
  <1>1. /\ pc[s] = "sum" /\ kind[s] = "record" /\ owner' = Acquire(owner, s, p)
        /\ newPayments' = [newPayments EXCEPT ![p] = Row("matched", i, NoRow)]
        /\ newStatus' = [newStatus EXCEPT ![i] = StatusAfter(@, left)]
        /\ pc' = [pc EXCEPT ![s] = "commit"]
        /\ UNCHANGED <<committed, request, todo, query>>
    BY DEF InsertPayment, GoTo
  <1>2. p \in Payment /\ i \in Invoice /\ HasItsInvoice(s) /\ HasNoPayment(s)
    BY <1>1 DEF IInv, InStep, InItsRequest, HasItsLocks
  <1>3. NotVoided(s, i)
    BY <1>1, <1>2 DEF HasItsInvoice, NotVoided, Open
  \* The payment is new: nobody else has its row.
  <1>4. Available(owner, s, p)
    <2>1. payments[p] = Absent /\ \A t \in Session \ {s} : thePayment[t] # p
      BY <1>1 DEF IInv, NewPaymentsAreOwn
    <2>2. owner[p] \in Session \cup {NoSession}
      BY <1>2 DEF IInv, TypeOK
    <2>3. \A t \in Session : owner[p] = t => thePayment[t] = p
      BY <1>2, <2>1 DEF IInv, InStep, OnRecordedPayments
    <2> QED
      BY <2>1, <2>2, <2>3 DEF Available
  <1>5. Row("matched", i, NoRow) \in PaymentRow
    BY <1>2 DEF Row, PaymentRow, Match
  <1> HIDE DEF left
  <1> QED
    BY <1>1, <1>2, <1>3, <1>4, <1>5, BookInv DEF Row

\* What _allocate_payment writes is a row.
LEMMA AllocatedIsARow ==
  ASSUME NEW s \in Session, TypeOK, NEW p \in Payment, NEW i \in Invoice
  PROVE  /\ Allocated(s, newPayments[p], i) \in PaymentRow
         /\ Allocated(s, newPayments[p], i).match = "matched"
         /\ Allocated(s, newPayments[p], i).invoice = i
  BY DEF TypeOK, Allocated, Row, PaymentRow, Match

\* _allocate_payment books a payment as well.
LEMMA AllocateInv ==
  ASSUME NEW s \in Session, IInv, NEW p \in Payment, NEW i \in Invoice, NotVoided(s, i),
         Allocate(s, p, i), UNCHANGED <<committed, request, todo, query>>,
         payments[p] # Absent, kind[s] # "void", NEW next, pc' = [pc EXCEPT ![s] = next],
         next = "commit" \/ (next = "next" /\ kind[s] = "reconcile")
  PROVE  IInv'
  <1> DEFINE row == Allocated(s, newPayments[p], i)
             left == Total[i] - Sum(MatchedTo(s, i) \ {p}) - Amount[p]
  <1>1. row \in PaymentRow /\ row.match = "matched" /\ row.invoice = i
    BY AllocatedIsARow DEF IInv
  <1>2. newStatus' = [newStatus EXCEPT ![i] = StatusAfter(@, left)]
    BY DEF Allocate
  <1>3. /\ Available(owner, s, p) /\ owner' = Acquire(owner, s, p)
        /\ newPayments' = [newPayments EXCEPT ![p] = row]
    BY DEF Allocate, IInv, TypeOK
  <1> HIDE DEF row, left
  <1> QED
    BY <1>1, <1>2, <1>3, BookInv

\* A match is booked.
LEMMA AllocateMatchInv ==
  ASSUME NEW s \in Session, IInv, AllocateMatch(s)
  PROVE  IInv'
  <1> DEFINE p == thePayment[s]
             i == theInvoice[s]
  <1>1. /\ pc[s] = "allocate" /\ Allocate(s, p, i) /\ pc' = [pc EXCEPT ![s] = "commit"]
        /\ UNCHANGED <<committed, request, todo, query>>
    BY DEF AllocateMatch, GoTo
  <1>2. /\ p \in Payment /\ i \in Invoice /\ HasItsInvoice(s)
        /\ kind[s] \in {"match", "confirm"} /\ payments[p] # Absent
    BY <1>1 DEF IInv, InStep, InItsRequest, HasItsLocks, OnRecordedPayments
  <1>3. NotVoided(s, i)
    BY <1>1, <1>2 DEF HasItsInvoice, NotVoided, Open
  <1> QED
    BY <1>1, <1>2, <1>3, AllocateInv

\* A reconciliation books a payment.
LEMMA AllocateExactInv ==
  ASSUME NEW s \in Session, IInv, AllocateExact(s)
  PROVE  IInv'
  <1> DEFINE p == thePayment[s]
             i == Min(found[s])
  <1>1. /\ pc[s] = "exact" /\ Cardinality(found[s]) = 1 /\ Allocate(s, p, i)
        /\ pc' = [pc EXCEPT ![s] = "next"] /\ UNCHANGED <<committed, request, todo, query>>
    BY DEF AllocateExact, GoTo
  <1>2. /\ p \in Payment /\ payments[p] # Absent /\ kind[s] = "reconcile"
    BY <1>1 DEF IInv, InStep, InItsRequest, OnRecordedPayments
  <1>3. i \in found[s]
    <2>1. found[s] # {} /\ found[s] \subseteq Invoice
      BY <1>1, SomeMember DEF IInv, TypeOK
    <2> QED
      BY <2>1, MinIsMember
  <1>4. i \in Invoice /\ NotVoided(s, i)
    BY <1>3 DEF IInv, TypeOK, InStep, BooksOnItsInvoices
  <1> QED
    BY <1>1, <1>2, <1>4, AllocateInv

\* A suggestion books nothing.
LEMMA SuggestMatchInv ==
  ASSUME NEW s \in Session, IInv, SuggestMatch(s)
  PROVE  IInv'
  <1> DEFINE p == thePayment[s]
             i == Min(found[s])
             row == Suggested(newPayments[p], i)
  <1>1. /\ pc[s] \in {"exact", "date"} /\ Available(owner, s, p) /\ owner' = Acquire(owner, s, p)
        /\ newPayments' = [newPayments EXCEPT ![p] = Suggested(@, i)]
        /\ pc' = [pc EXCEPT ![s] = "next"]
        /\ UNCHANGED <<committed, newStatus, request, todo, query>>
    BY DEF SuggestMatch, GoTo
  <1>2. Cardinality(found[s]) > 1 \/ found[s] # {}
    BY DEF SuggestMatch
  <1>3. p \in Payment /\ payments[p] # Absent /\ kind[s] = "reconcile"
    BY <1>1 DEF IInv, InStep, InItsRequest, OnRecordedPayments
  <1>4. i \in Invoice
    <2>1. found[s] # {} /\ found[s] \subseteq Invoice
      BY <1>2, SomeMember DEF IInv, TypeOK
    <2> QED
      BY <2>1, MinIsMember
  <1>5. row \in PaymentRow /\ row.match = "suggested" /\ row # Absent
    BY <1>3, <1>4 DEF IInv, TypeOK, PaymentRow, Match, Absent, Row, Suggested
  <1>6. newPayments'[p] = row /\ \A q \in Payment \ {p} : newPayments'[q] = newPayments[q]
    BY <1>1, <1>3 DEF IInv, TypeOK, PaymentRow
  <1>7. newPayments' \in [Payment -> PaymentRow]
    BY <1>1, <1>3, <1>5, <1>6 DEF IInv, TypeOK
  <1> HIDE DEF row
  <1>8. TypeOK'
    BY <1>1, <1>3, <1>7 DEF IInv, TypeOK, Acquire, committed, query, request
  <1>9. \A t \in Session \ {s} : SameRequest(t)
    BY <1>1 DEF IInv, TypeOK, SameRequest, query, request
  <1>10. \A r \in Rows : owner'[r] = IF r = p THEN s ELSE owner[r]
    BY <1>1, <1>3 DEF IInv, TypeOK, Acquire, Rows
  <1>11. /\ pc'[s] = "next" /\ kind'[s] = kind[s] /\ todo'[s] = todo[s] /\ found'[s] = found[s]
    BY <1>1 DEF IInv, TypeOK, query, request
  <1>12. InItsRequest(s)' /\ HasItsLocks(s)'
    BY <1>3, <1>11 DEF InItsRequest, HasItsLocks
  <1>13. OnRecordedPayments(s)'
    <2>1. OnRecordedPayments(s) /\ payments' = payments
      BY <1>1 DEF IInv, InStep, committed
    <2>2. \A q \in Payment : owner'[q] = s => q = p \/ owner[q] = s
      BY <1>10 DEF Rows
    <2> QED
      BY <1>3, <1>11, <2>1, <2>2 DEF OnRecordedPayments
  <1>14. BooksOnItsInvoices(s)'
    <2>1. \A j \in Invoice : NotVoided(s, j) => NotVoided(s, j)'
      BY <1>1, <1>10 DEF NotVoided, Rows
    <2>2. \A j \in found'[s] : NotVoided(s, j)'
      BY <1>11, <2>1 DEF IInv, TypeOK, InStep, BooksOnItsInvoices
    <2>3. ASSUME NEW q \in Payment, owner'[q] = s, newPayments'[q].match = "matched"
          PROVE  NotVoided(s, newPayments[q].invoice)'
      <3>1. newPayments'[q] = newPayments[q] /\ owner[q] = s
        BY <1>5, <1>6, <1>10, <2>3 DEF Rows
      <3>2. newPayments[q].invoice \in Invoice /\ NotVoided(s, newPayments[q].invoice)
        BY <2>3, <3>1 DEF IInv, TypeOK, PaymentRow, InStep, BooksOnItsInvoices
      <3> QED
        BY <2>1, <3>1, <3>2
    <2> QED
      BY <2>2, <2>3 DEF BooksOnItsInvoices
  <1>15. InStep(s)'
    BY <1>12, <1>13, <1>14 DEF InStep
  <1> QED
    BY <1>1, <1>3, <1>5, <1>6, <1>8, <1>9, <1>15, WriteInv DEF request

\* An invoice without payments is voided.
LEMMA MarkVoidedInv ==
  ASSUME NEW s \in Session, IInv, MarkVoided(s)
  PROVE  IInv'
  <1> DEFINE i == theInvoice[s]
  <1>1. CASE Fail(s)
    BY <1>1, FailInv
  <1>2. CASE ~Fail(s)
    <2>1. /\ pc[s] = "sum" /\ kind[s] = "void" /\ MatchedTo(s, i) = {}
          /\ newStatus' = [newStatus EXCEPT ![i] = "voided"]
          /\ pc' = [pc EXCEPT ![s] = "commit"]
          /\ UNCHANGED <<committed, newPayments, owner, request, todo, query>>
      BY <1>2 DEF MarkVoided, GoTo, HasPayments
    <2>2. i \in Invoice /\ owner[i] = s /\ HasNoPayment(s)
      BY <2>1 DEF IInv, InStep, InItsRequest, HasItsLocks, HasItsInvoice
    <2>3. TypeOK'
      BY <2>1 DEF IInv, TypeOK, Status, committed, query, request
    <2>4. \A j \in Invoice : newStatus'[j] = IF j = i THEN "voided" ELSE newStatus[j]
      BY <2>1 DEF IInv, TypeOK
    \* It has no payment itself, so it has looked at the committed ones.
    <2>5. Settles(i) = {}
      BY <2>1, <2>2 DEF MatchedTo, PaymentFor, Settles, HasNoPayment
    <2>6. VersionsAgree'
      BY <2>1, <2>2, <2>4 DEF IInv, VersionsAgree, committed
    <2>7. \A j \in Invoice : Settles(j)' = Settles(j) /\ status'[j] = status[j]
      BY <2>1 DEF Settles, committed
    <2>8. VoidsStand' /\ VoidedHasNoPayments'
      BY <2>1, <2>4, <2>5, <2>7 DEF IInv, VoidsStand, VoidedHasNoPayments
    <2>9. NewPaymentsAreOwn'
      BY <2>1 DEF IInv, NewPaymentsAreOwn, committed, request
    <2>10. \A t \in Session \ {s} : LeavesAlone(t)
      BY <2>1, <2>2, <2>4 DEF IInv, TypeOK, LeavesAlone, committed, query, request
    <2>11. \A t \in Session \ {s} : InStep(t)'
      BY <2>10, StaysInStep DEF IInv
    <2>12. /\ pc'[s] = "commit" /\ kind'[s] = "void" /\ theInvoice'[s] = i
           /\ todo'[s] = todo[s] /\ found'[s] = found[s]
      BY <2>1 DEF IInv, TypeOK, query, request
    <2>13. found[s] = {}
      BY <2>1 DEF IInv, InStep, InItsRequest
    <2>14. InStep(s)'
      <3>1. InItsRequest(s)' /\ HasItsLocks(s)'
        BY <2>1, <2>2, <2>12, <2>13 DEF InItsRequest, HasItsLocks, HasNoPayment
      <3>2. OnRecordedPayments(s)' /\ BooksOnItsInvoices(s)'
        BY <2>1, <2>2, <2>12, <2>13
           DEF IInv, InStep, OnRecordedPayments, BooksOnItsInvoices, HasNoPayment, committed
      <3> QED
        BY <3>1, <3>2 DEF InStep
    <2> QED
      BY <2>3, <2>6, <2>8, <2>9, <2>11, <2>14 DEF IInv
  <1> QED
    BY <1>1, <1>2

\* Steps that only turn to the next statement.
LEMMA CheckBalanceInv ==
  ASSUME NEW s \in Session, IInv, CheckBalance(s)
  PROVE  IInv'
  <1>1. /\ pc[s] = "sum" /\ kind[s] \in {"match", "confirm"}
        /\ pc' = [pc EXCEPT ![s] = "allocate"]
        /\ UNCHANGED <<committed, newest, owner, request, todo, query>>
    BY DEF CheckBalance, GoTo
  <1>2. TypeOK' /\ \A t \in Session \ {s} : SameRequest(t)
    BY <1>1 DEF IInv, TypeOK, SameRequest, committed, newest, query, request
  <1>3. pc'[s] = "allocate" /\ InStep(s)
    BY <1>1 DEF IInv, TypeOK
  <1>4. InItsRequest(s)' /\ HasItsLocks(s)'
    BY <1>1, <1>3 DEF InStep, InItsRequest, HasItsLocks, HasItsPayment, HasItsInvoice, Open,
                      committed, newest, query, request
  <1>5. OnRecordedPayments(s)' /\ BooksOnItsInvoices(s)'
    BY <1>1, <1>3 DEF InStep, OnRecordedPayments, BooksOnItsInvoices, NotVoided,
                      committed, newest, query, request
  <1>6. NewPaymentsAreOwn'
    BY <1>1 DEF IInv, NewPaymentsAreOwn, committed, request
  <1> QED
    BY <1>1, <1>2, <1>4, <1>5, <1>6, LocalInv DEF InStep

\* A reconciliation reads the payments it will look at.
LEMMA ReadUnmatchedInv ==
  ASSUME NEW s \in Session, IInv, ReadUnmatched(s)
  PROVE  IInv'
  <1> DEFINE read == {p \in Payment : payments[p].match = "unmatched" /\ payments[p].invoice = NoRow}
  <1>1. /\ pc[s] = "read" /\ todo' = [todo EXCEPT ![s] = read]
        /\ pc' = [pc EXCEPT ![s] = "next"]
        /\ UNCHANGED <<committed, newest, owner, request, query>>
    BY DEF ReadUnmatched, GoTo
  <1>2. read \subseteq Payment /\ \A p \in read : payments[p] # Absent
    BY DEF Absent, Row
  <1> HIDE DEF read
  <1>3. TypeOK' /\ \A t \in Session \ {s} : SameRequest(t)
    BY <1>1, <1>2 DEF IInv, TypeOK, SameRequest, committed, newest, query, request
  <1>4. pc'[s] = "next" /\ todo'[s] = read /\ InStep(s)
    BY <1>1 DEF IInv, TypeOK
  <1>5. InItsRequest(s)' /\ HasItsLocks(s)'
    BY <1>1, <1>4 DEF InStep, InItsRequest, HasItsLocks, committed, newest, query, request
  <1>6. OnRecordedPayments(s)' /\ BooksOnItsInvoices(s)'
    BY <1>1, <1>2, <1>4 DEF InStep, InItsRequest, OnRecordedPayments, BooksOnItsInvoices, NotVoided,
                      committed, newest, query, request
  <1>7. NewPaymentsAreOwn'
    BY <1>1 DEF IInv, NewPaymentsAreOwn, committed, request
  <1> QED
    BY <1>1, <1>3, <1>5, <1>6, <1>7, LocalInv DEF InStep

\* It takes the next and finds the invoices of the same amount.
LEMMA ExactMatchesInv ==
  ASSUME NEW s \in Session, IInv, ExactMatches(s)
  PROVE  IInv'
  <1> DEFINE p == Min(todo[s])
             snapshot == {i \in OpenInvoices(s, p) : Outstanding(s, i) = Amount[p]}
  <1>1. /\ pc[s] = "next" /\ todo[s] # {} /\ todo' = [todo EXCEPT ![s] = @ \ {p}]
        /\ thePayment' = [thePayment EXCEPT ![s] = p]
        /\ candidates' = [candidates EXCEPT ![s] = snapshot]
        /\ found' = [found EXCEPT ![s] = {}] /\ pc' = [pc EXCEPT ![s] = "exact"]
        /\ UNCHANGED <<committed, newest, owner, kind, theInvoice>>
    BY DEF ExactMatches, GoTo
  <1>2. snapshot \subseteq Invoice
    BY DEF OpenInvoices
  <1> HIDE DEF snapshot
  <1>3. p \in todo[s] /\ p \in Payment /\ payments[p] # Absent /\ kind[s] = "reconcile"
    <2>1. p \in todo[s] /\ todo[s] \subseteq Payment
      BY <1>1, MinIsMember DEF IInv, TypeOK
    <2> QED
      BY <1>1, <2>1 DEF IInv, InStep, InItsRequest, OnRecordedPayments
  <1> HIDE DEF p
  <1>4. TypeOK' /\ \A t \in Session \ {s} : SameRequest(t)
    BY <1>1, <1>2, <1>3 DEF IInv, TypeOK, SameRequest, committed, newest
  <1>5. /\ pc'[s] = "exact" /\ kind'[s] = "reconcile" /\ thePayment'[s] = p
        /\ todo'[s] \subseteq todo[s] /\ found'[s] = {}
    BY <1>1, <1>3 DEF IInv, TypeOK
  <1>6. InItsRequest(s)' /\ HasItsLocks(s)'
    BY <1>3, <1>5 DEF InItsRequest, HasItsLocks
  <1>7. OnRecordedPayments(s)' /\ BooksOnItsInvoices(s)'
    BY <1>1, <1>3, <1>5 DEF IInv, InStep, InItsRequest, OnRecordedPayments, BooksOnItsInvoices,
                            NotVoided, committed, newest
  <1>8. NewPaymentsAreOwn'
    BY <1>1, <1>3 DEF IInv, TypeOK, InStep, InItsRequest, NewPaymentsAreOwn, committed
  <1> QED
    BY <1>1, <1>4, <1>6, <1>7, <1>8, LocalInv DEF InStep

\* Or those near its date.
LEMMA DateMatchesInv ==
  ASSUME NEW s \in Session, IInv, DateMatches(s)
  PROVE  IInv'
  <1>1. PICK near \in SUBSET Invoice :
           /\ pc[s] = "exact" /\ candidates' = [candidates EXCEPT ![s] = near]
           /\ pc' = [pc EXCEPT ![s] = IF near = {} THEN "next" ELSE "date"]
           /\ UNCHANGED <<committed, newest, owner, request, todo, found>>
    <2> DEFINE near == {i \in OpenInvoices(s, thePayment[s]) :
                           /\ Outstanding(s, i) >= Amount[thePayment[s]]
                           /\ Distance[thePayment[s]][i] =< Window}
    <2>1. near \in SUBSET Invoice
      BY DEF OpenInvoices
    <2> QED
      BY <2>1 DEF DateMatches, GoTo
  <1>2. TypeOK' /\ \A t \in Session \ {s} : SameRequest(t)
    BY <1>1 DEF IInv, TypeOK, SameRequest, committed, newest, request
  <1>3. pc'[s] \in {"next", "date"} /\ InStep(s)
    BY <1>1 DEF IInv, TypeOK
  <1>4. InItsRequest(s)' /\ HasItsLocks(s)'
    BY <1>1, <1>3 DEF InStep, InItsRequest, HasItsLocks, committed, newest, request
  <1>5. OnRecordedPayments(s)' /\ BooksOnItsInvoices(s)'
    BY <1>1, <1>3 DEF InStep, OnRecordedPayments, BooksOnItsInvoices, NotVoided,
                      committed, newest, request
  <1>6. NewPaymentsAreOwn'
    BY <1>1 DEF IInv, NewPaymentsAreOwn, committed, request
  <1> QED
    BY <1>1, <1>2, <1>4, <1>5, <1>6, LocalInv DEF InStep

\* It has looked at all of them.
LEMMA EndReconciliationInv ==
  ASSUME NEW s \in Session, IInv, EndReconciliation(s)
  PROVE  IInv'
  <1>1. /\ pc[s] = "next" /\ pc' = [pc EXCEPT ![s] = "commit"]
        /\ UNCHANGED <<committed, newest, owner, request, todo, query>>
    BY DEF EndReconciliation, GoTo
  <1>2. TypeOK' /\ \A t \in Session \ {s} : SameRequest(t)
    BY <1>1 DEF IInv, TypeOK, SameRequest, committed, newest, query, request
  <1>3. pc'[s] = "commit" /\ InStep(s)
    BY <1>1 DEF IInv, TypeOK
  <1>4. InItsRequest(s)' /\ HasItsLocks(s)'
    BY <1>1, <1>3 DEF InStep, InItsRequest, HasItsLocks, committed, newest, query, request
  <1>5. OnRecordedPayments(s)' /\ BooksOnItsInvoices(s)'
    BY <1>1, <1>3 DEF InStep, OnRecordedPayments, BooksOnItsInvoices, NotVoided,
                      committed, newest, query, request
  <1>6. NewPaymentsAreOwn'
    BY <1>1 DEF IInv, NewPaymentsAreOwn, committed, request
  <1> QED
    BY <1>1, <1>2, <1>4, <1>5, <1>6, LocalInv DEF InStep

\* The reconciliation locks an invoice, which it has found if it is still issued.
LEMMA FindInv ==
  ASSUME NEW s \in Session, IInv, pc[s] \in {"exact", "date"}, NEW i \in candidates[s],
         Lock(s, i), NEW rest \in SUBSET Invoice, candidates' = [candidates EXCEPT ![s] = rest],
         NEW fs \in SUBSET Invoice, found' = [found EXCEPT ![s] = fs],
         \A j \in fs : j \in found[s] \/ (j = i /\ StillIssued(s, i)),
         NEW next \in {"exact", "date", "next"}, pc' = [pc EXCEPT ![s] = next]
  PROVE  IInv'
  <1>1. /\ i \in Invoice /\ Available(owner, s, i) /\ owner' = Acquire(owner, s, i)
        /\ UNCHANGED <<committed, newest, request, todo>>
    BY DEF IInv, TypeOK, Lock
  <1>2. /\ owner' \in [Rows -> Session \cup {NoSession}]
        /\ owner'[i] = s /\ \A p \in Payment : owner'[p] = owner[p]
        /\ \A j \in Invoice : NotVoided(s, j) => NotVoided(s, j)'
        /\ newStatus[i] = StatusFor(s, i)
        /\ newStatus' = newStatus /\ newPayments' = newPayments
        /\ OnRecordedPayments(s)'
    BY <1>1, LocksAnInvoice
  <1>3. TypeOK' /\ \A t \in Session \ {s} : SameRequest(t)
    BY <1>1, <1>2 DEF IInv, TypeOK, SameRequest, committed, newest, request, Rows
  <1>4. pc'[s] = next /\ found'[s] = fs /\ InStep(s)
    BY DEF IInv, TypeOK
  <1>5. InItsRequest(s)' /\ HasItsLocks(s)'
    BY <1>1, <1>4 DEF InStep, InItsRequest, HasItsLocks, request
  <1>6. BooksOnItsInvoices(s)'
    <2>1. StillIssued(s, i) => NotVoided(s, i)'
      BY <1>2 DEF StillIssued, NotVoided
    <2>2. \A j \in fs : NotVoided(s, j)'
      BY <1>2, <1>4, <2>1 DEF InStep, BooksOnItsInvoices
    <2>3. ASSUME NEW p \in Payment, owner'[p] = s, newPayments'[p].match = "matched"
          PROVE  NotVoided(s, newPayments[p].invoice)'
      <3>1. NotVoided(s, newPayments[p].invoice) /\ newPayments[p].invoice \in Invoice
        BY <1>2, <1>4, <2>3 DEF IInv, TypeOK, PaymentRow, InStep, BooksOnItsInvoices
      <3> QED
        BY <1>2, <3>1
    <2> QED
      BY <1>4, <2>2, <2>3 DEF BooksOnItsInvoices
  <1>7. InStep(s)'
    BY <1>2, <1>5, <1>6 DEF InStep
  <1> QED
    BY <1>1, <1>3, <1>7, LockInv DEF Rows, request

\* It locks an invoice of the same amount.
LEMMA LockExactInv ==
  ASSUME NEW s \in Session, IInv, LockExact(s)
  PROVE  IInv'
  <1> DEFINE i == Min(candidates[s])
             rest == candidates[s] \ {i}
             fs == IF StillIssued(s, i) THEN found[s] \cup {i} ELSE found[s]
  <1>1. i \in candidates[s] /\ candidates[s] \subseteq Invoice /\ found[s] \subseteq Invoice
    BY MinIsMember DEF LockExact, IInv, TypeOK
  <1>2. /\ pc[s] = "exact" /\ Lock(s, i) /\ pc' = [pc EXCEPT ![s] = "exact"]
        /\ candidates' = [candidates EXCEPT ![s] = rest]
        /\ found' = [found EXCEPT ![s] = fs]
    BY DEF LockExact, IInv, TypeOK
  <1>3. /\ fs \in SUBSET Invoice
        /\ \A j \in fs : j \in found[s] \/ (j = i /\ StillIssued(s, i))
    BY <1>1
  <1>4. rest \in SUBSET Invoice
    BY <1>1
  <1>5. PICK next \in {"exact", "date", "next"} : pc' = [pc EXCEPT ![s] = next]
    BY <1>2
  <1> HIDE DEF i, rest, fs
  <1> QED
    BY <1>1, <1>2, <1>3, <1>4, <1>5, FindInv

\* It locks the nearest invoice.
LEMMA LockNearestInv ==
  ASSUME NEW s \in Session, IInv, LockNearest(s)
  PROVE  IInv'
  <1> DEFINE i == Nearest(s)
             rest == candidates[s] \ {i}
  <1>1. /\ pc[s] = "date" /\ candidates[s] # {} /\ Lock(s, i)
        /\ \/ /\ StillIssued(s, i)
              /\ candidates' = [candidates EXCEPT ![s] = {}]
              /\ found' = [found EXCEPT ![s] = {i}]
              /\ UNCHANGED pc
           \/ /\ candidates' = [candidates EXCEPT ![s] = rest]
              /\ pc' = [pc EXCEPT ![s] = IF rest = {} THEN "next" ELSE "date"]
              /\ UNCHANGED found
    BY DEF LockNearest, GoTo
  <1>2. i \in candidates[s]
    BY <1>1, NearestIsMember DEF IInv, InStep, InItsRequest
  <1>3. candidates[s] \subseteq Invoice /\ found[s] \subseteq Invoice
    BY DEF IInv, TypeOK
  <1> HIDE DEF i
  <1>4. CASE /\ StillIssued(s, i)
             /\ candidates' = [candidates EXCEPT ![s] = {}]
             /\ found' = [found EXCEPT ![s] = {i}]
             /\ UNCHANGED pc
    <2>1. pc' = [pc EXCEPT ![s] = "date"]
      BY <1>1, <1>4 DEF IInv, TypeOK
    <2>2. {i} \in SUBSET Invoice /\ {} \in SUBSET Invoice
      BY <1>2, <1>3
    <2>3. \A j \in {i} : j \in found[s] \/ (j = i /\ StillIssued(s, i))
      BY <1>4
    <2> QED
      BY <1>1, <1>2, <1>4, <2>1, <2>2, <2>3, FindInv
  <1>5. CASE /\ candidates' = [candidates EXCEPT ![s] = rest]
             /\ pc' = [pc EXCEPT ![s] = IF rest = {} THEN "next" ELSE "date"]
             /\ UNCHANGED found
    <2>1. found' = [found EXCEPT ![s] = found[s]]
      BY <1>5 DEF IInv, TypeOK
    <2>2. PICK next \in {"exact", "date", "next"} : pc' = [pc EXCEPT ![s] = next]
      BY <1>5
    <2>3. rest \in SUBSET Invoice
      BY <1>3
    <2> QED
      BY <1>1, <1>2, <1>3, <1>5, <2>1, <2>2, <2>3, FindInv
  <1> QED
    BY <1>1, <1>4, <1>5
-----------------------------------------------------------------------------
\* Any statement.
LEMMA StatementInv ==
  ASSUME NEW s \in Session, IInv, Statement(s)
  PROVE  IInv'
  <1>1. CASE LockPayment(s)       BY <1>1, LockPaymentInv
  <1>2. CASE LockInvoice(s)       BY <1>2, LockInvoiceInv
  <1>3. CASE InsertPayment(s)     BY <1>3, InsertPaymentInv
  <1>4. CASE CheckBalance(s)      BY <1>4, CheckBalanceInv
  <1>5. CASE RefuseAmount(s)      BY <1>5, FailInv DEF RefuseAmount
  <1>6. CASE MarkVoided(s)        BY <1>6, MarkVoidedInv
  <1>7. CASE AllocateMatch(s)     BY <1>7, AllocateMatchInv
  <1>8. CASE Commit(s)            BY <1>8, CommitInv
  <1>9. CASE ReadUnmatched(s)     BY <1>9, ReadUnmatchedInv
  <1>10. CASE ExactMatches(s)     BY <1>10, ExactMatchesInv
  <1>11. CASE LockExact(s)        BY <1>11, LockExactInv
  <1>12. CASE AllocateExact(s)    BY <1>12, AllocateExactInv
  <1>13. CASE DateMatches(s)      BY <1>13, DateMatchesInv
  <1>14. CASE LockNearest(s)      BY <1>14, LockNearestInv
  <1>15. CASE SuggestMatch(s)     BY <1>15, SuggestMatchInv
  <1>16. CASE EndReconciliation(s) BY <1>16, EndReconciliationInv
  <1> QED
    BY <1>1, <1>2, <1>3, <1>4, <1>5, <1>6, <1>7, <1>8, <1>9, <1>10, <1>11, <1>12, <1>13,
       <1>14, <1>15, <1>16 DEF Statement

\* Every step keeps the inductive invariant.
LEMMA NextInv == IInv /\ [Next]_vars => IInv'
  <1> SUFFICES ASSUME IInv, [Next]_vars PROVE IInv'
    OBVIOUS
  <1>1. CASE UNCHANGED vars
    <2>1. UNCHANGED <<committed, newest, owner, pc, request, todo, query>>
      BY <1>1 DEF vars
    <2>2. TypeOK' /\ VersionsAgree' /\ VoidsStand' /\ VoidedHasNoPayments' /\ NewPaymentsAreOwn'
      BY <2>1 DEF IInv, TypeOK, VersionsAgree, VoidsStand, VoidedHasNoPayments, Settles,
                  NewPaymentsAreOwn, committed, newest, request, query
    <2>3. \A s \in Session : LeavesAlone(s)
      BY <2>1 DEF LeavesAlone, committed, newest, request, query
    <2>4. \A s \in Session : InStep(s)'
      BY <2>3, StaysInStep DEF IInv
    <2> QED
      BY <2>2, <2>4 DEF IInv
  <1>2. ASSUME NEW s \in Session, Requests(s) PROVE IInv'
    BY <1>2, RequestsInv
  <1>3. ASSUME NEW s \in Session, Statement(s) PROVE IInv'
    BY <1>3, StatementInv
  <1>4. ASSUME NEW s \in Session, Abort(s) \/ BreakDeadlock(s) PROVE IInv'
    BY <1>4, FailInv DEF Abort, BreakDeadlock
  <1> QED
    BY <1>1, <1>2, <1>3, <1>4 DEF Next

\* The inductive invariant holds whatever runs together: sessions, invoices and
\* payments without number, reconciliations beside everything else.
THEOREM Invariance == Spec => []IInv
  BY InitInv, NextInv, PTL DEF Spec

\* Every row and every session is of its type; a payment that is matched has its
\* invoice and one with a suggestion its suggestion, in either version.
THEOREM TypeCorrect == Spec => []TypeOK
  BY Invariance, PTL DEF IInv

\* No payment is booked on a voided invoice: who books has the invoice, who voids it
\* has seen that no payment is there, and a reconciliation that has found it before
\* the void looks again once it has the lock.
THEOREM NothingOnVoided == Spec => []VoidedHasNoPayments
  BY Invariance, PTL DEF IInv

\* No step takes a void back.
LEMMA NextKeepsVoids ==
  IInv /\ [Next]_vars => \A i \in Invoice : status[i] = "voided" => status'[i] = "voided"
  <1> SUFFICES ASSUME IInv, [Next]_vars, NEW i \in Invoice, status[i] = "voided"
               PROVE  status'[i] = "voided"
    OBVIOUS
  <1>1. ASSUME NEW s \in Session, Commit(s) PROVE status'[i] = "voided"
    BY <1>1, CommitInv
  <1>2. ASSUME NEW s \in Session, Statement(s), ~Commit(s) PROVE status' = status
    BY <1>2
       DEF Statement, LockPayment, LockInvoice, InsertPayment, CheckBalance, RefuseAmount, MarkVoided,
           AllocateMatch, ReadUnmatched, ExactMatches, LockExact, AllocateExact, DateMatches,
           LockNearest, SuggestMatch, EndReconciliation, Lock, Fail, committed
  <1>3. ASSUME NEW s \in Session, Requests(s) \/ Abort(s) \/ BreakDeadlock(s)
        PROVE  status' = status
    BY <1>3 DEF Requests, RecordUnmatchedPayment, ConfirmSuggestedMatch, RecordPayment, ManualMatch,
                VoidInvoice, RunReconciliation, Begin, Abort, BreakDeadlock, Fail, committed
  <1>4. CASE UNCHANGED vars
    BY <1>4 DEF vars, committed
  <1> QED
    BY <1>1, <1>2, <1>3, <1>4 DEF Next

\* A void is never taken back: who decided a booking before the void has the
\* invoice's lock, or looks at its status again once it has it.
THEOREM VoidsAreFinal == Spec => VoidIsFinal
  BY Invariance, NextKeepsVoids, PTL DEF Spec, VoidIsFinal
-----------------------------------------------------------------------------
(* While reconciliations run alone                                         *)

\* The payments of an invoice in the newest version, and what is left to pay.
NewSettles(i) ==
    {p \in Payment : newPayments[p].match = "matched" /\ newPayments[p].invoice = i}
Left(i) == Total[i] - Sum(NewSettles(i))
LeftBefore(i) == Total[i] - Sum(Settles(i))

\* The newest version balances as the committed one does.
NewestInBalance ==
    \A i \in Invoice : /\ Sum(NewSettles(i)) =< Total[i]
                       /\ newStatus[i] = "paid" <=> Sum(NewSettles(i)) = Total[i]

\* Who reconciles is alone, and nobody overwrites a match.
Alone == \A s \in Session : kind[s] = "reconcile" =>
             \A t \in Session \ {s} : kind[t] = "none"
MatchesStand == \A p \in Payment : payments[p].match = "matched" => newPayments[p] = payments[p]

\* A row has an invoice when it is matched and a suggestion when it is suggested.
WellFormed(row) ==
    /\ row.match # "matched" => row.invoice = NoRow
    /\ row.match # "suggested" => row.suggested = NoRow
RowsWellFormed == \A p \in Payment : WellFormed(payments[p]) /\ WellFormed(newPayments[p])

\* The reconciliation has looked at no payment of its list yet, and what it books or
\* suggests fits the books as they were when it began.
SameCustomer(p, i) == PaidBy[p] = BilledTo[i]
\* Nobody has looked at the payment yet.
Untouched(p) == payments[p].match = "unmatched" /\ owner[p] = NoSession
\* It is booked on an invoice it pays exactly.
Booked(p) ==
    LET i == newPayments[p].invoice
    IN  /\ newPayments[p].match = "matched" /\ SameCustomer(p, i)
        /\ status[i] = "issued" /\ newStatus[i] = "paid" /\ Amount[p] = LeftBefore(i)
\* It has a suggestion that fits.
Proposed(p) ==
    LET i == newPayments[p].suggested
    IN  /\ newPayments[p].match = "suggested" /\ SameCustomer(p, i)
        /\ status[i] = "issued" /\ Amount[p] =< LeftBefore(i)
\* The payment the session looks at, and what its query has found for it.
Considered(s) ==
    LET p == thePayment[s]
    IN  /\ Untouched(p) /\ p \notin todo[s]
        /\ \A i \in candidates[s] \cup found[s] :
              /\ SameCustomer(p, i) /\ newStatus[i] = "issued" /\ Amount[p] =< Left(i)
              /\ pc[s] = "exact" => Amount[p] = Left(i)
\* Both payments are booked by the session, on one invoice.
SettleTheSame(s, p, q) ==
    /\ owner[p] = s /\ newPayments[p].match = "matched"
    /\ owner[q] = s /\ newPayments[q].match = "matched"
    /\ newPayments[p].invoice = newPayments[q].invoice
\* A reconciliation on its way: an invoice for each payment it books.
Reconciling(s) ==
    /\ \A p \in todo[s] : Untouched(p)
    /\ pc[s] \in {"exact", "date"} => Considered(s)
    /\ \A p \in Payment : owner[p] = s =>
           payments[p].match = "unmatched" /\ (Booked(p) \/ Proposed(p))
    /\ \A p, q \in Payment : SettleTheSame(s, p, q) => p = q

\* The other requests have no other rows than those they are about.
Booking(s) ==
    LET p == thePayment[s]
        i == theInvoice[s]
    IN  /\ \A q \in Payment : owner[q] = s => q = p
        /\ \A j \in Invoice : owner[j] = s => j = i
        /\ kind[s] = "record" => SameCustomer(p, i)
        /\ pc[s] = "allocate" => Amount[p] =< Left(i)
        /\ pc[s] = "commit" =>
              /\ owner[p] = s /\ owner[i] = s /\ newPayments[p] = Row("matched", i, NoRow)
              /\ SameCustomer(p, i) /\ payments[p].match # "matched"
              /\ kind[s] \in {"match", "confirm"} => status[i] = "issued"
\* A void has its invoice only.
Voiding(s) ==
    LET i == theInvoice[s]
    IN  /\ \A j \in Invoice : owner[j] = s => j = i
        /\ pc[s] = "commit" => owner[i] = s /\ newStatus[i] = "voided" /\ status[i] # "voided"

\* A session and what it will commit.
OnItsWay(s) ==
    /\ kind[s] = "reconcile" => Reconciling(s)
    /\ kind[s] \in {"record", "match", "confirm"} => Booking(s)
    /\ kind[s] = "void" => Voiding(s)
    /\ kind[s] # "void" => \A i \in Invoice : owner[i] = s => newStatus[i] \in {status[i], "paid"}
    /\ kind[s] # "reconcile" => todo[s] = {}

\* What holds besides IInv while reconciliations run alone.
BInv ==
    /\ Alone /\ MatchesStand /\ RowsWellFormed
    /\ NewestInBalance /\ NeverOverpaid /\ PaidInFull
    /\ \A s \in Session : OnItsWay(s)
-----------------------------------------------------------------------------
\* Sums of amounts (SumLaws of SumFacts).
LEMMA SumsOfPayments ==
  /\ Sum({}) = 0
  /\ \A ps \in SUBSET Payment : Sum(ps) \in Nat
  /\ \A ps \in SUBSET Payment : \A p \in Payment \ ps : Sum(ps \cup {p}) = Sum(ps) + Amount[p]
  <1>1. \A ps : Sum(ps) = SumOf(Amount, ps)
    BY DEF Sum, SumOf
  <1>2. IsFiniteSet(Payment) /\ Amount \in [Payment -> Nat]
    BY ReceivablesAssumption
  <1>3. /\ SumOf(Amount, {}) = 0
        /\ \A ps \in SUBSET Payment : SumOf(Amount, ps) \in Nat
        /\ \A ps \in SUBSET Payment : \A p \in ps :
              SumOf(Amount, ps) = Amount[p] + SumOf(Amount, ps \ {p})
    <2>1. SumsUp(Amount, Payment)
      <3>1. Amount \in [Payment -> Int]
        BY <1>2
      <3> QED
        BY <1>2, <3>1, SumLaws
    <2>2. \A ps \in SUBSET Payment : SumOf(Amount, ps) \in Nat
      BY <1>2, NaturalSums
    <2> QED
      BY <2>1, <2>2 DEF SumsUp
  <1>4. ASSUME NEW ps \in SUBSET Payment, NEW p \in Payment \ ps
        PROVE  SumOf(Amount, ps \cup {p}) = SumOf(Amount, ps) + Amount[p]
    <2>1. ps \cup {p} \in SUBSET Payment /\ (ps \cup {p}) \ {p} = ps /\ Amount[p] \in Nat
      BY <1>2
    <2>2. SumOf(Amount, ps \cup {p}) = Amount[p] + SumOf(Amount, (ps \cup {p}) \ {p})
      BY <1>3, <2>1
    <2>3. SumOf(Amount, ps) \in Nat
      BY <1>3
    <2> QED
      BY <2>1, <2>2, <2>3
  <1> QED
    BY <1>1, <1>3, <1>4

\* What the sums are taken over, and their amounts.
LEMMA BalanceTypes ==
  /\ \A i \in Invoice : /\ Total[i] \in Nat \ {0}
                        /\ Sum(Settles(i)) \in Nat /\ Sum(NewSettles(i)) \in Nat
                        /\ Left(i) = Total[i] - Sum(NewSettles(i))
                        /\ LeftBefore(i) = Total[i] - Sum(Settles(i))
  /\ \A p \in Payment : Amount[p] \in Nat \ {0}
  <1>1. \A i \in Invoice : Settles(i) \in SUBSET Payment /\ NewSettles(i) \in SUBSET Payment
    BY DEF Settles, NewSettles
  <1> QED
    BY <1>1, SumsOfPayments, ReceivablesAssumption DEF Left, LeftBefore

\* Who books on an invoice has it: a payment booked in the newest version is on
\* an invoice of the session that has it, or is committed.
BookersHaveInvoices ==
    \A p \in Payment : newPayments[p].match = "matched" /\ owner[p] # NoSession =>
        owner[newPayments[p].invoice] = owner[p] /\ newPayments[p].invoice \in Invoice

\* The invariant says so.
LEMMA BookerHasInvoice == IInv => BookersHaveInvoices
  <1> SUFFICES ASSUME IInv, NEW p \in Payment, newPayments[p].match = "matched",
                      owner[p] # NoSession
               PROVE  /\ owner[newPayments[p].invoice] = owner[p]
                      /\ newPayments[p].invoice \in Invoice
    BY DEF BookersHaveInvoices
  <1>1. owner[p] \in Session
    BY DEF IInv, TypeOK
  <1>2. newPayments[p].invoice \in Invoice
    BY DEF IInv, TypeOK, PaymentRow
  <1>3. BooksOnItsInvoices(owner[p])
    BY <1>1 DEF IInv, InStep
  <1> QED
    BY <1>2, <1>3 DEF BooksOnItsInvoices, NotVoided

\* And after the step.
LEMMA BookerHasInvoiceNext == IInv' => BookersHaveInvoices'
  BY BookerHasInvoice, PTL

\* What is committed is in the newest version.
LEMMA SettlesAreNew ==
  ASSUME MatchesStand, NEW i \in Invoice
  PROVE  Settles(i) \subseteq NewSettles(i)
  BY DEF MatchesStand, Settles, NewSettles

\* A SELECT that finds the invoice free, or its own, sees the newest version.
LEMMA SeesTheNewest ==
  ASSUME IInv, MatchesStand, NEW s \in Session, NEW i \in Invoice, Available(owner, s, i)
  PROVE  MatchedTo(s, i) = NewSettles(i) /\ StatusFor(s, i) = newStatus[i]
  <1>1. StatusFor(s, i) = newStatus[i]
    BY DEF IInv, VersionsAgree, StatusFor, Available
  <1>2. ASSUME NEW p \in Payment PROVE p \in MatchedTo(s, i) <=> p \in NewSettles(i)
    <2>1. CASE owner[p] = s
      BY <2>1 DEF MatchedTo, PaymentFor, NewSettles
    <2>2. CASE owner[p] = NoSession
      BY <2>2 DEF IInv, VersionsAgree, MatchedTo, PaymentFor, NewSettles
    <2>3. CASE owner[p] \notin {NoSession, s}
      <3>1. p \notin NewSettles(i)
        BY <2>3, BookerHasInvoice DEF BookersHaveInvoices, NewSettles, Available
      <3>2. p \notin Settles(i)
        BY <3>1, SettlesAreNew
      <3>3. PaymentFor(s, p) = payments[p]
        BY <2>3 DEF PaymentFor
      <3> QED
        BY <3>1, <3>2, <3>3 DEF MatchedTo, Settles
    <2> QED
      BY <2>1, <2>2, <2>3
  <1>3. MatchedTo(s, i) \subseteq Payment /\ NewSettles(i) \subseteq Payment
    BY DEF MatchedTo, NewSettles
  <1> QED
    BY <1>1, <1>2, <1>3

\* What a free invoice owes has one version.
FreeInvoicesAgree ==
    \A i \in Invoice : owner[i] = NoSession =>
        NewSettles(i) = Settles(i) /\ newStatus[i] = status[i]

\* The invariant says so.
LEMMA FreeInvoice == IInv /\ MatchesStand => FreeInvoicesAgree
  <1> SUFFICES ASSUME IInv, MatchesStand, NEW i \in Invoice, owner[i] = NoSession
               PROVE  NewSettles(i) = Settles(i) /\ newStatus[i] = status[i]
    BY DEF FreeInvoicesAgree
  <1>1. newStatus[i] = status[i]
    BY DEF IInv, VersionsAgree
  <1>2. ASSUME NEW p \in NewSettles(i) PROVE p \in Settles(i)
    <2>1. p \in Payment /\ owner[p] = NoSession
      BY BookerHasInvoice DEF BookersHaveInvoices, NewSettles
    <2> QED
      BY <2>1 DEF IInv, VersionsAgree, NewSettles, Settles
  <1> QED
    BY <1>1, <1>2, SettlesAreNew

\* And after the step.
LEMMA FreeInvoiceNext == IInv' /\ MatchesStand' => FreeInvoicesAgree'
  BY FreeInvoice, PTL

\* How a step of s changes the committed payments, if at all: it commits its own, or
\* records one that has not been there.
CommitsOwn(s) ==
    \A p \in Payment :
        \/ payments'[p] = payments[p]
        \/ owner[p] = s /\ payments'[p] = newPayments[p]
        \/ payments[p] = Absent /\ payments'[p].match # "matched"

\* It leaves the balances of the invoices the others have.
LEMMA OthersInBalance ==
  ASSUME IInv, IInv', MatchesStand, MatchesStand', NEW s \in Session, CommitsOwn(s),
         NEW t \in Session \ {s}, LeavesAlone(t), NEW i \in Invoice, owner[i] = t
  PROVE  NewSettles(i)' = NewSettles(i) /\ Settles(i)' = Settles(i)
  <1>1. BookersHaveInvoices /\ BookersHaveInvoices'
    BY BookerHasInvoice, BookerHasInvoiceNext
  <1>2. owner'[i] = t
    BY DEF LeavesAlone, Rows
  <1>3. ASSUME NEW p \in Payment
        PROVE  p \in Settles(i)' <=> p \in Settles(i)
    <2>1. CASE payments'[p] = payments[p]
      BY <2>1 DEF Settles
    <2>2. CASE owner[p] = s /\ payments'[p] = newPayments[p]
      <3>1. ~(newPayments[p].match = "matched" /\ newPayments[p].invoice = i)
        BY <1>1, <2>2 DEF BookersHaveInvoices
      <3> QED
        BY <2>2, <3>1 DEF Settles, MatchesStand
    <2>3. CASE payments[p] = Absent /\ payments'[p].match # "matched"
      BY <2>3 DEF Settles, Absent, Row
    <2> QED
      BY <2>1, <2>2, <2>3 DEF CommitsOwn
  <1>4. ASSUME NEW p \in Payment
        PROVE  p \in NewSettles(i)' <=> p \in NewSettles(i)
    <2>1. CASE owner[p] = t
      BY <2>1 DEF LeavesAlone, NewSettles
    <2>2. CASE owner[p] # t
      <3>1. owner'[p] # t
        BY <2>2 DEF LeavesAlone, Rows
      <3>2. ASSUME p \in NewSettles(i) PROVE p \in NewSettles(i)'
        <4>1. owner[p] = NoSession
          BY <1>1, <2>2, <3>2 DEF BookersHaveInvoices, NewSettles
        <4>2. p \in Settles(i)
          BY <3>2, <4>1 DEF IInv, VersionsAgree, Settles, NewSettles
        <4> QED
          BY <1>3, <4>2 DEF MatchesStand, Settles, NewSettles
      <3>3. ASSUME p \in NewSettles(i)' PROVE p \in NewSettles(i)
        <4>1. owner'[p] = NoSession
          BY <1>1, <1>2, <3>1, <3>3 DEF BookersHaveInvoices, NewSettles
        <4>2. p \in Settles(i)'
          BY <3>3, <4>1 DEF IInv, VersionsAgree, Settles, NewSettles
        <4> QED
          BY <1>3, <4>2 DEF MatchesStand, Settles, NewSettles
      <3> QED
        BY <3>2, <3>3
    <2> QED
      BY <2>1, <2>2
  <1>5. Settles(i) \subseteq Payment /\ NewSettles(i) \subseteq Payment
    BY DEF Settles, NewSettles
  <1>6. Settles(i)' \subseteq Payment /\ NewSettles(i)' \subseteq Payment
    BY DEF Settles, NewSettles
  <1> QED
    BY <1>3, <1>4, <1>5, <1>6

\* Who books or voids goes on as before.
LEMMA StaysOnItsWay ==
  ASSUME IInv, IInv', MatchesStand, MatchesStand', NEW s \in Session, CommitsOwn(s),
         NEW t \in Session \ {s}, LeavesAlone(t), OnItsWay(t), kind[t] # "reconcile"
  PROVE  OnItsWay(t)'
  <1>1. /\ pc'[t] = pc[t] /\ kind'[t] = kind[t] /\ thePayment'[t] = thePayment[t]
        /\ theInvoice'[t] = theInvoice[t] /\ todo'[t] = todo[t]
        /\ \A r \in Rows : owner'[r] = t <=> owner[r] = t
        /\ \A i \in Invoice : owner[i] = t => newStatus'[i] = newStatus[i] /\ status'[i] = status[i]
        /\ \A p \in Payment : owner[p] = t => newPayments'[p] = newPayments[p] /\ payments'[p] = payments[p]
    BY DEF LeavesAlone
  <1>2. InItsRequest(t) /\ HasItsLocks(t)
    BY DEF IInv, InStep
  <1>3. CASE kind[t] \in {"record", "match", "confirm"}
    <2>0. PICK p, i : p = thePayment[t] /\ i = theInvoice[t]
      OBVIOUS
    <2>1. p \in Payment /\ Booking(t)
      BY <1>2, <1>3, <2>0 DEF InItsRequest, OnItsWay
    <2>2. /\ p = thePayment'[t] /\ i = theInvoice'[t]
          /\ \A q \in Payment : owner'[q] = t => q = p
          /\ \A j \in Invoice : owner'[j] = t => j = i
      BY <1>1, <2>0, <2>1 DEF Booking, Rows
    <2>3. kind[t] = "record" => SameCustomer(p, i)
      BY <2>0, <2>1 DEF Booking
    <2>4. ASSUME pc[t] = "allocate" PROVE Amount[p] =< Left(i)'
      <3>1. i \in Invoice /\ owner[i] = t
        BY <1>2, <1>3, <2>0, <2>4 DEF InItsRequest, HasItsLocks, HasItsInvoice
      <3>2. NewSettles(i)' = NewSettles(i)
        BY <3>1, OthersInBalance
      <3>3. Left(i)' = Left(i)
        BY <3>2 DEF Left
      <3> QED
        BY <2>0, <2>1, <2>4, <3>3 DEF Booking
    <2>5. ASSUME pc[t] = "commit"
          PROVE  /\ owner'[p] = t /\ owner'[i] = t /\ newPayments'[p] = Row("matched", i, NoRow)
                 /\ SameCustomer(p, i) /\ payments'[p].match # "matched"
                 /\ kind[t] \in {"match", "confirm"} => status'[i] = "issued"
      <3>1. /\ i \in Invoice /\ owner[i] = t /\ owner[p] = t
            /\ newPayments[p] = Row("matched", i, NoRow) /\ payments[p].match # "matched"
            /\ SameCustomer(p, i)
            /\ kind[t] \in {"match", "confirm"} => status[i] = "issued"
        BY <1>2, <1>3, <2>0, <2>1, <2>5 DEF InItsRequest, Booking
      <3> QED
        BY <1>1, <2>1, <3>1 DEF Rows
    <2>6. Booking(t)'
      BY <1>1, <2>2, <2>3, <2>4, <2>5 DEF Booking, SameCustomer
    <2>7. \A j \in Invoice : owner'[j] = t => newStatus'[j] \in {status'[j], "paid"}
      BY <1>1, <1>3 DEF OnItsWay, Rows
    <2> QED
      BY <1>1, <1>3, <2>6, <2>7 DEF OnItsWay
  <1>4. CASE kind[t] = "void"
    <2>1. theInvoice[t] \in Invoice /\ Voiding(t)
      BY <1>2, <1>4 DEF InItsRequest, OnItsWay
    <2> QED
      BY <1>1, <1>4, <2>1 DEF OnItsWay, Voiding, Rows
  <1>5. CASE kind[t] = "none"
    BY <1>1, <1>5 DEF OnItsWay, Rows
  <1> QED
    BY <1>2, <1>3, <1>4, <1>5 DEF InItsRequest
-----------------------------------------------------------------------------

\* Nobody but a running reconciliation has a row.
LEMMA NobodyElse ==
  ASSUME IInv, Alone, NEW s \in Session, kind[s] = "reconcile"
  PROVE  /\ \A t \in Session \ {s} : kind[t] = "none" /\ pc[t] = "idle"
         /\ \A r \in Rows : owner[r] \in {NoSession, s}
  <1>1. \A t \in Session \ {s} : kind[t] = "none" /\ pc[t] = "idle" /\ HasNoLock(t)
    BY DEF IInv, Alone, InStep, InItsRequest, HasItsLocks
  <1>2. \A r \in Rows : owner[r] \in Session \cup {NoSession}
    BY DEF IInv, TypeOK, Rows
  <1> QED
    BY <1>1, <1>2 DEF HasNoLock

\* Who has no request has no lock.
LEMMA IdleHasNoLock ==
  ASSUME IInv, NEW s \in Session, kind[s] = "none"
  PROVE  HasNoLock(s) /\ pc[s] = "idle"
  BY DEF IInv, InStep, InItsRequest, HasItsLocks

\* The others go on as before; a reconciliation among them would be alone.
LEMMA OthersGoOn ==
  ASSUME IInv, IInv', BInv, MatchesStand', NEW s \in Session, CommitsOwn(s), kind[s] # "none",
         \A t \in Session \ {s} : LeavesAlone(t)
  PROVE  \A t \in Session \ {s} : OnItsWay(t)'
  <1>1. Alone /\ MatchesStand /\ \A t \in Session : OnItsWay(t)
    BY DEF BInv
  <1>2. \A t \in Session \ {s} : kind[t] # "reconcile"
    BY <1>1 DEF Alone
  <1> QED
    BY <1>1, <1>2, StaysOnItsWay

\* A reconciliation stays alone while nobody else begins.
LEMMA AloneStays ==
  ASSUME Alone, NEW s \in Session, kind'[s] \in {kind[s], "none"},
         \A t \in Session \ {s} : kind'[t] = kind[t]
  PROVE  Alone'
  BY DEF Alone

\* A step that changes no version.
LEMMA BooksUnchanged ==
  ASSUME UNCHANGED <<committed, newest>>, BInv
  PROVE  /\ MatchesStand' /\ RowsWellFormed' /\ NewestInBalance' /\ NeverOverpaid' /\ PaidInFull'
         /\ \A i \in Invoice : Left(i)' = Left(i) /\ LeftBefore(i)' = LeftBefore(i)
         /\ \A s \in Session : CommitsOwn(s)
  <1>1. /\ status' = status /\ payments' = payments
        /\ newStatus' = newStatus /\ newPayments' = newPayments
    BY DEF committed, newest
  <1>2. \A i \in Invoice : Settles(i)' = Settles(i) /\ NewSettles(i)' = NewSettles(i)
    BY <1>1 DEF Settles, NewSettles
  <1>3. MatchesStand' /\ RowsWellFormed'
    BY <1>1 DEF BInv, MatchesStand, RowsWellFormed
  <1>4. NewestInBalance' /\ NeverOverpaid' /\ PaidInFull'
    BY <1>1, <1>2 DEF BInv, NewestInBalance, NeverOverpaid, PaidInFull
  <1>5. \A i \in Invoice : Left(i)' = Left(i) /\ LeftBefore(i)' = LeftBefore(i)
    BY <1>2 DEF Left, LeftBefore
  <1>6. ASSUME NEW s \in Session PROVE CommitsOwn(s)
    <2>1. \A p \in Payment : payments'[p] = payments[p]
      BY <1>1
    <2> QED
      BY <2>1 DEF CommitsOwn
  <1> QED
    BY <1>3, <1>4, <1>5, <1>6

\* A statement that writes nothing, when the session itself is on its way after it.
LEMMA TurnOn ==
  ASSUME NEW s \in Session, IInv, IInv', BInv, UNCHANGED <<committed, newest>>,
         \A t \in Session \ {s} : SameRequest(t),
         \A t \in Session \ {s} : \A r \in Rows : owner'[r] = t <=> owner[r] = t,
         kind[s] # "none", kind'[s] = kind[s], OnItsWay(s)'
  PROVE  BInv'
  <1>1. \A t \in Session \ {s} : LeavesAlone(t)
    BY DEF LeavesAlone, SameRequest, committed, newest
  <1>2. MatchesStand' /\ CommitsOwn(s)
    BY BooksUnchanged
  <1>3. \A t \in Session \ {s} : OnItsWay(t)'
    BY <1>1, <1>2, OthersGoOn
  <1>4. Alone'
    BY AloneStays DEF BInv, SameRequest
  <1> QED
    BY <1>3, <1>4, BooksUnchanged DEF BInv

-----------------------------------------------------------------------------
\* A request begins.
LEMMA BeginInB ==
  ASSUME NEW s \in Session, IInv, IInv', BInv, Exclusive,
         NEW k, NEW p, NEW i, NEW first, Begin(s, k, p, i, first),
         k \in {"record", "match", "confirm", "void", "reconcile"},
         first \notin {"exact", "date", "allocate", "commit"},
         k = "record" => SameCustomer(p, i), k = "reconcile" => first = "read"
  PROVE  BInv'
  <1>1. /\ pc[s] = "idle" /\ UNCHANGED <<committed, newest>> /\ owner' = owner /\ todo' = todo
        /\ UNCHANGED query /\ MayStart(s, k)
    BY DEF Begin
  <1>2. /\ pc'[s] = first /\ kind'[s] = k /\ thePayment'[s] = p /\ theInvoice'[s] = i
        /\ \A t \in Session \ {s} : SameRequest(t)
    BY <1>1 DEF Begin, IInv, TypeOK, SameRequest, query
  <1>3. \A t \in Session \ {s} : kind[t] = "none" \/ (k # "reconcile" /\ kind[t] # "reconcile")
    <2>1. \A t \in Session \ {s} : pc[t] = "idle" => kind[t] = "none"
      BY DEF IInv, InStep, InItsRequest
    <2>2. \A t \in Session \ {s} : pc[t] = "idle" \/ (k # "reconcile" /\ kind[t] # "reconcile")
      BY <1>1 DEF MayStart
    <2> QED
      BY <2>1, <2>2
  <1>4. HasNoLock(s)' /\ HasNoLock(s)
    BY <1>1 DEF IInv, InStep, HasItsLocks, HasNoLock
  <1>5. /\ \A q \in Payment : owner'[q] # s
        /\ \A j \in Invoice : owner'[j] # s
    BY <1>4 DEF HasNoLock, Rows
  <1>6. todo'[s] = {}
    <2>1. kind[s] = "none"
      BY <1>1 DEF IInv, InStep, InItsRequest
    <2> QED
      BY <1>1, <2>1 DEF BInv, OnItsWay
  <1>7. OnItsWay(s)'
    <2>1. k = "reconcile" => Reconciling(s)'
      BY <1>2, <1>5, <1>6 DEF Reconciling, SettleTheSame
    <2>2. k = "void" => Voiding(s)'
      BY <1>2, <1>5 DEF Voiding
    <2>3. k \in {"record", "match", "confirm"} => Booking(s)'
      BY <1>2, <1>5 DEF Booking, SameCustomer
    <2> QED
      BY <1>2, <1>5, <1>6, <2>1, <2>2, <2>3 DEF OnItsWay
  <1>8. ASSUME NEW t \in Session \ {s} PROVE OnItsWay(t)'
    <2>1. OnItsWay(t) /\ SameRequest(t)
      BY <1>2 DEF BInv
    <2>2. LeavesAlone(t) /\ kind[t] # "reconcile"
      BY <1>1, <1>3, <2>1 DEF LeavesAlone, SameRequest, committed, newest
    <2>3. MatchesStand' /\ MatchesStand /\ CommitsOwn(s)
      BY <1>1, BooksUnchanged DEF BInv
    <2> QED
      BY <2>1, <2>2, <2>3, StaysOnItsWay
  <1>9. Alone'
    BY <1>2, <1>3 DEF Alone, SameRequest
  <1> QED
    BY <1>1, <1>7, <1>8, <1>9, BooksUnchanged DEF BInv
-----------------------------------------------------------------------------
\* A lock that is had changes no other.
LEMMA AcquireFacts ==
  ASSUME TypeOK, NEW s \in Session, NEW r \in Rows, Available(owner, s, r),
         owner' = Acquire(owner, s, r)
  PROVE  /\ \A q \in Rows : owner'[q] = IF q = r THEN s ELSE owner[q]
         /\ \A t \in Session \ {s} : \A q \in Rows : owner'[q] = t <=> owner[q] = t
  BY DEF TypeOK, Acquire, Available, Rows

\* The payment of a match is locked.
LEMMA LockPaymentInB ==
  ASSUME NEW s \in Session, IInv, IInv', BInv, LockPayment(s), ~Fail(s)
  PROVE  BInv'
  <1>0. PICK p : p = thePayment[s]
    OBVIOUS
  <1>1. /\ pc[s] = "payment" /\ Available(owner, s, p) /\ owner' = Acquire(owner, s, p)
        /\ pc' = [pc EXCEPT ![s] = "invoice"]
        /\ UNCHANGED <<committed, newest, kind, thePayment, todo, query>>
    BY <1>0 DEF LockPayment, GoTo
  <1>2. p \in Payment /\ kind[s] \in {"match", "confirm"} /\ HasNoLock(s)
    BY <1>0, <1>1 DEF IInv, InStep, InItsRequest, HasItsLocks
  <1>3. PICK new : theInvoice' = [theInvoice EXCEPT ![s] = new]
    BY <1>0, <1>1 DEF LockPayment, IInv, TypeOK
  <1>4. /\ \A t \in Session \ {s} : SameRequest(t)
        /\ pc'[s] = "invoice" /\ kind'[s] = kind[s] /\ thePayment'[s] = p /\ todo'[s] = todo[s]
    BY <1>0, <1>1, <1>3 DEF IInv, TypeOK, SameRequest, query
  <1>5. /\ \A t \in Session \ {s} : \A q \in Rows : owner'[q] = t <=> owner[q] = t
        /\ \A q \in Rows : owner'[q] = s => q = p
    BY <1>1, <1>2, AcquireFacts DEF IInv, HasNoLock, Rows
  <1>6. Booking(s)'
    BY <1>2, <1>4, <1>5 DEF Booking, Rows
  <1>7. OnItsWay(s)'
    BY <1>2, <1>4, <1>5, <1>6 DEF BInv, OnItsWay, Rows
  <1> QED
    BY <1>1, <1>2, <1>4, <1>5, <1>7, TurnOn

\* The invoice of a record, a match or a void is locked.
LEMMA LockInvoiceInB ==
  ASSUME NEW s \in Session, IInv, IInv', BInv, LockInvoice(s), ~Fail(s)
  PROVE  BInv'
  <1>0. PICK p, i : p = thePayment[s] /\ i = theInvoice[s]
    OBVIOUS
  <1>1. /\ pc[s] = "invoice" /\ Available(owner, s, i) /\ owner' = Acquire(owner, s, i)
        /\ pc' = [pc EXCEPT ![s] = "sum"]
        /\ UNCHANGED <<committed, newest, request, todo, query>>
    BY <1>0 DEF LockInvoice, ForUpdate, GoTo
  <1>2. /\ i \in Invoice /\ kind[s] \in {"record", "match", "confirm", "void"}
        /\ HasNoInvoice(s)
    BY <1>0, <1>1 DEF IInv, InStep, InItsRequest, HasItsLocks
  <1>3. /\ \A t \in Session \ {s} : SameRequest(t)
        /\ pc'[s] = "sum" /\ kind'[s] = kind[s] /\ thePayment'[s] = p /\ theInvoice'[s] = i
        /\ todo'[s] = todo[s] /\ newStatus' = newStatus /\ status' = status
    BY <1>0, <1>1 DEF IInv, TypeOK, SameRequest, query, request, newest, committed
  <1>4. /\ \A t \in Session \ {s} : \A q \in Rows : owner'[q] = t <=> owner[q] = t
        /\ \A q \in Payment : owner'[q] = owner[q]
        /\ \A j \in Invoice : owner'[j] = s => j = i
    <2>1. i \in Rows /\ TypeOK
      BY <1>2 DEF IInv, Rows
    <2>2. \A q \in Rows : owner'[q] = IF q = i THEN s ELSE owner[q]
      BY <1>1, <2>1, AcquireFacts
    <2>3. \A t \in Session \ {s} : \A q \in Rows : owner'[q] = t <=> owner[q] = t
      BY <1>1, <2>1, AcquireFacts
    <2> QED
      BY <1>2, <2>2, <2>3 DEF HasNoInvoice, Rows
  <1>5. newStatus[i] = status[i]
    BY <1>1, <1>2 DEF IInv, VersionsAgree, Available, HasNoInvoice
  <1>6. kind[s] # "void" => Booking(s)'
    <2>1. kind[s] # "void" => Booking(s)
      BY <1>2 DEF BInv, OnItsWay
    <2> QED
      BY <1>0, <1>3, <1>4, <2>1 DEF Booking, SameCustomer
  <1>7. kind[s] = "void" => Voiding(s)'
    BY <1>3, <1>4 DEF Voiding
  <1>8. OnItsWay(s)'
    BY <1>2, <1>3, <1>4, <1>5, <1>6, <1>7 DEF BInv, OnItsWay
  <1> QED
    BY <1>1, <1>2, <1>3, <1>4, <1>8, TurnOn DEF Rows

\* The amount fits the balance, which stays as it is under the lock.
LEMMA CheckBalanceInB ==
  ASSUME NEW s \in Session, IInv, IInv', BInv, CheckBalance(s)
  PROVE  BInv'
  <1>0. PICK p, i : p = thePayment[s] /\ i = theInvoice[s]
    OBVIOUS
  <1>1. /\ pc[s] = "sum" /\ kind[s] \in {"match", "confirm"}
        /\ ~Exceeds(s, p, i) /\ pc' = [pc EXCEPT ![s] = "allocate"]
        /\ UNCHANGED <<committed, newest, owner, request, todo, query>>
    BY <1>0 DEF CheckBalance, GoTo
  <1>2. p \in Payment /\ i \in Invoice /\ owner[i] = s
    BY <1>0, <1>1 DEF IInv, InStep, InItsRequest, HasItsLocks, HasItsInvoice
  <1>3. /\ \A t \in Session \ {s} : SameRequest(t)
        /\ pc'[s] = "allocate" /\ kind'[s] = kind[s] /\ thePayment'[s] = p /\ theInvoice'[s] = i
        /\ todo'[s] = todo[s] /\ newStatus' = newStatus /\ status' = status /\ owner' = owner
    BY <1>0, <1>1 DEF IInv, TypeOK, SameRequest, query, request, newest, committed
  <1>4. Amount[p] =< Left(i)
    <2>1. MatchedTo(s, i) = NewSettles(i)
      BY <1>2, SeesTheNewest DEF BInv, Available
    <2>2. Outstanding(s, i) = Left(i)
      BY <2>1 DEF Outstanding, Left
    <2>3. Left(i) \in Int /\ Amount[p] \in Nat
      BY <1>2, BalanceTypes
    <2> QED
      BY <1>1, <2>2, <2>3 DEF Exceeds
  <1>5. Left(i)' = Left(i)
    BY <1>1, <1>2, BooksUnchanged
  <1>6. Booking(s)'
    <2>1. Booking(s)
      BY <1>1 DEF BInv, OnItsWay
    <2> QED
      BY <1>0, <1>1, <1>3, <1>4, <1>5, <2>1 DEF Booking, SameCustomer
  <1>7. OnItsWay(s)'
    BY <1>1, <1>3, <1>6 DEF BInv, OnItsWay
  <1> QED
    BY <1>1, <1>3, <1>7, TurnOn
-----------------------------------------------------------------------------
\* The payments to reconcile stay unmatched while the reconciliation is alone.
LEMMA ReadUnmatchedInB ==
  ASSUME NEW s \in Session, IInv, IInv', BInv, ReadUnmatched(s)
  PROVE  BInv'
  <1> DEFINE read == {p \in Payment : payments[p].match = "unmatched" /\ payments[p].invoice = NoRow}
  <1>1. /\ pc[s] = "read" /\ todo' = [todo EXCEPT ![s] = read]
        /\ pc' = [pc EXCEPT ![s] = "next"]
        /\ UNCHANGED <<committed, newest, owner, request, query>>
    BY DEF ReadUnmatched, GoTo
  <1>2. kind[s] = "reconcile" /\ HasNoLock(s)
    BY <1>1 DEF IInv, InStep, InItsRequest, HasItsLocks
  <1>3. \A r \in Rows : owner[r] = NoSession
    BY <1>2, NobodyElse DEF BInv, HasNoLock
  <1>4. \A p \in read : Untouched(p)
    BY <1>3 DEF Untouched, Rows
  <1> HIDE DEF read
  <1>5. /\ \A t \in Session \ {s} : SameRequest(t)
        /\ pc'[s] = "next" /\ kind'[s] = kind[s] /\ todo'[s] = read
        /\ owner' = owner /\ payments' = payments
    BY <1>1 DEF IInv, TypeOK, SameRequest, query, request, committed
  <1>6. Reconciling(s)'
    BY <1>2, <1>3, <1>4, <1>5 DEF Reconciling, Untouched, SettleTheSame, HasNoLock, Rows
  <1>7. OnItsWay(s)'
    BY <1>2, <1>5, <1>6 DEF OnItsWay, HasNoLock, Rows
  <1> QED
    BY <1>1, <1>2, <1>5, <1>7, TurnOn

\* What a reconciliation has done so far goes on to hold while it looks for invoices.
LEMMA ReconcilingGoesOn ==
  ASSUME NEW s \in Session, IInv, BInv, kind[s] = "reconcile",
         UNCHANGED <<committed, newest>>, kind'[s] = kind[s], todo'[s] \subseteq todo[s],
         \A p \in Payment : owner'[p] = owner[p],
         \A i \in Invoice : owner'[i] = s => owner[i] \in {NoSession, s},
         pc'[s] \in {"exact", "date"} => Considered(s)'
  PROVE  OnItsWay(s)'
  <1>1. /\ status' = status /\ newStatus' = newStatus
        /\ payments' = payments /\ newPayments' = newPayments
    BY DEF committed, newest
  <1>2. Reconciling(s) /\ \A i \in Invoice : owner[i] = s => newStatus[i] \in {status[i], "paid"}
    BY DEF BInv, OnItsWay
  <1>3. \A p \in todo'[s] : Untouched(p)'
    BY <1>1, <1>2 DEF Reconciling, Untouched, IInv, TypeOK
  <1>4. ASSUME NEW p \in Payment, owner'[p] = s
        PROVE  payments'[p].match = "unmatched" /\ (Booked(p)' \/ Proposed(p)')
    <2>1. payments[p].match = "unmatched" /\ (Booked(p) \/ Proposed(p))
      BY <1>2, <1>4 DEF Reconciling
    <2>2. PICK i, j : i = newPayments[p].invoice /\ j = newPayments[p].suggested
      OBVIOUS
    <2>3. i = newPayments'[p].invoice /\ j = newPayments'[p].suggested
      BY <1>1, <2>2
    <2>4. newPayments[p].match = "matched" => i \in Invoice
      BY <2>2 DEF IInv, TypeOK, PaymentRow
    <2>5. newPayments[p].match = "suggested" => j \in Invoice
      BY <2>2 DEF IInv, TypeOK, PaymentRow
    <2>6. \A k \in Invoice : LeftBefore(k)' = LeftBefore(k)
      BY BooksUnchanged
    <2>7. Booked(p) => Booked(p)'
      BY <1>1, <2>2, <2>3, <2>4, <2>6 DEF Booked, SameCustomer
    <2>8. Proposed(p) => Proposed(p)'
      BY <1>1, <2>2, <2>3, <2>5, <2>6 DEF Proposed, SameCustomer
    <2> QED
      BY <1>1, <2>1, <2>7, <2>8
  <1>5. Reconciling(s)'
    <2>1. \A p, q \in Payment : SettleTheSame(s, p, q)' => p = q
      BY <1>1, <1>2 DEF Reconciling, SettleTheSame
    <2> QED
      BY <1>3, <1>4, <2>1 DEF Reconciling
  <1>6. \A i \in Invoice : owner'[i] = s => newStatus'[i] \in {status'[i], "paid"}
    BY <1>1, <1>2 DEF IInv, VersionsAgree
  <1> QED
    BY <1>5, <1>6 DEF OnItsWay

\* The invoices a snapshot has: open ones of the payment's customer with enough left.
LEMMA SnapshotFits ==
  ASSUME NEW s \in Session, IInv, BInv, kind[s] = "reconcile", NEW p \in Payment,
         NEW i \in OpenInvoices(s, p)
  PROVE  i \in Invoice /\ SameCustomer(p, i) /\ newStatus[i] = "issued" /\ Outstanding(s, i) = Left(i)
  <1>1. i \in Invoice /\ SameCustomer(p, i) /\ StatusFor(s, i) = "issued"
    BY DEF OpenInvoices, SameCustomer
  <1>2. Available(owner, s, i)
    BY <1>1, NobodyElse DEF BInv, Available, Rows
  <1>3. MatchedTo(s, i) = NewSettles(i) /\ StatusFor(s, i) = newStatus[i]
    BY <1>1, <1>2, SeesTheNewest DEF BInv
  <1> QED
    BY <1>1, <1>3 DEF Outstanding, Left

\* The invoices of the same amount.
LEMMA ExactMatchesInB ==
  ASSUME NEW s \in Session, IInv, IInv', BInv, ExactMatches(s)
  PROVE  BInv'
  <1>0. PICK p : p = Min(todo[s])
    OBVIOUS
  <1>1. PICK snapshot : snapshot = {i \in OpenInvoices(s, p) : Outstanding(s, i) = Amount[p]}
    OBVIOUS
  <1>2. /\ pc[s] = "next" /\ todo[s] # {} /\ todo' = [todo EXCEPT ![s] = @ \ {p}]
        /\ thePayment' = [thePayment EXCEPT ![s] = p]
        /\ candidates' = [candidates EXCEPT ![s] = snapshot]
        /\ found' = [found EXCEPT ![s] = {}] /\ pc' = [pc EXCEPT ![s] = "exact"]
        /\ UNCHANGED <<committed, newest, owner, kind, theInvoice>>
    BY <1>0, <1>1 DEF ExactMatches, GoTo
  <1>3. p \in todo[s] /\ p \in Payment /\ kind[s] = "reconcile"
    <2>1. p \in todo[s] /\ todo[s] \subseteq Payment
      BY <1>0, <1>2, MinIsMember DEF IInv, TypeOK
    <2> QED
      BY <1>2, <2>1 DEF IInv, InStep, InItsRequest
  <1>4. /\ pc'[s] = "exact" /\ kind'[s] = kind[s] /\ thePayment'[s] = p
        /\ todo'[s] = todo[s] \ {p} /\ found'[s] = {} /\ candidates'[s] = snapshot
        /\ \A t \in Session \ {s} : SameRequest(t)
        /\ owner' = owner /\ payments' = payments /\ newStatus' = newStatus
    BY <1>2 DEF IInv, TypeOK, SameRequest, committed, newest
  <1>5. Considered(s)'
    <2>1. \A i \in snapshot : /\ SameCustomer(p, i) /\ newStatus[i] = "issued"
                              /\ Amount[p] = Left(i) /\ Left(i)' = Left(i)
      BY <1>1, <1>2, <1>3, SnapshotFits, BooksUnchanged
    <2>2. Untouched(p)
      BY <1>3 DEF BInv, OnItsWay, Reconciling
    <2>3. Amount[p] \in Nat
      BY <1>3, BalanceTypes
    <2>4. Untouched(p)'
      BY <1>4, <2>2 DEF Untouched
    <2>5. \A i \in candidates'[s] \cup found'[s] : SameCustomer(p, i)' /\ newStatus'[i] = "issued"
              /\ Amount[p] = Left(i)'
      BY <1>4, <2>1 DEF SameCustomer
    <2> QED
      BY <1>4, <2>3, <2>4, <2>5 DEF Considered
  <1>6. OnItsWay(s)'
    BY <1>2, <1>3, <1>4, <1>5, ReconcilingGoesOn
  <1> QED
    BY <1>2, <1>3, <1>4, <1>6, TurnOn

\* The invoices near the date.
LEMMA DateMatchesInB ==
  ASSUME NEW s \in Session, IInv, IInv', BInv, DateMatches(s)
  PROVE  BInv'
  <1>0. PICK p : p = thePayment[s]
    OBVIOUS
  <1>1. PICK near : near = {i \in OpenInvoices(s, p) : /\ Outstanding(s, i) >= Amount[p]
                                                       /\ Distance[p][i] =< Window}
    OBVIOUS
  <1>2. /\ pc[s] = "exact" /\ found[s] = {} /\ candidates' = [candidates EXCEPT ![s] = near]
        /\ pc' = [pc EXCEPT ![s] = IF near = {} THEN "next" ELSE "date"]
        /\ UNCHANGED <<committed, newest, owner, request, todo, found>>
    BY <1>0, <1>1 DEF DateMatches, GoTo
  <1>3. p \in Payment /\ kind[s] = "reconcile"
    BY <1>0, <1>2 DEF IInv, InStep, InItsRequest
  <1>4. /\ pc'[s] # "exact" /\ kind'[s] = kind[s] /\ thePayment'[s] = p
        /\ todo'[s] = todo[s] /\ found'[s] = {} /\ candidates'[s] = near
        /\ \A t \in Session \ {s} : SameRequest(t)
        /\ owner' = owner /\ payments' = payments /\ newStatus' = newStatus
    BY <1>0, <1>2 DEF IInv, TypeOK, SameRequest, committed, newest, request
  <1>5. Considered(s)'
    <2>1. \A i \in near : /\ i \in Invoice /\ SameCustomer(p, i) /\ newStatus[i] = "issued"
                          /\ Outstanding(s, i) = Left(i) /\ Left(i)' = Left(i)
      BY <1>1, <1>2, <1>3, SnapshotFits, BooksUnchanged
    <2>2. Untouched(p) /\ p \notin todo[s]
      BY <1>0, <1>2, <1>3 DEF BInv, OnItsWay, Reconciling, Considered
    <2>3. \A i \in near : Amount[p] =< Left(i)
      BY <1>1, <1>3, <2>1, BalanceTypes
    <2>4. Untouched(p)'
      BY <1>4, <2>2 DEF Untouched
    <2>5. \A i \in candidates'[s] \cup found'[s] : SameCustomer(p, i)' /\ newStatus'[i] = "issued"
              /\ Amount[p] =< Left(i)'
      BY <1>4, <2>1, <2>3 DEF SameCustomer
    <2> QED
      BY <1>4, <2>2, <2>4, <2>5 DEF Considered
  <1>6. OnItsWay(s)'
    BY <1>2, <1>3, <1>4, <1>5, ReconcilingGoesOn
  <1> QED
    BY <1>2, <1>3, <1>4, <1>6, TurnOn

\* An invoice of the snapshot is locked and kept or dropped.
LEMMA FindInB ==
  ASSUME NEW s \in Session, IInv, IInv', BInv, pc[s] \in {"exact", "date"}, NEW i \in candidates[s],
         Lock(s, i), NEW rest \in SUBSET candidates[s], candidates' = [candidates EXCEPT ![s] = rest],
         NEW fs \in SUBSET Invoice, found' = [found EXCEPT ![s] = fs],
         fs \subseteq found[s] \cup {i},
         NEW next \in {pc[s], "next"}, pc' = [pc EXCEPT ![s] = next]
  PROVE  BInv'
  <1>0. PICK p : p = thePayment[s]
    OBVIOUS
  <1>1. /\ i \in Invoice /\ Available(owner, s, i) /\ owner' = Acquire(owner, s, i)
        /\ UNCHANGED <<committed, newest, request, todo>>
    BY DEF IInv, TypeOK, Lock
  <1>2. p \in Payment /\ kind[s] = "reconcile"
    BY <1>0 DEF IInv, InStep, InItsRequest
  <1>3. /\ pc'[s] = next /\ kind'[s] = kind[s] /\ thePayment'[s] = p
        /\ todo'[s] = todo[s] /\ found'[s] = fs /\ candidates'[s] = rest
        /\ \A t \in Session \ {s} : SameRequest(t)
        /\ payments' = payments /\ newStatus' = newStatus
    BY <1>0, <1>1 DEF IInv, TypeOK, SameRequest, committed, newest, request
  <1>4. /\ \A q \in Rows : owner'[q] = IF q = i THEN s ELSE owner[q]
        /\ \A t \in Session \ {s} : \A q \in Rows : owner'[q] = t <=> owner[q] = t
    <2>1. i \in Rows /\ TypeOK
      BY <1>1 DEF IInv, Rows
    <2> QED
      BY <1>1, <2>1, AcquireFacts
  <1>5. /\ \A q \in Payment : owner'[q] = owner[q]
        /\ \A j \in Invoice : owner'[j] = s => owner[j] \in {NoSession, s}
    BY <1>1, <1>4 DEF Available, Rows
  <1>6. ASSUME pc'[s] \in {"exact", "date"} PROVE Considered(s)'
    <2>1. next = pc[s] /\ Considered(s)
      BY <1>2, <1>3, <1>6 DEF BInv, OnItsWay, Reconciling
    <2>2. /\ Untouched(p) /\ p \notin todo[s]
          /\ \A j \in candidates[s] \cup found[s] :
                /\ SameCustomer(p, j) /\ newStatus[j] = "issued" /\ Amount[p] =< Left(j)
                /\ pc[s] = "exact" => Amount[p] = Left(j)
      BY <1>0, <2>1 DEF Considered
    <2>3. Untouched(p)'
      BY <1>2, <1>3, <1>5, <2>2 DEF Untouched
    <2>4. candidates'[s] \cup found'[s] \subseteq candidates[s] \cup found[s]
      BY <1>3
    <2>5. candidates[s] \cup found[s] \subseteq Invoice
      BY DEF IInv, TypeOK
    <2>6. \A j \in Invoice : Left(j)' = Left(j)
      BY <1>1, BooksUnchanged
    <2>7. \A j \in candidates'[s] \cup found'[s] :
              /\ SameCustomer(p, j)' /\ newStatus'[j] = "issued" /\ Amount[p] =< Left(j)'
              /\ pc'[s] = "exact" => Amount[p] = Left(j)'
      BY <1>3, <2>1, <2>2, <2>4, <2>5, <2>6 DEF SameCustomer
    <2> QED
      BY <1>3, <2>2, <2>3, <2>7 DEF Considered
  <1>7. OnItsWay(s)'
    BY <1>1, <1>2, <1>3, <1>5, <1>6, ReconcilingGoesOn
  <1> QED
    BY <1>1, <1>2, <1>3, <1>4, <1>7, TurnOn

\* One of the same amount.
LEMMA LockExactInB ==
  ASSUME NEW s \in Session, IInv, IInv', BInv, LockExact(s)
  PROVE  BInv'
  <1> DEFINE i == Min(candidates[s])
             rest == candidates[s] \ {i}
             fs == IF StillIssued(s, i) THEN found[s] \cup {i} ELSE found[s]
  <1>1. i \in candidates[s] /\ candidates[s] \subseteq Invoice /\ found[s] \subseteq Invoice
    BY MinIsMember DEF LockExact, IInv, TypeOK
  <1>2. /\ pc[s] = "exact" /\ Lock(s, i) /\ pc' = [pc EXCEPT ![s] = "exact"]
        /\ candidates' = [candidates EXCEPT ![s] = rest]
        /\ found' = [found EXCEPT ![s] = fs]
    BY DEF LockExact, IInv, TypeOK
  <1>3. fs \in SUBSET Invoice /\ fs \subseteq found[s] \cup {i} /\ rest \in SUBSET candidates[s]
    BY <1>1
  <1>4. PICK next \in {pc[s], "next"} : pc' = [pc EXCEPT ![s] = next]
    BY <1>2
  <1> HIDE DEF i, rest, fs
  <1> QED
    BY <1>1, <1>2, <1>3, <1>4, FindInB

\* The nearest.
LEMMA LockNearestInB ==
  ASSUME NEW s \in Session, IInv, IInv', BInv, LockNearest(s)
  PROVE  BInv'
  <1> DEFINE i == Nearest(s)
             rest == candidates[s] \ {i}
  <1>1. /\ pc[s] = "date" /\ candidates[s] # {} /\ Lock(s, i)
        /\ \/ /\ candidates' = [candidates EXCEPT ![s] = {}]
              /\ found' = [found EXCEPT ![s] = {i}]
              /\ UNCHANGED pc
           \/ /\ candidates' = [candidates EXCEPT ![s] = rest]
              /\ pc' = [pc EXCEPT ![s] = IF rest = {} THEN "next" ELSE "date"]
              /\ UNCHANGED found
    BY DEF LockNearest, GoTo
  <1>2. i \in candidates[s]
    BY <1>1, NearestIsMember DEF IInv, InStep, InItsRequest
  <1>3. candidates[s] \subseteq Invoice /\ found[s] \subseteq Invoice
    BY DEF IInv, TypeOK
  <1>4. rest \in SUBSET candidates[s]
    OBVIOUS
  <1> HIDE DEF i, rest
  <1>5. CASE /\ candidates' = [candidates EXCEPT ![s] = {}]
             /\ found' = [found EXCEPT ![s] = {i}]
             /\ UNCHANGED pc
    <2>1. PICK next \in {pc[s], "next"} : pc' = [pc EXCEPT ![s] = next]
      BY <1>1, <1>5 DEF IInv, TypeOK
    <2>2. {i} \in SUBSET Invoice /\ {} \in SUBSET candidates[s] /\ {i} \subseteq found[s] \cup {i}
      BY <1>2, <1>3
    <2> QED
      BY <1>1, <1>2, <1>5, <2>1, <2>2, FindInB
  <1>6. CASE /\ candidates' = [candidates EXCEPT ![s] = rest]
             /\ pc' = [pc EXCEPT ![s] = IF rest = {} THEN "next" ELSE "date"]
             /\ UNCHANGED found
    <2>1. found' = [found EXCEPT ![s] = found[s]]
      BY <1>6 DEF IInv, TypeOK
    <2>2. PICK next \in {pc[s], "next"} : pc' = [pc EXCEPT ![s] = next]
      BY <1>1, <1>6
    <2> QED
      BY <1>1, <1>2, <1>3, <1>4, <1>6, <2>1, <2>2, FindInB
  <1> QED
    BY <1>1, <1>5, <1>6

\* All have been looked at.
LEMMA EndReconciliationInB ==
  ASSUME NEW s \in Session, IInv, IInv', BInv, EndReconciliation(s)
  PROVE  BInv'
  <1>1. /\ pc[s] = "next" /\ pc' = [pc EXCEPT ![s] = "commit"]
        /\ UNCHANGED <<committed, newest, owner, request, todo, query>>
    BY DEF EndReconciliation, GoTo
  <1>2. kind[s] = "reconcile"
    BY <1>1 DEF IInv, InStep, InItsRequest
  <1>3. /\ \A t \in Session \ {s} : SameRequest(t)
        /\ pc'[s] = "commit" /\ kind'[s] = kind[s] /\ todo'[s] = todo[s] /\ owner' = owner
    BY <1>1 DEF IInv, TypeOK, SameRequest, query, request
  <1>4. OnItsWay(s)'
    BY <1>1, <1>2, <1>3, ReconcilingGoesOn
  <1> QED
    BY <1>1, <1>2, <1>3, <1>4, TurnOn
-----------------------------------------------------------------------------
\* A session that writes a payment, and one of its invoices if it books the payment.
Writes(s, p, row) ==
    /\ Available(owner, s, p) /\ owner' = Acquire(owner, s, p)
    /\ newPayments' = [newPayments EXCEPT ![p] = row]
    /\ UNCHANGED <<committed, request, todo, query>>

\* What a payment written by one session leaves alone.
LEMMA WriteInB ==
  ASSUME NEW s \in Session, IInv, IInv', BInv, NEW p \in Payment, NEW row \in PaymentRow,
         Writes(s, p, row), WellFormed(row), payments[p].match # "matched",
         \A i \in Invoice : newStatus'[i] = newStatus[i] \/ owner[i] = s,
         NewestInBalance', NEW next, pc' = [pc EXCEPT ![s] = next],
         kind[s] # "none", OnItsWay(s)'
  PROVE  BInv'
  <1>1. /\ payments' = payments /\ status' = status
        /\ newPayments'[p] = row /\ \A q \in Payment \ {p} : newPayments'[q] = newPayments[q]
        /\ \A q \in Rows : owner'[q] = IF q = p THEN s ELSE owner[q]
        /\ \A t \in Session : kind'[t] = kind[t]
    BY DEF Writes, IInv, TypeOK, committed, request, Acquire, Rows
  <1>2. \A t \in Session \ {s} : LeavesAlone(t)
    BY <1>1 DEF LeavesAlone, IInv, TypeOK, Writes, Available, committed, query, request, Rows
  <1>3. MatchesStand' /\ RowsWellFormed'
    BY <1>1 DEF BInv, MatchesStand, RowsWellFormed
  <1>4. \A i \in Invoice : Settles(i)' = Settles(i)
    BY <1>1 DEF Settles
  <1>5. NeverOverpaid' /\ PaidInFull'
    BY <1>1, <1>4 DEF BInv, NeverOverpaid, PaidInFull
  <1>6. CommitsOwn(s)
    BY <1>1 DEF CommitsOwn
  <1>7. Alone'
    BY <1>1 DEF BInv, Alone
  <1>8. \A t \in Session \ {s} : OnItsWay(t)'
    BY <1>2, <1>3, <1>6, OthersGoOn
  <1> QED
    BY <1>3, <1>5, <1>7, <1>8 DEF BInv

\* The newest version still balances when an open payment is booked on an invoice of
\* which its amount is left.
LEMMA BookingBalances ==
  ASSUME IInv, BInv, NEW p \in Payment, NEW i \in Invoice, newPayments[p].match # "matched",
         Amount[p] =< Left(i), NEW row \in PaymentRow, row.match = "matched", row.invoice = i,
         newPayments' = [newPayments EXCEPT ![p] = row],
         newStatus' = [newStatus EXCEPT ![i] = StatusAfter(@, Left(i) - Amount[p])]
  PROVE  /\ NewestInBalance'
         /\ newStatus'[i] = IF Amount[p] = Left(i) THEN "paid" ELSE newStatus[i]
         /\ \A j \in Invoice \ {i} : newStatus'[j] = newStatus[j]
  <1>1. /\ newPayments'[p] = row /\ \A q \in Payment \ {p} : newPayments'[q] = newPayments[q]
    BY DEF IInv, TypeOK
  <1>2. \A j \in Invoice \ {i} : newStatus'[j] = newStatus[j]
    BY DEF IInv, TypeOK
  <1>3. Left(i) \in Int /\ Amount[p] \in Nat \ {0} /\ Sum(NewSettles(i)) \in Nat
        /\ Total[i] \in Nat \ {0} /\ Left(i) = Total[i] - Sum(NewSettles(i))
    BY BalanceTypes
  <1>4. newStatus'[i] = IF Amount[p] = Left(i) THEN "paid" ELSE newStatus[i]
    BY <1>3 DEF IInv, TypeOK, StatusAfter
  <1>5. NewSettles(i) \subseteq Payment /\ p \notin NewSettles(i)
    BY DEF NewSettles
  <1>6. NewSettles(i)' = NewSettles(i) \cup {p}
    BY <1>1, <1>5 DEF NewSettles
  <1>7. Sum(NewSettles(i)') = Sum(NewSettles(i)) + Amount[p]
    BY <1>5, <1>6, SumsOfPayments
  <1>8. \A j \in Invoice \ {i} : NewSettles(j)' = NewSettles(j)
    BY <1>1 DEF NewSettles
  <1>9. /\ Sum(NewSettles(i))' =< Total[i]
        /\ newStatus'[i] = "paid" <=> Sum(NewSettles(i))' = Total[i]
    <2>1. newStatus[i] = "paid" <=> Sum(NewSettles(i)) = Total[i]
      BY DEF BInv, NewestInBalance
    <2>2. Sum(NewSettles(i))' = Sum(NewSettles(i)')
      OBVIOUS
    <2> QED
      BY <1>3, <1>4, <1>7, <2>1, <2>2
  <1>10. ASSUME NEW j \in Invoice \ {i}
         PROVE  /\ Sum(NewSettles(j))' =< Total[j]
                /\ newStatus'[j] = "paid" <=> Sum(NewSettles(j))' = Total[j]
    <2>1. Sum(NewSettles(j))' = Sum(NewSettles(j))
      BY <1>8
    <2> QED
      BY <1>2, <2>1 DEF BInv, NewestInBalance
  <1> QED
    BY <1>2, <1>4, <1>9, <1>10 DEF NewestInBalance

\* A payment is recorded: the balance it was checked against is that of the commit.
LEMMA InsertPaymentInB ==
  ASSUME NEW s \in Session, IInv, IInv', BInv, InsertPayment(s)
  PROVE  BInv'
  <1>0. PICK p, i, row : p = thePayment[s] /\ i = theInvoice[s] /\ row = Row("matched", i, NoRow)
    OBVIOUS
  <1>1. /\ pc[s] = "sum" /\ kind[s] = "record" /\ owner' = Acquire(owner, s, p)
        /\ ~Exceeds(s, p, i) /\ newPayments' = [newPayments EXCEPT ![p] = row]
        /\ newStatus' = [newStatus EXCEPT ![i] = StatusAfter(@, Outstanding(s, i) - Amount[p])]
        /\ pc' = [pc EXCEPT ![s] = "commit"]
        /\ UNCHANGED <<committed, request, todo, query>>
    BY <1>0 DEF InsertPayment, GoTo
  <1>2. p \in Payment /\ i \in Invoice /\ owner[i] = s /\ HasNoPayment(s)
    BY <1>0, <1>1 DEF IInv, InStep, InItsRequest, HasItsLocks, HasItsInvoice
  <1>3. payments[p] = Absent /\ owner[p] = NoSession /\ newPayments[p] = Absent
    <2>1. payments[p] = Absent /\ \A t \in Session \ {s} : thePayment[t] # p
      BY <1>0, <1>1 DEF IInv, NewPaymentsAreOwn
    <2>2. owner[p] \in Session \cup {NoSession}
      BY <1>2 DEF IInv, TypeOK
    <2>3. \A t \in Session : owner[p] = t => thePayment[t] = p
      BY <1>2, <2>1 DEF IInv, InStep, OnRecordedPayments
    <2>4. owner[p] = NoSession
      BY <1>2, <2>1, <2>2, <2>3 DEF HasNoPayment
    <2> QED
      BY <1>2, <2>1, <2>4 DEF IInv, VersionsAgree
  <1>4. row \in PaymentRow /\ row.match = "matched" /\ row.invoice = i /\ WellFormed(row)
    BY <1>0, <1>2 DEF Row, PaymentRow, Match, WellFormed
  <1>5. newPayments[p].match # "matched" /\ payments[p].match # "matched"
    BY <1>3 DEF Absent, Row
  <1>6. Outstanding(s, i) = Left(i) /\ Amount[p] =< Left(i)
    <2>1. MatchedTo(s, i) = NewSettles(i)
      BY <1>2, SeesTheNewest DEF BInv, Available
    <2>2. Outstanding(s, i) = Left(i)
      BY <2>1 DEF Outstanding, Left
    <2> QED
      BY <1>1, <1>2, <2>2, BalanceTypes DEF Exceeds
  <1>7. /\ NewestInBalance'
        /\ newStatus'[i] = IF Amount[p] = Left(i) THEN "paid" ELSE newStatus[i]
        /\ \A j \in Invoice \ {i} : newStatus'[j] = newStatus[j]
    BY <1>1, <1>2, <1>4, <1>5, <1>6, BookingBalances
  <1>8. /\ pc'[s] = "commit" /\ kind'[s] = "record" /\ thePayment'[s] = p /\ theInvoice'[s] = i
        /\ todo'[s] = todo[s] /\ payments' = payments /\ status' = status
        /\ newPayments'[p] = row
        /\ \A q \in Rows : owner'[q] = IF q = p THEN s ELSE owner[q]
    BY <1>0, <1>1, <1>2 DEF IInv, TypeOK, committed, query, request, Acquire, Rows
  <1>9. Booking(s) /\ todo[s] = {} /\ \A j \in Invoice : owner[j] = s => newStatus[j] \in {status[j], "paid"}
    BY <1>1 DEF BInv, OnItsWay
  <1>10. Booking(s)'
    <2>1. SameCustomer(p, i)
      BY <1>0, <1>1, <1>9 DEF Booking
    <2>2. \A q \in Payment : owner'[q] = s => q = p
      BY <1>2, <1>8 DEF HasNoPayment, Rows
    <2>3. \A j \in Invoice : owner'[j] = s => j = i
      BY <1>0, <1>2, <1>8, <1>9 DEF Booking, Rows
    <2>4. owner'[p] = s /\ owner'[i] = s
      BY <1>2, <1>8 DEF Rows
    <2> QED
      BY <1>0, <1>5, <1>8, <2>1, <2>2, <2>3, <2>4 DEF Booking, SameCustomer
  <1>11. OnItsWay(s)'
    <2>1. \A j \in Invoice : owner'[j] = s => newStatus'[j] \in {status'[j], "paid"}
      BY <1>2, <1>7, <1>8, <1>9 DEF Rows
    <2> QED
      BY <1>8, <1>9, <1>10, <2>1 DEF OnItsWay
  <1>12. Writes(s, p, row)
    BY <1>1, <1>3 DEF Writes, Available
  <1>13. \A j \in Invoice : newStatus'[j] = newStatus[j] \/ owner[j] = s
    BY <1>2, <1>7
  <1> QED
    BY <1>1, <1>2, <1>4, <1>5, <1>7, <1>11, <1>12, <1>13, WriteInB

\* A match is booked.
LEMMA AllocateMatchInB ==
  ASSUME NEW s \in Session, IInv, IInv', BInv, AllocateMatch(s)
  PROVE  BInv'
  <1>0. PICK p, i, row : p = thePayment[s] /\ i = theInvoice[s] /\ row = Row("matched", i, NoRow)
    OBVIOUS
  <1>1. /\ pc[s] = "allocate" /\ Allocate(s, p, i) /\ pc' = [pc EXCEPT ![s] = "commit"]
        /\ UNCHANGED <<committed, request, todo, query>>
    BY <1>0 DEF AllocateMatch, GoTo
  <1>2. /\ p \in Payment /\ i \in Invoice /\ kind[s] \in {"match", "confirm"}
        /\ owner[i] = s /\ newStatus[i] = status[i] /\ status[i] = "issued" /\ SameCustomer(p, i)
        /\ owner[p] = s /\ newPayments[p] = payments[p] /\ payments[p].match # "matched"
    <2>1. /\ p \in Payment /\ i \in Invoice /\ kind[s] \in {"match", "confirm"}
          /\ HasItsInvoice(s) /\ HasItsPayment(s)
      BY <1>0, <1>1 DEF IInv, InStep, InItsRequest, HasItsLocks
    <2>2. status[i] = "issued" /\ SameCustomer(p, i) /\ owner[i] = s /\ newStatus[i] = status[i]
      BY <1>0, <2>1 DEF HasItsInvoice, Open, SameCustomer
    <2> QED
      BY <1>0, <2>1, <2>2 DEF HasItsPayment
  <1>3. /\ Booking(s) /\ todo[s] = {} /\ Amount[p] =< Left(i)
        /\ \A j \in Invoice : owner[j] = s => newStatus[j] \in {status[j], "paid"}
    BY <1>0, <1>1, <1>2 DEF BInv, OnItsWay, Booking
  <1>4. row \in PaymentRow /\ row.match = "matched" /\ row.invoice = i /\ WellFormed(row)
    BY <1>0, <1>2 DEF Row, PaymentRow, Match, WellFormed
  <1>5. Allocated(s, newPayments[p], i) = row
    BY <1>0, <1>2 DEF Allocated
  <1>6. Total[i] - Sum(MatchedTo(s, i) \ {p}) - Amount[p] = Left(i) - Amount[p]
    <2>1. MatchedTo(s, i) = NewSettles(i)
      BY <1>2, SeesTheNewest DEF BInv, Available
    <2>2. NewSettles(i) \ {p} = NewSettles(i)
      BY <1>2 DEF NewSettles
    <2> QED
      BY <2>1, <2>2 DEF Left
  <1>7. /\ Available(owner, s, p) /\ owner' = Acquire(owner, s, p)
        /\ newPayments' = [newPayments EXCEPT ![p] = row]
        /\ newStatus' = [newStatus EXCEPT ![i] = StatusAfter(@, Left(i) - Amount[p])]
    BY <1>1, <1>2, <1>5, <1>6 DEF Allocate, IInv, TypeOK
  <1>8. /\ NewestInBalance'
        /\ newStatus'[i] = IF Amount[p] = Left(i) THEN "paid" ELSE newStatus[i]
        /\ \A j \in Invoice \ {i} : newStatus'[j] = newStatus[j]
    <2>1. newPayments[p].match # "matched"
      BY <1>2
    <2> QED
      BY <1>2, <1>3, <1>4, <1>7, <2>1, BookingBalances
  <1>9. /\ pc'[s] = "commit" /\ kind'[s] = kind[s] /\ thePayment'[s] = p /\ theInvoice'[s] = i
        /\ todo'[s] = todo[s] /\ payments' = payments /\ status' = status
        /\ newPayments'[p] = row
        /\ \A q \in Rows : owner'[q] = owner[q]
    BY <1>0, <1>1, <1>2, <1>7 DEF IInv, TypeOK, committed, query, request, Acquire, Rows
  <1>10. Booking(s)'
    <2>1. \A q \in Payment : owner'[q] = s => q = p
      BY <1>0, <1>3, <1>9 DEF Booking, Rows
    <2>2. \A j \in Invoice : owner'[j] = s => j = i
      BY <1>0, <1>3, <1>9 DEF Booking, Rows
    <2>3. owner'[p] = s /\ owner'[i] = s
      BY <1>2, <1>9 DEF Rows
    <2> QED
      BY <1>0, <1>2, <1>9, <2>1, <2>2, <2>3 DEF Booking, SameCustomer
  <1>11. OnItsWay(s)'
    <2>1. \A j \in Invoice : owner'[j] = s => newStatus'[j] \in {status'[j], "paid"}
      BY <1>2, <1>3, <1>8, <1>9 DEF Rows
    <2> QED
      BY <1>2, <1>3, <1>9, <1>10, <2>1 DEF OnItsWay
  <1>12. Writes(s, p, row)
    BY <1>1, <1>7 DEF Writes
  <1>13. \A j \in Invoice : newStatus'[j] = newStatus[j] \/ owner[j] = s
    BY <1>2, <1>8
  <1> QED
    BY <1>1, <1>2, <1>4, <1>8, <1>11, <1>12, <1>13, WriteInB

\* An invoice that a reconciliation has and that is still issued has no payments but
\* those committed: what it has booked it has also paid.
LEMMA StillAsBefore ==
  ASSUME IInv, BInv, NEW s \in Session, kind[s] = "reconcile", NEW i \in Invoice,
         newStatus[i] = "issued", owner[i] = s
  PROVE  status[i] = "issued" /\ NewSettles(i) = Settles(i) /\ Left(i) = LeftBefore(i)
  <1>1. status[i] = "issued"
    BY DEF BInv, OnItsWay
  <1>2. ASSUME NEW p \in NewSettles(i) PROVE p \in Settles(i)
    <2>1. p \in Payment /\ newPayments[p].match = "matched" /\ newPayments[p].invoice = i
      BY DEF NewSettles
    <2>2. owner[p] # s
      BY <2>1 DEF BInv, OnItsWay, Reconciling, Booked, Proposed
    <2>3. owner[p] = NoSession
      BY <2>1, <2>2, NobodyElse DEF BInv, Rows
    <2> QED
      BY <2>1, <2>3 DEF IInv, VersionsAgree, Settles
  <1>3. NewSettles(i) = Settles(i)
    BY <1>2, SettlesAreNew DEF BInv
  <1> QED
    BY <1>1, <1>3 DEF Left, LeftBefore

\* What a reconciliation has booked or proposed stands when it does so for another payment.
LEMMA ReconcilingWrites ==
  ASSUME NEW s \in Session, IInv, BInv, kind[s] = "reconcile", pc[s] \in {"exact", "date"},
         NEW p \in Payment, p = thePayment[s], UNCHANGED committed,
         kind'[s] = kind[s], todo'[s] = todo[s], pc'[s] = "next",
         \A q \in Rows : owner'[q] = IF q = p THEN s ELSE owner[q],
         \A q \in Payment \ {p} : newPayments'[q] = newPayments[q],
         \A i \in Invoice : newStatus'[i] = newStatus[i] \/ newStatus'[i] = "paid",
         Booked(p)' \/ Proposed(p)',
         \A q \in Payment \ {p} : ~SettleTheSame(s, p, q)'
  PROVE  OnItsWay(s)'
  <1>1. status' = status /\ payments' = payments
    BY DEF committed
  <1>2. /\ Reconciling(s) /\ Considered(s)
        /\ \A i \in Invoice : owner[i] = s => newStatus[i] \in {status[i], "paid"}
    BY DEF BInv, OnItsWay, Reconciling
  <1>3. payments[p].match = "unmatched" /\ p \notin todo[s]
    BY <1>2 DEF Considered, Untouched
  <1>4. \A q \in todo'[s] : Untouched(q)'
    <2>1. todo[s] \subseteq Payment
      BY DEF IInv, TypeOK
    <2> QED
      BY <1>1, <1>2, <1>3, <2>1 DEF Reconciling, Untouched, Rows
  <1>5. ASSUME NEW q \in Payment \ {p}, owner'[q] = s
        PROVE  payments'[q].match = "unmatched" /\ (Booked(q)' \/ Proposed(q)')
    <2>1. owner[q] = s
      BY <1>5 DEF Rows
    <2>2. payments[q].match = "unmatched" /\ (Booked(q) \/ Proposed(q))
      BY <1>2, <2>1 DEF Reconciling
    <2>3. PICK i, j : i = newPayments[q].invoice /\ j = newPayments[q].suggested
      OBVIOUS
    <2>4. i = newPayments'[q].invoice /\ j = newPayments'[q].suggested /\ newPayments'[q] = newPayments[q]
      BY <2>3
    <2>5. newPayments[q].match = "matched" => i \in Invoice
      BY <2>3 DEF IInv, TypeOK, PaymentRow
    <2>6. newPayments[q].match = "suggested" => j \in Invoice
      BY <2>3 DEF IInv, TypeOK, PaymentRow
    <2>7. \A k \in Invoice : LeftBefore(k)' = LeftBefore(k)
      <3>1. \A k \in Invoice : Settles(k)' = Settles(k)
        BY <1>1 DEF Settles
      <3> QED
        BY <3>1 DEF LeftBefore
    <2>8. Booked(q) => Booked(q)'
      BY <1>1, <2>3, <2>4, <2>5, <2>7 DEF Booked, SameCustomer
    <2>9. Proposed(q) => Proposed(q)'
      BY <1>1, <2>3, <2>4, <2>6, <2>7 DEF Proposed, SameCustomer
    <2> QED
      BY <1>1, <2>2, <2>8, <2>9
  <1>6. Reconciling(s)'
    <2>1. ASSUME NEW q \in Payment, NEW r \in Payment, SettleTheSame(s, q, r)' PROVE q = r
      <3>1. CASE q = p \/ r = p
        BY <2>1, <3>1 DEF SettleTheSame
      <3>2. CASE q # p /\ r # p
        BY <1>2, <2>1, <3>2 DEF Reconciling, SettleTheSame, Rows
      <3> QED
        BY <3>1, <3>2
    <2> QED
      BY <1>1, <1>3, <1>4, <1>5, <2>1 DEF Reconciling
  <1>7. \A i \in Invoice : owner'[i] = s => newStatus'[i] \in {status'[i], "paid"}
    BY <1>1, <1>2 DEF Rows
  <1> QED
    BY <1>6, <1>7 DEF OnItsWay

\* A reconciliation books a payment on the one invoice of its amount.
LEMMA AllocateExactInB ==
  ASSUME NEW s \in Session, IInv, IInv', BInv, AllocateExact(s)
  PROVE  BInv'
  <1>0. PICK p, i, row : p = thePayment[s] /\ i = Min(found[s]) /\ row = Row("matched", i, NoRow)
    OBVIOUS
  <1>1. /\ pc[s] = "exact" /\ Cardinality(found[s]) = 1 /\ Allocate(s, p, i)
        /\ pc' = [pc EXCEPT ![s] = "next"] /\ UNCHANGED <<committed, request, todo, query>>
    BY <1>0 DEF AllocateExact, GoTo
  <1>2. p \in Payment /\ kind[s] = "reconcile"
    BY <1>0, <1>1 DEF IInv, InStep, InItsRequest
  <1>3. i \in found[s] /\ i \in Invoice
    <2>1. found[s] # {} /\ found[s] \subseteq Invoice
      BY <1>1, SomeMember DEF IInv, TypeOK
    <2> QED
      BY <1>0, <2>1, MinIsMember
  <1>4. owner[i] = s
    BY <1>3 DEF IInv, InStep, BooksOnItsInvoices, NotVoided
  <1>5. /\ Untouched(p) /\ SameCustomer(p, i) /\ newStatus[i] = "issued" /\ Amount[p] = Left(i)
    BY <1>0, <1>1, <1>2, <1>3 DEF BInv, OnItsWay, Reconciling, Considered
  <1>6. newPayments[p] = payments[p] /\ payments[p].match = "unmatched" /\ owner[p] = NoSession
    BY <1>2, <1>5 DEF Untouched, IInv, VersionsAgree
  <1>7. /\ row \in PaymentRow /\ row.match = "matched" /\ row.invoice = i /\ WellFormed(row)
        /\ Allocated(s, newPayments[p], i) = row
    <2>1. newPayments[p].suggested = NoRow
      BY <1>2, <1>6 DEF BInv, RowsWellFormed, WellFormed
    <2> QED
      BY <1>0, <1>2, <1>3, <2>1 DEF Row, PaymentRow, Match, WellFormed, Allocated
  <1>8. Total[i] - Sum(MatchedTo(s, i) \ {p}) - Amount[p] = Left(i) - Amount[p]
    <2>1. MatchedTo(s, i) = NewSettles(i)
      BY <1>3, <1>4, SeesTheNewest DEF BInv, Available
    <2>2. NewSettles(i) \ {p} = NewSettles(i)
      BY <1>6 DEF NewSettles
    <2> QED
      BY <2>1, <2>2 DEF Left
  <1>9. /\ Available(owner, s, p) /\ owner' = Acquire(owner, s, p)
        /\ newPayments' = [newPayments EXCEPT ![p] = row]
        /\ newStatus' = [newStatus EXCEPT ![i] = StatusAfter(@, Left(i) - Amount[p])]
    BY <1>1, <1>2, <1>3, <1>7, <1>8 DEF Allocate, IInv, TypeOK
  <1>10. Amount[p] =< Left(i) /\ newPayments[p].match # "matched" /\ payments[p].match # "matched"
    <2>1. Amount[p] \in Nat
      BY <1>2, BalanceTypes
    <2> QED
      BY <1>5, <1>6, <2>1
  <1>11. /\ NewestInBalance' /\ newStatus'[i] = "paid"
         /\ \A j \in Invoice \ {i} : newStatus'[j] = newStatus[j]
    <2>1. /\ NewestInBalance'
          /\ newStatus'[i] = IF Amount[p] = Left(i) THEN "paid" ELSE newStatus[i]
          /\ \A j \in Invoice \ {i} : newStatus'[j] = newStatus[j]
      BY <1>2, <1>3, <1>7, <1>9, <1>10, BookingBalances
    <2> QED
      BY <1>5, <2>1
  <1>12. /\ pc'[s] = "next" /\ kind'[s] = kind[s] /\ todo'[s] = todo[s] /\ status' = status
         /\ newPayments'[p] = row /\ \A q \in Payment \ {p} : newPayments'[q] = newPayments[q]
         /\ \A q \in Rows : owner'[q] = IF q = p THEN s ELSE owner[q]
    BY <1>1, <1>2, <1>9 DEF IInv, TypeOK, committed, query, request, Acquire, Rows
  <1>13. Booked(p)'
    <2>1. status[i] = "issued" /\ Left(i) = LeftBefore(i)
      BY <1>2, <1>3, <1>4, <1>5, StillAsBefore
    <2>2. LeftBefore(i)' = LeftBefore(i)
      <3>1. Settles(i)' = Settles(i)
        BY <1>1 DEF Settles, committed
      <3> QED
        BY <3>1 DEF LeftBefore
    <2>3. i = newPayments'[p].invoice /\ newPayments'[p].match = "matched"
      BY <1>7, <1>12
    <2> QED
      BY <1>5, <1>11, <1>12, <2>1, <2>2, <2>3 DEF Booked, SameCustomer
  <1>14. \A j \in Invoice : newStatus'[j] = newStatus[j] \/ (newStatus'[j] = "paid" /\ owner[j] = s)
    BY <1>4, <1>11
  <1>15. OnItsWay(s)'
    \* It has booked no other payment on the invoice, which would be paid.
    <2>1. ASSUME NEW q \in Payment \ {p} PROVE ~SettleTheSame(s, p, q)'
      <3>1. SUFFICES ASSUME owner[q] = s, newPayments[q].match = "matched", newPayments[q].invoice = i
                     PROVE  FALSE
        BY <1>7, <1>12 DEF SettleTheSame, Rows
      <3>2. newStatus[i] = "paid"
        BY <1>2, <3>1 DEF BInv, OnItsWay, Reconciling, Booked, Proposed
      <3> QED
        BY <1>5, <3>2
    <2> QED
      BY <1>0, <1>1, <1>2, <1>12, <1>13, <1>14, <2>1, ReconcilingWrites
  <1>16. Writes(s, p, row)
    BY <1>1, <1>9 DEF Writes
  <1> QED
    BY <1>1, <1>2, <1>7, <1>10, <1>11, <1>14, <1>15, <1>16, WriteInB

\* A reconciliation makes a suggestion.
LEMMA SuggestMatchInB ==
  ASSUME NEW s \in Session, IInv, IInv', BInv, SuggestMatch(s)
  PROVE  BInv'
  <1>0. PICK p, i, row : p = thePayment[s] /\ i = Min(found[s]) /\ row = Suggested(newPayments[p], i)
    OBVIOUS
  <1>1. /\ pc[s] \in {"exact", "date"} /\ Available(owner, s, p) /\ owner' = Acquire(owner, s, p)
        /\ newPayments' = [newPayments EXCEPT ![p] = Suggested(@, i)]
        /\ pc' = [pc EXCEPT ![s] = "next"]
        /\ UNCHANGED <<committed, newStatus, request, todo, query>>
    BY <1>0 DEF SuggestMatch, GoTo
  <1>2. p \in Payment /\ kind[s] = "reconcile"
    BY <1>0, <1>1 DEF IInv, InStep, InItsRequest
  <1>3. i \in found[s] /\ i \in Invoice
    <2>1. Cardinality(found[s]) > 1 \/ found[s] # {}
      BY DEF SuggestMatch
    <2>2. found[s] # {} /\ found[s] \subseteq Invoice
      BY <2>1, SomeMember DEF IInv, TypeOK
    <2> QED
      BY <1>0, <2>2, MinIsMember
  <1>4. owner[i] = s
    BY <1>3 DEF IInv, InStep, BooksOnItsInvoices, NotVoided
  <1>5. /\ Untouched(p) /\ SameCustomer(p, i) /\ newStatus[i] = "issued" /\ Amount[p] =< Left(i)
    BY <1>0, <1>1, <1>2, <1>3 DEF BInv, OnItsWay, Reconciling, Considered
  <1>6. newPayments[p] = payments[p] /\ payments[p].match = "unmatched" /\ owner[p] = NoSession
    BY <1>2, <1>5 DEF Untouched, IInv, VersionsAgree
  <1>7. row \in PaymentRow /\ row.match = "suggested" /\ row.suggested = i /\ WellFormed(row)
    <2>1. newPayments[p].invoice = NoRow
      BY <1>2, <1>6 DEF BInv, RowsWellFormed, WellFormed
    <2> QED
      BY <1>0, <1>3, <2>1 DEF Row, PaymentRow, Match, WellFormed, Suggested
  <1>8. /\ pc'[s] = "next" /\ kind'[s] = kind[s] /\ todo'[s] = todo[s]
        /\ status' = status /\ newStatus' = newStatus
        /\ newPayments' = [newPayments EXCEPT ![p] = row]
        /\ newPayments'[p] = row /\ \A q \in Payment \ {p} : newPayments'[q] = newPayments[q]
        /\ \A q \in Rows : owner'[q] = IF q = p THEN s ELSE owner[q]
    BY <1>0, <1>1, <1>2 DEF IInv, TypeOK, committed, query, request, Acquire, Rows
  <1>9. NewestInBalance'
    <2>1. \A j \in Invoice : NewSettles(j)' = NewSettles(j)
      BY <1>6, <1>7, <1>8 DEF NewSettles
    <2> QED
      BY <1>8, <2>1 DEF BInv, NewestInBalance
  <1>10. Proposed(p)'
    <2>1. status[i] = "issued" /\ Left(i) = LeftBefore(i)
      BY <1>2, <1>3, <1>4, <1>5, StillAsBefore
    <2>2. LeftBefore(i)' = LeftBefore(i)
      <3>1. Settles(i)' = Settles(i)
        BY <1>1 DEF Settles, committed
      <3> QED
        BY <3>1 DEF LeftBefore
    <2>3. i = newPayments'[p].suggested /\ newPayments'[p].match = "suggested"
      BY <1>7, <1>8
    <2> QED
      BY <1>5, <1>8, <2>1, <2>2, <2>3 DEF Proposed, SameCustomer
  <1>11. OnItsWay(s)'
    <2>1. \A q \in Payment \ {p} : ~SettleTheSame(s, p, q)'
      BY <1>7, <1>8 DEF SettleTheSame
    <2> QED
      BY <1>0, <1>1, <1>2, <1>8, <1>10, <2>1, ReconcilingWrites
  <1>12. Writes(s, p, row)
    BY <1>1, <1>8 DEF Writes
  <1>13. payments[p].match # "matched"
    BY <1>6
  <1> QED
    BY <1>1, <1>2, <1>7, <1>8, <1>9, <1>11, <1>12, <1>13, WriteInB

\* An invoice without payments is voided.
LEMMA MarkVoidedInB ==
  ASSUME NEW s \in Session, IInv, IInv', BInv, MarkVoided(s), ~Fail(s)
  PROVE  BInv'
  <1>0. PICK i : i = theInvoice[s]
    OBVIOUS
  <1>1. /\ pc[s] = "sum" /\ kind[s] = "void" /\ MatchedTo(s, i) = {}
        /\ newStatus' = [newStatus EXCEPT ![i] = "voided"]
        /\ pc' = [pc EXCEPT ![s] = "commit"]
        /\ UNCHANGED <<committed, newPayments, owner, request, todo, query>>
    BY <1>0 DEF MarkVoided, GoTo, HasPayments
  <1>2. i \in Invoice /\ owner[i] = s /\ status[i] # "voided"
    BY <1>0, <1>1 DEF IInv, InStep, InItsRequest, HasItsLocks, HasItsInvoice, Open
  <1>3. /\ pc'[s] = "commit" /\ kind'[s] = "void" /\ theInvoice'[s] = i /\ todo'[s] = todo[s]
        /\ status' = status /\ payments' = payments /\ newPayments' = newPayments /\ owner' = owner
        /\ \A j \in Invoice : newStatus'[j] = IF j = i THEN "voided" ELSE newStatus[j]
        /\ \A t \in Session \ {s} : SameRequest(t) /\ LeavesAlone(t)
        /\ \A t \in Session : kind'[t] = kind[t]
    BY <1>0, <1>1, <1>2 DEF IInv, TypeOK, SameRequest, LeavesAlone, committed, query, request
  <1>4. MatchesStand' /\ RowsWellFormed' /\ CommitsOwn(s)
    BY <1>3 DEF BInv, MatchesStand, RowsWellFormed, CommitsOwn
  <1>5. \A j \in Invoice : Settles(j)' = Settles(j) /\ NewSettles(j)' = NewSettles(j)
    BY <1>3 DEF Settles, NewSettles
  <1>6. NewestInBalance'
    <2>1. Sum(NewSettles(i)) = 0
      <3>1. NewSettles(i) = {}
        BY <1>1, <1>2, SeesTheNewest DEF BInv, Available
      <3> QED
        BY <3>1, SumsOfPayments
    <2>2. Total[i] \in Nat \ {0}
      BY <1>2, BalanceTypes
    <2>3. ASSUME NEW j \in Invoice
          PROVE  /\ Sum(NewSettles(j)) =< Total[j]
                 /\ newStatus'[j] = "paid" <=> Sum(NewSettles(j)) = Total[j]
      BY <1>3, <2>1, <2>2 DEF BInv, NewestInBalance
    <2> QED
      BY <1>5, <2>3 DEF NewestInBalance
  <1>7. NeverOverpaid' /\ PaidInFull'
    BY <1>3, <1>5 DEF BInv, NeverOverpaid, PaidInFull
  <1>8. OnItsWay(s)'
    <2>1. Voiding(s) /\ todo[s] = {}
      BY <1>1 DEF BInv, OnItsWay
    <2>2. \A j \in Invoice : owner'[j] = s => j = i
      BY <1>0, <1>3, <2>1 DEF Voiding
    <2> QED
      BY <1>2, <1>3, <2>1, <2>2 DEF OnItsWay, Voiding
  <1>9. Alone'
    BY <1>3 DEF BInv, Alone
  <1>10. \A t \in Session \ {s} : OnItsWay(t)'
    BY <1>1, <1>3, <1>4, OthersGoOn
  <1> QED
    BY <1>4, <1>6, <1>7, <1>8, <1>9, <1>10 DEF BInv
-----------------------------------------------------------------------------
\* The end of a transaction: the versions of the session's rows agree again, those of
\* the other rows balance as before.
LEMMA CloseInB ==
  ASSUME NEW s \in Session, IInv, IInv', BInv, kind[s] # "none", CloseSession(s),
         MatchesStand', RowsWellFormed', CommitsOwn(s),
         \A t \in Session \ {s} : LeavesAlone(t),
         UNCHANGED committed \/ UNCHANGED newest
  PROVE  BInv'
  <1>1. Alone'
    <2>1. kind'[s] = "none"
      BY DEF CloseSession, IInv, TypeOK
    <2> QED
      BY <2>1, AloneStays DEF BInv, LeavesAlone
  <1>2. \A t \in Session \ {s} : OnItsWay(t)'
    BY OthersGoOn
  <1>3. OnItsWay(s)'
    <2>1. kind'[s] = "none" /\ todo'[s] = {}
      BY DEF CloseSession, IInv, TypeOK
    <2>2. \A i \in Invoice : owner'[i] # s
      BY DEF CloseSession, Release, IInv, TypeOK
    <2> QED
      BY <2>1, <2>2 DEF OnItsWay
  <1>4. ASSUME NEW i \in Invoice
        PROVE  \/ /\ NewSettles(i)' = NewSettles(i) /\ Settles(i)' = Settles(i)
                  /\ newStatus'[i] = newStatus[i] /\ status'[i] = status[i]
               \/ /\ NewSettles(i)' = NewSettles(i) /\ Settles(i)' = NewSettles(i)
                  /\ newStatus'[i] = newStatus[i] /\ status'[i] = newStatus[i]
               \/ /\ NewSettles(i)' = Settles(i) /\ Settles(i)' = Settles(i)
                  /\ newStatus'[i] = status[i] /\ status'[i] = status[i]
    <2>1. CASE owner[i] \in Session \ {s}
      <3>1. MatchesStand
        BY DEF BInv
      <3>2. NewSettles(i)' = NewSettles(i) /\ Settles(i)' = Settles(i)
        BY <2>1, <3>1, OthersInBalance
      <3>3. newStatus'[i] = newStatus[i] /\ status'[i] = status[i]
        BY <2>1 DEF LeavesAlone
      <3> QED
        BY <3>2, <3>3
    <2>2. CASE owner[i] \notin Session \ {s}
      <3>1. owner'[i] = NoSession
        BY <2>2 DEF CloseSession, Release, IInv, TypeOK
      <3>2. NewSettles(i)' = Settles(i)' /\ newStatus'[i] = status'[i]
        BY <3>1, FreeInvoiceNext DEF FreeInvoicesAgree
      <3>3. CASE UNCHANGED committed
        <4>1. Settles(i)' = Settles(i) /\ status'[i] = status[i]
          BY <3>3 DEF Settles, committed
        <4> QED
          BY <3>2, <4>1
      <3>4. CASE UNCHANGED newest
        <4>1. NewSettles(i)' = NewSettles(i) /\ newStatus'[i] = newStatus[i]
          BY <3>4 DEF NewSettles, newest
        <4> QED
          BY <3>2, <4>1
      <3> QED
        BY <3>3, <3>4
    <2> QED
      BY <2>1, <2>2
  <1>5. NewestInBalance /\ NeverOverpaid /\ PaidInFull
    BY DEF BInv
  <1>6. NewestInBalance'
    BY <1>4, <1>5 DEF NewestInBalance, NeverOverpaid, PaidInFull
  <1>7. NeverOverpaid' /\ PaidInFull'
    BY <1>4, <1>5 DEF NewestInBalance, NeverOverpaid, PaidInFull
  <1> QED
    BY <1>1, <1>2, <1>3, <1>6, <1>7 DEF BInv

\* A rollback.
LEMMA FailInB ==
  ASSUME NEW s \in Session, IInv, IInv', BInv, kind[s] # "none", Fail(s)
  PROVE  BInv'
  <1>1. /\ CloseSession(s) /\ UNCHANGED committed /\ payments' = payments
        /\ \A p \in Payment :
              newPayments'[p] = IF owner[p] = s THEN payments[p] ELSE newPayments[p]
    BY DEF Fail, committed
  <1>2. MatchesStand' /\ RowsWellFormed' /\ CommitsOwn(s)
    BY <1>1 DEF BInv, MatchesStand, RowsWellFormed, CommitsOwn
  <1>3. \A t \in Session \ {s} : LeavesAlone(t)
    BY FailInv
  <1> QED
    BY <1>1, <1>2, <1>3, CloseInB

\* A commit.
LEMMA CommitInB ==
  ASSUME NEW s \in Session, IInv, IInv', BInv, Commit(s)
  PROVE  BInv'
  <1>1. /\ CloseSession(s) /\ UNCHANGED newest /\ newPayments' = newPayments
        /\ \A p \in Payment :
              payments'[p] = IF owner[p] = s THEN newPayments[p] ELSE payments[p]
    BY DEF Commit, PaymentFor, newest
  <1>2. MatchesStand' /\ RowsWellFormed' /\ CommitsOwn(s)
    BY <1>1 DEF BInv, MatchesStand, RowsWellFormed, CommitsOwn
  <1>3. \A t \in Session \ {s} : LeavesAlone(t)
    BY CommitInv
  <1>4. kind[s] # "none"
    BY IdleHasNoLock DEF Commit
  <1> QED
    BY <1>1, <1>2, <1>3, <1>4, CloseInB

\* POST /payments/unmatched.
LEMMA RecordUnmatchedInB ==
  ASSUME NEW s \in Session, IInv, IInv', BInv, Exclusive, NEW p \in Payment,
         RecordUnmatchedPayment(s, p)
  PROVE  BInv'
  <1>0. PICK row : row = Row("unmatched", NoRow, NoRow)
    OBVIOUS
  <1>1. /\ payments' = [payments EXCEPT ![p] = row]
        /\ newPayments' = [newPayments EXCEPT ![p] = row]
        /\ UNCHANGED <<status, newStatus, owner, pc, request, todo, query>>
        /\ pc[s] = "idle" /\ payments[p] = Absent /\ \A t \in Session : thePayment[t] # p
    BY <1>0 DEF RecordUnmatchedPayment, Fresh, IInv, TypeOK
  <1>2. row # Absent /\ row.match # "matched" /\ payments[p].match # "matched" /\ WellFormed(row)
    BY <1>0, <1>1 DEF Row, Absent, WellFormed
  <1>3. owner[p] = NoSession /\ newPayments[p] = payments[p]
    <2>1. owner[p] = NoSession
      BY <1>1 DEF IInv, TypeOK, InStep, OnRecordedPayments
    <2> QED
      BY <2>1 DEF IInv, VersionsAgree
  <1>4. /\ payments'[p] = row /\ newPayments'[p] = row
        /\ \A q \in Payment \ {p} : payments'[q] = payments[q] /\ newPayments'[q] = newPayments[q]
    BY <1>1 DEF IInv, TypeOK
  <1>5. \A i \in Invoice : Settles(i)' = Settles(i) /\ NewSettles(i)' = NewSettles(i)
    BY <1>2, <1>3, <1>4 DEF Settles, NewSettles
  <1>6. NewestInBalance' /\ NeverOverpaid' /\ PaidInFull'
    BY <1>1, <1>5 DEF BInv, NewestInBalance, NeverOverpaid, PaidInFull
  <1>7. MatchesStand' /\ RowsWellFormed' /\ CommitsOwn(s)
    BY <1>1, <1>2, <1>4 DEF BInv, MatchesStand, RowsWellFormed, CommitsOwn
  <1>8. Alone'
    BY <1>1 DEF BInv, Alone, request
  <1>9. \A t \in Session : LeavesAlone(t)
    BY <1>1, <1>2, <1>3, <1>4 DEF LeavesAlone, request, query
  <1>10. \A t \in Session : kind[t] # "reconcile"
    <2>1. \A t \in Session : kind[t] = "reconcile" => pc[t] # "idle"
      BY DEF IInv, InStep, InItsRequest
    <2> QED
      BY <1>1, <2>1 DEF RecordUnmatchedPayment, MayStart
  <1>11. \A t \in Session \ {s} : OnItsWay(t)'
    BY <1>7, <1>9, <1>10, StaysOnItsWay DEF BInv
  <1>12. OnItsWay(s)'
    <2>1. kind[s] = "none" /\ HasNoLock(s) /\ todo[s] = {}
      <3>1. kind[s] = "none"
        BY <1>1 DEF IInv, InStep, InItsRequest
      <3> QED
        BY <3>1, IdleHasNoLock DEF BInv, OnItsWay
    <2> QED
      BY <1>1, <2>1 DEF OnItsWay, HasNoLock, Rows, request
  <1> QED
    BY <1>6, <1>7, <1>8, <1>11, <1>12 DEF BInv
-----------------------------------------------------------------------------
\* Who is in a deadlock waits, so it is busy.
LEMMA DeadlockedIsBusy ==
  ASSUME IInv, NEW s \in Session, BreakDeadlock(s)
  PROVE  kind[s] # "none"
  <1>1. Blocker(s) \in Session
    <2>1. PICK D \in SUBSET Session : s \in D /\ \A t \in D : [u \in Session |-> Blocker(u)][t] \in D
      BY DEF BreakDeadlock, Deadlocked
    <2> QED
      BY <2>1
  <1>2. Wanted(s) # {}
    BY <1>1 DEF Blocker
  <1>3. pc[s] # "idle"
    BY <1>2 DEF Wanted
  <1> QED
    BY <1>3, IdleHasNoLock

\* Any request.
LEMMA RequestsInB ==
  ASSUME NEW s \in Session, IInv, IInv', BInv, Exclusive, Requests(s)
  PROVE  BInv'
  <1>1. ASSUME NEW p \in Payment, RecordUnmatchedPayment(s, p) PROVE BInv'
    BY <1>1, RecordUnmatchedInB
  <1>2. ASSUME NEW p \in Payment, ConfirmSuggestedMatch(s, p) PROVE BInv'
    BY <1>2, BeginInB DEF ConfirmSuggestedMatch
  <1>3. ASSUME NEW p \in Payment, NEW i \in Invoice, RecordPayment(s, p, i) PROVE BInv'
    <2>1. SameCustomer(p, i) /\ Begin(s, "record", p, i, "invoice")
      BY <1>3 DEF RecordPayment, SameCustomer
    <2> QED
      BY <2>1, BeginInB
  <1>4. ASSUME NEW p \in Payment, NEW i \in Invoice, ManualMatch(s, p, i) PROVE BInv'
    BY <1>4, BeginInB DEF ManualMatch
  <1>5. ASSUME NEW i \in Invoice, VoidInvoice(s, i) PROVE BInv'
    BY <1>5, BeginInB DEF VoidInvoice
  <1>6. CASE RunReconciliation(s)
    BY <1>6, BeginInB DEF RunReconciliation
  <1> QED
    BY <1>1, <1>2, <1>3, <1>4, <1>5, <1>6 DEF Requests

\* Any statement.
LEMMA StatementInB ==
  ASSUME NEW s \in Session, IInv, IInv', BInv, Statement(s)
  PROVE  BInv'
  <1>0. CASE Fail(s)
    <2>1. pc[s] # "idle"
      BY DEF Statement, LockPayment, LockInvoice, InsertPayment, CheckBalance, RefuseAmount,
             MarkVoided, AllocateMatch, Commit, ReadUnmatched, ExactMatches, LockExact,
             AllocateExact, DateMatches, LockNearest, SuggestMatch, EndReconciliation
    <2>2. kind[s] # "none"
      BY <2>1, IdleHasNoLock
    <2> QED
      BY <1>0, <2>2, FailInB
  <1>1. CASE LockPayment(s) /\ ~Fail(s)  BY <1>1, LockPaymentInB
  <1>2. CASE LockInvoice(s) /\ ~Fail(s)  BY <1>2, LockInvoiceInB
  <1>3. CASE InsertPayment(s)     BY <1>3, InsertPaymentInB
  <1>4. CASE CheckBalance(s)      BY <1>4, CheckBalanceInB
  <1>5. CASE RefuseAmount(s)      BY <1>0, <1>5 DEF RefuseAmount
  <1>6. CASE MarkVoided(s) /\ ~Fail(s)  BY <1>6, MarkVoidedInB
  <1>7. CASE AllocateMatch(s)     BY <1>7, AllocateMatchInB
  <1>8. CASE Commit(s)            BY <1>8, CommitInB
  <1>9. CASE ReadUnmatched(s)     BY <1>9, ReadUnmatchedInB
  <1>10. CASE ExactMatches(s)     BY <1>10, ExactMatchesInB
  <1>11. CASE LockExact(s)        BY <1>11, LockExactInB
  <1>12. CASE AllocateExact(s)    BY <1>12, AllocateExactInB
  <1>13. CASE DateMatches(s)      BY <1>13, DateMatchesInB
  <1>14. CASE LockNearest(s)      BY <1>14, LockNearestInB
  <1>15. CASE SuggestMatch(s)     BY <1>15, SuggestMatchInB
  <1>16. CASE EndReconciliation(s) BY <1>16, EndReconciliationInB
  <1> QED
    BY <1>0, <1>1, <1>2, <1>3, <1>4, <1>5, <1>6, <1>7, <1>8, <1>9, <1>10, <1>11, <1>12, <1>13,
       <1>14, <1>15, <1>16 DEF Statement

\* The books balance before anything is booked.
LEMMA InitInB == Init => BInv
  <1> SUFFICES ASSUME Init PROVE BInv
    OBVIOUS
  <1>1. \A p \in Payment : payments[p].match # "matched" /\ newPayments[p] = payments[p]
                           /\ WellFormed(payments[p])
    <2> TAKE p \in Payment
    <2>1. payments[p] \in Unallocated(p) /\ newPayments = payments
      BY DEF Init
    <2> QED
      BY <2>1 DEF Unallocated, Absent, Row, WellFormed
  <1>2. Alone /\ MatchesStand /\ RowsWellFormed
    BY <1>1 DEF Init, Alone, MatchesStand, RowsWellFormed
  <1>3. \A i \in Invoice : Settles(i) = {} /\ NewSettles(i) = {}
    BY <1>1 DEF Settles, NewSettles
  <1>4. ASSUME NEW i \in Invoice
        PROVE  /\ Sum(Settles(i)) =< Total[i] /\ Sum(NewSettles(i)) =< Total[i]
               /\ status[i] = "paid" <=> Sum(Settles(i)) = Total[i]
               /\ newStatus[i] = "paid" <=> Sum(NewSettles(i)) = Total[i]
    <2>1. Sum({}) = 0 /\ Total[i] \in Nat \ {0}
      BY SumsOfPayments, BalanceTypes
    <2> QED
      BY <1>3, <2>1 DEF Init
  <1>5. NewestInBalance /\ NeverOverpaid /\ PaidInFull
    BY <1>4 DEF NewestInBalance, NeverOverpaid, PaidInFull
  <1>6. \A s \in Session : OnItsWay(s)
    BY DEF Init, OnItsWay
  <1> QED
    BY <1>2, <1>5, <1>6 DEF BInv

\* Every step keeps the books in balance.
LEMMA NextInB == Exclusive /\ IInv /\ IInv' /\ BInv /\ [Next]_vars => BInv'
  <1> SUFFICES ASSUME Exclusive, IInv, IInv', BInv, [Next]_vars PROVE BInv'
    OBVIOUS
  <1>1. CASE UNCHANGED vars
    <2>1. UNCHANGED <<committed, newest>> /\ UNCHANGED <<owner, pc, todo>> /\ UNCHANGED request /\ UNCHANGED query
      BY <1>1 DEF vars
    <2>2. MatchesStand' /\ RowsWellFormed' /\ NewestInBalance' /\ NeverOverpaid' /\ PaidInFull'
      BY <2>1, BooksUnchanged
    <2>3. Alone'
      BY <2>1 DEF BInv, Alone, request
    <2>4. ASSUME NEW s \in Session PROVE OnItsWay(s)'
      <3>1. \A i : NewSettles(i)' = NewSettles(i) /\ Settles(i)' = Settles(i)
        BY <2>1 DEF NewSettles, Settles, committed, newest
      <3>2. \A i : Left(i)' = Left(i) /\ LeftBefore(i)' = LeftBefore(i)
        BY <3>1 DEF Left, LeftBefore
      <3>3. OnItsWay(s)
        BY DEF BInv
      <3>4. Reconciling(s) => Reconciling(s)'
        BY <2>1, <3>2 DEF Reconciling, Considered, Untouched, Booked, Proposed, SameCustomer,
                          SettleTheSame, committed, newest, request, query
      <3>5. Booking(s) => Booking(s)'
        BY <2>1, <3>2 DEF Booking, SameCustomer, committed, newest, request, query
      <3>6. Voiding(s) => Voiding(s)'
        BY <2>1 DEF Voiding, committed, newest, request
      <3> QED
        BY <2>1, <3>3, <3>4, <3>5, <3>6 DEF OnItsWay, committed, newest, request
    <2> QED
      BY <2>2, <2>3, <2>4 DEF BInv
  <1>2. ASSUME NEW s \in Session, Requests(s) PROVE BInv'
    BY <1>2, RequestsInB
  <1>3. ASSUME NEW s \in Session, Statement(s) PROVE BInv'
    BY <1>3, StatementInB
  <1>4. ASSUME NEW s \in Session, Abort(s) PROVE BInv'
    BY <1>4, FailInB, IdleHasNoLock DEF Abort, IInv, InStep, InItsRequest
  <1>5. ASSUME NEW s \in Session, BreakDeadlock(s) PROVE BInv'
    <2>1. kind[s] # "none"
      BY <1>5, DeadlockedIsBusy
    <2> QED
      BY <1>5, <2>1, FailInB DEF BreakDeadlock
  <1> QED
    BY <1>1, <1>2, <1>3, <1>4, <1>5 DEF Next

\* No step takes a match back or changes it.
LEMMA MatchesKept ==
  IInv /\ BInv /\ [Next]_vars =>
      \A p \in Payment : payments[p].match = "matched" => payments'[p] = payments[p]
  <1> SUFFICES ASSUME IInv, BInv, [Next]_vars, NEW p \in Payment, payments[p].match = "matched"
               PROVE  payments'[p] = payments[p]
    OBVIOUS
  <1>1. ASSUME NEW s \in Session, Commit(s) PROVE payments'[p] = payments[p]
    BY <1>1 DEF Commit, PaymentFor, BInv, MatchesStand
  <1>2. ASSUME NEW s \in Session, Statement(s), ~Commit(s) PROVE payments' = payments
    BY <1>2
       DEF Statement, LockPayment, LockInvoice, InsertPayment, CheckBalance, RefuseAmount, MarkVoided,
           AllocateMatch, ReadUnmatched, ExactMatches, LockExact, AllocateExact, DateMatches,
           LockNearest, SuggestMatch, EndReconciliation, Lock, Fail, committed
  <1>3. ASSUME NEW s \in Session, Requests(s) \/ Abort(s) \/ BreakDeadlock(s)
        PROVE  payments'[p] = payments[p]
    <2>1. ASSUME NEW q \in Payment, RecordUnmatchedPayment(s, q) PROVE payments'[p] = payments[p]
      <3>1. q # p
        BY <2>1 DEF RecordUnmatchedPayment, Fresh, Absent, Row
      <3> QED
        BY <2>1, <3>1 DEF RecordUnmatchedPayment, IInv, TypeOK
    <2> QED
      BY <1>3, <2>1 DEF Requests, ConfirmSuggestedMatch, RecordPayment, ManualMatch,
                  VoidInvoice, RunReconciliation, Begin, Abort, BreakDeadlock, Fail, committed
  <1>4. CASE UNCHANGED vars
    BY <1>4 DEF vars, committed
  <1> QED
    BY <1>1, <1>2, <1>3, <1>4 DEF Next

\* Both invariants hold while reconciliations run alone.
LEMMA BooksInBalance == Exclusive => (Spec => [](IInv /\ BInv))
  <1> SUFFICES ASSUME Exclusive PROVE Spec => [](IInv /\ BInv)
    OBVIOUS
  <1>1. Init => IInv /\ BInv
    BY InitInv, InitInB
  <1>2. IInv /\ BInv /\ [Next]_vars => (IInv /\ BInv)'
    BY NextInv, NextInB
  <1> QED
    BY <1>1, <1>2, PTL DEF Spec

\* While reconciliations run alone no invoice is overpaid, and it is paid exactly
\* when its payments reach its total (story 6-1, AC2 and AC3): the balance each
\* booking was checked against is still that of the instant it commits.
THEOREM InvoicesAreSettled == Exclusive => (Spec => []Settled)
  <1>1. BInv => Settled
    BY DEF BInv, Settled
  <1> QED
    BY <1>1, BooksInBalance, PTL

\* A matched payment stays matched to its invoice while reconciliations run alone
\* (story 6-2: matched payments are skipped); beside a match they do overwrite it.
THEOREM MatchesAreFinal == Exclusive => (Spec => MatchIsFinal)
  BY BooksInBalance, MatchesKept, PTL DEF Spec, MatchIsFinal

\* The balances of the promise are those of the committed rows.
LEMMA BooksBalance == \A i : Books!Settles(i) = Settles(i) /\ Books!Balance(i) = LeftBefore(i)
  <1>1. ASSUME NEW i PROVE Books!Settles(i) = Settles(i)
    BY DEF Books!Settles, Settles
  <1>2. ASSUME NEW i PROVE Books!Balance(i) = LeftBefore(i)
    BY DEF Books!Settles, Books!Balance, Settles, LeftBefore, Sum, MapThenSumSet, Books!MapThenSumSet, MapThenFoldSet, Books!MapThenFoldSet
  <1> QED
    BY <1>1, <1>2

\* What commits: the statuses of the session's invoices and the rows of its payments.
LEMMA WhatCommits ==
  ASSUME NEW s \in Session, IInv, Commit(s)
  PROVE  /\ status' = [i \in Invoice |-> IF owner[i] = s THEN newStatus[i] ELSE status[i]]
         /\ payments' = [p \in Payment |-> IF owner[p] = s THEN newPayments[p] ELSE payments[p]]
         /\ pc[s] = "commit" /\ kind[s] # "none"
         /\ status = [i \in Invoice |-> status[i]]
         /\ payments = [p \in Payment |-> payments[p]]
  BY IdleHasNoLock DEF Commit, StatusFor, PaymentFor, IInv, TypeOK

\* The payments of an invoice a session has are those committed and those it has booked.
BookedOn(s, i) ==
    {p \in Payment : /\ owner[p] = s
                     /\ newPayments[p].match = "matched" /\ newPayments[p].invoice = i}

\* They are all the payments of an invoice it has.
LEMMA OwnBookings ==
  ASSUME IInv, BInv, NEW s \in Session, NEW i \in Invoice, owner[i] = s
  PROVE  NewSettles(i) = Settles(i) \cup BookedOn(s, i)
  <1>1. Settles(i) \subseteq NewSettles(i)
    BY SettlesAreNew DEF BInv
  <1>2. ASSUME NEW p \in NewSettles(i) PROVE p \in Settles(i) \cup BookedOn(s, i)
    <2>1. p \in Payment /\ newPayments[p].match = "matched" /\ newPayments[p].invoice = i
      BY DEF NewSettles
    <2>2. CASE owner[p] = s
      BY <2>1, <2>2 DEF BookedOn
    <2>3. CASE owner[p] # s
      <3>1. owner[p] = NoSession
        BY <2>1, <2>3, BookerHasInvoice DEF BookersHaveInvoices
      <3> QED
        BY <2>1, <3>1 DEF IInv, VersionsAgree, Settles
    <2> QED
      BY <2>2, <2>3
  <1>3. BookedOn(s, i) \subseteq NewSettles(i)
    BY DEF NewSettles, BookedOn
  <1> QED
    BY <1>1, <1>2, <1>3

\* A recorded payment or a match is one booking of the promise.
LEMMA BookingCommits ==
  ASSUME NEW s \in Session, IInv, BInv, Commit(s), kind[s] \in {"record", "match", "confirm"}
  PROVE  \E p \in Payment : \E i \in Invoice : Books!Record(p, i) \/ Books!Allot(p, i)
  <1>0. PICK p, i : p = thePayment[s] /\ i = theInvoice[s]
    OBVIOUS
  <1>1. pc[s] = "commit" /\ InStep(s) /\ OnItsWay(s)
    BY WhatCommits DEF IInv, BInv
  <1>2. p \in Payment /\ i \in Invoice
    BY <1>0, <1>1 DEF InStep, InItsRequest
  <1>3. /\ \A q \in Payment : owner[q] = s => q = p
        /\ \A j \in Invoice : owner[j] = s => j = i
        /\ owner[p] = s /\ owner[i] = s /\ newPayments[p] = Row("matched", i, NoRow)
        /\ SameCustomer(p, i) /\ payments[p].match # "matched"
        /\ kind[s] \in {"match", "confirm"} => status[i] = "issued"
        /\ newStatus[i] \in {status[i], "paid"}
    BY <1>0, <1>1, <1>2 DEF OnItsWay, Booking
  <1>4. newPayments[p].match = "matched" /\ newPayments[p].invoice = i
    BY <1>3 DEF Row
  <1>5. Settles(i) \subseteq Payment /\ p \notin Settles(i) /\ NewSettles(i) = Settles(i) \cup {p}
    <2>1. BookedOn(s, i) = {p}
      BY <1>2, <1>3, <1>4 DEF BookedOn
    <2> QED
      BY <1>2, <1>3, <2>1, OwnBookings DEF Settles
  <1>6. /\ Amount[p] =< LeftBefore(i)
        /\ newStatus[i] = IF LeftBefore(i) = Amount[p] THEN "paid" ELSE status[i]
    <2>1. Sum(NewSettles(i)) = Sum(Settles(i)) + Amount[p]
      BY <1>2, <1>5, SumsOfPayments
    <2>2. /\ Sum(NewSettles(i)) =< Total[i]
          /\ newStatus[i] = "paid" <=> Sum(NewSettles(i)) = Total[i]
      BY <1>2 DEF BInv, NewestInBalance
    <2>3. /\ Total[i] \in Nat /\ Sum(Settles(i)) \in Nat /\ Amount[p] \in Nat
          /\ LeftBefore(i) = Total[i] - Sum(Settles(i))
      BY <1>2, BalanceTypes
    <2> QED
      BY <1>3, <2>1, <2>2, <2>3
  <1>7. Books!Fits(p, i) /\ Books!Balance(i) = LeftBefore(i)
    BY <1>3, <1>6, BooksBalance DEF Books!Fits, SameCustomer
  <1>8. Books!Book([q \in {p} |-> i])
    <2>1. payments' = [q \in Payment |->
              IF q \in DOMAIN [r \in {p} |-> i]
              THEN [match |-> "matched", invoice |-> [r \in {p} |-> i][q], suggested |-> NoRow]
              ELSE payments[q]]
      BY <1>2, <1>3, WhatCommits DEF Row
    <2>2. status' = [j \in Invoice |->
              IF \E q \in DOMAIN [r \in {p} |-> i] : [r \in {p} |-> i][q] = j /\ Books!Balance(j) = Amount[q]
              THEN "paid" ELSE status[j]]
      <3>1. ASSUME NEW j \in Invoice
            PROVE  (IF owner[j] = s THEN newStatus[j] ELSE status[j]) =
                   (IF \E q \in DOMAIN [r \in {p} |-> i] :
                          [r \in {p} |-> i][q] = j /\ Books!Balance(j) = Amount[q]
                    THEN "paid" ELSE status[j])
        BY <1>3, <1>6, <1>7
      <3> QED
        BY <3>1, WhatCommits
    <2> QED
      BY <2>1, <2>2 DEF Books!Book
  <1>9. CASE kind[s] = "record"
    <2>1. payments[p].match = "absent"
      BY <1>0, <1>9 DEF IInv, NewPaymentsAreOwn, Absent, Row
    <2>2. status[i] # "voided"
      <3>1. newStatus[i] # "voided"
        BY <1>1, <1>2, <1>3, <1>4 DEF InStep, BooksOnItsInvoices, NotVoided
      <3> QED
        BY <1>2, <3>1 DEF IInv, VoidsStand
    <2>3. Books!Record(p, i)
      BY <1>7, <1>8, <2>1, <2>2 DEF Books!Record
    <2> QED
      BY <1>2, <2>3
  <1>10. CASE kind[s] \in {"match", "confirm"}
    <2>1. payments[p] # Absent /\ payments[p] \in PaymentRow /\ WellFormed(payments[p])
      BY <1>0, <1>1, <1>2, <1>10 DEF InStep, OnRecordedPayments, IInv, TypeOK, BInv, RowsWellFormed
    <2>2. payments[p].match \in {"unmatched", "suggested"}
      BY <1>3, <2>1 DEF PaymentRow, Match, WellFormed, Absent, Row
    <2>3. Books!Allot(p, i)
      BY <1>3, <1>7, <1>8, <1>10, <2>2 DEF Books!Allot
    <2> QED
      BY <1>2, <2>3
  <1> QED
    BY <1>9, <1>10

\* A void is a void of the promise.
LEMMA VoidCommits ==
  ASSUME NEW s \in Session, IInv, BInv, Commit(s), kind[s] = "void"
  PROVE  \E i \in Invoice : Books!Void(i)
  <1>0. PICK i : i = theInvoice[s]
    OBVIOUS
  <1>1. pc[s] = "commit" /\ InStep(s) /\ OnItsWay(s)
    BY WhatCommits DEF IInv, BInv
  <1>2. i \in Invoice /\ HasNoPayment(s)
    BY <1>0, <1>1 DEF InStep, InItsRequest, HasItsLocks
  <1>3. /\ \A j \in Invoice : owner[j] = s => j = i
        /\ owner[i] = s /\ newStatus[i] = "voided" /\ status[i] # "voided"
    BY <1>0, <1>1 DEF OnItsWay, Voiding
  <1>4. Books!Settles(i) = {}
    BY <1>2, <1>3, BooksBalance DEF IInv, VoidsStand
  <1>5. status' = [status EXCEPT ![i] = "voided"]
    <2>1. \A j \in Invoice : (IF owner[j] = s THEN newStatus[j] ELSE status[j]) =
                             (IF j = i THEN "voided" ELSE status[j])
      BY <1>3
    <2> QED
      BY <1>2, <2>1, WhatCommits
  <1>6. payments' = payments
    BY <1>2, WhatCommits DEF HasNoPayment
  <1> QED
    BY <1>2, <1>3, <1>4, <1>5, <1>6 DEF Books!Void

\* What a reconciliation has booked and proposed when it commits.
LEMMA ReconciliationCommits ==
  ASSUME NEW s \in Session, IInv, BInv, Commit(s), kind[s] = "reconcile"
  PROVE  Books!Reconcile
  <1> DEFINE M == {p \in Payment : owner[p] = s /\ newPayments[p].match = "matched"}
             S == {p \in Payment : owner[p] = s /\ newPayments[p].match = "suggested"}
             match == [p \in M |-> newPayments[p].invoice]
             suggestion == [p \in S |-> newPayments[p].suggested]
  <1>1. Reconciling(s)
    BY DEF BInv, OnItsWay
  <1>2. \A p \in Payment : owner[p] = s => payments[p].match = "unmatched" /\ (p \in M \/ p \in S)
    BY <1>1 DEF Reconciling, Booked, Proposed
  <1>3. M \in SUBSET Books!Unmatched /\ S \in SUBSET Books!Unmatched /\ M \cap S = {}
    BY <1>2 DEF Books!Unmatched
  <1>4. ASSUME NEW p \in M
        PROVE  /\ newPayments[p].invoice \in Invoice /\ owner[newPayments[p].invoice] = s
               /\ Booked(p)
               /\ newPayments[p] = [match |-> "matched", invoice |-> newPayments[p].invoice,
                                    suggested |-> NoRow]
    <2>1. p \in Payment /\ owner[p] = s /\ newPayments[p].match = "matched"
      OBVIOUS
    <2>2. newPayments[p] \in PaymentRow /\ WellFormed(newPayments[p])
      BY <2>1 DEF IInv, TypeOK, BInv, RowsWellFormed
    <2>3. newPayments[p].invoice \in Invoice
      BY <2>1, <2>2 DEF PaymentRow
    <2>4. owner[newPayments[p].invoice] = s
      BY <2>1, BookerHasInvoice DEF BookersHaveInvoices
    <2>5. Booked(p)
      BY <1>1, <2>1 DEF Reconciling, Proposed
    <2> QED
      BY <2>1, <2>2, <2>3, <2>4, <2>5 DEF PaymentRow, WellFormed
  <1>5. ASSUME NEW p \in S
        PROVE  /\ newPayments[p].suggested \in Invoice
               /\ Proposed(p)
               /\ newPayments[p] = [match |-> "suggested", invoice |-> NoRow,
                                    suggested |-> newPayments[p].suggested]
    <2>1. p \in Payment /\ owner[p] = s /\ newPayments[p].match = "suggested"
      OBVIOUS
    <2>2. newPayments[p] \in PaymentRow /\ WellFormed(newPayments[p])
      BY <2>1 DEF IInv, TypeOK, BInv, RowsWellFormed
    <2>3. Proposed(p)
      BY <1>1, <2>1 DEF Reconciling, Booked
    <2> QED
      BY <2>1, <2>2, <2>3 DEF PaymentRow, WellFormed
  <1>6. match \in [M -> Invoice] /\ suggestion \in [S -> Invoice]
    BY <1>4, <1>5
  <1>7. \A p, q \in M : match[p] = match[q] => p = q
    BY <1>1 DEF Reconciling, SettleTheSame
  <1>8. \A p \in M : /\ Books!Fits(p, match[p]) /\ Books!Balance(match[p]) = Amount[p]
                     /\ status[match[p]] = "issued"
    <2> TAKE p \in M
    <2>1. PICK i : i = newPayments[p].invoice
      OBVIOUS
    <2>2. SameCustomer(p, i) /\ status[i] = "issued" /\ Amount[p] = LeftBefore(i)
      BY <1>4, <2>1 DEF Booked
    <2>3. Amount[p] \in Nat
      BY BalanceTypes
    <2> QED
      BY <2>1, <2>2, <2>3, BooksBalance DEF Books!Fits, SameCustomer
  <1>9. \A p \in S : Books!Fits(p, suggestion[p]) /\ status[suggestion[p]] = "issued"
    <2> TAKE p \in S
    <2>1. PICK i : i = newPayments[p].suggested
      OBVIOUS
    <2>2. SameCustomer(p, i) /\ status[i] = "issued" /\ Amount[p] =< LeftBefore(i)
      BY <1>5, <2>1 DEF Proposed
    <2> QED
      BY <2>1, <2>2, BooksBalance DEF Books!Fits, SameCustomer
  <1>10. payments' = [p \in Payment |->
              IF p \in M
              THEN [match |-> "matched", invoice |-> match[p], suggested |-> NoRow]
              ELSE IF p \in S
              THEN [match |-> "suggested", invoice |-> NoRow, suggested |-> suggestion[p]]
              ELSE payments[p]]
    <2>1. ASSUME NEW p \in Payment
          PROVE  (IF owner[p] = s THEN newPayments[p] ELSE payments[p]) =
                 (IF p \in M
                  THEN [match |-> "matched", invoice |-> match[p], suggested |-> NoRow]
                  ELSE IF p \in S
                  THEN [match |-> "suggested", invoice |-> NoRow, suggested |-> suggestion[p]]
                  ELSE payments[p])
      <3>1. CASE p \in M
        BY <1>4, <3>1
      <3>2. CASE p \in S /\ p \notin M
        BY <1>5, <3>2
      <3>3. CASE p \notin S /\ p \notin M
        BY <1>2, <3>3
      <3> QED
        BY <3>1, <3>2, <3>3
    <2>2. payments' = [p \in Payment |-> IF owner[p] = s THEN newPayments[p] ELSE payments[p]]
      BY WhatCommits
    <2> HIDE DEF M, S, match, suggestion
    <2> QED
      BY <2>1, <2>2
  <1>11. status' = [i \in Invoice |->
              IF \E p \in M : match[p] = i THEN "paid" ELSE status[i]]
    <2>1. ASSUME NEW i \in Invoice
          PROVE  (IF owner[i] = s THEN newStatus[i] ELSE status[i]) =
                 (IF \E p \in M : match[p] = i THEN "paid" ELSE status[i])
      <3>1. CASE \E p \in M : match[p] = i
        BY <1>4, <3>1 DEF Booked
      <3>2. CASE ~(\E p \in M : match[p] = i) /\ owner[i] = s
        <4>1. NewSettles(i) = Settles(i)
          <5>1. BookedOn(s, i) = {}
            BY <3>2 DEF BookedOn
          <5>2. NewSettles(i) = Settles(i) \cup BookedOn(s, i)
            BY <3>2, OwnBookings
          <5> QED
            BY <5>1, <5>2
        <4>2. newStatus[i] = "paid" <=> status[i] = "paid"
          BY <4>1 DEF BInv, NewestInBalance, PaidInFull
        <4>3. newStatus[i] \in {status[i], "paid"}
          BY <3>2 DEF BInv, OnItsWay
        <4> QED
          BY <3>2, <4>2, <4>3
      <3>3. CASE ~(\E p \in M : match[p] = i) /\ owner[i] # s
        BY <3>3
      <3> QED
        BY <3>1, <3>2, <3>3
    <2> HIDE DEF M, match
    <2> QED
      BY <2>1, WhatCommits
  <1> HIDE DEF M, S, match, suggestion
  <1> QED
    BY <1>3, <1>6, <1>7, <1>8, <1>9, <1>10, <1>11 DEF Books!Reconcile

\* A step commits a booking of the promise, or nothing.
LEMMA StepsAreBookings ==
  IInv /\ BInv /\ [Next]_vars => [Books!Next]_<<status, payments>>
  <1> SUFFICES ASSUME IInv, BInv, [Next]_vars PROVE Books!Next \/ UNCHANGED <<status, payments>>
    OBVIOUS
  <1>1. ASSUME NEW s \in Session, Commit(s) PROVE Books!Next
    <2>1. kind[s] \in {"record", "match", "confirm", "void", "reconcile"}
      BY <1>1, WhatCommits DEF IInv, TypeOK
    <2>2. CASE kind[s] \in {"record", "match", "confirm"}
      BY <1>1, <2>2, BookingCommits DEF Books!Next
    <2>3. CASE kind[s] = "void"
      BY <1>1, <2>3, VoidCommits DEF Books!Next
    <2>4. CASE kind[s] = "reconcile"
      BY <1>1, <2>4, ReconciliationCommits DEF Books!Next
    <2> QED
      BY <2>1, <2>2, <2>3, <2>4
  <1>2. ASSUME NEW s \in Session, Statement(s), ~Commit(s) PROVE UNCHANGED <<status, payments>>
    BY <1>2
       DEF Statement, LockPayment, LockInvoice, InsertPayment, CheckBalance, RefuseAmount, MarkVoided,
           AllocateMatch, ReadUnmatched, ExactMatches, LockExact, AllocateExact, DateMatches,
           LockNearest, SuggestMatch, EndReconciliation, Lock, Fail, committed
  <1>3. ASSUME NEW s \in Session, NEW p \in Payment, RecordUnmatchedPayment(s, p) PROVE Books!Next
    <2>1. Books!Receive(p)
      BY <1>3 DEF RecordUnmatchedPayment, Fresh, Absent, Row, Books!Receive
    <2> QED
      BY <2>1 DEF Books!Next
  <1>4. ASSUME NEW s \in Session, Requests(s) \/ Abort(s) \/ BreakDeadlock(s)
        PROVE  Books!Next \/ UNCHANGED <<status, payments>>
    BY <1>3, <1>4 DEF Requests, ConfirmSuggestedMatch, RecordPayment, ManualMatch,
                VoidInvoice, RunReconciliation, Begin, Abort, BreakDeadlock, Fail, committed
  <1>5. CASE UNCHANGED vars
    BY <1>5 DEF vars, committed
  <1> QED
    BY <1>1, <1>2, <1>4, <1>5 DEF Next

\* Every committed transaction is one indivisible booking of the promise (stories
\* 6-1 and 6-2), however the statements of the requests are interleaved, while
\* reconciliations run alone; everything before a commit is invisible.
THEOREM BookingsAreIndivisible == Exclusive => (Spec => BookingsAreAtomic)
  <1> SUFFICES ASSUME Exclusive PROVE Spec => BookingsAreAtomic
    OBVIOUS
  <1>1. Init => Books!Init
    <2> SUFFICES ASSUME Init PROVE Books!Init
      OBVIOUS
    <2>1. status = [i \in Invoice |-> "issued"] /\ \A p \in Payment : payments[p] \in Unallocated(p)
      BY DEF Init
    <2>2. payments \in [Payment -> UNION {Unallocated(p) : p \in Payment}]
      <3>1. payments \in [Payment -> PaymentRow]
        BY DEF Init
      <3>2. \A p \in Payment : payments[p] \in UNION {Unallocated(q) : q \in Payment}
        BY <2>1
      <3> QED
        BY <3>1, <3>2
    <2> QED
      BY <2>1, <2>2 DEF Books!Init
  <1>2. IInv /\ BInv /\ [Next]_vars => [Books!Next]_Books!vars
    BY StepsAreBookings DEF Books!vars
  <1> QED
    BY <1>1, <1>2, BooksInBalance, PTL DEF Spec, BookingsAreAtomic, Books!Spec
-----------------------------------------------------------------------------
(* The reports *)

HIDE RowsDiffer

\* The rows of the quiet day, as far as the reports rely on them.
Consistent ==
    /\ status \in [Invoice -> Status] /\ payments \in [Payment -> PaymentRow]
    /\ \A p \in Payment : WellFormed(payments[p])
    /\ VoidedHasNoPayments /\ Settled

\* What is left to pay of each invoice, what has been paid, and the issued ones.
LeftToPay == [i \in Invoice |-> Reports!OutstandingBalance(i)]
PaidSoFar == [i \in Invoice |-> Reports!AmountPaid(i)]
Issued == {i \in Invoice : status[i] = "issued"}
Late(day) == {i \in Issued : Reports!DueDate(i) < day}

\* What the assumptions say of the constants the reports are about.
LEMMA ReportConstants ==
  /\ IsFiniteSet(Invoice) /\ IsFiniteSet(Payment) /\ IsFiniteSet(Customer)
  /\ BilledTo \in [Invoice -> Customer]
  /\ Total \in [Invoice -> Nat] /\ \A i \in Invoice : Total[i] > 0
  /\ Amount \in [Payment -> Nat] /\ \A p \in Payment : Amount[p] > 0
  /\ InvoiceDate \in [Invoice -> Nat] /\ PaymentDate \in [Payment -> Nat]
  /\ Terms \in [Invoice -> Nat \cup {NoTerms}] /\ NoTerms \notin Nat
  /\ IsFiniteSet(Bills) /\ \A x \in Bills : x.date \in Nat /\ x.open \in Nat
  /\ NoRow \notin Invoice /\ Days \subseteq Nat
  /\ \A day \in Days : /\ \A i \in Invoice : InvoiceDate[i] \in day - 360 .. day
                       /\ \A p \in Payment : PaymentDate[p] =< day
                       /\ \A x \in Bills : x.date =< day
  <1>1. \A S : Reports!IsFiniteSet(S) <=> IsFiniteSet(S)
    BY DEF Reports!IsFiniteSet, IsFiniteSet
  <1> QED
    BY <1>1, PaymentsAssumption, ReceivablesAssumption DEF Reports!ReportsAssumption

LEMMA ReportSums ==
  ASSUME NEW w, NEW S
  PROVE  Reports!SumOf(w, S) = SumOf(w, S) /\ Reports!Cardinality(S) = Cardinality(S)
  BY DEF Reports!SumOf, Reports!MapThenSumSet, Reports!MapThenFoldSet,
         SumOf, MapThenSumSet, MapThenFoldSet, Reports!Cardinality, Cardinality

\* The payments that settle an invoice are those that name it, and they leave a
\* balance of an issued invoice and of no other but a voided one.
LEMMA ReportBalances ==
  ASSUME Consistent
  PROVE  /\ \A i \in Invoice : /\ Reports!Settling(i) = Settles(i)
                               /\ Reports!Naming(i) = Settles(i)
         /\ PaidSoFar \in [Invoice -> Nat] /\ LeftToPay \in [Invoice -> Nat]
         /\ \A i \in Invoice : /\ Reports!OutstandingBalance(i) = LeftToPay[i]
                               /\ Reports!AmountPaid(i) = PaidSoFar[i]
                               /\ Total[i] = PaidSoFar[i] + LeftToPay[i]
                               /\ status[i] = "paid" <=> LeftToPay[i] = 0
                               /\ status[i] \in Status
                               /\ status[i] = "voided" => Settles(i) = {}
         /\ \A is \in SUBSET Invoice : /\ Reports!Owing(is) = SumOf(LeftToPay, is)
                                       /\ Reports!Unpaid(is) = SumOf(LeftToPay, is)
                                       /\ Reports!Billed(is) = SumOf(Total, is)
         /\ \A ps \in SUBSET Payment : Reports!Received(ps) = SumOf(Amount, ps)
  <1>1. ASSUME NEW i \in Invoice
        PROVE  Reports!Settling(i) = Settles(i) /\ Reports!Naming(i) = Settles(i)
    <2>1. \A p \in Payment : payments[p].invoice = i => payments[p].match = "matched"
      BY ReportConstants DEF Consistent, WellFormed
    <2> QED
      BY <2>1 DEF Reports!Settling, Reports!Matched, Reports!Naming, Settles
  <1>2. \A ps : Reports!Received(ps) = SumOf(Amount, ps) /\ Sum(ps) = SumOf(Amount, ps)
    <2>1. \A ps : Sum(ps) = SumOf(Amount, ps)
      BY DEF Sum, SumOf
    <2>2. \A ps : Reports!Received(ps) = SumOf(Amount, ps)
      BY ReportSums DEF Reports!Received
    <2> QED
      BY <2>1, <2>2
  <1>3. ASSUME NEW i \in Invoice
        PROVE  /\ Reports!AmountPaid(i) = SumOf(Amount, Settles(i))
               /\ SumOf(Amount, Settles(i)) \in Nat
               /\ SumOf(Amount, Settles(i)) =< Total[i]
               /\ status[i] = "paid" <=> SumOf(Amount, Settles(i)) = Total[i]
    <2>1. Settles(i) \in SUBSET Payment
      BY DEF Settles
    <2> QED
      BY <1>1, <1>2, <2>1, ReportConstants, NaturalSums
         DEF Consistent, Settled, NeverOverpaid, PaidInFull, Reports!AmountPaid
  <1>4. \A i \in Invoice : /\ Reports!OutstandingBalance(i) \in Nat
                           /\ Reports!AmountPaid(i) \in Nat
                           /\ Total[i] = Reports!AmountPaid(i) + Reports!OutstandingBalance(i)
                           /\ status[i] = "paid" <=> Reports!OutstandingBalance(i) = 0
    BY <1>3, ReportConstants DEF Reports!OutstandingBalance
  <1>5. PaidSoFar \in [Invoice -> Nat] /\ LeftToPay \in [Invoice -> Nat]
    BY <1>4 DEF PaidSoFar, LeftToPay
  <1>6. \A i \in Invoice : PaidSoFar[i] = Reports!AmountPaid(i)
                           /\ LeftToPay[i] = Reports!OutstandingBalance(i)
    BY DEF PaidSoFar, LeftToPay
  <1>7. ASSUME NEW is \in SUBSET Invoice
        PROVE  /\ Reports!Owing(is) = SumOf(LeftToPay, is)
               /\ Reports!Unpaid(is) = SumOf(LeftToPay, is)
               /\ Reports!Billed(is) = SumOf(Total, is)
    <2>1. Reports!Owing(is) = SumOf(LeftToPay, is)
      BY ReportSums DEF Reports!Owing, LeftToPay
    <2>2. Reports!Billed(is) = SumOf(Total, is)
      BY ReportSums DEF Reports!Billed
    <2>3. \A i \in Invoice : Total[i] - Reports!Received(Reports!Naming(i)) = LeftToPay[i]
      <3>1. \A i \in Invoice : Reports!Received(Reports!Naming(i)) = Reports!AmountPaid(i)
        BY <1>1, <1>2, <1>3
      <3> QED
        BY <1>4, <1>6, <3>1, ReportConstants
    <2>4. [i \in Invoice |-> Total[i] - Reports!Received(Reports!Naming(i))] = LeftToPay
      BY <1>5, <2>3
    <2>5. Reports!Unpaid(is) =
            SumOf([i \in Invoice |-> Total[i] - Reports!Received(Reports!Naming(i))], is)
      BY ReportSums DEF Reports!Unpaid
    <2> QED
      BY <2>1, <2>2, <2>4, <2>5
  <1>8. \A i \in Invoice : status[i] \in Status /\ (status[i] = "voided" => Settles(i) = {})
    BY DEF Consistent, VoidedHasNoPayments
  <1> QED
    BY <1>1, <1>2, <1>4, <1>5, <1>6, <1>7, <1>8

\* The invoices under a filter are those of its status.
LEMMA FilterShowsStatus ==
  ASSUME Consistent, NEW day \in Days, NEW i \in Invoice,
         NEW s \in {"paid", "unpaid", "partial", "overdue"}
  PROVE  Reports!FilterClause(i, s, day) <=> Reports!PaymentStatus(i, day) = s
  <1>1. /\ PaidSoFar[i] \in Nat /\ LeftToPay[i] \in Nat /\ Total[i] \in Nat /\ Total[i] > 0
        /\ Reports!OutstandingBalance(i) = LeftToPay[i] /\ Reports!AmountPaid(i) = PaidSoFar[i]
        /\ Total[i] = PaidSoFar[i] + LeftToPay[i]
        /\ status[i] = "paid" <=> LeftToPay[i] = 0
    BY ReportBalances, ReportConstants
  <1>2. Reports!DueDate(i) \in Nat /\ day \in Nat
    BY ReportConstants DEF Reports!DueDate
  <1>3. /\ Reports!FilterClause(i, "paid", day) <=>
             status[i] # "voided" /\ (status[i] = "paid" \/ Reports!OutstandingBalance(i) = 0)
        /\ Reports!FilterClause(i, "unpaid", day) <=> /\ Reports!Unsettled(i)
             /\ Reports!AmountPaid(i) = 0 /\ Reports!DueDate(i) >= day
        /\ Reports!FilterClause(i, "partial", day) <=> /\ Reports!Unsettled(i)
             /\ Reports!AmountPaid(i) > 0 /\ Reports!DueDate(i) >= day
        /\ Reports!FilterClause(i, "overdue", day) <=>
             Reports!Unsettled(i) /\ Reports!DueDate(i) < day
    BY Zenon DEF Reports!FilterClause
  <1>4. Reports!Unsettled(i) <=> LeftToPay[i] > 0 /\ status[i] \notin {"voided", "paid"}
    BY <1>1 DEF Reports!Unsettled
  <1> QED
    BY <1>1, <1>2, <1>3, <1>4 DEF Reports!PaymentStatus

LEMMA ListsAgree ==
  ASSUME Consistent, NEW day \in Days, NEW s \in {"paid", "unpaid", "partial", "overdue"}
  PROVE  Reports!ListInvoices(Invoice, 0, day, s, day) =
           {[invoice |-> i, summary |-> Reports!Summary(i, day)] : i \in
               {x \in Invoice : InvoiceDate[x] =< day /\ Reports!PaymentStatus(x, day) = s}}
  <1>1. \A i \in Invoice : InvoiceDate[i] \in 0 .. day <=> InvoiceDate[i] =< day
    BY ReportConstants
  <1>2. {x \in Invoice : InvoiceDate[x] \in 0 .. day /\ Reports!FilterClause(x, s, day)}
          = {x \in Invoice : InvoiceDate[x] =< day /\ Reports!PaymentStatus(x, day) = s}
    BY <1>1, FilterShowsStatus
  <1> QED
    BY <1>2 DEF Reports!ListInvoices

\* What is owed of invoices that are not voided is owed of the issued ones.
LEMMA IssuedAreOwing ==
  ASSUME Consistent, NEW is \in SUBSET Invoice
  PROVE  SumOf(LeftToPay, {i \in is : status[i] # "voided"}) = SumOf(LeftToPay, is \cap Issued)
  <1> DEFINE A == is \cap Issued
             B == {i \in is : status[i] # "voided"}
  <1>1. A \in SUBSET Invoice /\ B \in SUBSET Invoice /\ A \subseteq B
    BY DEF Issued
  <1>2. \A i \in B \ A : LeftToPay[i] = 0
    BY ReportBalances DEF Issued, Status
  <1>3. LeftToPay \in [Invoice -> Int]
    BY ReportBalances
  <1> HIDE DEF A, B
  <1>4. SumOf(LeftToPay, A) = SumOf(LeftToPay, B)
    BY <1>1, <1>2, <1>3, ReportConstants, NoWeight
  <1> QED
    BY <1>4 DEF A, B

\* What a customer owes is what is left of the customer's issued invoices.
LEMMA CustomersOwe ==
  ASSUME Consistent, NEW day \in Days, NEW c
  PROVE  /\ Reports!CustomerOutstanding(c, day).outstanding =
              SumOf(LeftToPay, {i \in Issued : BilledTo[i] = c})
         /\ Reports!CustomerOutstanding(c, day).overdue =
              SumOf(LeftToPay, {i \in Late(day) : BilledTo[i] = c})
         /\ Reports!CustomerOutstanding(c, day).overdueCount =
              Cardinality({i \in Late(day) : BilledTo[i] = c})
  <1> DEFINE mine == Reports!InvoicesOf(c) \cap Reports!NotVoided
             late == {i \in mine : Reports!PaymentStatus(i, day) = "overdue"}
  <1>1. mine = {i \in Reports!InvoicesOf(c) : status[i] # "voided"}
        /\ Reports!InvoicesOf(c) \in SUBSET Invoice
        /\ Reports!InvoicesOf(c) \cap Issued = {i \in Issued : BilledTo[i] = c}
    BY DEF Reports!InvoicesOf, Reports!NotVoided, Issued
  <1>2. SumOf(LeftToPay, mine) = SumOf(LeftToPay, {i \in Issued : BilledTo[i] = c})
    BY <1>1, IssuedAreOwing
  <1>3. late = {i \in Late(day) : BilledTo[i] = c}
    <2>1. ASSUME NEW i \in Invoice
          PROVE  (status[i] # "voided" /\ Reports!PaymentStatus(i, day) = "overdue")
                   <=> i \in Late(day)
      <3>1. /\ PaidSoFar[i] \in Nat /\ LeftToPay[i] \in Nat /\ Total[i] \in Nat
            /\ Reports!AmountPaid(i) = PaidSoFar[i]
            /\ Total[i] = PaidSoFar[i] + LeftToPay[i]
            /\ status[i] = "paid" <=> LeftToPay[i] = 0
            /\ status[i] \in Status
        BY ReportBalances, ReportConstants
      <3>2. Reports!DueDate(i) \in Nat /\ day \in Nat
        BY ReportConstants DEF Reports!DueDate
      <3> QED
        BY <3>1, <3>2 DEF Reports!PaymentStatus, Late, Issued, Status
    <2>2. mine = {i \in Invoice : BilledTo[i] = c /\ status[i] # "voided"}
      BY DEF Reports!InvoicesOf, Reports!NotVoided
    <2>3. Late(day) \subseteq Invoice
      BY DEF Late, Issued
    <2> QED
      BY <2>1, <2>2, <2>3
  <1>4. {i \in late : Reports!OutstandingBalance(i) > 0} = late
    <2>1. \A i \in Late(day) : Reports!OutstandingBalance(i) > 0
      BY ReportBalances DEF Late, Issued
    <2> QED
      BY <1>3, <2>1
  <1>5. mine \in SUBSET Invoice /\ late \in SUBSET Invoice
    BY <1>1
  <1>6. /\ Reports!CustomerOutstanding(c, day).outstanding = Reports!Owing(mine)
        /\ Reports!CustomerOutstanding(c, day).overdue = Reports!Owing(late)
        /\ Reports!CustomerOutstanding(c, day).overdueCount =
             Reports!Cardinality({i \in late : Reports!OutstandingBalance(i) > 0})
    BY DEF Reports!CustomerOutstanding
  <1> HIDE DEF mine, late
  <1> QED
    BY <1>2, <1>3, <1>4, <1>5, <1>6, ReportBalances, ReportSums

\* The aging report shows what is left of the issued invoices, and of the late ones.
LEMMA AgingFacts ==
  ASSUME Consistent, NEW day \in Days
  PROVE  /\ Reports!ArAging(day).outstanding = SumOf(LeftToPay, Issued)
         /\ Reports!ArAging(day).overdue = SumOf(LeftToPay, Late(day))
         /\ Reports!ArAging(day).amount = [b \in Reports!Buckets |->
              SumOf(LeftToPay, {i \in Late(day) : Reports!InBucket(b, day - Reports!DueDate(i))})]
         /\ Reports!ArAging(day).count = [b \in Reports!Buckets |->
              Cardinality({i \in Late(day) : Reports!InBucket(b, day - Reports!DueDate(i))})]
  <1> DEFINE open == {i \in Invoice : status[i] \notin {"voided", "paid"}}
             Of(b) == {i \in open : /\ day > Reports!DueDate(i)
                                    /\ Reports!InBucket(b, day - Reports!DueDate(i))
                                    /\ Reports!OutstandingBalance(i) > 0}
             In(b) == {i \in Late(day) : Reports!InBucket(b, day - Reports!DueDate(i))}
  <1>1. open = Issued
    BY ReportBalances DEF Issued, Status
  <1>2. \A i \in Issued : day > Reports!DueDate(i) <=> Reports!DueDate(i) < day
    BY ReportConstants DEF Issued, Reports!DueDate
  <1>3. {i \in open : day > Reports!DueDate(i)} = Late(day)
    BY <1>1, <1>2 DEF Late
  <1>4. \A b : Of(b) = In(b)
    <2>1. \A i \in Issued : Reports!OutstandingBalance(i) > 0
      BY ReportBalances DEF Issued
    <2> QED
      BY <1>1, <1>2, <2>1 DEF Late
  <1>5. /\ Reports!ArAging(day).outstanding = Reports!Owing(open)
        /\ Reports!ArAging(day).overdue = Reports!Owing({i \in open : day > Reports!DueDate(i)})
        /\ Reports!ArAging(day).amount = [b \in Reports!Buckets |-> Reports!Owing(Of(b))]
        /\ Reports!ArAging(day).count = [b \in Reports!Buckets |-> Reports!Cardinality(Of(b))]
    BY DEF Reports!ArAging
  <1>6. Issued \in SUBSET Invoice /\ Late(day) \in SUBSET Invoice
        /\ \A b : In(b) \in SUBSET Invoice
    BY DEF Issued, Late
  <1> HIDE DEF open, Of, In
  <1>7. \A b : Reports!Owing(Of(b)) = SumOf(LeftToPay, In(b))
               /\ Reports!Cardinality(Of(b)) = Cardinality(In(b))
    BY <1>4, <1>6, ReportBalances, ReportSums
  <1>8. /\ Reports!Owing(open) = SumOf(LeftToPay, Issued)
        /\ Reports!Owing({i \in open : day > Reports!DueDate(i)}) = SumOf(LeftToPay, Late(day))
    BY <1>1, <1>3, <1>6, ReportBalances
  <1> QED
    BY <1>5, <1>7, <1>8 DEF In

\* What customers owe adds up to what is aging, and so do the late invoices.
LEMMA CustomersAddUp ==
  ASSUME Consistent, NEW day \in Days
  PROVE  /\ SumOf([c \in Customer |-> Reports!CustomerOutstanding(c, day).outstanding], Customer)
              = SumOf(LeftToPay, Issued)
         /\ SumOf([c \in Customer |-> Reports!CustomerOutstanding(c, day).overdue], Customer)
              = SumOf(LeftToPay, Late(day))
         /\ SumOf([c \in Customer |-> Reports!CustomerOutstanding(c, day).overdueCount], Customer)
              = Cardinality(Late(day))
  <1> DEFINE outstanding == [c \in Customer |-> Reports!CustomerOutstanding(c, day).outstanding]
             overdue == [c \in Customer |-> Reports!CustomerOutstanding(c, day).overdue]
             count == [c \in Customer |-> Reports!CustomerOutstanding(c, day).overdueCount]
             one == [i \in Invoice |-> 1]
  <1>1. Issued \in SUBSET Invoice /\ Late(day) \in SUBSET Invoice
    BY DEF Issued, Late
  <1>2. LeftToPay \in [Invoice -> Int] /\ one \in [Invoice -> Int]
    BY ReportBalances
  <1>3. /\ \A S \in SUBSET Invoice : SumOf(LeftToPay, S) \in Int /\ SumOf(one, S) \in Int
        /\ \A S \in SUBSET Invoice : SumOf(one, S) = Cardinality(S)
    BY <1>2, ReportConstants, SumLaws, CountIsSum DEF SumsUp
  <1>4. /\ \A c \in Customer :
             /\ outstanding[c] = SumOf(LeftToPay, {i \in Issued : BilledTo[i] = c})
             /\ overdue[c] = SumOf(LeftToPay, {i \in Late(day) : BilledTo[i] = c})
             /\ count[c] = SumOf(one, {i \in Late(day) : BilledTo[i] = c})
        /\ \A c : {i \in Issued : BilledTo[i] = c} \in SUBSET Invoice
                  /\ {i \in Late(day) : BilledTo[i] = c} \in SUBSET Invoice
    <2>1. \A c : {i \in Issued : BilledTo[i] = c} \in SUBSET Invoice
                  /\ {i \in Late(day) : BilledTo[i] = c} \in SUBSET Invoice
      BY <1>1
    <2> QED
      BY <1>3, <2>1, CustomersOwe
  <1>5. outstanding \in [Customer -> Int] /\ overdue \in [Customer -> Int]
        /\ count \in [Customer -> Int]
    <2> HIDE DEF one
    <2>1. \A c \in Customer : outstanding[c] \in Int /\ overdue[c] \in Int /\ count[c] \in Int
      BY <1>3, <1>4
    <2> QED
      BY <2>1
  <1>6. \A i \in Invoice : BilledTo[i] \in Customer
    BY ReportConstants
  <1> HIDE DEF outstanding, overdue, count, one
  <1>7. SumOf(outstanding, Customer) = SumOf(LeftToPay, Issued)
    <2>1. AreSplit(outstanding, Customer, LeftToPay, Invoice, Issued, BilledTo)
      BY <1>1, <1>2, <1>4, <1>5, <1>6, ReportConstants DEF AreSplit
    <2> QED
      BY <2>1, SumOfSplit
  <1>8. SumOf(overdue, Customer) = SumOf(LeftToPay, Late(day))
    <2>1. AreSplit(overdue, Customer, LeftToPay, Invoice, Late(day), BilledTo)
      BY <1>1, <1>2, <1>4, <1>5, <1>6, ReportConstants DEF AreSplit
    <2> QED
      BY <2>1, SumOfSplit
  <1>9. SumOf(count, Customer) = SumOf(one, Late(day))
    <2>1. AreSplit(count, Customer, one, Invoice, Late(day), BilledTo)
      BY <1>1, <1>2, <1>4, <1>5, <1>6, ReportConstants DEF AreSplit
    <2> QED
      BY <2>1, SumOfSplit
  <1> QED
    BY <1>1, <1>3, <1>7, <1>8, <1>9 DEF outstanding, overdue, count

\* Every number of days is in one bucket.
BucketOf(age) == IF age =< 30 THEN "0-30" ELSE IF age =< 60 THEN "31-60"
                 ELSE IF age =< 90 THEN "61-90" ELSE "90+"
LEMMA BucketFacts ==
  /\ IsFiniteSet(Reports!Buckets)
  /\ \A age \in Int : BucketOf(age) \in Reports!Buckets
  /\ \A age \in Int : \A b \in Reports!Buckets : Reports!InBucket(b, age) <=> BucketOf(age) = b
  <1>1. IsFiniteSet(Reports!Buckets)
    <2>1. IsFiniteSet({} \cup {"0-30"})
      BY FS_EmptySet, FS_AddElement
    <2>2. IsFiniteSet(({} \cup {"0-30"}) \cup {"31-60"})
      BY <2>1, FS_AddElement
    <2>3. IsFiniteSet((({} \cup {"0-30"}) \cup {"31-60"}) \cup {"61-90"})
      BY <2>2, FS_AddElement
    <2>4. IsFiniteSet(((({} \cup {"0-30"}) \cup {"31-60"}) \cup {"61-90"}) \cup {"90+"})
      BY <2>3, FS_AddElement
    <2>5. Reports!Buckets = ((({} \cup {"0-30"}) \cup {"31-60"}) \cup {"61-90"}) \cup {"90+"}
      BY DEF Reports!Buckets
    <2> QED
      BY <2>4, <2>5
  <1>2. \A age \in Int : BucketOf(age) \in Reports!Buckets
    BY DEF BucketOf, Reports!Buckets
  <1>3. ASSUME NEW age \in Int, NEW b \in Reports!Buckets
        PROVE  Reports!InBucket(b, age) <=> BucketOf(age) = b
    <2>1. /\ Reports!InBucket("0-30", age) <=> age =< 30
          /\ Reports!InBucket("31-60", age) <=> age > 30 /\ age =< 60
          /\ Reports!InBucket("61-90", age) <=> age > 60 /\ age =< 90
          /\ Reports!InBucket("90+", age) <=> age > 90
      BY Zenon DEF Reports!InBucket
    <2> QED
      BY <2>1 DEF BucketOf, Reports!Buckets
  <1> QED
    BY <1>1, <1>2, <1>3

\* The buckets of the aging report add up to what is late.
LEMMA BucketsAddUp ==
  ASSUME Consistent, NEW day \in Days
  PROVE  /\ SumOf(Reports!ArAging(day).amount, Reports!Buckets) = SumOf(LeftToPay, Late(day))
         /\ SumOf(Reports!ArAging(day).count, Reports!Buckets) = Cardinality(Late(day))
  <1> DEFINE amount == Reports!ArAging(day).amount
             count == Reports!ArAging(day).count
             one == [i \in Invoice |-> 1]
             g == [i \in Invoice |-> BucketOf(day - Reports!DueDate(i))]
             In(b) == {i \in Late(day) : g[i] = b}
  <1>1. Late(day) \in SUBSET Invoice
    BY DEF Issued, Late
  <1>2. LeftToPay \in [Invoice -> Int] /\ one \in [Invoice -> Int]
    BY ReportBalances
  <1>3. /\ \A S \in SUBSET Invoice : SumOf(LeftToPay, S) \in Int /\ SumOf(one, S) \in Int
        /\ \A S \in SUBSET Invoice : SumOf(one, S) = Cardinality(S)
    BY <1>2, ReportConstants, SumLaws, CountIsSum DEF SumsUp
  <1>4. \A i \in Invoice : day - Reports!DueDate(i) \in Int
    BY ReportConstants DEF Reports!DueDate
  <1>5. \A i \in Late(day) : g[i] \in Reports!Buckets
    BY <1>1, <1>4, BucketFacts
  <1>6. ASSUME NEW b \in Reports!Buckets
        PROVE  {i \in Late(day) : Reports!InBucket(b, day - Reports!DueDate(i))} = In(b)
               /\ In(b) \in SUBSET Invoice
    BY <1>1, <1>4, BucketFacts
  <1> HIDE DEF g, In, one
  <1>7. ASSUME NEW b \in Reports!Buckets
        PROVE  amount[b] = SumOf(LeftToPay, In(b)) /\ count[b] = SumOf(one, In(b))
    <2> DEFINE B == {i \in Late(day) : Reports!InBucket(b, day - Reports!DueDate(i))}
    <2>1. amount[b] = SumOf(LeftToPay, B) /\ count[b] = Cardinality(B)
      BY AgingFacts
    <2>2. B = In(b) /\ In(b) \in SUBSET Invoice
      BY <1>6
    <2> HIDE DEF amount, count, B
    <2> QED
      BY <1>3, <2>1, <2>2
  <1>8. amount \in [Reports!Buckets -> Int] /\ count \in [Reports!Buckets -> Int]
    <2>1. \A b \in Reports!Buckets : amount[b] \in Int /\ count[b] \in Int
      BY <1>3, <1>6, <1>7
    <2>2. amount = [b \in Reports!Buckets |-> amount[b]] /\ count = [b \in Reports!Buckets |-> count[b]]
      BY AgingFacts
    <2> HIDE DEF amount, count
    <2> QED
      BY <2>1, <2>2
  <1> HIDE DEF amount, count
  <1>9. SumOf(amount, Reports!Buckets) = SumOf(LeftToPay, Late(day))
    <2>1. AreSplit(amount, Reports!Buckets, LeftToPay, Invoice, Late(day), g)
      BY <1>1, <1>2, <1>5, <1>7, <1>8, BucketFacts, ReportConstants DEF AreSplit, In
    <2> QED
      BY <2>1, SumOfSplit
  <1>10. SumOf(count, Reports!Buckets) = SumOf(one, Late(day))
    <2>1. AreSplit(count, Reports!Buckets, one, Invoice, Late(day), g)
      BY <1>1, <1>2, <1>5, <1>7, <1>8, BucketFacts, ReportConstants DEF AreSplit, In
    <2> QED
      BY <2>1, SumOfSplit
  <1> QED
    BY <1>1, <1>3, <1>9, <1>10 DEF amount, count

\* The dashboard calls open what is left of the issued invoices, and shows of the late
\* ones the totals, which are not less than what is left of them.
LEMMA DashboardAgrees ==
  ASSUME Consistent, NEW day \in Days
  PROVE  /\ Reports!KpiSummary(day).open = SumOf(LeftToPay, Issued)
         /\ SumOf(LeftToPay, Late(day)) =< Reports!KpiSummary(day).overdue
  <1>1. Issued \in SUBSET Invoice /\ Late(day) \in SUBSET Invoice
    BY DEF Issued, Late
  <1>2. /\ Reports!KpiSummary(day).open = Reports!Unpaid(Issued)
        /\ Reports!KpiSummary(day).overdue = Reports!Billed(Late(day))
    BY DEF Reports!KpiSummary, Issued, Late
  <1>3. LeftToPay \in [Invoice -> Int] /\ Total \in [Invoice -> Int]
        /\ \A i \in Invoice : LeftToPay[i] =< Total[i]
    BY ReportBalances, ReportConstants
  <1>4. SumOf(LeftToPay, Late(day)) =< SumOf(Total, Late(day))
    BY <1>1, <1>3, ReportConstants, GreaterWeights
  <1> QED
    BY <1>1, <1>2, <1>4, ReportBalances

\* The buckets of the bills add up to what is open of them, and what is due is part
\* of it.
LEMMA BillsAddUp ==
  ASSUME NEW day \in Days
  PROVE  /\ SumOf(Reports!ApAging(day).amount, Reports!Buckets) = Reports!ApAging(day).outstanding
         /\ Reports!ApAging(day).overdue =< Reports!ApAging(day).outstanding
  <1> DEFINE open == {x \in Bills : x.open > 0}
             w == [x \in Bills |-> x.open]
             due == {x \in open : day > x.date}
             amount == Reports!ApAging(day).amount
             g == [x \in Bills |-> BucketOf(day - x.date)]
             Of(b) == {x \in open : day - x.date >= 0 /\ Reports!InBucket(b, day - x.date)}
  <1>1. w \in [Bills -> Nat] /\ IsFiniteSet(Bills)
    BY ReportConstants
  <1>2. open \in SUBSET Bills /\ due \in SUBSET Bills /\ due \subseteq open
    OBVIOUS
  <1>3. \A x \in Bills : day - x.date \in Int /\ day - x.date >= 0
    BY ReportConstants
  <1>4. \A x \in open : g[x] \in Reports!Buckets
    BY <1>3, BucketFacts
  <1>5. ASSUME NEW b \in Reports!Buckets
        PROVE  Of(b) = {x \in open : g[x] = b}
    BY <1>3, BucketFacts
  <1>6. /\ amount = [b \in Reports!Buckets |-> Reports!SumOf(w, Of(b))]
        /\ Reports!ApAging(day).outstanding = Reports!SumOf(w, open)
        /\ Reports!ApAging(day).overdue = Reports!SumOf(w, due)
    BY DEF Reports!ApAging
  <1>7. \A b : Of(b) \in SUBSET Bills
    OBVIOUS
  <1> HIDE DEF open, due, w, amount, g, Of
  <1>8. /\ \A S \in SUBSET Bills : SumOf(w, S) \in Nat
        /\ w \in [Bills -> Int]
    BY <1>1, NaturalSums
  <1>9. ASSUME NEW b \in Reports!Buckets
        PROVE  amount[b] = SumOf(w, {x \in open : g[x] = b}) /\ amount[b] \in Int
    <2>1. amount[b] = SumOf(w, Of(b))
      BY <1>6, ReportSums
    <2>2. SumOf(w, Of(b)) \in Nat
      BY <1>7, <1>8
    <2>3. Of(b) = {x \in open : g[x] = b}
      BY <1>5
    <2> QED
      BY <2>1, <2>2, <2>3
  <1>10. amount \in [Reports!Buckets -> Int]
    BY <1>6, <1>9
  <1>11. AreSplit(amount, Reports!Buckets, w, Bills, open, g)
    BY <1>1, <1>2, <1>4, <1>8, <1>9, <1>10, BucketFacts DEF AreSplit
  <1>12. SumOf(amount, Reports!Buckets) = SumOf(w, open)
    BY <1>11, SumOfSplit
  <1>13. SumOf(w, due) =< SumOf(w, open)
    <2>1. (open \ due) \in SUBSET Bills /\ due \cap (open \ due) = {} /\ due \cup (open \ due) = open
      BY <1>2
    <2>2. SumOf(w, due \cup (open \ due)) = SumOf(w, due) + SumOf(w, open \ due)
      BY <1>1, <1>2, <1>8, <2>1, SumOfUnion
    <2>3. /\ SumOf(w, due) \in Nat /\ SumOf(w, open \ due) \in Nat
          /\ SumOf(w, open) = SumOf(w, due) + SumOf(w, open \ due)
      BY <1>2, <1>8, <2>1, <2>2
    <2> QED
      BY <2>3
  <1> QED
    BY <1>6, <1>12, <1>13, ReportSums DEF amount

\* What was billed on some invoices is what has been paid of them and what is left.
LEMMA PaidOrOwed ==
  ASSUME Consistent, NEW is \in SUBSET Invoice
  PROVE  /\ UNION {Settles(i) : i \in is} \in SUBSET Payment
         /\ SumOf(Total, is) = SumOf(Amount, UNION {Settles(i) : i \in is}) + SumOf(LeftToPay, is)
  <1> DEFINE X == UNION {Settles(i) : i \in is}
             g == [p \in Payment |-> payments[p].invoice]
             paid == [i \in is |-> PaidSoFar[i]]
             left == [i \in is |-> LeftToPay[i]]
             total == [i \in is |-> Total[i]]
  <1>1. /\ X \in SUBSET Payment
        /\ \A i \in is : {p \in X : g[p] = i} = Settles(i)
        /\ \A p \in X : g[p] \in is
    BY DEF Settles
  <1>2. IsFiniteSet(Payment) /\ Amount \in [Payment -> Int] /\ IsFiniteSet(is)
    BY ReportConstants, SubsetsAreFinite
  <1>3. /\ paid \in [is -> Int] /\ left \in [is -> Int] /\ total \in [is -> Int]
        /\ \A i \in is : total[i] = paid[i] + left[i]
        /\ \A i \in is : paid[i] = SumOf(Amount, Settles(i))
    <2>1. \A i \in is : Settles(i) \in SUBSET Payment
      BY DEF Settles
    <2>2. \A i \in is : PaidSoFar[i] = SumOf(Amount, Settles(i))
      BY <2>1, ReportBalances DEF Reports!AmountPaid
    <2>3. \A i \in is : PaidSoFar[i] \in Int /\ LeftToPay[i] \in Int /\ Total[i] \in Int
                        /\ Total[i] = PaidSoFar[i] + LeftToPay[i]
      BY ReportBalances, ReportConstants
    <2> QED
      BY <2>2, <2>3
  <1>4. LeftToPay \in [Invoice -> Int] /\ Total \in [Invoice -> Int]
    BY ReportBalances, ReportConstants
  <1>5. SumOf(left, is) = SumOf(LeftToPay, is) /\ SumOf(total, is) = SumOf(Total, is)
    BY <1>4, ReportConstants, SumOfPart
  <1> HIDE DEF X, g, paid, left, total
  <1>6. AreSplit(paid, is, Amount, Payment, X, g)
    <2>1. \A i \in is : paid[i] = SumOf(Amount, {p \in X : g[p] = i})
      <3> SUFFICES ASSUME NEW i \in is PROVE paid[i] = SumOf(Amount, {p \in X : g[p] = i})
        OBVIOUS
      <3>1. {p \in X : g[p] = i} = Settles(i)
        BY <1>1
      <3> QED
        BY <1>3, <3>1
    <2> QED
      BY <1>1, <1>2, <1>3, <2>1 DEF AreSplit
  <1>7. SumOf(paid, is) = SumOf(Amount, X)
    BY <1>6, SumOfSplit
  <1>8. SumOf(total, is) = SumOf(paid, is) + SumOf(left, is)
    BY <1>2, <1>3, AddedWeights
  <1> QED
    BY <1>1, <1>5, <1>7, <1>8 DEF X

\* A statement that begins with the first invoice closes at what the customer owes.
LEMMA StatementsClose ==
  ASSUME Consistent, NEW day \in Days, NEW c
  PROVE  Reports!StatementOf(c, 0, day).closing = SumOf(LeftToPay, {i \in Issued : BilledTo[i] = c})
  <1> DEFINE mine == Reports!InvoicesOf(c) \cap Reports!NotVoided
             listed == {i \in mine : InvoiceDate[i] \in 0 .. day}
             earlier == {i \in mine : InvoiceDate[i] < 0}
             Payments(is) == UNION {Reports!Settling(i) : i \in is}
             paid == {p \in Payments(listed) : PaymentDate[p] \in 0 .. day}
             opening == Reports!Billed(earlier) - Reports!Received(Payments(earlier))
             issued == {i \in Issued : BilledTo[i] = c}
  <1>1. mine \in SUBSET Invoice
        /\ mine = {i \in Reports!InvoicesOf(c) : status[i] # "voided"}
        /\ issued = Reports!InvoicesOf(c) \cap Issued
        /\ Reports!InvoicesOf(c) \in SUBSET Invoice
    BY DEF Reports!InvoicesOf, Reports!NotVoided, Issued
  <1>2. \A i \in Invoice : InvoiceDate[i] \in 0 .. day /\ ~(InvoiceDate[i] < 0)
    BY ReportConstants
  <1>3. listed = mine /\ earlier = {}
    BY <1>1, <1>2
  <1>4. Payments(mine) = UNION {Settles(i) : i \in mine} /\ Payments({}) = {}
    BY <1>1, ReportBalances
  <1>5. Payments(mine) \in SUBSET Payment
    BY <1>1, <1>4, PaidOrOwed
  <1>6. \A p \in Payment : PaymentDate[p] \in 0 .. day
    BY ReportConstants
  <1>7. paid = Payments(mine)
    BY <1>3, <1>5, <1>6
  <1>8. opening = 0
    <2>1. SumOf(Total, {}) = 0 /\ SumOf(Amount, {}) = 0
      BY ReportConstants, SumLaws DEF SumsUp
    <2>2. Reports!Billed({}) = 0 /\ Reports!Received({}) = 0
      BY <2>1, ReportBalances
    <2>3. opening = Reports!Billed({}) - Reports!Received({})
      <3>1. opening = Reports!Billed(earlier) - Reports!Received(Payments(earlier))
        OBVIOUS
      <3> HIDE DEF opening, earlier, Payments
      <3> QED
        BY <1>3, <1>4, <3>1
    <2> QED
      BY <2>2, <2>3
  <1>9. SumOf(LeftToPay, mine) = SumOf(LeftToPay, issued)
    BY <1>1, IssuedAreOwing
  <1>10. Reports!StatementOf(c, 0, day).closing =
           IF listed = {} THEN 0 ELSE opening + Reports!Billed(listed) - Reports!Received(paid)
    BY DEF Reports!StatementOf
  <1> HIDE DEF mine, listed, earlier, Payments, paid, opening, issued
  <1>11. /\ Reports!Billed(mine) = SumOf(Total, mine)
         /\ Reports!Received(paid) = SumOf(Amount, Payments(mine))
         /\ SumOf(Total, mine) = SumOf(Amount, Payments(mine)) + SumOf(LeftToPay, mine)
    BY <1>1, <1>4, <1>5, <1>7, PaidOrOwed, ReportBalances
  <1>12. /\ SumOf(LeftToPay, mine) \in Int /\ SumOf(Amount, Payments(mine)) \in Int
         /\ SumOf(LeftToPay, {}) = 0
    <2>1. LeftToPay \in [Invoice -> Int] /\ Amount \in [Payment -> Int]
      BY ReportBalances, ReportConstants
    <2> QED
      BY <1>1, <1>5, <2>1, ReportConstants, SumLaws DEF SumsUp
  <1> QED
    BY <1>3, <1>8, <1>9, <1>10, <1>11, <1>12 DEF issued

\* A customer's analytics show the same, and a score needs a paid invoice.
LEMMA AnalyticsAgree ==
  ASSUME Consistent, NEW day \in Days, NEW c
  PROVE  /\ Reports!Analytics(c, day).outstanding = SumOf(LeftToPay, {i \in Issued : BilledTo[i] = c})
         /\ Reports!Analytics(c, day).score # "at_risk" =>
              \E i \in Reports!InvoicesOf(c) : status[i] = "paid"
  <1>1. {i \in Reports!InvoicesOf(c) : status[i] = "issued"} = {i \in Issued : BilledTo[i] = c}
        /\ {i \in Issued : BilledTo[i] = c} \in SUBSET Invoice
    BY DEF Reports!InvoicesOf, Issued
  <1>2. /\ Reports!Analytics(c, day).outstanding =
             Reports!Unpaid({i \in Reports!InvoicesOf(c) : status[i] = "issued"})
        /\ Reports!Analytics(c, day).score = Reports!PaymentScore(c, day)
    BY DEF Reports!Analytics
  <1>3. (\A i \in Reports!InvoicesOf(c) : status[i] # "paid") =>
            Reports!PaymentScore(c, day) = "at_risk"
    BY DEF Reports!PaymentScore
  <1> QED
    BY <1>1, <1>2, <1>3, ReportBalances

\* All reports agree about what is open and what is late.
LEMMA AllAgree ==
  ASSUME Consistent, NEW day \in Days
  PROVE  Reports!ReportsAgreeOn(day)
  <1>1. \A f, S : Reports!SumOf(f, S) = SumOf(f, S)
    BY ReportSums
  <1>2. ASSUME NEW c \in Customer
        PROVE
          /\ Reports!Analytics(c, day).outstanding = Reports!CustomerOutstanding(c, day).outstanding
          /\ Reports!StatementOf(c, 0, day).closing = Reports!CustomerOutstanding(c, day).outstanding
          /\ Reports!Analytics(c, day).score # "at_risk" =>
               \E i \in Reports!InvoicesOf(c) : status[i] = "paid"
    <2>1. Reports!CustomerOutstanding(c, day).outstanding =
            SumOf(LeftToPay, {i \in Issued : BilledTo[i] = c})
      BY CustomersOwe
    <2>2. Reports!StatementOf(c, 0, day).closing =
            SumOf(LeftToPay, {i \in Issued : BilledTo[i] = c})
      BY StatementsClose
    <2>3. /\ Reports!Analytics(c, day).outstanding =
               SumOf(LeftToPay, {i \in Issued : BilledTo[i] = c})
          /\ Reports!Analytics(c, day).score # "at_risk" =>
               \E i \in Reports!InvoicesOf(c) : status[i] = "paid"
      BY AnalyticsAgree
    <2> QED
      BY <2>1, <2>2, <2>3
  <1>3. \A s \in {"paid", "unpaid", "partial", "overdue"} :
          Reports!ListInvoices(Invoice, 0, day, s, day) =
            {[invoice |-> i, summary |-> Reports!Summary(i, day)] : i \in
                {x \in Invoice : InvoiceDate[x] =< day /\ Reports!PaymentStatus(x, day) = s}}
    BY ListsAgree
  <1>4. /\ Reports!ArAging(day).outstanding = Reports!KpiSummary(day).open
        /\ Reports!ArAging(day).outstanding =
             SumOf([c \in Customer |-> Reports!CustomerOutstanding(c, day).outstanding], Customer)
        /\ Reports!ArAging(day).overdue =
             SumOf([c \in Customer |-> Reports!CustomerOutstanding(c, day).overdue], Customer)
        /\ Reports!ArAging(day).overdue =
             SumOf(Reports!ArAging(day).amount, Reports!Buckets)
        /\ SumOf(Reports!ArAging(day).count, Reports!Buckets) =
             SumOf([c \in Customer |-> Reports!CustomerOutstanding(c, day).overdueCount], Customer)
        /\ Reports!ArAging(day).overdue =< Reports!KpiSummary(day).overdue
    BY AgingFacts, CustomersAddUp, BucketsAddUp, DashboardAgrees
  <1> QED
    BY <1>1, <1>2, <1>3, <1>4, BillsAddUp DEF Reports!ReportsAgreeOn

\* The invoices that count as revenue, of everybody and of a customer.
Standing == {i \in Invoice : status[i] # "voided"}
StandingOf(c) == {i \in Standing : BilledTo[i] = c}

\* All rows lie in the twelve months before the day of the reader.
LEMMA ReportDates ==
  ASSUME NEW day \in Days, NEW i \in Invoice
  PROVE  /\ InvoiceDate[i] \in 0 .. day /\ InvoiceDate[i] \in day - 365 .. day
         /\ Reports!MonthStart(InvoiceDate[i]) =< InvoiceDate[i]
         /\ Reports!MonthStart(day) \div 30 = day \div 30
         /\ InvoiceDate[i] < Reports!MonthStart(day) =>
              /\ InvoiceDate[i] \div 30 \in (day \div 30) - 12 .. (day \div 30) - 1
         /\ InvoiceDate[i] >= Reports!MonthStart(day) =>
              \A k \in Int : k < day \div 30 => Reports!MonthStart(InvoiceDate[i]) # 30 * k
  <1>1. InvoiceDate[i] \in Nat /\ day \in Nat /\ InvoiceDate[i] \in day - 360 .. day
    BY ReportConstants
  <1>2. PICK d, t \in Nat : d = InvoiceDate[i] /\ t = day
    BY <1>1
  <1>3. PICK q \in Int, m \in Int : q = d \div 30 /\ m = t \div 30
    BY <1>2
  <1>4. 30 * q =< d /\ d < 30 * q + 30 /\ 30 * m =< t /\ t < 30 * m + 30
    BY <1>2, <1>3
  <1>5. (30 * m) \div 30 = m
    BY <1>3
  <1>6. /\ Reports!MonthStart(InvoiceDate[i]) = 30 * q /\ Reports!MonthStart(day) = 30 * m
        /\ InvoiceDate[i] \div 30 = q /\ day \div 30 = m
    BY <1>2, <1>3 DEF Reports!MonthStart
  <1>7. t - 360 =< d /\ d =< t
    BY <1>1, <1>2
  <1>8. d < 30 * m => q < m /\ q >= m - 12
    BY <1>4, <1>7
  <1>9. d >= 30 * m => q >= m
    BY <1>4
  <1> QED
    BY <1>1, <1>2, <1>4, <1>5, <1>6, <1>7, <1>8, <1>9

\* Who is paid or billed is not voided.
LEMMA StandingFacts ==
  ASSUME Consistent, NEW day \in Days
  PROVE  /\ Standing \in SUBSET Invoice /\ \A c : StandingOf(c) \in SUBSET Invoice
         /\ \A i \in Invoice : i \in Standing <=> status[i] \in {"paid", "issued"}
         /\ Standing = Reports!NotVoided
         /\ {i \in Reports!NotVoided : InvoiceDate[i] \in 0 .. day} = Standing
         /\ \A c : {i \in Reports!InvoicesOf(c) : /\ InvoiceDate[i] \in 0 .. day
                                                  /\ status[i] \in {"paid", "issued"}}
                     = StandingOf(c)
         /\ \A c : {i \in Reports!InvoicesOf(c) : /\ InvoiceDate[i] \in day - 365 .. day
                                                  /\ status[i] \in {"paid", "issued"}}
                     = StandingOf(c)
         /\ Total \in [Invoice -> Int] /\ IsFiniteSet(Invoice)
         /\ \A S \in SUBSET Invoice : SumOf(Total, S) \in Nat
  <1>1. \A i \in Invoice : i \in Standing <=> status[i] \in {"paid", "issued"}
    BY ReportBalances DEF Standing, Status
  <1>2. Standing \in SUBSET Invoice /\ Standing = Reports!NotVoided
    BY DEF Standing, Reports!NotVoided
  <1>3. \A i \in Invoice : InvoiceDate[i] \in 0 .. day /\ InvoiceDate[i] \in day - 365 .. day
    BY ReportDates
  <1>4. Total \in [Invoice -> Nat] /\ IsFiniteSet(Invoice) /\ Total \in [Invoice -> Int]
    BY ReportConstants
  <1>5. \A S \in SUBSET Invoice : SumOf(Total, S) \in Nat
    BY <1>4, NaturalSums
  <1>6. {i \in Reports!NotVoided : InvoiceDate[i] \in 0 .. day} = Standing
    BY <1>2, <1>3
  <1>7. ASSUME NEW c
        PROVE  /\ StandingOf(c) \in SUBSET Invoice
               /\ {i \in Reports!InvoicesOf(c) : /\ InvoiceDate[i] \in 0 .. day
                                                 /\ status[i] \in {"paid", "issued"}} = StandingOf(c)
               /\ {i \in Reports!InvoicesOf(c) : /\ InvoiceDate[i] \in day - 365 .. day
                                                 /\ status[i] \in {"paid", "issued"}} = StandingOf(c)
    BY <1>1, <1>2, <1>3 DEF StandingOf, Reports!InvoicesOf
  <1> QED
    BY <1>1, <1>2, <1>4, <1>5, <1>6, <1>7

\* The revenue of all days is what came in and what is aging.
LEMMA RevenueIsPaidOrOwed ==
  ASSUME Consistent, NEW day \in Days
  PROVE  /\ Reports!GrossMargin(0, day).revenue = SumOf(Total, Standing)
         /\ SumOf(Total, Standing) = Reports!CashFlow(0, day).inflows + Reports!ArAging(day).outstanding
  <1> DEFINE ps == UNION {Settles(i) : i \in Standing}
  <1>1. Reports!GrossMargin(0, day).revenue = Reports!Billed(Standing)
    BY StandingFacts DEF Reports!GrossMargin
  <1>2. Reports!CameIn(0, day) = ps
    <2>1. \A p \in Payment : PaymentDate[p] \in 0 .. day
      BY ReportConstants
    <2>2. ASSUME NEW p \in Payment, payments[p].match = "matched"
          PROVE  payments[p].invoice \in Standing
      <3>1. payments[p].invoice \in Invoice
        BY <2>2, ReportConstants DEF Consistent, PaymentRow
      <3>2. p \in Settles(payments[p].invoice)
        BY <2>2 DEF Settles
      <3> QED
        BY <3>1, <3>2, ReportBalances DEF Standing
    <2>3. ps = {p \in Payment : payments[p].match = "matched"}
      BY <2>2 DEF Settles
    <2> QED
      BY <2>1, <2>3 DEF Reports!CameIn, Reports!Matched
  <1>3. Reports!CashFlow(0, day).inflows = Reports!Received(Reports!CameIn(0, day))
    BY DEF Reports!CashFlow
  <1>4. SumOf(LeftToPay, Standing) = SumOf(LeftToPay, Issued)
    <2>1. Standing = {i \in Invoice : status[i] # "voided"} /\ Issued = Invoice \cap Issued
          /\ Invoice \in SUBSET Invoice
      BY DEF Standing, Issued
    <2> QED
      BY <2>1, IssuedAreOwing
  <1> HIDE DEF ps
  <1>5. Standing \in SUBSET Invoice
    BY StandingFacts
  <1>6. /\ ps \in SUBSET Payment
        /\ SumOf(Total, Standing) = SumOf(Amount, ps) + SumOf(LeftToPay, Standing)
    BY <1>5, PaidOrOwed DEF ps
  <1> QED
    BY <1>1, <1>2, <1>3, <1>4, <1>5, <1>6, ReportBalances, AgingFacts

\* The best customers' revenues add up to it.
LEMMA CustomersShareRevenue ==
  ASSUME Consistent, NEW day \in Days
  PROVE  LET top == Reports!TopCustomers(0, day)
         IN  /\ SumOf([c \in DOMAIN top |-> top[c].revenue], DOMAIN top) = SumOf(Total, Standing)
             /\ DOMAIN top \subseteq Customer
             /\ \A c \in DOMAIN top : top[c].revenue = SumOf(Total, StandingOf(c))
  <1> DEFINE top == Reports!TopCustomers(0, day)
             Q == {c \in Customer : StandingOf(c) # {}}
             revenue == [c \in DOMAIN top |-> top[c].revenue]
  <1>1. /\ DOMAIN top = Q
        /\ \A c \in Q : top[c].revenue = Reports!Billed(StandingOf(c))
    BY StandingFacts DEF Reports!TopCustomers
  <1>2. Q \in SUBSET Customer /\ IsFiniteSet(Q)
    BY ReportConstants, SubsetsAreFinite
  <1>3. \A i \in Standing : BilledTo[i] \in Q
    BY ReportConstants DEF StandingOf, Standing
  <1> HIDE DEF top, Q
  <1>4. \A c \in Q : top[c].revenue = SumOf(Total, StandingOf(c)) /\ top[c].revenue \in Int
    BY <1>1, StandingFacts, ReportBalances
  <1>5. revenue \in [Q -> Int] /\ \A c \in Q : revenue[c] = SumOf(Total, {i \in Standing : BilledTo[i] = c})
    BY <1>1, <1>4 DEF StandingOf
  <1> HIDE DEF revenue
  <1>6. AreSplit(revenue, Q, Total, Invoice, Standing, BilledTo)
    BY <1>2, <1>3, <1>5, StandingFacts DEF AreSplit
  <1>7. SumOf(revenue, Q) = SumOf(Total, Standing)
    BY <1>6, SumOfSplit
  <1> QED
    BY <1>1, <1>2, <1>4, <1>7 DEF top, revenue

\* A finite set of months, numbered.
LEMMA MonthsAreFinite ==
  ASSUME NEW a \in Int, NEW b \in Int
  PROVE  IsFiniteSet({30 * k : k \in a .. b})
  <1>1. IsFiniteSet(a .. b)
    BY FS_Interval
  <1>2. [k \in a .. b |-> 30 * k] \in Surjection(a .. b, {30 * k : k \in a .. b})
    BY DEF Surjection
  <1> QED
    BY <1>1, <1>2, FS_Surjection

\* The months that are over and the days of this one make up a customer's revenue.
LEMMA TrendAddsUp ==
  ASSUME Consistent, NEW day \in Days, NEW c
  PROVE  LET trend == Reports!CustomerTrend(c, 12, day)
             this == {i \in Reports!InvoicesOf(c) \cap Reports!NotVoided :
                         InvoiceDate[i] \in Reports!MonthStart(day) .. day}
         IN  SumOf(trend, DOMAIN trend) + Reports!Billed(this) = SumOf(Total, StandingOf(c))
  <1> DEFINE trend == Reports!CustomerTrend(c, 12, day)
             this == {i \in Reports!InvoicesOf(c) \cap Reports!NotVoided :
                         InvoiceDate[i] \in Reports!MonthStart(day) .. day}
             over == {i \in StandingOf(c) : InvoiceDate[i] < Reports!MonthStart(day)}
             n == day \div 30
             months == {30 * k : k \in n - 12 .. n - 1}
             g == [i \in Invoice |-> Reports!MonthStart(InvoiceDate[i])]
             Of(m) == {i \in Reports!InvoicesOf(c) : /\ status[i] \in {"paid", "issued"}
                                                     /\ Reports!MonthStart(InvoiceDate[i]) = m}
  <1>1. day \in Nat /\ n \in Int /\ Reports!MonthStart(day) \in Int
        /\ Reports!MonthStart(day) \div 30 = n
    <2>1. day \in Nat
      BY ReportConstants
    <2>2. PICK m \in Int : m = day \div 30
      BY <2>1
    <2>3. (30 * m) \div 30 = m
      BY <2>2
    <2> QED
      BY <2>1, <2>2, <2>3 DEF Reports!MonthStart
  <1>2. trend = [m \in months |-> Reports!Billed(Of(m))]
    BY <1>1 DEF Reports!CustomerTrend
  <1>3. IsFiniteSet(months)
    <2>1. n - 12 \in Int /\ n - 1 \in Int
      BY <1>1
    <2> QED
      BY <2>1, MonthsAreFinite
  <1>4. over \in SUBSET Invoice /\ this \in SUBSET Invoice /\ over \cap this = {}
        /\ over \cup this = StandingOf(c)
    <2>1. StandingOf(c) = Reports!InvoicesOf(c) \cap Reports!NotVoided /\ StandingOf(c) \subseteq Invoice
      BY StandingFacts DEF StandingOf, Reports!InvoicesOf
    <2>2. \A i \in Invoice : InvoiceDate[i] \in Nat /\ InvoiceDate[i] =< day
      BY ReportConstants
    <2>3. \A i \in Invoice : InvoiceDate[i] \in Reports!MonthStart(day) .. day
                               <=> ~(InvoiceDate[i] < Reports!MonthStart(day))
      BY <1>1, <2>2
    <2> QED
      BY <2>1, <2>3
  <1>5. \A i \in over : g[i] \in months
    <2> SUFFICES ASSUME NEW i \in over PROVE g[i] \in months
      OBVIOUS
    <2>1. i \in Invoice /\ InvoiceDate[i] < Reports!MonthStart(day)
      BY <1>4
    <2>2. InvoiceDate[i] \div 30 \in n - 12 .. n - 1
      BY <2>1, ReportDates
    <2> QED
      BY <2>1, <2>2 DEF Reports!MonthStart
  <1>6. \A m \in months : Of(m) = {i \in over : g[i] = m} /\ Of(m) \in SUBSET Invoice
    <2> SUFFICES ASSUME NEW m \in months
                 PROVE  Of(m) = {i \in over : g[i] = m} /\ Of(m) \in SUBSET Invoice
      OBVIOUS
    <2>1. Of(m) = {i \in StandingOf(c) : g[i] = m}
      BY StandingFacts DEF StandingOf, Reports!InvoicesOf
    <2>2. \A i \in StandingOf(c) : g[i] = m => InvoiceDate[i] < Reports!MonthStart(day)
      <3> SUFFICES ASSUME NEW i \in Invoice, g[i] = m
                   PROVE  InvoiceDate[i] < Reports!MonthStart(day)
        BY StandingFacts
      <3>1. PICK k \in n - 12 .. n - 1 : m = 30 * k
        OBVIOUS
      <3>2. k \in Int /\ k < n
        BY <1>1
      <3>3. InvoiceDate[i] \in Int
        BY ReportConstants
      <3> QED
        BY <1>1, <3>1, <3>2, <3>3, ReportDates
    <2>3. Of(m) = {i \in over : g[i] = m}
      BY <2>1, <2>2
    <2> QED
      BY <1>4, <2>3
  <1> HIDE DEF trend, this, over, n, months, g, Of
  <1>7. DOMAIN trend = months /\ trend \in [months -> Int]
        /\ \A m \in months : trend[m] = SumOf(Total, {i \in over : g[i] = m})
    <2>1. \A m \in months : /\ Reports!Billed(Of(m)) = SumOf(Total, Of(m))
                            /\ SumOf(Total, Of(m)) \in Int
      BY <1>6, ReportBalances, StandingFacts
    <2> QED
      BY <1>2, <1>6, <2>1
  <1>8. AreSplit(trend, months, Total, Invoice, over, g)
    BY <1>3, <1>4, <1>5, <1>7, StandingFacts DEF AreSplit
  <1>9. SumOf(trend, DOMAIN trend) = SumOf(Total, over)
    BY <1>7, <1>8, SumOfSplit
  <1>10. SumOf(Total, over \cup this) = SumOf(Total, over) + SumOf(Total, this)
    BY <1>4, StandingFacts, SumOfUnion
  <1>11. Reports!Billed(this) = SumOf(Total, this)
    BY <1>4, ReportBalances
  <1> QED
    BY <1>4, <1>9, <1>10, <1>11 DEF trend, this

\* Today's and yesterday's revenue are the margin's of the two days.
LEMMA TwoDaysRevenue ==
  ASSUME Consistent, NEW day \in Days
  PROVE  Reports!GrossMargin(day - 1, day).revenue =
           Reports!KpiSummary(day).today + Reports!KpiSummary(day).yesterday
  <1> DEFINE On(d) == {i \in Reports!NotVoided : InvoiceDate[i] = d}
             both == {i \in Reports!NotVoided : InvoiceDate[i] \in day - 1 .. day}
  <1>1. day \in Nat /\ \A i \in Invoice : InvoiceDate[i] \in Nat
    BY ReportConstants
  <1>2. /\ On(day) \in SUBSET Invoice /\ On(day - 1) \in SUBSET Invoice
        /\ On(day) \cap On(day - 1) = {} /\ both = On(day) \cup On(day - 1)
        /\ both \in SUBSET Invoice
    BY <1>1 DEF Reports!NotVoided
  <1>3. /\ Reports!GrossMargin(day - 1, day).revenue = Reports!Billed(both)
        /\ Reports!KpiSummary(day).today = Reports!Billed(On(day))
        /\ Reports!KpiSummary(day).yesterday = Reports!Billed(On(day - 1))
    BY DEF Reports!GrossMargin, Reports!KpiSummary, Reports!RevenueOn
  <1> HIDE DEF On, both
  <1>4. SumOf(Total, both) = SumOf(Total, On(day)) + SumOf(Total, On(day - 1))
    BY <1>2, StandingFacts, SumOfUnion
  <1> QED
    BY <1>2, <1>3, <1>4, ReportBalances

\* All that was billed has come in or is owed, whoever adds it up.
LEMMA AllIsPaidOrOwed ==
  ASSUME Consistent, NEW day \in Days
  PROVE  Reports!BilledIsPaidOrOwedOn(day)
  <1> DEFINE top == Reports!TopCustomers(0, day)
  <1>1. \A f, S : Reports!SumOf(f, S) = SumOf(f, S)
    BY ReportSums
  <1>2. Reports!CashFlow(0, day).balance[day] = Reports!CashFlow(0, day).net
    <2>1. day \in 0 .. day
      BY ReportConstants
    <2> QED
      BY <2>1 DEF Reports!CashFlow
  <1>3. /\ Reports!GrossMargin(0, day).revenue =
             Reports!CashFlow(0, day).inflows + Reports!ArAging(day).outstanding
        /\ Reports!GrossMargin(0, day).revenue =
             SumOf([c \in DOMAIN top |-> top[c].revenue], DOMAIN top)
    BY RevenueIsPaidOrOwed, CustomersShareRevenue
  <1>4. ASSUME NEW c \in DOMAIN top
        PROVE  LET trend == Reports!CustomerTrend(c, 12, day)
                   this == {i \in Reports!InvoicesOf(c) \cap Reports!NotVoided :
                              InvoiceDate[i] \in Reports!MonthStart(day) .. day}
               IN  /\ SumOf(trend, DOMAIN trend) + Reports!Billed(this) = top[c].revenue
                   /\ Reports!Analytics(c, day).revenue = top[c].revenue
    <2>1. top[c].revenue = SumOf(Total, StandingOf(c))
      BY CustomersShareRevenue
    <2>2. Reports!Analytics(c, day).revenue = SumOf(Total, StandingOf(c))
      <3>1. Reports!Analytics(c, day).revenue = Reports!Billed(StandingOf(c))
        BY StandingFacts DEF Reports!Analytics
      <3>2. StandingOf(c) \in SUBSET Invoice
        BY StandingFacts
      <3> QED
        BY <3>1, <3>2, ReportBalances
    <2> HIDE DEF top
    <2> QED
      BY <2>1, <2>2, TrendAddsUp
  <1> QED
    BY <1>1, <1>2, <1>3, <1>4, TwoDaysRevenue DEF Reports!BilledIsPaidOrOwedOn
-----------------------------------------------------------------------------
(* The two days *)

\* Each day of a behaviour is one of Receivables: what is proved of any rows there,
\* of all that may run together or of reconciliations that run alone, is true of the
\* rows of the quiet day.
THEOREM Composition == DaysSpec => Spec /\ Busy!Spec
  <1>1. DaysInit => Init /\ Busy!Init
    BY DEF DaysInit
  <1>2. [DaysNext]_days => [Next]_vars /\ [Busy!Next]_(Busy!vars)
    BY DEF DaysNext, days, busyVars, Busy!vars, Busy!committed, Busy!newest, Busy!request,
           Busy!query
  <1> QED
    BY <1>1, <1>2, PTL DEF DaysSpec, Spec, Busy!Spec

\* On a quiet day the reports agree on every day they are read: the invoice list shows
\* every invoice under its status; the aging report, the dashboard, the customers'
\* balances, statements and analytics come to the same sums, by customer and by
\* bucket; and what was billed is what has come in and what is owed.
THEOREM ReportsAreOfOneMind == Exclusive => (DaysSpec => []ReportsAgree)
  <1>1. IInv /\ BInv => Consistent
    BY DEF IInv, TypeOK, BInv, RowsWellFormed, Settled, Consistent
  <1>2. Consistent => ReportsAgree
    BY AllAgree, AllIsPaidOrOwed DEF ReportsAgree
  <1> QED
    BY <1>1, <1>2, Composition, BooksInBalance, PTL
=============================================================================

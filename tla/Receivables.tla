---------------------------- MODULE Receivables ----------------------------
(***************************************************************************)
(* Payments, invoices and the matches between them: the transactions of    *)
(* src/backend/domains/payments/services.py (record a payment against an   *)
(* invoice, record one without an invoice, match it by hand, confirm a     *)
(* suggested match, reconcile all unmatched payments) and void_invoice of  *)
(* src/backend/domains/invoices/service.py.  Requests run concurrently,    *)
(* each in a database transaction of its own under READ COMMITTED.         *)
(*                                                                         *)
(* A row has a committed version and, while a session holds its lock, the  *)
(* version that session has written, which only it reads.  Every SELECT is *)
(* a step; so is every lock or UPDATE that may wait.                       *)
(*                                                                         *)
(* Abstracted: the tenant, the payment reference (one that cannot be had   *)
(* is an Abort here), match_type and timestamps, audit rows, and the void  *)
(* deadline (a void that comes too late is an Abort).  Payment and invoice *)
(* ids stand for rows whose amount and customer never change.              *)
(***************************************************************************)
EXTENDS Integers, FiniteSets, FiniteSetsExt, RowLocks

CONSTANTS
    Invoice, Payment,  \* ids, numbered in the order of their dates
    NoRow,             \* no invoice, no payment
    Customer,
    BilledTo, PaidBy,  \* the customer of each invoice and of each payment
    Total, Amount,     \* what each invoice asks for, what each payment brings
    Distance,          \* of each payment to each invoice, in days
    Window,            \* 90 days
    Exclusive          \* TRUE: finance reconciles while nobody else is at work

ASSUME ReceivablesAssumption ==
    /\ Invoice \subseteq Nat /\ Payment \subseteq Nat
    /\ Invoice \cap Payment = {} /\ IsFiniteSet(Payment)
    /\ NoRow \notin Invoice \cup Payment
    /\ BilledTo \in [Invoice -> Customer] /\ PaidBy \in [Payment -> Customer]
    /\ Total \in [Invoice -> Nat \ {0}] /\ Amount \in [Payment -> Nat \ {0}]
    /\ Distance \in [Payment -> [Invoice -> Nat]] /\ Window \in Nat
    /\ Exclusive \in BOOLEAN

Status == {"issued", "paid", "voided"}
Match == {"absent", "unmatched", "suggested", "matched"}
PaymentRow ==
    {r \in [match : Match, invoice : Invoice \cup {NoRow}, suggested : Invoice \cup {NoRow}] :
        /\ r.match = "matched" => r.invoice # NoRow
        /\ r.match = "suggested" => r.suggested # NoRow}

VARIABLES
    status,        \* committed status of each invoice
    payments,      \* committed row of each payment
    newStatus, newPayments,  \* the newest version, the lock holder's own
    owner,         \* who holds the row lock of each invoice and payment
    pc,            \* what each session is about to do
    kind,          \* its request
    thePayment, theInvoice,  \* the rows the request is about
    todo,          \* reconciliation: the payments it has yet to look at
    candidates, found   \* and the invoices its query has yet to lock, has locked

committed == <<status, payments>>
newest == <<newStatus, newPayments>>
request == <<kind, thePayment, theInvoice>>
query == <<candidates, found>>
vars == <<committed, newest, owner, pc, request, todo, query>>

Row(match, invoice, suggested) ==
    [match |-> match, invoice |-> invoice, suggested |-> suggested]
Absent == Row("absent", NoRow, NoRow)

\* Invoices have been issued, payments recorded without one, and an earlier
\* reconciliation has made its suggestions.
Suggestible(p) ==
    {i \in Invoice : /\ BilledTo[i] = PaidBy[p]
                     /\ Amount[p] =< Total[i]
                     /\ Distance[p][i] =< Window}
Unallocated(p) ==
    {Absent, Row("unmatched", NoRow, NoRow)}
        \cup {Row("suggested", NoRow, i) : i \in Suggestible(p)}

Init ==
    /\ status = [i \in Invoice |-> "issued"]
    /\ payments \in [Payment -> PaymentRow]
    /\ \A p \in Payment : payments[p] \in Unallocated(p)
    /\ newStatus = status
    /\ newPayments = payments
    /\ owner = Unlocked(Invoice \cup Payment)
    /\ pc = [s \in Session |-> "idle"]
    /\ kind = [s \in Session |-> "none"]
    /\ thePayment = [s \in Session |-> NoRow]
    /\ theInvoice = [s \in Session |-> NoRow]
    /\ todo = [s \in Session |-> {}]
    /\ candidates = [s \in Session |-> {}]
    /\ found = [s \in Session |-> {}]
-----------------------------------------------------------------------------
(* What a SELECT of session s returns: the committed rows and its own. *)

StatusFor(s, i) == IF owner[i] = s THEN newStatus[i] ELSE status[i]
PaymentFor(s, p) == IF owner[p] = s THEN newPayments[p] ELSE payments[p]

MatchedTo(s, i) ==
    {p \in Payment : /\ PaymentFor(s, p).match = "matched"
                     /\ PaymentFor(s, p).invoice = i}

Sum(ps) == MapThenSumSet(LAMBDA p : Amount[p], ps)

\* total_amount - sum of the matched payments.
Outstanding(s, i) == Total[i] - Sum(MatchedTo(s, i))
-----------------------------------------------------------------------------
(* The end of a transaction *)

CloseSession_KeepsLocks(s) ==  \* mutant: the transaction stays open
    /\ UNCHANGED owner
    /\ pc' = [pc EXCEPT ![s] = "idle"]
    /\ kind' = [kind EXCEPT ![s] = "none"]
    /\ thePayment' = [thePayment EXCEPT ![s] = NoRow]
    /\ theInvoice' = [theInvoice EXCEPT ![s] = NoRow]
    /\ todo' = [todo EXCEPT ![s] = {}]
    /\ candidates' = [candidates EXCEPT ![s] = {}]
    /\ found' = [found EXCEPT ![s] = {}]
CloseSession(s) ==
    /\ owner' = Release(owner, s)
    /\ pc' = [pc EXCEPT ![s] = "idle"]
    /\ kind' = [kind EXCEPT ![s] = "none"]
    /\ thePayment' = [thePayment EXCEPT ![s] = NoRow]
    /\ theInvoice' = [theInvoice EXCEPT ![s] = NoRow]
    /\ todo' = [todo EXCEPT ![s] = {}]
    /\ candidates' = [candidates EXCEPT ![s] = {}]
    /\ found' = [found EXCEPT ![s] = {}]

\* session.begin() leaves its block without an exception.
Commit(s) ==
    /\ pc[s] = "commit"
    /\ status' = [i \in Invoice |-> StatusFor(s, i)]
    /\ payments' = [p \in Payment |-> PaymentFor(s, p)]
    /\ UNCHANGED newest
    /\ CloseSession(s)

\* An exception leaves the service: rollback.
Fail(s) ==
    /\ newStatus' = [i \in Invoice |-> IF owner[i] = s THEN status[i] ELSE newStatus[i]]
    /\ newPayments' =
          [p \in Payment |-> IF owner[p] = s THEN payments[p] ELSE newPayments[p]]
    /\ UNCHANGED committed
    /\ CloseSession(s)
-----------------------------------------------------------------------------
(* Requests *)

\* Nothing in the code keeps a reconciliation apart from other requests;
\* the parameter says whether the people who use it do.
MayStart(s, k) ==
    Exclusive => \A t \in Session \ {s} :
        pc[t] = "idle" \/ (k # "reconcile" /\ kind[t] # "reconcile")

Begin(s, k, p, i, first) ==
    /\ pc[s] = "idle"
    /\ MayStart(s, k)
    /\ kind' = [kind EXCEPT ![s] = k]
    /\ thePayment' = [thePayment EXCEPT ![s] = p]
    /\ theInvoice' = [theInvoice EXCEPT ![s] = i]
    /\ pc' = [pc EXCEPT ![s] = first]
    /\ UNCHANGED <<committed, newest, owner, todo, query>>

\* An id that no payment has and that no other request has generated.
Fresh(p) ==
    /\ payments[p] = Absent
    /\ \A t \in Session : thePayment[t] # p

\* POST /payments: the payment takes the invoice's customer.
RecordPayment(s, p, i) ==
    /\ Fresh(p)
    /\ PaidBy[p] = BilledTo[i]
    /\ Begin(s, "record", p, i, "invoice")

\* POST /payments/unmatched: an insert that waits for nobody.
RecordUnmatchedPayment(s, p) ==
    /\ pc[s] = "idle"
    /\ MayStart(s, "unmatched")
    /\ Fresh(p)
    /\ payments' = [payments EXCEPT ![p] = Row("unmatched", NoRow, NoRow)]
    /\ newPayments' = [newPayments EXCEPT ![p] = payments'[p]]
    /\ UNCHANGED <<status, newStatus, owner, pc, request, todo, query>>

\* POST /payments/{id}/manual-match and /payments/{id}/confirm-match.
ManualMatch(s, p, i) ==
    /\ payments[p] # Absent
    /\ Begin(s, "match", p, i, "payment")
ConfirmSuggestedMatch(s, p) ==
    /\ payments[p] # Absent
    /\ Begin(s, "confirm", p, NoRow, "payment")

\* POST /invoices/{id}/void.
VoidInvoice(s, i) == Begin(s, "void", NoRow, i, "invoice")

\* POST /payments/reconcile.
RunReconciliation(s) == Begin(s, "reconcile", NoRow, NoRow, "read")
-----------------------------------------------------------------------------
(* Record, match, confirm and void: row locks, then one balance check *)

GoTo(s, label) == pc' = [pc EXCEPT ![s] = label]

\* manual_match takes any payment not matched yet, confirm one with a
\* suggestion.
Matchable(s, row) ==
    \/ kind[s] = "match" /\ row.match # "matched"
    \/ kind[s] = "confirm" /\ row.match = "suggested" /\ row.suggested # NoRow

\* SELECT the payment FOR UPDATE.
LockPayment(s) ==
    LET p == thePayment[s]
    IN  /\ pc[s] = "payment"
        /\ Available(owner, s, p)
        /\ \/ /\ Matchable(s, payments[p])
              /\ owner' = Acquire(owner, s, p)
              /\ theInvoice' = [theInvoice EXCEPT ![s] =
                                   IF kind[s] = "confirm" THEN payments[p].suggested ELSE @]
              /\ GoTo(s, "invoice")
              /\ UNCHANGED <<committed, newest, kind, thePayment, todo, query>>
           \/ /\ ~Matchable(s, payments[p])
              /\ Fail(s)

\* The invoice's status allows the request: a payment is recorded unless the
\* invoice is voided, matches need an issued one of the same customer, and
\* ALLOWED_TRANSITIONS lets an issued or a paid one be voided.
Open_Voided(s, st) ==  \* mutant: a voided invoice takes payments
    \/ kind[s] = "record"
    \/ kind[s] = "void" /\ st \in {"issued", "paid"}
    \/ /\ kind[s] \in {"match", "confirm"}
       /\ st = "issued"
       /\ BilledTo[theInvoice[s]] = PaidBy[thePayment[s]]
Open(s, st) ==
    \/ kind[s] = "record" /\ st # "voided"
    \/ kind[s] = "void" /\ st \in {"issued", "paid"}
    \/ /\ kind[s] \in {"match", "confirm"}
       /\ st = "issued"
       /\ BilledTo[theInvoice[s]] = PaidBy[thePayment[s]]

\* SELECT the invoice FOR UPDATE.
ForUpdate_Dropped(s, i) == TRUE  \* mutant: a plain SELECT
ForUpdate(s, i) == Available(owner, s, i)

LockInvoice(s) ==
    LET i == theInvoice[s]
    IN  /\ pc[s] = "invoice"
        /\ ForUpdate(s, i)
        /\ \/ /\ Open(s, status[i])
              /\ owner' = Acquire(owner, s, i)
              /\ GoTo(s, "sum")
              /\ UNCHANGED <<committed, newest, request, todo, query>>
           \/ /\ ~Open(s, status[i])
              /\ Fail(s)

\* The status of an invoice of which `outstanding` is left to pay.
StatusAfter_Never(st, outstanding) == st  \* mutant: no transition to paid
StatusAfter(st, outstanding) == IF outstanding = 0 THEN "paid" ELSE st

\* An amount that exceeds the balance is refused, and so is any amount once
\* nothing is outstanding.
Exceeds(s, p, i) == Amount[p] > Outstanding(s, i)

\* record_payment: the balance check and the insert.
InsertPayment(s) ==
    LET p == thePayment[s]
        i == theInvoice[s]
    IN  /\ pc[s] = "sum"
        /\ kind[s] = "record"
        /\ ~Exceeds(s, p, i)
        /\ owner' = Acquire(owner, s, p)
        /\ newPayments' = [newPayments EXCEPT ![p] = Row("matched", i, NoRow)]
        /\ newStatus' = [newStatus EXCEPT ![i] =
                            StatusAfter(@, Outstanding(s, i) - Amount[p])]
        /\ GoTo(s, "commit")
        /\ UNCHANGED <<committed, request, todo, query>>

\* manual_match and confirm_suggested_match: the balance check.
CheckBalance(s) ==
    /\ pc[s] = "sum"
    /\ kind[s] \in {"match", "confirm"}
    /\ ~Exceeds(s, thePayment[s], theInvoice[s])
    /\ GoTo(s, "allocate")
    /\ UNCHANGED <<committed, newest, owner, request, todo, query>>

\* The amount exceeds the outstanding balance.
RefuseAmount(s) ==
    /\ pc[s] = "sum"
    /\ kind[s] # "void"
    /\ Exceeds(s, thePayment[s], theInvoice[s])
    /\ Fail(s)

\* void_invoice: refused while the matched payments add up to more than zero,
\* which they do as soon as there is one.
HasPayments_Ignored(s, i) == FALSE  \* mutant: voids whatever has been paid
HasPayments(s, i) == MatchedTo(s, i) # {}

MarkVoided(s) ==
    LET i == theInvoice[s]
    IN  /\ pc[s] = "sum"
        /\ kind[s] = "void"
        /\ \/ /\ ~HasPayments(s, i)
              /\ newStatus' = [newStatus EXCEPT ![i] = "voided"]
              /\ GoTo(s, "commit")
              /\ UNCHANGED <<committed, newPayments, owner, request, todo, query>>
           \/ /\ HasPayments(s, i)
              /\ Fail(s)
-----------------------------------------------------------------------------
(* _allocate_payment, and the loop of run_reconciliation *)

\* The columns _allocate_payment sets.  The reconciliation has loaded a payment
\* without a suggestion, so its UPDATE leaves that column alone.
Allocated_WithoutInvoice(s, row, i) == [row EXCEPT !.match = "matched"]  \* mutant
Allocated(s, row, i) ==
    Row("matched", i, IF kind[s] = "reconcile" THEN row.suggested ELSE NoRow)

\* The UPDATE of the payment (which waits if somebody else holds the row: a
\* reconciliation has read it without a lock), then the sum of the other
\* payments of the invoice.
Allocate(s, p, i) ==
    LET others == MatchedTo(s, i) \ {p}
    IN  /\ Available(owner, s, p)
        /\ owner' = Acquire(owner, s, p)
        /\ newPayments' = [newPayments EXCEPT ![p] = Allocated(s, @, i)]
        /\ newStatus' = [newStatus EXCEPT ![i] =
              StatusAfter(@, Total[i] - Sum(others) - Amount[p])]

AllocateMatch(s) ==
    /\ pc[s] = "allocate"
    /\ Allocate(s, thePayment[s], theInvoice[s])
    /\ GoTo(s, "commit")
    /\ UNCHANGED <<committed, request, todo, query>>

\* The payments to reconcile are read without a lock.
ReadUnmatched(s) ==
    /\ pc[s] = "read"
    /\ todo' = [todo EXCEPT ![s] =
          {p \in Payment : payments[p].match = "unmatched" /\ payments[p].invoice = NoRow}]
    /\ GoTo(s, "next")
    /\ UNCHANGED <<committed, newest, owner, request, query>>

\* The issued invoices of the payment's customer.
OpenInvoices(s, p) ==
    {i \in Invoice : StatusFor(s, i) = "issued" /\ BilledTo[i] = PaidBy[p]}

\* The next payment: the snapshot of the query for invoices with exactly its
\* amount outstanding.
ExactMatches(s) ==
    LET p == Min(todo[s])
    IN  /\ pc[s] = "next"
        /\ todo[s] # {}
        /\ todo' = [todo EXCEPT ![s] = @ \ {p}]
        /\ thePayment' = [thePayment EXCEPT ![s] = p]
        /\ candidates' = [candidates EXCEPT ![s] =
              {i \in OpenInvoices(s, p) : Outstanding(s, i) = Amount[p]}]
        /\ found' = [found EXCEPT ![s] = {}]
        /\ GoTo(s, "exact")
        /\ UNCHANGED <<committed, newest, owner, kind, theInvoice>>

\* FOR UPDATE locks the rows of the snapshot one after the other.  A row that
\* has changed meanwhile is dropped if it is no longer issued; a row that has
\* not is kept, although its payments may have changed.
Lock(s, i) ==
    /\ Available(owner, s, i)
    /\ owner' = Acquire(owner, s, i)
    /\ UNCHANGED <<committed, newest, request, todo>>

StillIssued(s, i) == StatusFor(s, i) = "issued"

LockExact(s) ==
    LET i == Min(candidates[s])
    IN  /\ pc[s] = "exact"
        /\ candidates[s] # {}
        /\ Lock(s, i)
        /\ candidates' = [candidates EXCEPT ![s] = @ \ {i}]
        /\ found' = [found EXCEPT ![s] = IF StillIssued(s, i) THEN @ \cup {i} ELSE @]
        /\ UNCHANGED pc

\* Exactly one: the payment is allocated to it.
AllocateExact(s) ==
    /\ pc[s] = "exact"
    /\ candidates[s] = {}
    /\ Cardinality(found[s]) = 1
    /\ Allocate(s, thePayment[s], Min(found[s]))
    /\ GoTo(s, "next")
    /\ UNCHANGED <<committed, request, todo, query>>

\* None: the snapshot of the query for invoices near the payment's date.
DateMatches(s) ==
    LET p == thePayment[s]
        near == {i \in OpenInvoices(s, p) : /\ Outstanding(s, i) >= Amount[p]
                                            /\ Distance[p][i] =< Window}
    IN  /\ pc[s] = "exact"
        /\ candidates[s] = {}
        /\ found[s] = {}
        /\ candidates' = [candidates EXCEPT ![s] = near]
        /\ GoTo(s, IF near = {} THEN "next" ELSE "date")
        /\ UNCHANGED <<committed, newest, owner, request, todo, found>>

\* LIMIT 1 FOR UPDATE: the nearest row that passes, locking on the way.
Nearest(s) ==
    CHOOSE i \in candidates[s] : \A j \in candidates[s] :
        Distance[thePayment[s]][i] =< Distance[thePayment[s]][j]

LockNearest(s) ==
    LET i == Nearest(s)
        rest == candidates[s] \ {i}
    IN  /\ pc[s] = "date"
        /\ candidates[s] # {}
        /\ Lock(s, i)
        /\ \/ /\ StillIssued(s, i)
              /\ candidates' = [candidates EXCEPT ![s] = {}]
              /\ found' = [found EXCEPT ![s] = {i}]
              /\ UNCHANGED pc
           \/ /\ ~StillIssued(s, i)
              /\ candidates' = [candidates EXCEPT ![s] = rest]
              /\ GoTo(s, IF rest = {} THEN "next" ELSE "date")
              /\ UNCHANGED found

\* Several exact matches, or one near the date: the oldest, or that one, is
\* suggested.  The UPDATE is sent before the next query.
Suggested(row, i) == Row("suggested", row.invoice, i)

SuggestMatch(s) ==
    LET p == thePayment[s]
    IN  /\ candidates[s] = {}
        /\ \/ pc[s] = "exact" /\ Cardinality(found[s]) > 1
           \/ pc[s] = "date" /\ found[s] # {}
        /\ Available(owner, s, p)
        /\ owner' = Acquire(owner, s, p)
        /\ newPayments' = [newPayments EXCEPT ![p] = Suggested(@, Min(found[s]))]
        /\ GoTo(s, "next")
        /\ UNCHANGED <<committed, newStatus, request, todo, query>>

\* All payments have been looked at.
EndReconciliation(s) ==
    /\ pc[s] = "next"
    /\ todo[s] = {}
    /\ GoTo(s, "commit")
    /\ UNCHANGED <<committed, newest, owner, request, todo, query>>
-----------------------------------------------------------------------------
(* The connection is lost, the server stops, the statement times out, the void *)
(* deadline has passed, or no payment reference is to be had.                  *)
Abort(s) ==
    /\ pc[s] # "idle"
    /\ Fail(s)

\* The row the session's next statement waits for, if any.
Wanted(s) ==
    CASE pc[s] \in {"payment", "allocate"} -> {thePayment[s]}
      [] pc[s] = "invoice" -> {theInvoice[s]}
      [] pc[s] = "exact" /\ candidates[s] # {} -> {Min(candidates[s])}
      [] pc[s] = "date" /\ candidates[s] # {} -> {Nearest(s)}
      [] pc[s] \in {"exact", "date"} /\ candidates[s] = {} /\ found[s] # {} -> {thePayment[s]}
      [] OTHER -> {}
Blocker(s) ==
    IF \A r \in Wanted(s) : Available(owner, s, r) THEN NoSession
    ELSE CHOOSE t \in Session : \E r \in Wanted(s) : owner[r] = t

\* PostgreSQL's deadlock detector cancels one of the sessions of a cycle.
BreakDeadlock(s) ==
    /\ s \in Deadlocked([t \in Session |-> Blocker(t)])
    /\ Fail(s)

Requests(s) ==
    \/ \E p \in Payment :
          \/ RecordUnmatchedPayment(s, p)
          \/ ConfirmSuggestedMatch(s, p)
          \/ \E i \in Invoice : RecordPayment(s, p, i) \/ ManualMatch(s, p, i)
    \/ \E i \in Invoice : VoidInvoice(s, i)
    \/ RunReconciliation(s)

Statement(s) ==
    \/ LockPayment(s) \/ LockInvoice(s)
    \/ InsertPayment(s) \/ CheckBalance(s) \/ RefuseAmount(s) \/ MarkVoided(s)
    \/ AllocateMatch(s) \/ Commit(s)
    \/ ReadUnmatched(s) \/ ExactMatches(s) \/ LockExact(s) \/ AllocateExact(s)
    \/ DateMatches(s) \/ LockNearest(s) \/ SuggestMatch(s) \/ EndReconciliation(s)

Next == \E s \in Session :
    Requests(s) \/ Statement(s) \/ Abort(s) \/ BreakDeadlock(s)

Spec == Init /\ [][Next]_vars

\* PostgreSQL grants a row lock to the waiting sessions in turn and resolves
\* every deadlock; a service never stops between two statements.
Fairness == \A s \in Session : SF_vars(Statement(s)) /\ WF_vars(BreakDeadlock(s))

FairSpec == Spec /\ Fairness
-----------------------------------------------------------------------------
(* Properties *)

TypeOK ==
    /\ status \in [Invoice -> Status] /\ newStatus \in [Invoice -> Status]
    /\ payments \in [Payment -> PaymentRow] /\ newPayments \in [Payment -> PaymentRow]
    /\ owner \in [Invoice \cup Payment -> Session \cup {NoSession}]
    /\ pc \in [Session -> {"idle", "payment", "invoice", "sum", "allocate", "commit",
                           "read", "next", "exact", "date"}]
    /\ kind \in [Session -> {"none", "record", "match", "confirm", "void", "reconcile"}]
    /\ thePayment \in [Session -> Payment \cup {NoRow}]
    /\ theInvoice \in [Session -> Invoice \cup {NoRow}]
    /\ todo \in [Session -> SUBSET Payment]
    /\ candidates \in [Session -> SUBSET Invoice]
    /\ found \in [Session -> SUBSET Invoice]

Settles(i) == {p \in Payment : payments[p].match = "matched" /\ payments[p].invoice = i}

\* No money is booked on a voided invoice, although a payment may be recorded,
\* matched or reconciled while the invoice is being voided.
VoidedHasNoPayments == \A i \in Invoice : status[i] = "voided" => Settles(i) = {}

\* A void is never taken back: a booking that was decided before the void and
\* made after it would turn the invoice to paid (ALLOWED_TRANSITIONS has no
\* status after voided).
VoidIsFinal ==
    [][\A i \in Invoice : status[i] = "voided" => status'[i] = "voided"]_vars

\* The payments matched to an invoice never add up to more than its total
\* (story 6-1, AC3), whatever requests for the same invoice run together.
NeverOverpaid == \A i \in Invoice : Sum(Settles(i)) =< Total[i]

\* An invoice is paid exactly when its payments add up to its total (story 6-1,
\* AC2; story 6-2, AC4).
PaidInFull == \A i \in Invoice : status[i] = "paid" <=> Sum(Settles(i)) = Total[i]

\* Both together: while reconciliations run alone they are what a booking leaves.
Settled == NeverOverpaid /\ PaidInFull

\* A payment once matched stays matched to its invoice: there is no operation
\* that takes a match back (story 6-2: matched payments are skipped).
MatchIsFinal ==
    [][\A p \in Payment : payments[p].match = "matched" => payments'[p] = payments[p]]_vars

\* Every request comes to an end, also when a record (invoice, then payment)
\* and a match (payment, then invoice) wait for each other.
RequestsEnd == \A s \in Session : pc[s] # "idle" ~> pc[s] = "idle"

\* The indivisible bookings the transactions implement: of the detailed state
\* they see the committed statuses and payments, not the balances, locks and
\* objects of the sessions.
Books == INSTANCE AccountsReceivable

\* Every committed transaction is one booking of the promise, made on the
\* balances and statuses of the instant it commits: nothing that was checked
\* under a lock has changed by then, and nothing is booked twice or in part.
BookingsAreAtomic == Books!Spec
=============================================================================

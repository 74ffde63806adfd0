------------------------------- MODULE Payments -------------------------------
(***************************************************************************)
(* Two days of payments, and what the reports say.  A behaviour is that of *)
(* a quiet day, when reconciliations run alone (Exclusive), or of a busy   *)
(* one, when they run beside everything else.  The quiet day is module     *)
(* Receivables itself, the busy one an instance with rows and variables of *)
(* its own; the desk of the other day stays closed.  The reports are read  *)
(* on the rows of the quiet day.                                           *)
(***************************************************************************)
EXTENDS Receivables

CONSTANTS
    BusyInvoice, BusyPayment, BusyBilledTo, BusyPaidBy,
    BusyTotal, BusyAmount, BusyDistance,                    \* the busy day
    InvoiceDate, PaymentDate, Terms, NoTerms, UnitCosts, NoCost,
    Bills, PaidOut, CreditLimit,                            \* the reports
    Days          \* on which somebody reads them

VARIABLES
    part,                    \* whose day it is
    busyStatus, busyPayments, busyNewStatus, busyNewPayments, busyOwner,
    busyPc, busyKind, busyPayment, busyInvoice, busyTodo, busyCandidates, busyFound

Busy == INSTANCE Receivables WITH
    Invoice <- BusyInvoice, Payment <- BusyPayment, Exclusive <- FALSE,
    BilledTo <- BusyBilledTo, PaidBy <- BusyPaidBy, Total <- BusyTotal,
    Amount <- BusyAmount, Distance <- BusyDistance,
    status <- busyStatus, payments <- busyPayments,
    newStatus <- busyNewStatus, newPayments <- busyNewPayments, owner <- busyOwner,
    pc <- busyPc, kind <- busyKind, thePayment <- busyPayment, theInvoice <- busyInvoice,
    todo <- busyTodo, candidates <- busyCandidates, found <- busyFound

Reports == INSTANCE ReceivableReports

\* The reports are about different stretches of time, and those that are to agree
\* are read when all rows are in all of them: nothing is dated later than the day
\* of the reader, and no invoice is older than the twelve months of the trend.
ASSUME PaymentsAssumption ==
    /\ Busy!ReceivablesAssumption /\ Reports!ReportsAssumption
    /\ Days \subseteq Nat
    /\ \A day \in Days : /\ \A i \in Invoice : InvoiceDate[i] \in day - 360 .. day
                         /\ \A p \in Payment : PaymentDate[p] =< day
                         /\ \A x \in Bills : x.date =< day

busyVars == <<busyStatus, busyPayments, busyNewStatus, busyNewPayments, busyOwner,
              busyPc, busyKind, busyPayment, busyInvoice, busyTodo, busyCandidates, busyFound>>
days == <<part, vars, busyVars>>
DaysInit ==
    /\ part \in {"quiet", "busy"}
    /\ Init /\ Busy!Init
    /\ part = "quiet" => \A p \in BusyPayment : busyPayments[p] = Absent
    /\ part = "busy" => \A p \in Payment : payments[p] = Absent
DaysNext ==
    \/ part = "quiet" /\ Next /\ UNCHANGED <<part, busyVars>>
    \/ part = "busy" /\ Busy!Next /\ UNCHANGED <<part, vars>>

\* The fairness of Receivables, on the busy day; safety needs none.
BusyStep(A) == part = "busy" /\ A /\ UNCHANGED <<part, vars>>
DaysFairness ==
    \A s \in Session : /\ SF_days(BusyStep(Busy!Statement(s)))
                       /\ WF_days(BusyStep(Busy!BreakDeadlock(s)))

DaysSpec == DaysInit /\ [][DaysNext]_days /\ DaysFairness
-----------------------------------------------------------------------------
(* Properties: those of Receivables, and these *)

\* On the busy day too no money is booked on a voided invoice and no void is
\* taken back, whatever a reconciliation sees, and every request comes to an end,
\* although a reconciliation locks an invoice and then a payment and a match the
\* other way round.
BusyDay == []Busy!VoidedHasNoPayments /\ Busy!VoidIsFinal /\ Busy!RequestsEnd

\* On any day the invoice list, the customers' balances, statements and
\* analytics, the aging report and the dashboard agree about every invoice and
\* every sum, whatever has committed, and all that was billed has come in or is
\* owed.  (They see only what has committed, and nobody has to commit: it is
\* enough to look when no request is under way.)
AtRest == part = "quiet" /\ \A s \in Session : pc[s] = "idle"
ReportsAgree ==
    AtRest => \A day \in Days :
                Reports!ReportsAgreeOn(day) /\ Reports!BilledIsPaidOrOwedOn(day)
=============================================================================

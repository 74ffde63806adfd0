------------------------- MODULE AccountsReceivable -------------------------
(***************************************************************************)
(* What the payment and invoice services promise: a booking is one         *)
(* indivisible step, made on the balances and statuses of that instant.    *)
(* Stories 6-1 and 6-2 describe the services in these terms; Receivables   *)
(* is shown to implement it wherever it does.                              *)
(***************************************************************************)
EXTENDS Integers, FiniteSets, FiniteSetsExt

CONSTANTS Invoice, Payment, NoRow, BilledTo, PaidBy, Total, Amount,
          Unallocated(_)  \* the rows a payment without an invoice may have

VARIABLES status, payments

vars == <<status, payments>>

Init ==
    /\ status = [i \in Invoice |-> "issued"]
    /\ payments \in [Payment -> UNION {Unallocated(p) : p \in Payment}]
    /\ \A p \in Payment : payments[p] \in Unallocated(p)

Settles(i) == {p \in Payment : payments[p].match = "matched" /\ payments[p].invoice = i}
Balance(i) == Total[i] - MapThenSumSet(LAMBDA p : Amount[p], Settles(i))

Fits(p, i) == PaidBy[p] = BilledTo[i] /\ Amount[p] =< Balance(i)

\* The payments are booked on the invoices, which are paid when nothing is left.
Book(match) ==
    /\ payments' = [p \in Payment |->
          IF p \in DOMAIN match
          THEN [match |-> "matched", invoice |-> match[p], suggested |-> NoRow]
          ELSE payments[p]]
    /\ status' = [i \in Invoice |->
          IF \E p \in DOMAIN match : match[p] = i /\ Balance(i) = Amount[p]
          THEN "paid" ELSE status[i]]

Receive(p) ==
    /\ payments[p].match = "absent"
    /\ payments' = [payments EXCEPT ![p] =
                        [match |-> "unmatched", invoice |-> NoRow, suggested |-> NoRow]]
    /\ UNCHANGED status

Record(p, i) ==
    /\ payments[p].match = "absent"
    /\ status[i] # "voided"
    /\ Fits(p, i)
    /\ Book([q \in {p} |-> i])

Allot(p, i) ==
    /\ payments[p].match \in {"unmatched", "suggested"}
    /\ status[i] = "issued"
    /\ Fits(p, i)
    /\ Book([q \in {p} |-> i])

Void(i) ==
    /\ status[i] # "voided"
    /\ Settles(i) = {}
    /\ status' = [status EXCEPT ![i] = "voided"]
    /\ UNCHANGED payments

\* A reconciliation: unmatched payments are booked on an invoice each that
\* they pay exactly, others get a suggestion they fit.
Unmatched == {p \in Payment : payments[p].match = "unmatched"}

Reconcile == \E M, S \in SUBSET Unmatched :
    /\ M \cap S = {}
    /\ \E match \in [M -> Invoice], suggestion \in [S -> Invoice] :
        /\ \A p, q \in M : match[p] = match[q] => p = q
        /\ \A p \in M : Fits(p, match[p]) /\ Balance(match[p]) = Amount[p]
        /\ \A p \in M : status[match[p]] = "issued"
        /\ \A p \in S : Fits(p, suggestion[p]) /\ status[suggestion[p]] = "issued"
        /\ payments' = [p \in Payment |->
              IF p \in M
              THEN [match |-> "matched", invoice |-> match[p], suggested |-> NoRow]
              ELSE IF p \in S
              THEN [match |-> "suggested", invoice |-> NoRow, suggested |-> suggestion[p]]
              ELSE payments[p]]
        /\ status' = [i \in Invoice |->
              IF \E p \in M : match[p] = i THEN "paid" ELSE status[i]]

Next ==
    \/ \E p \in Payment : Receive(p) \/ \E i \in Invoice : Record(p, i) \/ Allot(p, i)
    \/ \E i \in Invoice : Void(i)
    \/ Reconcile

Spec == Init /\ [][Next]_vars
=============================================================================

---------------------------- MODULE ReorderAlerts ----------------------------
(***************************************************************************)
(* The reorder alert of one stock row: handle_reorder_alert, which every   *)
(* change to the stock runs in its own transaction, the acknowledge,       *)
(* snooze and dismiss requests of people, and changes to the reorder       *)
(* point, of src/backend/domains/inventory.  Requests run concurrently     *)
(* under READ COMMITTED.  A stock change holds the lock of the stock row   *)
(* when it reads the alert; nobody locks the alert before writing it.      *)
(*                                                                         *)
(* Abstracted: which request changes the stock (module StockLedger), the   *)
(* severity, who acknowledged or dismissed and when.                       *)
(***************************************************************************)
EXTENDS Integers, RowLocks

CONSTANTS
    MaxQuantity,   \* bound of the stock: larger quantities behave alike
    Delta,        \* what a request adds to the stock
    Point          \* reorder points people set; 0: no alerts

ReorderAssumption ==
    /\ MaxQuantity \in Nat
    /\ Delta \subseteq Int \ {0}
    /\ Point \subseteq Nat /\ 0 \in Point

AlertStatus == {"PENDING", "ACKNOWLEDGED", "SNOOZED", "DISMISSED", "RESOLVED"}
Verb == {"acknowledge", "snooze", "dismiss"}

\* The end of a snooze: NULL, yet to come, or past.
NoAlert == [status |-> "none", current |-> 0, snoozedUntil |-> "null"]
Alert == [status : AlertStatus, current : 0 .. MaxQuantity,
          snoozedUntil : {"null", "later", "past"}]
Column == {"status", "current", "snoozedUntil"}
Sent == {[c \in columns |-> a[c]] : columns \in SUBSET Column, a \in Alert}

Stock == [quantity : 0 .. MaxQuantity, point : Point]
NoStock == [quantity |-> 0, point |-> 0]
Nothing == [c \in {} |-> 0]

VARIABLES
    stock,        \* the committed stock row: its quantity and reorder point
    alert,        \* the committed alert, or NoAlert
    judged,       \* the reorder point the last change to the stock went by
    owner,        \* who holds the stock row, and who the alert
    pc, kind, asks,   \* what each session is about to do, its request
    mine,         \* the stock row as the session has changed it
    changes       \* the columns of the alert it sends: a function from them

committed == <<stock, alert, judged>>
request == <<kind, asks>>
objects == <<mine, changes>>
vars == <<committed, owner, pc, request, objects>>

Init ==
    /\ stock \in Stock
    /\ alert = NoAlert
    /\ judged = 0
    /\ owner = Unlocked({"stock", "alert"})
    /\ pc = [s \in Session |-> "idle"]
    /\ kind = [s \in Session |-> "none"]
    /\ asks = [s \in Session |-> 0]
    /\ mine = [s \in Session |-> NoStock]
    /\ changes = [s \in Session |-> Nothing]
-----------------------------------------------------------------------------
(* What becomes of an alert *)

\* _release_expired_snooze.
Released(a) ==
    IF a.status = "SNOOZED" /\ a.snoozedUntil = "past"
    THEN [a EXCEPT !.status = "PENDING", !.snoozedUntil = "null"] ELSE a

\* Stock at or under the reorder point.  A dismissal holds until the stock has
\* recovered, an acknowledgement stays.
Low(quantity, point) == quantity =< point

Breached(a, quantity, point) ==
    LET r == Released(a)
    IN  IF a = NoAlert
        THEN [status |-> "PENDING", current |-> quantity, snoozedUntil |-> "null"]
        ELSE [r EXCEPT !.current = quantity,
                       !.status = IF \/ @ = "RESOLVED"
                                     \/ @ = "DISMISSED" /\ a.current > point
                                  THEN "PENDING" ELSE @]

\* Stock above it: an active alert is resolved.
Restored_KeepsSnooze(a, quantity) ==  \* mutant: the snooze ends, the status stays
    LET r == Released(a)
    IN  IF a = NoAlert THEN NoAlert
        ELSE [r EXCEPT !.current = quantity, !.snoozedUntil = "null",
                       !.status = IF @ = "PENDING" THEN "RESOLVED" ELSE @]
Restored(a, quantity) ==
    LET r == Released(a)
    IN  CASE a = NoAlert -> NoAlert
          [] r.status \in {"PENDING", "SNOOZED"} ->
                [status |-> "RESOLVED", current |-> quantity, snoozedUntil |-> "null"]
          [] OTHER -> [r EXCEPT !.current = quantity]

\* _check_reorder_alert.
Judged(a, quantity, point) ==
    IF Low(quantity, point) THEN Breached(a, quantity, point)
                            ELSE Restored(a, quantity)

\* acknowledge_alert, snooze_alert and dismiss_alert.
Answered(verb, a) ==
    LET r == Released(a)
    IN  CASE verb = "acknowledge" -> [r EXCEPT !.status = "ACKNOWLEDGED"]
          [] verb = "snooze" -> [r EXCEPT !.status = "SNOOZED", !.snoozedUntil = "later"]
          [] verb = "dismiss" -> [r EXCEPT !.status = "DISMISSED", !.snoozedUntil = "null"]

\* list_reorder_alerts: the status an alert is listed with, and the filters it is
\* listed under.
Over(a) == a.status = "SNOOZED" /\ a.snoozedUntil = "past"
ListedAs(a) == IF Over(a) THEN "PENDING" ELSE a.status
ListedUnder(a, filter) ==
    \/ filter = "PENDING" /\ (a.status = "PENDING" \/ Over(a))
    \/ filter = "SNOOZED" /\ a.status = "SNOOZED" /\ a.snoozedUntil \in {"null", "later"}
    \/ filter \notin {"PENDING", "SNOOZED"} /\ a.status = filter

\* What an UPDATE sends: the columns that differ from what was loaded (the end of
\* a new snooze differs from any other).  An INSERT sends all of them.
Changed(verb, old, new) ==
    LET columns == {c \in Column : \/ old = NoAlert /\ new # NoAlert
                                   \/ new[c] # old[c]
                                   \/ c = "snoozedUntil" /\ verb = "snooze"}
    IN  [c \in columns |-> new[c]]

\* The other columns keep what the row says by then.
Overwrite(current, sent) ==
    [c \in Column |-> IF c \in DOMAIN sent THEN sent[c] ELSE current[c]]
-----------------------------------------------------------------------------
(* Requests *)

GoTo(s, label) == pc' = [pc EXCEPT ![s] = label]

Begin(s, k, ask, first) ==
    /\ pc[s] = "idle"
    /\ kind' = [kind EXCEPT ![s] = k]
    /\ asks' = [asks EXCEPT ![s] = ask]
    /\ GoTo(s, first)
    /\ UNCHANGED <<committed, owner, objects>>

\* An adjustment, a leg of a transfer, a line of a delivery or of an order.
ChangeStock(s, change) == Begin(s, "change", change, "lock")

\* PATCH of the stock settings, and one row of apply_reorder_points.
SetReorderPoint(s, point) == Begin(s, "settings", point, "lock")

\* PUT /alerts/reorder/{id}/acknowledge, snooze and dismiss.
AnswerAlert(s, verb) ==
    /\ alert # NoAlert
    /\ Begin(s, verb, 0, "alert")

Close(s) ==
    /\ owner' = Release(owner, s)
    /\ GoTo(s, "idle")
    /\ kind' = [kind EXCEPT ![s] = "none"]
    /\ asks' = [asks EXCEPT ![s] = 0]
    /\ mine' = [mine EXCEPT ![s] = NoStock]
    /\ changes' = [changes EXCEPT ![s] = Nothing]

Fail(s) == Close(s) /\ UNCHANGED committed
-----------------------------------------------------------------------------
(* Inside a transaction *)

\* SELECT the stock row FOR UPDATE (the settings' UPDATE waits just as well).
ForUpdate(s) == Available(owner, s, "stock")

LockStock(s) ==
    /\ pc[s] = "lock"
    /\ ForUpdate(s)
    /\ owner' = Acquire(owner, s, "stock")
    /\ \/ /\ kind[s] = "settings"
          /\ mine' = [mine EXCEPT ![s] = [stock EXCEPT !.point = asks[s]]]
          /\ GoTo(s, "commit")
       \/ /\ kind[s] = "change"
          /\ stock.quantity + asks[s] \in 0 .. MaxQuantity
          /\ mine' = [mine EXCEPT ![s] = [stock EXCEPT !.quantity = @ + asks[s]]]
          /\ GoTo(s, IF stock.point = 0 THEN "commit" ELSE "alert")
    /\ asks' = [asks EXCEPT ![s] = 0]
    /\ UNCHANGED <<committed, kind, changes>>

\* Not enough stock.
Refuse(s) ==
    /\ pc[s] = "lock"
    /\ ForUpdate(s)
    /\ kind[s] = "change"
    /\ stock.quantity + asks[s] \notin 0 .. MaxQuantity
    /\ Fail(s)

\* A plain SELECT of the alert.  People get no further with a closed one.
SelectAlert(s) ==
    LET new == IF kind[s] = "change"
               THEN Judged(alert, mine[s].quantity, mine[s].point)
               ELSE Answered(kind[s], alert)
    IN  /\ pc[s] = "alert"
        /\ kind[s] \in Verb => Released(alert).status \notin {"RESOLVED", "DISMISSED"}
        /\ changes' = [changes EXCEPT ![s] = Changed(kind[s], alert, new)]
        /\ GoTo(s, IF kind[s] = "change" /\ new = alert THEN "commit"
                   ELSE IF alert = NoAlert THEN "insert" ELSE "update")
        /\ UNCHANGED <<committed, owner, request, mine>>

AlreadyClosed(s) ==
    /\ pc[s] = "alert"
    /\ kind[s] \in Verb
    /\ Released(alert).status \in {"RESOLVED", "DISMISSED"}
    /\ Fail(s)

\* The flush: an UPDATE that waits for another one of the alert (people's sends
\* at least who answered and when), or the INSERT of the first alert, which the
\* unique index refuses if there is one by now.
Update(s) ==
    /\ pc[s] = "update"
    /\ Available(owner, s, "alert")
    /\ owner' = Acquire(owner, s, "alert")
    /\ GoTo(s, "commit")
    /\ UNCHANGED <<committed, request, objects>>

Insert(s) ==
    /\ pc[s] = "insert"
    /\ Available(owner, s, "alert")
    /\ owner' = Acquire(owner, s, "alert")
    /\ GoTo(s, IF alert = NoAlert THEN "commit" ELSE "conflict")
    /\ UNCHANGED <<committed, request, objects>>

Commit(s) ==
    /\ pc[s] = "commit"
    /\ stock' = IF owner["stock"] = s THEN mine[s] ELSE stock
    /\ judged' = IF kind[s] = "change" THEN mine[s].point ELSE judged
    /\ alert' = IF owner["alert"] = s
                THEN Overwrite(alert, changes[s]) ELSE alert
    /\ Close(s)

\* The connection is lost or the server stops.
Abort(s) ==
    /\ pc[s] # "idle"
    /\ Fail(s)

\* Time passes.
SnoozeOver ==
    /\ alert.snoozedUntil = "later"
    /\ alert' = [alert EXCEPT !.snoozedUntil = "past"]
    /\ UNCHANGED <<stock, judged, owner, pc, request, objects>>

Statement(s) ==
    \/ LockStock(s) \/ Refuse(s) \/ SelectAlert(s) \/ AlreadyClosed(s)
    \/ Update(s) \/ Insert(s) \/ Commit(s)

Next ==
    \/ SnoozeOver
    \/ \E s \in Session :
          \/ \E change \in Delta : ChangeStock(s, change)
          \/ \E point \in Point : SetReorderPoint(s, point)
          \/ \E verb \in Verb : AnswerAlert(s, verb)
          \/ Statement(s) \/ Abort(s)

Spec == Init /\ [][Next]_vars

\* The database grants a row to the waiting sessions in turn, a service never
\* stops between two statements.
Fairness == \A s \in Session : SF_vars(Statement(s))

FairSpec == Spec /\ Fairness
-----------------------------------------------------------------------------
(* Properties *)

\* No session ever meets the unique index on the alert ("conflict"): the lock of
\* the stock row keeps two first alerts of it apart.
TypeOK ==
    /\ stock \in Stock
    /\ alert \in Alert \cup {NoAlert}
    /\ judged \in Point
    /\ owner \in [{"stock", "alert"} -> Session \cup {NoSession}]
    /\ pc \in [Session -> {"idle", "lock", "alert", "update", "insert", "commit"}]
    /\ kind \in [Session -> Verb \cup {"none", "change", "settings"}]
    /\ asks \in [Session -> Delta \cup Point \cup {0}]
    /\ mine \in [Session -> Stock]
    /\ changes \in [Session -> Sent]

\* After every change to the stock of a row with a reorder point, the alert says
\* what the stock says, whatever people do to the alert meanwhile: it is there
\* and not resolved while the stock is low, it is not pending otherwise, and it
\* shows the quantity in stock (story 4-3, AC1, AC5 and AC7).
AlertFollowsStock ==
    judged > 0 =>
        /\ stock.quantity =< judged => alert.status \notin {"none", "RESOLVED"}
        /\ stock.quantity > judged => alert.status # "PENDING"
        /\ alert # NoAlert => alert.current = stock.quantity

\* A snoozed alert comes back: whatever is written over whatever, it never stays
\* snoozed without a time at which the snooze is over.
SnoozeEnds == alert.status = "SNOOZED" => alert.snoozedUntil # "null"

\* Every alert is listed under one filter, the status it is listed with, which is
\* also the one an answer to it starts from.
ListedOnce == alert # NoAlert =>
    /\ \A filter \in AlertStatus : ListedUnder(alert, filter) <=> filter = ListedAs(alert)
    /\ ListedAs(alert) = Released(alert).status

-----------------------------------------------------------------------------
(* The inductive invariant of these properties *)

\* What the statement a session is at says of its request and of the alert: people
\* answer an alert there is, the INSERT is sent while there is none.
FitsItsRequest(s) ==
    /\ pc[s] = "idle" <=> kind[s] = "none"
    /\ kind[s] = "settings" => pc[s] \in {"lock", "commit"}
    /\ kind[s] = "settings" /\ pc[s] = "lock" => asks[s] \in Point
    /\ kind[s] \in Verb => pc[s] \in {"alert", "update", "commit"} /\ alert # NoAlert
    /\ pc[s] = "insert" => kind[s] = "change" /\ alert = NoAlert

\* Whoever changes the stock row holds it until the commit, the alert is held at
\* the commit only; the settings leave the quantity alone.
HoldsItsRows(s) ==
    /\ owner["stock"] = s <=>
          kind[s] \in {"change", "settings"} /\ pc[s] \notin {"idle", "lock"}
    /\ owner["alert"] = s => pc[s] = "commit" /\ kind[s] # "settings"
    /\ kind[s] = "settings" /\ pc[s] = "commit" => mine[s].quantity = stock.quantity

\* A status of "SNOOZED" is sent with the end of the snooze, an end of the snooze
\* that is NULL with another status.
EndsTheSnooze(sent) ==
    /\ "status" \in DOMAIN sent /\ sent["status"] = "SNOOZED" =>
          "snoozedUntil" \in DOMAIN sent /\ sent["snoozedUntil"] # "null"
    /\ "snoozedUntil" \in DOMAIN sent /\ sent["snoozedUntil"] = "null" =>
          "status" \in DOMAIN sent /\ sent["status"] # "SNOOZED"

\* The columns people send can neither resolve an alert nor make it pending, and
\* leave its quantity alone.
SendsAnAnswer(sent) ==
    /\ "current" \notin DOMAIN sent
    /\ "status" \in DOMAIN sent =>
          sent["status"] \in {"ACKNOWLEDGED", "SNOOZED", "DISMISSED"}

\* What the alert a must say of a stock that is judged by a reorder point.
Follows(a, quantity, point) ==
    point > 0 =>
        /\ quantity =< point => a["status"] \notin {"none", "RESOLVED"}
        /\ quantity > point => a["status"] # "PENDING"
        /\ a["status"] # "none" => a["current"] = quantity

\* The columns a session sends.  Those of a change to the stock leave an alert
\* that follows the stock, whatever people have made of the others by then.
SendsItsColumns(s) ==
    /\ pc[s] \in {"idle", "lock", "alert"} => DOMAIN changes[s] = {}
    /\ pc[s] = "commit" /\ owner["alert"] # s => DOMAIN changes[s] = {}
    /\ alert = NoAlert => DOMAIN changes[s] \in {{}, Column}
    /\ EndsTheSnooze(changes[s])
    /\ kind[s] \in Verb => SendsAnAnswer(changes[s])
    /\ kind[s] = "change" /\ pc[s] \in {"update", "insert", "commit"} =>
          Follows(Overwrite(alert, changes[s]), mine[s].quantity, mine[s].point)

InStep(s) == FitsItsRequest(s) /\ HoldsItsRows(s) /\ SendsItsColumns(s)

IInv == TypeOK /\ AlertFollowsStock /\ SnoozeEnds /\ \A s \in Session : InStep(s)
-----------------------------------------------------------------------------
\* "ACKNOWLEDGED stays acknowledged - do not demote" (_check_reorder_alert).
AcknowledgedStays ==
    [][alert.status = "ACKNOWLEDGED" => alert'.status # "PENDING"]_vars

\* Every request ends.
EveryoneIsAnswered == \A s \in Session : pc[s] # "idle" ~> pc[s] = "idle"
=============================================================================

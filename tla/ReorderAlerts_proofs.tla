------------------------ MODULE ReorderAlerts_proofs ------------------------
(***************************************************************************)
(* Proofs about ReorderAlerts, for any stock, changes, reorder points and  *)
(* number of sessions: the alert follows the stock whatever people answer  *)
(* meanwhile, comes back from every snooze and is listed once.             *)
(***************************************************************************)
EXTENDS ReorderAlerts, TLAPS

\* What ReorderAssumption says of the constants, for the provers.
LEMMA Constants ==
  ASSUME ReorderAssumption
  PROVE  MaxQuantity \in Nat /\ Delta \subseteq Int /\ Point \subseteq Nat /\ 0 \in Point
  BY DEF ReorderAssumption

\* An alert is a record of its three columns.
LEMMA AlertColumns ==
  ASSUME NEW a \in Alert
  PROVE  /\ a.status \in AlertStatus /\ a.current \in 0 .. MaxQuantity
         /\ a.snoozedUntil \in {"null", "later", "past"}
         /\ a["status"] = a.status /\ a["current"] = a.current
         /\ a["snoozedUntil"] = a.snoozedUntil
         /\ a # NoAlert
  BY DEF Alert, AlertStatus, NoAlert

LEMMA ColumnsAlert ==
  ASSUME NEW a, a = [c \in Column |-> a[c]],
         a["status"] \in AlertStatus, a["current"] \in 0 .. MaxQuantity,
         a["snoozedUntil"] \in {"null", "later", "past"}
  PROVE  a \in Alert
  BY DEF Alert, Column

LEMMA NoColumns ==
  /\ NoAlert.status = "none" /\ NoAlert.current = 0 /\ NoAlert.snoozedUntil = "null"
  /\ NoAlert["status"] = "none" /\ NoAlert["current"] = 0 /\ NoAlert["snoozedUntil"] = "null"
  /\ NoAlert \notin Alert
  BY DEF NoAlert, Alert, AlertStatus

\* What a session sends.
LEMMA SentColumns ==
  ASSUME NEW x \in Sent
  PROVE  /\ DOMAIN x \subseteq Column
         /\ "status" \in DOMAIN x => x["status"] \in AlertStatus
         /\ "current" \in DOMAIN x => x["current"] \in 0 .. MaxQuantity
         /\ "snoozedUntil" \in DOMAIN x => x["snoozedUntil"] \in {"null", "later", "past"}
  <1>1. PICK a \in Alert, cs \in SUBSET Column : x = [c \in cs |-> a[c]]
    BY DEF Sent
  <1>2. DOMAIN x = cs /\ \A c \in cs : x[c] = a[c]
    BY <1>1
  <1> QED
    BY <1>2, AlertColumns

LEMMA SentNothing ==
  ASSUME ReorderAssumption, NEW x, x = [c \in DOMAIN x |-> x[c]], DOMAIN x = {}
  PROVE  x \in Sent
  <1>1. PICK a : a = [status |-> "PENDING", current |-> 0, snoozedUntil |-> "null"]
    OBVIOUS
  <1>2. a \in Alert
    BY <1>1, Constants DEF Alert, AlertStatus
  <1>3. PICK cs : cs = {}
    OBVIOUS
  <1>4. cs \in SUBSET Column /\ x = [c \in cs |-> a[c]]
    BY <1>3
  <1> QED
    BY <1>2, <1>4 DEF Sent

LEMMA NothingSent ==
  /\ DOMAIN Nothing = {} /\ Nothing = [c \in DOMAIN Nothing |-> Nothing[c]]
  BY DEF Nothing

\* The columns that an UPDATE leaves and those it sends.
LEMMA Overwritten ==
  ASSUME NEW a \in Alert \cup {NoAlert}, NEW x \in Sent, NEW b, b = Overwrite(a, x)
  PROVE  /\ DOMAIN x = {} => b = a
         /\ a \in Alert \/ DOMAIN x = Column => b \in Alert
         /\ \A c \in Column : b[c] = IF c \in DOMAIN x THEN x[c] ELSE a[c]
         /\ b \in Alert => b.status = b["status"] /\ b.current = b["current"]
                           /\ b.snoozedUntil = b["snoozedUntil"]
  <1>1. b = [c \in Column |-> b[c]]
    BY DEF Overwrite
  <1>2. \A c \in Column : b[c] = IF c \in DOMAIN x THEN x[c] ELSE a[c]
    BY DEF Overwrite
  <1>3. ASSUME DOMAIN x = {} PROVE b = a
    <2>1. a = [c \in Column |-> a[c]]
      BY DEF Alert, NoAlert, Column
    <2> QED
      BY <1>3, <2>1 DEF Overwrite
  <1>4. ASSUME a \in Alert \/ DOMAIN x = Column PROVE b \in Alert
    <2>1. Column = {"status", "current", "snoozedUntil"}
      BY DEF Column
    <2> QED
      BY <1>1, <1>2, <1>4, <2>1, SentColumns, AlertColumns, ColumnsAlert
  <1> QED
    BY <1>2, <1>3, <1>4, AlertColumns

\* The columns of an alert, one by one.
LEMMA AlertFields ==
  ASSUME NEW a \in Alert
  PROVE  \E x \in AlertStatus, y \in 0 .. MaxQuantity, z \in {"null", "later", "past"} :
            a = [status |-> x, current |-> y, snoozedUntil |-> z]
  <1>1. a = [status |-> a.status, current |-> a.current, snoozedUntil |-> a.snoozedUntil]
    BY DEF Alert
  <1> QED
    BY <1>1, AlertColumns

\* The alert after the end of its snooze.
LEMMA ReleasedAlert ==
  ASSUME NEW a \in Alert
  PROVE  /\ Released(a) \in Alert /\ Released(a).current = a.current
         /\ Released(a).status = ListedAs(a)
         /\ Over(a) => Released(a).snoozedUntil = "null"
         /\ ~Over(a) => Released(a) = a
  <1>1. PICK x \in AlertStatus, y \in 0 .. MaxQuantity, z \in {"null", "later", "past"} :
             a = [status |-> x, current |-> y, snoozedUntil |-> z]
    BY AlertFields
  <1>2. CASE Over(a)
    <2>1. Released(a) = [a EXCEPT !.status = "PENDING", !.snoozedUntil = "null"]
      BY <1>2 DEF Over, Released
    <2>2. Released(a) = [status |-> "PENDING", current |-> y, snoozedUntil |-> "null"]
      BY <1>1, <2>1, Zenon
    <2> QED
      BY <1>1, <1>2, <2>2 DEF Alert, AlertStatus, ListedAs
  <1>3. CASE ~Over(a)
    <2>1. Released(a) = a
      BY <1>3 DEF Over, Released
    <2> QED
      BY <1>3, <2>1 DEF ListedAs
  <1> QED
    BY <1>2, <1>3

\* What _check_reorder_alert makes of an alert, column by column.
LEMMA BreachedAlert ==
  ASSUME NEW a \in Alert, NEW q \in 0 .. MaxQuantity, NEW p \in Nat,
         NEW b, b = Breached(a, q, p)
  PROVE  /\ b \in Alert /\ b.current = q /\ b.status # "RESOLVED"
         /\ b.status \in {"PENDING", Released(a).status}
         /\ b.snoozedUntil = Released(a).snoozedUntil
  <1>1. PICK r : r = Released(a)
    OBVIOUS
  <1>2. r \in Alert /\ a # NoAlert
    BY <1>1, ReleasedAlert, AlertColumns
  <1>3. PICK t : t = IF \/ r.status = "RESOLVED"
                        \/ r.status = "DISMISSED" /\ a.current > p
                     THEN "PENDING" ELSE r.status
    OBVIOUS
  <1>4. PICK x \in AlertStatus, y \in 0 .. MaxQuantity, z \in {"null", "later", "past"} :
             r = [status |-> x, current |-> y, snoozedUntil |-> z]
    BY <1>2, AlertFields
  <1>5. t \in AlertStatus /\ t # "RESOLVED" /\ t \in {"PENDING", x}
    BY <1>3, <1>4 DEF AlertStatus
  <1>6. b = [status |-> t, current |-> q, snoozedUntil |-> z]
    <2>1. b = [r EXCEPT !.current = q, !.status = t]
      BY <1>1, <1>2, <1>3, Zenon DEF Breached
    <2> QED
      BY <1>4, <2>1
  <1> QED
    BY <1>1, <1>4, <1>5, <1>6 DEF Alert

LEMMA RestoredAlert ==
  ASSUME NEW a \in Alert, NEW q \in 0 .. MaxQuantity, NEW b, b = Restored(a, q)
  PROVE  /\ b \in Alert /\ b.current = q /\ b.status # "PENDING"
         /\ \/ b.status = "RESOLVED" /\ b.snoozedUntil = "null"
               /\ Released(a).status \in {"PENDING", "SNOOZED"}
            \/ /\ b.status = Released(a).status
               /\ b.snoozedUntil = Released(a).snoozedUntil
               /\ b.status # "SNOOZED"
  <1>1. PICK r : r = Released(a)
    OBVIOUS
  <1>2. r \in Alert /\ a # NoAlert
    BY <1>1, ReleasedAlert, AlertColumns
  <1>3. PICK x \in AlertStatus, y \in 0 .. MaxQuantity, z \in {"null", "later", "past"} :
             r = [status |-> x, current |-> y, snoozedUntil |-> z]
    BY <1>2, AlertFields
  <1>4. CASE x \in {"PENDING", "SNOOZED"}
    <2>1. r.status \in {"PENDING", "SNOOZED"}
      BY <1>3, <1>4
    <2>2. b = [status |-> "RESOLVED", current |-> q, snoozedUntil |-> "null"]
      BY <1>1, <1>2, <2>1, Zenon DEF Restored
    <2> QED
      BY <1>1, <1>3, <1>4, <2>2 DEF Alert, AlertStatus
  <1>5. CASE x \notin {"PENDING", "SNOOZED"}
    <2>1. r.status \notin {"PENDING", "SNOOZED"}
      BY <1>3, <1>5
    <2>2. b = [r EXCEPT !.current = q]
      BY <1>1, <1>2, <2>1, Zenon DEF Restored
    <2>3. b = [status |-> x, current |-> q, snoozedUntil |-> z]
      BY <1>3, <2>2
    <2> QED
      BY <1>1, <1>3, <1>5, <2>3 DEF Alert
  <1> QED
    BY <1>4, <1>5

\* The answers of people.
LEMMA AnsweredAlert ==
  ASSUME NEW a \in Alert, NEW verb \in Verb, NEW b, b = Answered(verb, a)
  PROVE  /\ b \in Alert /\ b.current = a.current
         /\ b.status \in {"ACKNOWLEDGED", "SNOOZED", "DISMISSED"}
         /\ verb = "acknowledge" => /\ b.status = "ACKNOWLEDGED"
                                    /\ b.snoozedUntil = Released(a).snoozedUntil
         /\ verb = "snooze" => b.status = "SNOOZED" /\ b.snoozedUntil = "later"
         /\ verb = "dismiss" => b.status = "DISMISSED" /\ b.snoozedUntil = "null"
  <1>1. PICK r : r = Released(a)
    OBVIOUS
  <1>2. r \in Alert /\ r.current = a.current
    BY <1>1, ReleasedAlert
  <1>3. PICK x \in AlertStatus, y \in 0 .. MaxQuantity, z \in {"null", "later", "past"} :
             r = [status |-> x, current |-> y, snoozedUntil |-> z]
    BY <1>2, AlertFields
  <1>4. CASE verb = "acknowledge"
    <2>1. b = [r EXCEPT !.status = "ACKNOWLEDGED"]
      BY <1>1, <1>4, Zenon DEF Answered
    <2>2. b = [status |-> "ACKNOWLEDGED", current |-> y, snoozedUntil |-> z]
      BY <1>3, <2>1
    <2> QED
      BY <1>1, <1>2, <1>3, <1>4, <2>2 DEF Alert, AlertStatus
  <1>5. CASE verb = "snooze"
    <2>1. b = [r EXCEPT !.status = "SNOOZED", !.snoozedUntil = "later"]
      BY <1>1, <1>5, Zenon DEF Answered
    <2>2. b = [status |-> "SNOOZED", current |-> y, snoozedUntil |-> "later"]
      BY <1>3, <2>1
    <2> QED
      BY <1>1, <1>2, <1>3, <1>5, <2>2 DEF Alert, AlertStatus
  <1>6. CASE verb = "dismiss"
    <2>1. b = [r EXCEPT !.status = "DISMISSED", !.snoozedUntil = "null"]
      BY <1>1, <1>6, Zenon DEF Answered
    <2>2. b = [status |-> "DISMISSED", current |-> y, snoozedUntil |-> "null"]
      BY <1>3, <2>1
    <2> QED
      BY <1>1, <1>2, <1>3, <1>6, <2>2 DEF Alert, AlertStatus
  <1> QED
    BY <1>4, <1>5, <1>6 DEF Verb

\* An alert of which every column is one of another's alert is that alert; its
\* columns are what InStep speaks of.
LEMMA Columnwise ==
  ASSUME NEW a \in Alert \cup {NoAlert}
  PROVE  /\ a["status"] = a.status /\ a["current"] = a.current
         /\ a["snoozedUntil"] = a.snoozedUntil
         /\ a.status = "none" <=> a = NoAlert
  BY AlertColumns, NoColumns DEF AlertStatus

\* What is sent of a first alert, of none, and of one there was before.
LEMMA FirstAlert ==
  ASSUME ReorderAssumption, NEW b \in Alert, NEW x, x = Changed("change", NoAlert, b)
  PROVE  x \in Sent /\ DOMAIN x = Column /\ \A c \in Column : x[c] = b[c]
  <1>1. b # NoAlert
    BY NoColumns
  <1>2. {c \in Column : \/ NoAlert = NoAlert /\ b # NoAlert
                        \/ b[c] # NoAlert[c]
                        \/ c = "snoozedUntil" /\ "change" = "snooze"} = Column
    BY <1>1
  <1>3. x = [c \in Column |-> b[c]]
    BY <1>2, Zenon DEF Changed
  <1>4. Column \in SUBSET Column
    OBVIOUS
  <1>5. x \in Sent
    BY <1>3, <1>4 DEF Sent
  <1> QED
    BY <1>3, <1>5

LEMMA StillNoAlert ==
  ASSUME ReorderAssumption, NEW x, x = Changed("change", NoAlert, NoAlert)
  PROVE  x \in Sent /\ DOMAIN x = {}
  <1>1. {c \in Column : \/ NoAlert = NoAlert /\ NoAlert # NoAlert
                        \/ NoAlert[c] # NoAlert[c]
                        \/ c = "snoozedUntil" /\ "change" = "snooze"} = {}
    OBVIOUS
  <1>2. x = [c \in {} |-> NoAlert[c]]
    BY <1>1, Zenon DEF Changed
  <1>3. DOMAIN x = {} /\ x = [c \in DOMAIN x |-> x[c]]
    BY <1>2
  <1> QED
    BY <1>3, SentNothing

LEMMA ChangedAlert ==
  ASSUME NEW a \in Alert, NEW b \in Alert, NEW verb, NEW x, x = Changed(verb, a, b)
  PROVE  /\ x \in Sent /\ \A c \in DOMAIN x : x[c] = b[c]
         /\ \A c \in Column : c \in DOMAIN x <=> \/ b[c] # a[c]
                                                 \/ c = "snoozedUntil" /\ verb = "snooze"
  <1>1. PICK cs : cs = {c \in Column : \/ a = NoAlert /\ b # NoAlert
                                       \/ b[c] # a[c]
                                       \/ c = "snoozedUntil" /\ verb = "snooze"}
    OBVIOUS
  <1>2. x = [c \in cs |-> b[c]]
    BY <1>1 DEF Changed
  <1>3. cs \in SUBSET Column /\ DOMAIN x = cs /\ \A c \in cs : x[c] = b[c]
    BY <1>1, <1>2
  <1>4. x \in Sent
    BY <1>2, <1>3 DEF Sent
  <1>5. a # NoAlert
    BY NoColumns
  <1> QED
    BY <1>1, <1>3, <1>4, <1>5

\* What a change to the stock makes of the alert follows the stock, and what it
\* sends ends no snooze halfway.
LEMMA JudgedAlert ==
  ASSUME ReorderAssumption, NEW a \in Alert \cup {NoAlert},
         NEW q \in 0 .. MaxQuantity, NEW p \in Nat,
         NEW b, b = Judged(a, q, p), NEW x, x = Changed("change", a, b)
  PROVE  /\ b \in Alert \cup {NoAlert} /\ (b = NoAlert => a = NoAlert)
         /\ Follows(b, q, p) /\ EndsTheSnooze(x) /\ x \in Sent
  <1>1. CASE a = NoAlert /\ Low(q, p)
    <2>1. b = [status |-> "PENDING", current |-> q, snoozedUntil |-> "null"]
      BY <1>1 DEF Judged, Breached
    <2>2. b \in Alert
      BY <2>1 DEF Alert, AlertStatus
    <2>3. x \in Sent /\ DOMAIN x = Column /\ \A c \in Column : x[c] = b[c]
      BY <1>1, <2>2, FirstAlert
    <2>5. EndsTheSnooze(x)
      BY <2>1, <2>2, <2>3, Columnwise DEF EndsTheSnooze, Column
    <2>6. Follows(b, q, p)
      BY <1>1, <2>1, <2>2, Columnwise DEF Follows, Low
    <2> QED
      BY <2>2, <2>3, <2>5, <2>6, NoColumns
  <1>2. CASE a = NoAlert /\ ~Low(q, p)
    <2>1. b = NoAlert
      <3>1. b = Restored(a, q)
        BY <1>2 DEF Judged
      <3>2. Released(a).status \notin {"PENDING", "SNOOZED"}
        BY <1>2, NoColumns DEF Released
      <3> QED
        BY <1>2, <3>1, <3>2, Zenon DEF Restored
    <2>2. x \in Sent /\ DOMAIN x = {}
      BY <1>2, <2>1, StillNoAlert
    <2>3. Follows(b, q, p)
      BY <1>2, <2>1, NoColumns DEF Follows, Low
    <2> QED
      BY <1>2, <2>1, <2>2, <2>3 DEF EndsTheSnooze
  <1>3. CASE a \in Alert /\ Low(q, p)
    <2>1. b = Breached(a, q, p)
      BY <1>3 DEF Judged
    <2>2. /\ b \in Alert /\ b.current = q /\ b.status # "RESOLVED"
          /\ b.status \in {"PENDING", Released(a).status}
          /\ b.snoozedUntil = Released(a).snoozedUntil
      BY <1>3, <2>1, BreachedAlert
    <2>3. Follows(b, q, p)
      <3>1. q =< p /\ b["status"] # "RESOLVED" /\ b["status"] # "none" /\ b["current"] = q
        BY <1>3, <2>2, Columnwise, NoColumns DEF Low
      <3> QED
        BY <3>1 DEF Follows
    <2>4. EndsTheSnooze(x)
      <3>1. Over(a) => b.status = "PENDING"
        BY <1>3, <2>2, ReleasedAlert DEF ListedAs
      <3>2. ~Over(a) => b.snoozedUntil = a.snoozedUntil /\ b.status \in {"PENDING", a.status}
        BY <1>3, <2>2, ReleasedAlert
      <3>3. /\ \A c \in DOMAIN x : x[c] = b[c]
            /\ \A c \in Column : c \in DOMAIN x <=> b[c] # a[c]
        BY <1>3, <2>2, ChangedAlert
      <3> QED
        BY <1>3, <2>2, <3>1, <3>2, <3>3, Columnwise DEF EndsTheSnooze, Column, Over
    <2> QED
      BY <1>3, <2>2, <2>3, <2>4, ChangedAlert, NoColumns
  <1>4. CASE a \in Alert /\ ~Low(q, p)
    <2>1. b = Restored(a, q)
      BY <1>4 DEF Judged
    <2>2. /\ b \in Alert /\ b.current = q /\ b.status # "PENDING"
          /\ \/ b.status = "RESOLVED" /\ b.snoozedUntil = "null"
                /\ Released(a).status \in {"PENDING", "SNOOZED"}
             \/ /\ b.status = Released(a).status
                /\ b.snoozedUntil = Released(a).snoozedUntil
                /\ b.status # "SNOOZED"
      BY <1>4, <2>1, RestoredAlert
    <2>3. Follows(b, q, p)
      BY <1>4, <2>2, Columnwise DEF Follows, Low
    <2>4. EndsTheSnooze(x)
      <3>1. \/ b.status = "RESOLVED" /\ a.status # "RESOLVED"
            \/ b.snoozedUntil = a.snoozedUntil /\ b.status # "SNOOZED"
        BY <1>4, <2>2, ReleasedAlert DEF ListedAs, Over
      <3>2. /\ \A c \in DOMAIN x : x[c] = b[c]
            /\ \A c \in Column : c \in DOMAIN x <=> b[c] # a[c]
        BY <1>4, <2>2, ChangedAlert
      <3> QED
        BY <1>4, <2>2, <3>1, <3>2, Columnwise DEF EndsTheSnooze, Column
    <2> QED
      BY <1>4, <2>2, <2>3, <2>4, ChangedAlert, NoColumns
  <1> QED
    BY <1>1, <1>2, <1>3, <1>4

\* What people send answers the alert, and ends no snooze halfway.
LEMMA AnswerSends ==
  ASSUME ReorderAssumption, NEW a \in Alert, NEW verb \in Verb,
         Released(a).status \notin {"RESOLVED", "DISMISSED"},
         NEW b, b = Answered(verb, a), NEW x, x = Changed(verb, a, b)
  PROVE  b \in Alert /\ EndsTheSnooze(x) /\ SendsAnAnswer(x) /\ x \in Sent
  <1>1. /\ b \in Alert /\ b.current = a.current
        /\ b.status \in {"ACKNOWLEDGED", "SNOOZED", "DISMISSED"}
        /\ verb = "acknowledge" => /\ b.status = "ACKNOWLEDGED"
                                   /\ b.snoozedUntil = Released(a).snoozedUntil
        /\ verb = "snooze" => b.status = "SNOOZED" /\ b.snoozedUntil = "later"
        /\ verb = "dismiss" => b.status = "DISMISSED" /\ b.snoozedUntil = "null"
    BY AnsweredAlert
  <1>3. /\ x \in Sent /\ \A c \in DOMAIN x : x[c] = b[c]
        /\ \A c \in Column : c \in DOMAIN x <=> \/ b[c] # a[c]
                                                \/ c = "snoozedUntil" /\ verb = "snooze"
    BY <1>1, ChangedAlert
  <1>4. Released(a).status = (IF Over(a) THEN "PENDING" ELSE a.status)
    BY ReleasedAlert DEF ListedAs
  <1>5. SendsAnAnswer(x)
    BY <1>1, <1>3, Columnwise DEF SendsAnAnswer, Column
  <1>6. EndsTheSnooze(x)
    <2>1. CASE verb = "acknowledge"
      <3>1. ~Over(a) => b.snoozedUntil = a.snoozedUntil
        BY <1>1, <2>1, ReleasedAlert
      <3>2. Over(a) => a.status # b.status
        BY <1>1, <2>1 DEF Over
      <3> QED
        BY <1>1, <1>3, <2>1, <3>1, <3>2, Columnwise DEF EndsTheSnooze, Column
    <2>2. CASE verb = "snooze"
      BY <1>1, <1>3, <2>2, Columnwise DEF EndsTheSnooze, Column
    <2>3. CASE verb = "dismiss"
      <3>1. a.status # "DISMISSED"
        BY <1>4 DEF Over
      <3> QED
        BY <1>1, <1>3, <2>3, <3>1, Columnwise DEF EndsTheSnooze, Column
    <2> QED
      BY <2>1, <2>2, <2>3 DEF Verb
  <1> QED
    BY <1>1, <1>3, <1>5, <1>6

\* The row once an UPDATE has sent the columns in which b differs from it.
LEMMA BroughtTo ==
  ASSUME NEW a, NEW b, NEW x,
         \A c \in DOMAIN x : x[c] = b[c],
         \A c \in Column : c \notin DOMAIN x => b[c] = a[c]
  PROVE  \A c \in Column : Overwrite(a, x)[c] = b[c]
  BY DEF Overwrite

\* The alert a stock change brings about, and what it sends for it.
LEMMA JudgedSends ==
  ASSUME ReorderAssumption, NEW a \in Alert \cup {NoAlert},
         NEW q \in 0 .. MaxQuantity, NEW p \in Nat,
         NEW b, b = Judged(a, q, p), NEW x, x = Changed("change", a, b)
  PROVE  /\ Follows(Overwrite(a, x), q, p)
         /\ a = NoAlert => DOMAIN x \in {{}, Column}
         /\ b = a => DOMAIN x = {}
  <1>1. b \in Alert \cup {NoAlert} /\ (b = NoAlert => a = NoAlert) /\ Follows(b, q, p)
    BY JudgedAlert
  <1>2. CASE a = NoAlert /\ b = NoAlert
    <2>1. DOMAIN x = {}
      BY <1>2, StillNoAlert
    <2>2. \A c \in Column : Overwrite(a, x)[c] = b[c]
      BY <1>2, <2>1 DEF Overwrite
    <2> QED
      BY <1>1, <2>1, <2>2 DEF Follows, Column
  <1>3. CASE a = NoAlert /\ b \in Alert
    <2>1. DOMAIN x = Column /\ \A c \in Column : x[c] = b[c]
      BY <1>3, FirstAlert
    <2>2. \A c \in Column : Overwrite(a, x)[c] = b[c]
      BY <2>1, BroughtTo
    <2> QED
      BY <1>1, <1>3, <2>1, <2>2, NoColumns DEF Follows, Column
  <1>4. CASE a \in Alert /\ b \in Alert
    <2>1. /\ x \in Sent /\ \A c \in DOMAIN x : x[c] = b[c]
          /\ \A c \in Column : c \in DOMAIN x <=> b[c] # a[c]
      BY <1>4, ChangedAlert
    <2>2. \A c \in Column : Overwrite(a, x)[c] = b[c]
      BY <2>1, BroughtTo
    <2>3. DOMAIN x \subseteq Column
      BY <2>1, SentColumns
    <2> QED
      BY <1>1, <1>4, <2>1, <2>2, <2>3, NoColumns DEF Follows, Column
  <1> QED
    BY <1>1, <1>2, <1>3, <1>4
-----------------------------------------------------------------------------
LEMMA InitInv == ReorderAssumption /\ Init => IInv
  <1> SUFFICES ASSUME ReorderAssumption, Init PROVE IInv
    OBVIOUS
  <1>1. MaxQuantity \in Nat /\ Point \subseteq Nat /\ 0 \in Point
    BY Constants
  <1>2. DOMAIN Nothing = {} /\ Nothing \in Sent
    BY NothingSent, SentNothing
  <1>3. NoStock \in Stock
    BY <1>1 DEF NoStock, Stock
  <1>4. TypeOK
    BY <1>1, <1>2, <1>3 DEF Init, TypeOK, Unlocked
  <1>5. AlertFollowsStock /\ SnoozeEnds
    BY <1>1, NoColumns DEF Init, AlertFollowsStock, SnoozeEnds
  <1>6. ASSUME NEW s \in Session PROVE InStep(s)
    <2>1. /\ pc[s] = "idle" /\ kind[s] = "none" /\ changes[s] = Nothing
          /\ owner["stock"] = NoSession /\ owner["alert"] = NoSession
      BY DEF Init, Unlocked
    <2> QED
      BY <1>2, <2>1, NoSessionAssumption
      DEF InStep, FitsItsRequest, HoldsItsRows, SendsItsColumns, EndsTheSnooze, Verb
  <1> QED
    BY <1>4, <1>5, <1>6 DEF IInv

\* A session stays in step while neither its own state, nor its locks, nor the
\* quantity in stock, nor the columns of the alert change.
LEMMA StaysInStep ==
  ASSUME NEW t \in Session, InStep(t), UNCHANGED <<stock, alert>>,
         pc'[t] = pc[t], kind'[t] = kind[t], asks'[t] = asks[t], mine'[t] = mine[t],
         changes'[t] = changes[t],
         \A r \in {"stock", "alert"} : owner'[r] = t <=> owner[r] = t
  PROVE  InStep(t)'
  BY DEF InStep, FitsItsRequest, HoldsItsRows, SendsItsColumns, EndsTheSnooze,
         SendsAnAnswer, Follows, Overwrite

\* The end of a request puts its session back to idle and takes nothing of the others'.
LEMMA Closed ==
  ASSUME ReorderAssumption, NEW s \in Session, IInv, Close(s)
  PROVE  /\ owner' \in [{"stock", "alert"} -> Session \cup {NoSession}]
         /\ pc' \in [Session -> {"idle", "lock", "alert", "update", "insert", "commit"}]
         /\ kind' \in [Session -> Verb \cup {"none", "change", "settings"}]
         /\ asks' \in [Session -> Delta \cup Point \cup {0}]
         /\ mine' \in [Session -> Stock]
         /\ changes' \in [Session -> Sent]
         /\ pc'[s] = "idle" /\ kind'[s] = "none" /\ DOMAIN changes'[s] = {}
         /\ \A r \in {"stock", "alert"} : owner'[r] # s
         /\ \A t \in Session \ {s} :
               /\ pc'[t] = pc[t] /\ kind'[t] = kind[t] /\ asks'[t] = asks[t]
               /\ mine'[t] = mine[t] /\ changes'[t] = changes[t]
               /\ \A r \in {"stock", "alert"} : owner'[r] = t <=> owner[r] = t
  <1>1. DOMAIN Nothing = {} /\ Nothing \in Sent
    BY NothingSent, SentNothing
  <1>2. NoStock \in Stock
    BY Constants DEF NoStock, Stock
  <1>3. DOMAIN owner = {"stock", "alert"}
    BY DEF IInv, TypeOK
  <1>4. /\ owner' \in [{"stock", "alert"} -> Session \cup {NoSession}]
        /\ \A r \in {"stock", "alert"} :
              owner'[r] = (IF owner[r] = s THEN NoSession ELSE owner[r])
    BY <1>3 DEF IInv, TypeOK, Close, Release
  <1>5. \A r \in {"stock", "alert"} : owner'[r] # s
    BY <1>4, NoSessionAssumption
  <1>6. \A t \in Session \ {s}, r \in {"stock", "alert"} : owner'[r] = t <=> owner[r] = t
    BY <1>4, NoSessionAssumption
  <1> QED
    BY <1>1, <1>2, <1>4, <1>5, <1>6 DEF IInv, TypeOK, Close, GoTo

LEMMA RestsInStep ==
  ASSUME NEW s \in Session, pc'[s] = "idle", kind'[s] = "none", DOMAIN changes'[s] = {},
         \A r \in {"stock", "alert"} : owner'[r] # s
  PROVE  InStep(s)'
  BY DEF InStep, FitsItsRequest, HoldsItsRows, SendsItsColumns, EndsTheSnooze, Verb

\* A request that fails, is refused or is cut off.
LEMMA FailInv ==
  ASSUME ReorderAssumption, NEW s \in Session, IInv, Fail(s)
  PROVE  IInv'
  <1>1. Close(s) /\ stock' = stock /\ alert' = alert /\ judged' = judged
    BY DEF Fail, committed
  <1>2. TypeOK'
    BY <1>1, Closed DEF IInv, TypeOK
  <1>3. AlertFollowsStock' /\ SnoozeEnds'
    BY <1>1 DEF IInv, AlertFollowsStock, SnoozeEnds
  <1>4. ASSUME NEW t \in Session PROVE InStep(t)'
    <2>1. CASE t = s
      BY <1>1, <2>1, Closed, RestsInStep
    <2>2. CASE t # s
      BY <1>1, <2>2, Closed, StaysInStep DEF IInv
    <2> QED
      BY <2>1, <2>2
  <1> QED
    BY <1>2, <1>3, <1>4 DEF IInv

\* The first step of a request.
LEMMA BeginInv ==
  ASSUME ReorderAssumption, NEW s \in Session, IInv,
         NEW k, NEW ask, NEW first, Begin(s, k, ask, first),
         \/ k = "change" /\ ask \in Delta /\ first = "lock"
         \/ k = "settings" /\ ask \in Point /\ first = "lock"
         \/ k \in Verb /\ ask = 0 /\ first = "alert" /\ alert # NoAlert
  PROVE  IInv'
  <1>1. /\ pc[s] = "idle" /\ pc' = [pc EXCEPT ![s] = first]
        /\ kind' = [kind EXCEPT ![s] = k] /\ asks' = [asks EXCEPT ![s] = ask]
        /\ UNCHANGED <<stock, alert, judged, owner, mine, changes>>
    BY DEF Begin, GoTo, committed, objects
  <1>2. TypeOK'
    BY <1>1 DEF IInv, TypeOK
  <1>3. AlertFollowsStock' /\ SnoozeEnds'
    BY <1>1 DEF IInv, AlertFollowsStock, SnoozeEnds
  <1>4. ASSUME NEW t \in Session PROVE InStep(t)'
    <2>1. CASE t = s
      <3>1. /\ pc'[s] = first /\ kind'[s] = k /\ asks'[s] = ask /\ changes'[s] = changes[s]
        BY <1>1 DEF IInv, TypeOK
      <3>2. kind[s] = "none" /\ DOMAIN changes[s] = {} /\ owner["stock"] # s /\ owner["alert"] # s
        BY <1>1 DEF IInv, InStep, FitsItsRequest, HoldsItsRows, SendsItsColumns
      <3>3. FitsItsRequest(s)'
        BY <1>1, <3>1 DEF FitsItsRequest, Verb
      <3>4. HoldsItsRows(s)'
        BY <1>1, <3>1, <3>2 DEF HoldsItsRows, Verb
      <3>5. SendsItsColumns(s)'
        BY <1>1, <3>1, <3>2 DEF SendsItsColumns, EndsTheSnooze, SendsAnAnswer
      <3> QED
        BY <2>1, <3>3, <3>4, <3>5 DEF InStep
    <2>2. CASE t # s
      <3>1. /\ pc'[t] = pc[t] /\ kind'[t] = kind[t] /\ asks'[t] = asks[t]
            /\ mine'[t] = mine[t] /\ changes'[t] = changes[t]
        BY <1>1, <2>2 DEF IInv, TypeOK
      <3> QED
        BY <1>1, <3>1, StaysInStep DEF IInv
    <2> QED
      BY <2>1, <2>2
  <1> QED
    BY <1>2, <1>3, <1>4 DEF IInv

LEMMA RequestsInv ==
  ASSUME ReorderAssumption, NEW s \in Session, IInv,
         \/ \E change \in Delta : ChangeStock(s, change)
         \/ \E point \in Point : SetReorderPoint(s, point)
         \/ \E verb \in Verb : AnswerAlert(s, verb)
  PROVE  IInv'
  <1>1. ASSUME NEW change \in Delta, ChangeStock(s, change) PROVE IInv'
    BY <1>1, BeginInv DEF ChangeStock
  <1>2. ASSUME NEW point \in Point, SetReorderPoint(s, point) PROVE IInv'
    BY <1>2, BeginInv DEF SetReorderPoint
  <1>3. ASSUME NEW verb \in Verb, AnswerAlert(s, verb) PROVE IInv'
    BY <1>3, BeginInv DEF AnswerAlert
  <1> QED
    BY <1>1, <1>2, <1>3

\* The lock of the stock row, with the row as the session changes it.
LEMMA LockStockInv ==
  ASSUME ReorderAssumption, NEW s \in Session, IInv, LockStock(s)
  PROVE  IInv'
  <1>1. /\ pc[s] = "lock" /\ owner["stock"] \in {NoSession, s}
        /\ owner' = [owner EXCEPT !["stock"] = s]
        /\ asks' = [asks EXCEPT ![s] = 0]
        /\ UNCHANGED <<stock, alert, judged, kind, changes>>
    BY DEF LockStock, ForUpdate, Available, Acquire, committed
  <1>2. PICK q, p : stock = [quantity |-> q, point |-> p] /\ q \in 0 .. MaxQuantity /\ p \in Point
    <2>1. stock = [quantity |-> stock.quantity, point |-> stock.point]
      BY DEF IInv, TypeOK, Stock
    <2> QED
      BY <2>1 DEF IInv, TypeOK, Stock
  <1>3. PICK row, label :
          /\ mine' = [mine EXCEPT ![s] = row] /\ pc' = [pc EXCEPT ![s] = label]
          /\ row \in Stock
          /\ \/ kind[s] = "settings" /\ row.quantity = stock.quantity /\ label = "commit"
             \/ /\ kind[s] = "change"
                /\ (label = "commit" /\ row.point = 0) \/ label = "alert"
    <2>1. CASE kind[s] = "settings"
      <3>1. asks[s] \in Point
        BY <1>1, <2>1 DEF IInv, InStep, FitsItsRequest
      <3>2. /\ mine' = [mine EXCEPT ![s] = [stock EXCEPT !.point = asks[s]]]
            /\ pc' = [pc EXCEPT ![s] = "commit"]
        BY <2>1 DEF LockStock, GoTo
      <3>3. PICK row : row = [stock EXCEPT !.point = asks[s]]
        OBVIOUS
      <3>4. row = [quantity |-> q, point |-> asks[s]]
        BY <1>2, <3>3
      <3>5. row \in Stock /\ row.quantity = stock.quantity
        BY <1>2, <3>1, <3>4 DEF Stock
      <3> QED
        BY <2>1, <3>2, <3>3, <3>5
    <2>2. CASE kind[s] = "change"
      <3>1. /\ q + asks[s] \in 0 .. MaxQuantity
            /\ mine' = [mine EXCEPT ![s] = [stock EXCEPT !.quantity = @ + asks[s]]]
            /\ pc' = [pc EXCEPT ![s] = IF stock.point = 0 THEN "commit" ELSE "alert"]
        BY <1>2, <2>2 DEF LockStock, GoTo
      <3>2. PICK row, label : /\ row = [stock EXCEPT !.quantity = @ + asks[s]]
                              /\ label = IF p = 0 THEN "commit" ELSE "alert"
        OBVIOUS
      <3>3. row = [quantity |-> q + asks[s], point |-> p]
        BY <1>2, <3>2
      <3>4. row \in Stock /\ row.point = p
        BY <1>2, <3>1, <3>3 DEF Stock
      <3>5. mine' = [mine EXCEPT ![s] = row] /\ pc' = [pc EXCEPT ![s] = label]
        BY <1>2, <3>1, <3>2
      <3>6. (label = "commit" /\ row.point = 0) \/ label = "alert"
        BY <3>2, <3>4
      <3> QED
        BY <2>2, <3>4, <3>5, <3>6
    <2> QED
      BY <2>1, <2>2 DEF LockStock
  <1>4. label \in {"alert", "commit"}
    BY <1>3
  <1>5. TypeOK'
    BY <1>1, <1>3, <1>4 DEF IInv, TypeOK
  <1>6. AlertFollowsStock' /\ SnoozeEnds'
    BY <1>1 DEF IInv, AlertFollowsStock, SnoozeEnds
  <1>7. InStep(s)'
    <2>1. /\ pc'[s] = label /\ mine'[s] = row /\ kind'[s] = kind[s] /\ changes'[s] = changes[s]
          /\ owner'["stock"] = s /\ owner'["alert"] = owner["alert"]
      BY <1>1, <1>3 DEF IInv, TypeOK
    <2>2. DOMAIN changes[s] = {} /\ owner["alert"] # s /\ kind[s] \in {"change", "settings"}
      BY <1>1, <1>3 DEF IInv, InStep, HoldsItsRows, SendsItsColumns
    <2>3. FitsItsRequest(s)'
      BY <1>3, <1>4, <2>1, <2>2 DEF FitsItsRequest, Verb
    <2>4. HoldsItsRows(s)'
      BY <1>1, <1>3, <1>4, <2>1, <2>2 DEF HoldsItsRows
    <2>5. SendsItsColumns(s)'
      BY <1>1, <1>3, <1>4, <2>1, <2>2
      DEF SendsItsColumns, EndsTheSnooze, SendsAnAnswer, Follows, Verb
    <2> QED
      BY <2>3, <2>4, <2>5 DEF InStep
  <1>8. ASSUME NEW t \in Session \ {s} PROVE InStep(t)'
    <2>1. /\ pc'[t] = pc[t] /\ kind'[t] = kind[t] /\ asks'[t] = asks[t]
          /\ mine'[t] = mine[t] /\ changes'[t] = changes[t]
      BY <1>1, <1>3 DEF IInv, TypeOK
    <2>2. \A r \in {"stock", "alert"} : owner'[r] = t <=> owner[r] = t
      BY <1>1, NoSessionAssumption DEF IInv, TypeOK
    <2> QED
      BY <1>1, <2>1, <2>2, StaysInStep DEF IInv
  <1> QED
    BY <1>5, <1>6, <1>7, <1>8 DEF IInv

\* What a session is about to send for the alert it has read.
LEMMA SelectAlertInv ==
  ASSUME ReorderAssumption, NEW s \in Session, IInv, SelectAlert(s)
  PROVE  IInv'
  <1>1. PICK new : new = IF kind[s] = "change"
                         THEN Judged(alert, mine[s].quantity, mine[s].point)
                         ELSE Answered(kind[s], alert)
    OBVIOUS
  <1>2. PICK x : x = Changed(kind[s], alert, new)
    OBVIOUS
  <1>3. PICK label : label = IF kind[s] = "change" /\ new = alert THEN "commit"
                             ELSE IF alert = NoAlert THEN "insert" ELSE "update"
    OBVIOUS
  <1>4. /\ pc[s] = "alert"
        /\ kind[s] \in Verb => Released(alert).status \notin {"RESOLVED", "DISMISSED"}
        /\ changes' = [changes EXCEPT ![s] = x]
        /\ pc' = [pc EXCEPT ![s] = label]
        /\ UNCHANGED <<stock, alert, judged, owner, kind, asks, mine>>
    BY <1>1, <1>2, <1>3 DEF SelectAlert, GoTo, committed, request
  <1>5. kind[s] \in Verb \/ kind[s] = "change"
    BY <1>4 DEF IInv, TypeOK, InStep, FitsItsRequest
  <1>6. /\ x \in Sent /\ EndsTheSnooze(x)
        /\ alert = NoAlert => DOMAIN x \in {{}, Column}
        /\ label = "commit" => DOMAIN x = {}
        /\ label \in {"commit", "insert", "update"}
        /\ label = "insert" => kind[s] = "change" /\ alert = NoAlert
        /\ kind[s] \in Verb => SendsAnAnswer(x) /\ label = "update"
        /\ kind[s] = "change" =>
              Follows(Overwrite(alert, x), mine[s].quantity, mine[s].point)
    <2>1. CASE kind[s] = "change"
      <3>1. PICK q, p : q = mine[s].quantity /\ p = mine[s].point
        OBVIOUS
      <3>2. mine[s] \in Stock
        BY DEF IInv, TypeOK
      <3>3. q \in 0 .. MaxQuantity /\ p \in Point
        BY <3>1, <3>2 DEF Stock
      <3>4. p \in Nat
        BY <3>3, Constants
      <3>5. new = Judged(alert, q, p) /\ x = Changed("change", alert, new)
        BY <1>1, <1>2, <2>1, <3>1
      <3>6. alert \in Alert \cup {NoAlert}
        BY DEF IInv, TypeOK
      <3>7. EndsTheSnooze(x) /\ x \in Sent
        BY <3>3, <3>4, <3>5, <3>6, JudgedAlert
      <3>8. /\ Follows(Overwrite(alert, x), q, p)
            /\ alert = NoAlert => DOMAIN x \in {{}, Column}
            /\ new = alert => DOMAIN x = {}
        BY <3>3, <3>4, <3>5, <3>6, JudgedSends
      <3> QED
        BY <1>3, <2>1, <3>1, <3>7, <3>8 DEF Verb
    <2>2. CASE kind[s] \in Verb
      <3>1. alert \in Alert
        BY <2>2 DEF IInv, TypeOK, InStep, FitsItsRequest
      <3>2. new = Answered(kind[s], alert)
        BY <1>1, <2>2 DEF Verb
      <3>3. EndsTheSnooze(x) /\ SendsAnAnswer(x) /\ x \in Sent
        BY <1>2, <1>4, <2>2, <3>1, <3>2, AnswerSends
      <3> QED
        BY <1>3, <2>2, <3>1, <3>3, NoColumns DEF Verb
    <2> QED
      BY <1>5, <2>1, <2>2
  <1>7. TypeOK'
    BY <1>4, <1>6 DEF IInv, TypeOK
  <1>8. AlertFollowsStock' /\ SnoozeEnds'
    BY <1>4 DEF IInv, AlertFollowsStock, SnoozeEnds
  <1>9. InStep(s)'
    <2>1. pc'[s] = label /\ changes'[s] = x
      BY <1>4 DEF IInv, TypeOK
    <2>2. /\ owner["stock"] = s <=> kind[s] = "change"
          /\ owner["alert"] # s
      BY <1>4, <1>5 DEF IInv, InStep, HoldsItsRows, Verb
    <2>3. kind[s] \in Verb => alert # NoAlert
      BY DEF IInv, InStep, FitsItsRequest
    <2>4. FitsItsRequest(s)'
      BY <1>4, <1>5, <1>6, <2>1, <2>3 DEF FitsItsRequest, Verb
    <2>5. HoldsItsRows(s)'
      BY <1>4, <1>5, <1>6, <2>1, <2>2 DEF HoldsItsRows, Verb
    <2>6. SendsItsColumns(s)'
      BY <1>4, <1>6, <2>1
      DEF SendsItsColumns, EndsTheSnooze, SendsAnAnswer, Follows, Overwrite
    <2> QED
      BY <2>4, <2>5, <2>6 DEF InStep
  <1>10. ASSUME NEW t \in Session \ {s} PROVE InStep(t)'
    <2>1. pc'[t] = pc[t] /\ changes'[t] = changes[t]
      BY <1>4 DEF IInv, TypeOK
    <2> QED
      BY <1>4, <2>1, StaysInStep DEF IInv
  <1> QED
    BY <1>7, <1>8, <1>9, <1>10 DEF IInv

\* The flush: the lock of the alert.  An INSERT meets no alert.
LEMMA FlushInv ==
  ASSUME NEW s \in Session, IInv, Update(s) \/ Insert(s)
  PROVE  IInv'
  <1>1. /\ pc[s] \in {"update", "insert"} /\ owner["alert"] \in {NoSession, s}
        /\ owner' = [owner EXCEPT !["alert"] = s]
        /\ UNCHANGED <<stock, alert, judged, kind, asks, mine, changes>>
    BY DEF Update, Insert, Available, Acquire, committed, request, objects
  <1>2. pc' = [pc EXCEPT ![s] = "commit"]
    BY DEF Update, Insert, GoTo, IInv, InStep, FitsItsRequest
  <1>3. TypeOK'
    BY <1>1, <1>2 DEF IInv, TypeOK
  <1>4. AlertFollowsStock' /\ SnoozeEnds'
    BY <1>1 DEF IInv, AlertFollowsStock, SnoozeEnds
  <1>5. InStep(s)'
    <2>1. pc'[s] = "commit" /\ owner'["alert"] = s /\ owner'["stock"] = owner["stock"]
      BY <1>1, <1>2 DEF IInv, TypeOK
    <2>2. kind[s] \in Verb \cup {"change"}
      BY <1>1 DEF IInv, TypeOK, InStep, FitsItsRequest
    <2>3. FitsItsRequest(s)'
      BY <1>1, <2>1, <2>2 DEF IInv, InStep, FitsItsRequest, Verb
    <2>4. HoldsItsRows(s)'
      BY <1>1, <2>1, <2>2 DEF IInv, InStep, HoldsItsRows, Verb
    <2>5. SendsItsColumns(s)'
      BY <1>1, <2>1
      DEF IInv, InStep, SendsItsColumns, EndsTheSnooze, SendsAnAnswer, Follows, Overwrite
    <2> QED
      BY <2>3, <2>4, <2>5 DEF InStep
  <1>6. ASSUME NEW t \in Session \ {s} PROVE InStep(t)'
    <2>1. pc'[t] = pc[t]
      BY <1>2 DEF IInv, TypeOK
    <2>2. \A r \in {"stock", "alert"} : owner'[r] = t <=> owner[r] = t
      BY <1>1, NoSessionAssumption DEF IInv, TypeOK
    <2> QED
      BY <1>1, <2>1, <2>2, StaysInStep DEF IInv
  <1> QED
    BY <1>3, <1>4, <1>5, <1>6 DEF IInv

\* The end of a snooze, which leaves the status and the quantity alone.
LEMMA SnoozeOverInv ==
  ASSUME IInv, SnoozeOver
  PROVE  IInv'
  <1>1. /\ alert.snoozedUntil = "later" /\ alert' = [alert EXCEPT !.snoozedUntil = "past"]
        /\ UNCHANGED <<stock, judged, owner, pc, kind, asks, mine, changes>>
    BY DEF SnoozeOver, request, objects
  <1>2. alert \in Alert
    BY <1>1, NoColumns DEF IInv, TypeOK
  <1>3. PICK a \in AlertStatus, c \in 0 .. MaxQuantity, u \in {"null", "later", "past"} :
             alert = [status |-> a, current |-> c, snoozedUntil |-> u]
    BY <1>2, AlertFields
  <1>4. alert' = [status |-> a, current |-> c, snoozedUntil |-> "past"]
    BY <1>1, <1>3
  <1>5. alert' \in Alert /\ alert' # NoAlert
    BY <1>4, NoColumns DEF Alert
  <1>6. /\ alert'.status = alert.status /\ alert'.current = alert.current
        /\ alert'["status"] = alert["status"] /\ alert'["current"] = alert["current"]
    BY <1>3, <1>4
  <1>7. TypeOK'
    BY <1>1, <1>5 DEF IInv, TypeOK
  <1>8. AlertFollowsStock' /\ SnoozeEnds'
    BY <1>1, <1>2, <1>4, <1>5, <1>6, NoColumns DEF IInv, AlertFollowsStock, SnoozeEnds
  <1>9. ASSUME NEW t \in Session PROVE InStep(t)'
    <2>1. FitsItsRequest(t)'
      BY <1>1, <1>2, <1>5, NoColumns DEF IInv, InStep, FitsItsRequest
    <2>2. HoldsItsRows(t)'
      BY <1>1 DEF IInv, InStep, HoldsItsRows
    <2>3. /\ Overwrite(alert', changes[t])["status"] = Overwrite(alert, changes[t])["status"]
          /\ Overwrite(alert', changes[t])["current"] = Overwrite(alert, changes[t])["current"]
      BY <1>6 DEF Overwrite, Column
    <2>4. SendsItsColumns(t)'
      BY <1>1, <1>5, <2>3
      DEF IInv, InStep, SendsItsColumns, EndsTheSnooze, SendsAnAnswer, Follows
    <2> QED
      BY <2>1, <2>2, <2>4 DEF InStep
  <1> QED
    BY <1>7, <1>8, <1>9 DEF IInv

LEMMA FollowsTheStock ==
  ASSUME ReorderAssumption, alert \in Alert \cup {NoAlert}, judged \in Point
  PROVE  AlertFollowsStock <=> Follows(alert, stock.quantity, judged)
  BY Constants, Columnwise, NoColumns DEF AlertFollowsStock, Follows

\* An answer leaves an alert that follows the stock following it, and also one
\* that follows it once the columns of a change are sent.
LEMMA AnswersKeepItFollowing ==
  ASSUME NEW a \in Alert, NEW x \in Sent, SendsAnAnswer(x), NEW b, b = Overwrite(a, x),
         NEW q, NEW p
  PROVE  /\ Follows(a, q, p) => Follows(b, q, p)
         /\ \A y \in Sent : Follows(Overwrite(a, y), q, p) => Follows(Overwrite(b, y), q, p)
  <1>1. /\ b["current"] = a["current"]
        /\ b["status"] \in {a["status"], "ACKNOWLEDGED", "SNOOZED", "DISMISSED"}
    BY DEF SendsAnAnswer, Overwrite, Column
  <1>2. a["status"] \in AlertStatus
    BY AlertColumns
  <1>3. Follows(a, q, p) => Follows(b, q, p)
    BY <1>1, <1>2 DEF Follows, AlertStatus
  <1>4. ASSUME NEW y \in Sent, Follows(Overwrite(a, y), q, p)
        PROVE  Follows(Overwrite(b, y), q, p)
    <2>1. /\ Overwrite(b, y)["current"] = Overwrite(a, y)["current"]
          /\ Overwrite(b, y)["status"] \in {Overwrite(a, y)["status"],
                                            "ACKNOWLEDGED", "SNOOZED", "DISMISSED"}
      BY <1>1 DEF Overwrite, Column
    <2>2. Overwrite(a, y)["status"] \in AlertStatus
      BY <1>2, SentColumns DEF Overwrite, Column
    <2> QED
      BY <1>4, <2>1, <2>2 DEF Follows, AlertStatus
  <1> QED
    BY <1>3, <1>4

\* The commit: a change to the stock brings the alert with it, the settings leave
\* it and the quantity alone, an answer neither resolves it nor makes it pending.
LEMMA CommitInv ==
  ASSUME ReorderAssumption, NEW s \in Session, IInv, Commit(s)
  PROVE  IInv'
  <1>1. /\ pc[s] = "commit" /\ Close(s)
        /\ stock' = IF owner["stock"] = s THEN mine[s] ELSE stock
        /\ judged' = IF kind[s] = "change" THEN mine[s].point ELSE judged
    BY DEF Commit
  <1>2. PICK x : x = changes[s]
    OBVIOUS
  <1>3. /\ x \in Sent /\ EndsTheSnooze(x)
        /\ owner["alert"] # s => DOMAIN x = {}
        /\ alert = NoAlert => DOMAIN x \in {{}, Column}
        /\ kind[s] \in Verb => SendsAnAnswer(x) /\ alert # NoAlert
        /\ kind[s] = "change" =>
              Follows(Overwrite(alert, x), mine[s].quantity, mine[s].point)
        /\ kind[s] = "settings" => owner["alert"] # s /\ mine[s].quantity = stock.quantity
        /\ owner["stock"] = s <=> kind[s] \in {"change", "settings"}
        /\ kind[s] \in Verb \cup {"change", "settings"}
    BY <1>1, <1>2
    DEF IInv, TypeOK, InStep, FitsItsRequest, HoldsItsRows, SendsItsColumns
  <1>4. alert \in Alert \cup {NoAlert}
    BY DEF IInv, TypeOK
  <1>5. alert' = Overwrite(alert, x)
    <2>1. DOMAIN x = {} => Overwrite(alert, x) = alert
      BY <1>3, <1>4, Overwritten
    <2> QED
      BY <1>2, <1>3, <2>1 DEF Commit
  <1>6. /\ alert' \in Alert \cup {NoAlert}
        /\ alert' = NoAlert => alert = NoAlert
        /\ alert = NoAlert => alert' = NoAlert \/ DOMAIN x = Column
        /\ \A c \in Column : alert'[c] = IF c \in DOMAIN x THEN x[c] ELSE alert[c]
    BY <1>3, <1>4, <1>5, Overwritten, NoColumns
  <1>7. stock' \in Stock /\ judged' \in Point
    BY <1>1 DEF IInv, TypeOK, Stock
  <1>8. TypeOK'
    BY <1>1, <1>6, <1>7, Closed DEF TypeOK
  <1>9. SnoozeEnds'
    <2>1. alert["status"] = "SNOOZED" => alert["snoozedUntil"] # "null"
      BY <1>4, Columnwise DEF IInv, SnoozeEnds
    <2>2. alert'["status"] = "SNOOZED" => alert'["snoozedUntil"] # "null"
      BY <1>3, <1>6, <2>1 DEF EndsTheSnooze, Column
    <2> QED
      BY <1>6, <2>2, Columnwise DEF SnoozeEnds
  <1>10. AlertFollowsStock'
    <2>1. Follows(alert, stock.quantity, judged)
      BY <1>4, FollowsTheStock DEF IInv, TypeOK
    <2>2. Follows(alert', stock'.quantity, judged')
      <3>1. CASE kind[s] = "change"
        BY <1>1, <1>3, <1>5, <3>1
      <3>2. CASE kind[s] = "settings"
        <4>1. alert' = alert
          BY <3>2, <1>3 DEF Commit
        <4> QED
          BY <1>1, <1>3, <2>1, <3>2, <4>1
      <3>3. CASE kind[s] \in Verb
        <4>1. Follows(alert', stock.quantity, judged)
          BY <1>3, <1>4, <1>5, <2>1, <3>3, AnswersKeepItFollowing
        <4> QED
          BY <1>1, <1>3, <3>3, <4>1 DEF Verb
      <3> QED
        BY <1>3, <3>1, <3>2, <3>3
    <2>3. (alert \in Alert \cup {NoAlert})' /\ (judged \in Point)'
      BY <1>6, <1>7
    <2> QED
      BY <2>2, <2>3, Constants, Columnwise, NoColumns DEF AlertFollowsStock, Follows
  <1>11. ASSUME NEW t \in Session \ {s} PROVE InStep(t)'
    <2>1. /\ pc'[t] = pc[t] /\ kind'[t] = kind[t] /\ asks'[t] = asks[t]
          /\ mine'[t] = mine[t] /\ changes'[t] = changes[t]
          /\ owner'["stock"] = t <=> owner["stock"] = t
          /\ owner'["alert"] = t <=> owner["alert"] = t
      BY <1>1, Closed
    <2>2. FitsItsRequest(t) /\ HoldsItsRows(t) /\ SendsItsColumns(t) /\ changes[t] \in Sent
      BY DEF IInv, TypeOK, InStep
    <2>3. owner["stock"] = t => kind[s] \in Verb /\ alert \in Alert /\ stock' = stock
      BY <1>1, <1>3, <1>4
    <2>4. alert' = NoAlert => alert = NoAlert
      BY <1>6
    <2>5. FitsItsRequest(t)'
      <3>1. pc[t] = "insert" => owner["stock"] = t /\ alert = NoAlert
        BY <2>2 DEF FitsItsRequest, HoldsItsRows
      <3>2. pc[t] # "insert"
        BY <2>3, <3>1, NoColumns
      <3> QED
        BY <2>1, <2>2, <2>4, <3>2 DEF FitsItsRequest
    <2>6. HoldsItsRows(t)'
      BY <2>1, <2>2, <2>3 DEF HoldsItsRows
    <2>7. SendsItsColumns(t)'
      <3>1. ASSUME kind[t] = "change", pc[t] \in {"update", "insert", "commit"}
            PROVE  Follows(Overwrite(alert', changes[t]), mine[t].quantity, mine[t].point)
        <4>1. owner["stock"] = t
          BY <2>2, <3>1 DEF HoldsItsRows
        <4>2. Follows(Overwrite(alert, changes[t]), mine[t].quantity, mine[t].point)
          BY <2>2, <3>1 DEF SendsItsColumns
        <4>3. alert \in Alert /\ SendsAnAnswer(x)
          BY <1>3, <2>3, <4>1
        <4> QED
          BY <1>3, <1>5, <2>2, <4>2, <4>3, AnswersKeepItFollowing
      <3> QED
        BY <2>1, <2>2, <2>4, <3>1 DEF SendsItsColumns, EndsTheSnooze, SendsAnAnswer, Follows, Overwrite
    <2> QED
      BY <2>5, <2>6, <2>7 DEF InStep
  <1>12. InStep(s)'
    BY <1>1, Closed, RestsInStep
  <1> QED
    BY <1>8, <1>9, <1>10, <1>11, <1>12 DEF IInv

-----------------------------------------------------------------------------
(* The theorems *)

LEMMA NextInv ==
  ASSUME ReorderAssumption, IInv, [Next]_vars
  PROVE  IInv'
  <1>1. ASSUME NEW s \in Session, Statement(s) \/ Abort(s) PROVE IInv'
    <2>1. ASSUME Fail(s) PROVE IInv'
      BY <2>1, FailInv
    <2> QED
      BY <1>1, <2>1, LockStockInv, SelectAlertInv, FlushInv, CommitInv
      DEF Statement, Refuse, AlreadyClosed, Abort
  <1>2. ASSUME NEW s \in Session,
               \/ \E change \in Delta : ChangeStock(s, change)
               \/ \E point \in Point : SetReorderPoint(s, point)
               \/ \E verb \in Verb : AnswerAlert(s, verb)
        PROVE  IInv'
    BY <1>2, RequestsInv
  <1>3. CASE UNCHANGED vars
    <2>1. /\ UNCHANGED <<stock, alert, judged, owner, pc, kind, asks, mine, changes>>
      BY <1>3 DEF vars, committed, request, objects
    <2>2. ASSUME NEW t \in Session PROVE InStep(t)'
      BY <2>1, StaysInStep DEF IInv
    <2> QED
      BY <2>1, <2>2 DEF IInv, TypeOK, AlertFollowsStock, SnoozeEnds
  <1> QED
    BY <1>1, <1>2, <1>3, SnoozeOverInv DEF Next

\* The inductive invariant, for any constants the assumption allows.
THEOREM Invariance == ReorderAssumption => (Spec => []IInv)
  <1>1. ReorderAssumption /\ Init => ReorderAssumption /\ IInv
    BY InitInv
  <1>2. (ReorderAssumption /\ IInv) /\ [Next]_vars => (ReorderAssumption /\ IInv)'
    BY NextInv DEF ReorderAssumption
  <1> QED
    BY <1>1, <1>2, PTL DEF Spec

\* No session meets the unique index on the alert, and every row and request is
\* of its type.
THEOREM TypeCorrect == ReorderAssumption => (Spec => []TypeOK)
  BY Invariance, PTL DEF IInv

\* The alert follows the stock, however many changes to it, settings and answers
\* of people run at once.
THEOREM FollowsStock == ReorderAssumption => (Spec => []AlertFollowsStock)
  BY Invariance, PTL DEF IInv

\* Every snooze ends.
THEOREM SnoozesEnd == ReorderAssumption => (Spec => []SnoozeEnds)
  BY Invariance, PTL DEF IInv

\* Every alert is listed under the one status an answer to it starts from.
THEOREM IsListedOnce == ReorderAssumption => (Spec => []ListedOnce)
  <1>1. IInv => ListedOnce
    <2> SUFFICES ASSUME alert \in Alert
                 PROVE  /\ \A filter \in AlertStatus :
                              ListedUnder(alert, filter) <=> filter = ListedAs(alert)
                        /\ ListedAs(alert) = Released(alert).status
      BY DEF IInv, TypeOK, ListedOnce
    <2> QED
      BY AlertColumns, ReleasedAlert DEF ListedUnder, ListedAs, Over, AlertStatus
  <1> QED
    BY <1>1, Invariance, PTL
=============================================================================

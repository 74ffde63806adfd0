--------------------------- MODULE EguiSubmission ---------------------------
(***************************************************************************)
(* The electronic-invoice (eGUI) submission of one invoice, of             *)
(* src/backend/domains/invoices/service.py.  The first request that shows  *)
(* the invoice creates the row, inside a savepoint because several may do  *)
(* so at once; a refresh advances the status of the mock provider by one   *)
(* step.  Requests run concurrently under READ COMMITTED and read the row  *)
(* without a lock.                                                         *)
(*                                                                         *)
(* Abstracted: mode, deadline and timestamps; the feature flag (nothing    *)
(* happens when it is off, and a refresh is refused in live mode).         *)
(***************************************************************************)
EXTENDS Integers, RowLocks

CONSTANTS
    TheRow,    \* the row, and its unique key (tenant, invoice)
    External   \* statuses a row from outside may have: the live provider,
               \* which is not part of the repository, reports failures

Status == {"PENDING", "QUEUED", "SENT", "ACKED", "FAILED", "RETRYING", "DEAD_LETTER"}

\* Nobody else acknowledges or retries.
EguiAssumption == External \subseteq Status \ {"ACKED", "RETRYING"}

NoRow == [status |-> "none", retries |-> 0, reference |-> FALSE]
Submission == [status : Status, retries : Nat, reference : BOOLEAN]

VARIABLES
    row,      \* the committed row, or NoRow
    owner,    \* who has written it, or is inserting its key
    pc, kind, \* what each session is about to do, and for whom
    loaded,   \* the row as the session has read or inserted it
    written   \* and as it is going to be committed

session == <<pc, kind, loaded, written>>
vars == <<row, owner, session>>

Init ==
    /\ row \in {NoRow} \cup
          {[status |-> st, retries |-> n, reference |-> FALSE] :
              st \in External, n \in 0 .. 3}
    /\ owner = Unlocked({TheRow})
    /\ pc = [s \in Session |-> "idle"]
    /\ kind = [s \in Session |-> "none"]
    /\ loaded = [s \in Session |-> NoRow]
    /\ written = [s \in Session |-> NoRow]
-----------------------------------------------------------------------------
(* The mock provider *)

\* ALLOWED_EGUI_SUBMISSION_TRANSITIONS.
Allowed ==
    {<<"PENDING", "QUEUED">>, <<"PENDING", "FAILED">>, <<"QUEUED", "SENT">>,
     <<"QUEUED", "FAILED">>, <<"SENT", "ACKED">>, <<"SENT", "FAILED">>,
     <<"FAILED", "RETRYING">>, <<"FAILED", "DEAD_LETTER">>,
     <<"RETRYING", "SENT">>, <<"RETRYING", "DEAD_LETTER">>}

\* _compute_next_mock_egui_status.
NextStatus_Stuck(r) ==  \* mutant: what is queued is never sent
    CASE r.status = "PENDING" -> "QUEUED"
      [] r.status = "SENT" -> "ACKED"
      [] OTHER -> r.status
NextStatus(r) ==
    CASE r.status = "PENDING" -> "QUEUED"
      [] r.status \in {"QUEUED", "RETRYING"} -> "SENT"
      [] r.status = "SENT" -> "ACKED"
      [] r.status = "FAILED" -> IF r.retries >= 2 THEN "DEAD_LETTER" ELSE "RETRYING"
      [] OTHER -> r.status

\* The columns a refresh assigns to the object it has loaded.
Advanced(r) ==
    LET next == NextStatus(r)
    IN  IF <<r.status, next>> \notin Allowed THEN r
        ELSE [status |-> next,
              retries |-> IF next = "RETRYING" THEN r.retries + 1 ELSE r.retries,
              reference |-> r.reference \/ next = "ACKED"]

\* The UPDATE sends the columns that differ from what was loaded; the others
\* keep what the row says by then.
Overwrite(current, old, new) ==
    [c \in DOMAIN current |-> IF new[c] = old[c] THEN current[c] ELSE new[c]]
-----------------------------------------------------------------------------
(* Requests *)

GoTo(s, label) == pc' = [pc EXCEPT ![s] = label]

\* GET /invoices/{id} and POST /invoices/{id}/egui/refresh.
Begin(s, k) ==
    /\ pc[s] = "idle"
    /\ GoTo(s, "select")
    /\ kind' = [kind EXCEPT ![s] = k]
    /\ UNCHANGED <<row, owner, loaded, written>>

Close(s) ==
    /\ owner' = Release(owner, s)
    /\ pc' = [pc EXCEPT ![s] = "idle"]
    /\ kind' = [kind EXCEPT ![s] = "none"]
    /\ loaded' = [loaded EXCEPT ![s] = NoRow]
    /\ written' = [written EXCEPT ![s] = NoRow]

\* A plain SELECT.  What is found is shown, or refreshed.
Select(s) ==
    /\ pc[s] = "select"
    /\ \/ /\ row = NoRow
          /\ GoTo(s, "insert")
          /\ UNCHANGED <<row, owner, kind, loaded, written>>
       \/ /\ row # NoRow
          /\ kind[s] = "read"
          /\ Close(s)
          /\ UNCHANGED row
       \/ /\ row # NoRow
          /\ kind[s] = "refresh"
          /\ loaded' = [loaded EXCEPT ![s] = row]
          /\ GoTo(s, "update")
          /\ UNCHANGED <<row, owner, kind, written>>

\* A new row, PENDING, in a savepoint.  The INSERT waits for another one of the
\* same key; if that one has been committed, the unique index refuses this one,
\* the savepoint is rolled back and the row is selected again.
Conflict_Escapes == "error"  \* mutant: no savepoint, the error is raised
Conflict == "select"

Insert(s) ==
    /\ pc[s] = "insert"
    /\ Available(owner, s, TheRow)
    /\ \/ /\ row # NoRow
          /\ GoTo(s, Conflict)
          /\ UNCHANGED <<row, owner, kind, loaded, written>>
       \/ /\ row = NoRow
          /\ owner' = Acquire(owner, s, TheRow)
          /\ loaded' = [loaded EXCEPT ![s] =
                [status |-> "PENDING", retries |-> 0, reference |-> FALSE]]
          /\ written' = [written EXCEPT ![s] = loaded'[s]]
          /\ GoTo(s, IF kind[s] = "refresh" THEN "update" ELSE "commit")
          /\ UNCHANGED <<row, kind>>

\* The status is computed from the loaded row and flushed: the UPDATE waits for
\* another one of the row and overwrites what that one has left.
Update(s) ==
    /\ pc[s] = "update"
    /\ Available(owner, s, TheRow)
    /\ owner' = Acquire(owner, s, TheRow)
    /\ LET current == IF owner[TheRow] = s THEN written[s] ELSE row
       IN  written' = [written EXCEPT ![s] =
                          Overwrite(current, loaded[s], Advanced(loaded[s]))]
    /\ GoTo(s, "commit")
    /\ UNCHANGED <<row, kind, loaded>>

Commit(s) ==
    /\ pc[s] = "commit"
    /\ row' = written[s]
    /\ Close(s)

\* The connection is lost or the server stops: the database rolls back, and
\* whoever asked learns that nothing came of it.
Abort(s) ==
    /\ pc[s] \notin {"idle", "lost"}
    /\ owner' = Release(owner, s)
    /\ GoTo(s, "lost")
    /\ UNCHANGED <<row, kind, loaded, written>>
Lost(s) ==
    /\ pc[s] = "lost"
    /\ Close(s)
    /\ UNCHANGED row

Statement(s) == Select(s) \/ Insert(s) \/ Update(s) \/ Commit(s) \/ Lost(s)

Next == \E s \in Session :
    (\E k \in {"read", "refresh"} : Begin(s, k)) \/ Statement(s) \/ Abort(s)

Spec == Init /\ [][Next]_vars

\* The database grants the row to the waiting sessions in turn, a service never
\* stops between two statements, and people do not stop refreshing.
Fairness == \A s \in Session : SF_vars(Statement(s)) /\ SF_vars(Begin(s, "refresh"))

FairSpec == Spec /\ Fairness
-----------------------------------------------------------------------------
(* Properties *)

TypeOK ==
    /\ row \in Submission \cup {NoRow}
    /\ owner \in [{TheRow} -> Session \cup {NoSession}]
    /\ pc \in [Session -> {"idle", "select", "insert", "update", "commit", "lost"}]
    /\ kind \in [Session -> {"none", "read", "refresh"}]
    /\ loaded \in [Session -> Submission \cup {NoRow}]
    /\ written \in [Session -> Submission \cup {NoRow}]

\* An acknowledged submission has its FIA reference, and a submission is given
\* up only after two retries, also when refreshes overwrite one another.
AcknowledgedWithReference ==
    /\ row.status = "ACKED" => row.reference
    /\ row.status = "RETRYING" => row.retries \in 1 .. 2

-----------------------------------------------------------------------------
(* The inductive invariant of AcknowledgedWithReference *)

Sound(r) ==
    /\ r.status = "ACKED" => r.reference
    /\ r.status = "RETRYING" => r.retries \in 1 .. 2

\* A reference, once it is there, stays; what a session is about to commit, under
\* the lock, has it and is sound.
InStep(s) ==
    /\ pc[s] = "update" =>
          /\ loaded[s] \in Submission
          /\ IF owner[TheRow] = s THEN written[s] = loaded[s] /\ row = NoRow /\ Sound(loaded[s])
             ELSE row # NoRow /\ (loaded[s].reference => row.reference)
    /\ pc[s] = "commit" =>
          /\ owner[TheRow] = s
          /\ written[s] \in Submission /\ Sound(written[s])
          /\ row.reference => written[s].reference
    /\ owner[TheRow] = s => pc[s] \in {"update", "commit"}

IInv ==
    /\ TypeOK /\ Sound(row)
    /\ \A s \in Session : InStep(s)
-----------------------------------------------------------------------------
\* The status moves only along ALLOWED_EGUI_SUBMISSION_TRANSITIONS.
AllowedTransitionsOnly ==
    [][row # NoRow /\ row'.status # row.status => <<row.status, row'.status>> \in Allowed]_vars

\* Somebody who asks is answered: the race of two first reads never ends in the
\* IntegrityError of the unique index.
Answered == \A s \in Session : pc[s] # "idle" ~> pc[s] = "idle"

\* Refreshing often enough ends at an answer of the FIA, or at giving up, once
\* no more connections are lost: refreshes may throw one another back, but not
\* for ever.
Settles ==
    <>[](\A s \in Session : pc[s] # "lost")
        => <>[](row.status \in {"ACKED", "DEAD_LETTER"})
=============================================================================

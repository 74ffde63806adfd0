------------------------------ MODULE RowLocks ------------------------------
(***************************************************************************)
(* Row-level locking of PostgreSQL under READ COMMITTED, as the services   *)
(* of src/backend use it.  The database is not part of the repository:     *)
(* this module says what the services rely on when they write              *)
(* .with_for_update(), UPDATE or INSERT inside a session's transaction.    *)
(*                                                                         *)
(* A lock table is a function from lockable rows to the session that holds *)
(* the row, or NoSession.  A session is one AsyncSession of get_db, hence  *)
(* one database transaction at a time; it keeps its locks until it commits *)
(* or rolls back.                                                          *)
(***************************************************************************)
CONSTANTS Session,    \* the concurrent requests, one database session each
          NoSession   \* the owner of a row nobody holds

ASSUME NoSessionAssumption == NoSession \notin Session

\* The lock table before any request has run.
Unlocked(rows) == [r \in rows |-> NoSession]

\* Session s may go on with the statement that locks r: it holds r already,
\* or nobody does.  Otherwise the statement waits.
Available(owner, s, r) == owner[r] \in {NoSession, s}

\* The lock table once s has locked r.
Acquire(owner, s, r) == [owner EXCEPT ![r] = s]

\* COMMIT and ROLLBACK release every lock of the session.
Release(owner, s) ==
    [r \in DOMAIN owner |-> IF owner[r] = s THEN NoSession ELSE owner[r]]

\* PostgreSQL aborts a member of a cycle of waiting sessions.  blocker[s] is
\* the session s waits for, or NoSession: the sessions that can never go on are
\* those of a set each of whose members waits for a member.
Deadlocked(blocker) ==
    UNION {D \in SUBSET Session : \A s \in D : blocker[s] \in D}
=============================================================================

---------------------------- MODULE LegacyStaging ----------------------------
(***************************************************************************)
(* The raw staging of src/backend/domains/legacy_import/staging.py.  A run *)
(* is one transaction: it numbers its attempt from an unlocked maximum,    *)
(* drops and recreates one table after the other (the tables are shared by *)
(* all batches), checks the references of each against the parent table as *)
(* it finds it, and commits.  When anything fails the transaction and its  *)
(* tables are rolled back and a second one records the failed attempt.     *)
(* Commands are processes, which may be killed between any two statements. *)
(*                                                                         *)
(* Abstracted: the rows of a file to the keys they carry and the keys they *)
(* refer to; parsing, counting and copying to whether the file loads.      *)
(***************************************************************************)
EXTENDS Sequences, Integers

CONSTANTS
    Process,            \* the commands running
    Batch,              \* batch ids
    Manifest,           \* the tables of an export in the order of their names
    Selection,          \* the --table options tried; << >> stages all
    Source,             \* export directories
    Broken,             \* <<table, directory>> whose file does not load
    Keys, Refs,         \* of a table in a directory: the keys its rows carry,
                        \* and those of the parent they refer to
    MaxAttempts         \* bound: attempts of a batch

Table == {Manifest[i] : i \in DOMAIN Manifest}

\* An export without tables, or a request for a table it lacks, is refused
\* before anything is staged (discover_legacy_tables).
StagingAssumption ==
    /\ Manifest # << >> /\ Manifest \in Seq(Table)
    /\ Selection \subseteq Seq(Table)
    /\ MaxAttempts \in Nat

\* The table whose rows a table refers to, and the tables whose dangling
\* references abort; those of the others (tbsslipo, tbsspay, tbsprepay) warn.
Parent(t) ==
    IF t = "tbsslipdtj" THEN "tbsslipj"
    ELSE IF t \in {"tbsslipj", "tbsslipo", "tbsspay", "tbsprepay"} THEN "tbscust"
    ELSE "none"
Strict == {"tbsslipj", "tbsslipdtj"}

NoRows == [batch |-> "none", source |-> "none", attempt |-> 0]
Rows == [batch : Batch, source : Source, attempt : 1 .. MaxAttempts]

\* A row of legacy_import_runs, with the tables of its table runs.
Run == [status : {"completed", "failed"}, tables : SUBSET Table]

NoJob == [batch |-> "none", source |-> "none", number |-> 0]
Job == [batch : Batch, source : Source, number : 1 .. MaxAttempts]

VARIABLES
    runs,       \* committed runs of a batch, by attempt number
    raw,        \* committed tables of the raw schema
    pc,         \* each process's next step
    job,        \* its batch, directory and attempt number
    drops,      \* tables of the previous run it drops first, in any order
    todo,       \* tables it has still to stage
    mine,       \* the tables its transaction has dropped or created, with
                \* their rows; they are locked until it ends
    staged      \* those it has staged

vars == <<runs, raw, pc, job, drops, todo, mine, staged>>

Init ==
    /\ runs = [b \in Batch |-> << >>]
    /\ raw = [t \in Table |-> NoRows]
    /\ pc = [p \in Process |-> "idle"]
    /\ job = [p \in Process |-> NoJob]
    /\ drops = [p \in Process |-> {}]
    /\ todo = [p \in Process |-> << >>]
    /\ mine = [p \in Process |-> << >>]
    /\ staged = [p \in Process |-> {}]
-----------------------------------------------------------------------------
(* What a process sees *)

GoTo(p, label) == pc' = [pc EXCEPT ![p] = label]

\* The latest completed attempt of a batch, or 0.
Latest(b) ==
    LET done == {n \in DOMAIN runs[b] : runs[b][n].status = "completed"}
    IN  IF done = {} THEN 0 ELSE CHOOSE n \in done : \A m \in done : m <= n

\* A selection drops the tables it shares with the previous run before it
\* stages any; a full import drops each when its turn comes.
Cleanup(b, selection) ==
    IF Latest(b) = 0 THEN {}
    ELSE runs[b][Latest(b)].tables \cap {selection[i] : i \in DOMAIN selection}

NextAttempt(b) == Len(runs[b]) + 1

\* Nobody else's transaction has dropped or created the table.
Free(p, t) == \A q \in Process \ {p} : t \notin DOMAIN mine[q]

Sees(p, t) == IF t \in DOMAIN mine[p] THEN mine[p][t] ELSE raw[t]

Set(p, t, rows) ==
    mine' = [mine EXCEPT ![p] =
                [u \in DOMAIN mine[p] \cup {t} |-> IF u = t THEN rows ELSE mine[p][u]]]

\* (batch, attempt) is unique: a run inserted under the number is waited for,
\* a committed one fails the insert.
Inserted(q) == pc[q] \in {"drop", "create", "validate", "commit"}
NumberFree(p) ==
    \A q \in Process \ {p} : ~(Inserted(q) /\ job[q].batch = job[p].batch
                                           /\ job[q].number = job[p].number)
Taken(p) == job[p].number <= Len(runs[job[p].batch])

\* Rows of the parent count if they are of the same batch; without a parent
\* table nothing is checked.
Dangling(p, t) ==
    LET parent == Sees(p, Parent(t))
        there == IF parent.batch = job[p].batch
                 THEN Keys[Parent(t), parent.source] ELSE {}
    IN  IF parent = NoRows THEN {} ELSE Refs[t, job[p].source] \ there
-----------------------------------------------------------------------------
(* The steps of run_stage_import *)

\* legacy-import stage --batch-id b [--table ...]
Stage(p, b, d, selection) ==
    /\ pc[p] = "idle"
    /\ NextAttempt(b) <= MaxAttempts
    /\ job' = [job EXCEPT ![p] =
                  [batch |-> b, source |-> d, number |-> NextAttempt(b)]]
    /\ drops' = [drops EXCEPT ![p] = Cleanup(b, selection)]
    /\ todo' = [todo EXCEPT ![p] = IF selection = << >> THEN Manifest ELSE selection]
    /\ GoTo(p, "cleanup")
    /\ UNCHANGED <<runs, raw, mine, staged>>

CleanTable(p, t) ==
    /\ pc[p] = "cleanup" /\ t \in drops[p]
    /\ Free(p, t)
    /\ Set(p, t, NoRows)
    /\ drops' = [drops EXCEPT ![p] = @ \ {t}]
    /\ UNCHANGED <<runs, raw, pc, job, todo, staged>>

InsertRun(p) ==
    /\ pc[p] = "cleanup" /\ drops[p] = {}
    /\ NumberFree(p)
    /\ GoTo(p, IF Taken(p) THEN "failed" ELSE "drop")
    /\ UNCHANGED <<runs, raw, job, drops, todo, mine, staged>>

\* The file is analysed, then its table dropped, if there is one.
DropTable(p) ==
    /\ pc[p] = "drop"
    /\ LET t == Head(todo[p])
       IN  IF <<t, job[p].source>> \in Broken
           THEN GoTo(p, "failed") /\ UNCHANGED mine
           ELSE /\ GoTo(p, "create")
                /\ IF Sees(p, t) = NoRows THEN UNCHANGED mine
                   ELSE Free(p, t) /\ Set(p, t, NoRows)
    /\ UNCHANGED <<runs, raw, job, drops, todo, staged>>

\* CREATE TABLE and COPY; a table somebody has created meanwhile exists.
CreateTable(p) ==
    /\ pc[p] = "create"
    /\ LET t == Head(todo[p])
       IN  /\ Free(p, t)
           /\ IF Sees(p, t) # NoRows
              THEN GoTo(p, "failed") /\ UNCHANGED mine
              ELSE /\ GoTo(p, "validate")
                   /\ Set(p, t, [batch |-> job[p].batch, source |-> job[p].source,
                                 attempt |-> job[p].number])
    /\ UNCHANGED <<runs, raw, job, drops, todo, staged>>

ValidateTable(p) ==
    /\ pc[p] = "validate"
    /\ LET t == Head(todo[p])
           checked == t \in Strict /\ Parent(t) \in Table
       IN  /\ checked => Free(p, Parent(t))
           /\ IF checked /\ Dangling(p, t) # {}
              THEN GoTo(p, "failed") /\ UNCHANGED <<todo, staged>>
              ELSE /\ GoTo(p, IF Len(todo[p]) = 1 THEN "commit" ELSE "drop")
                   /\ todo' = [todo EXCEPT ![p] = Tail(@)]
                   /\ staged' = [staged EXCEPT ![p] = @ \cup {t}]
    /\ UNCHANGED <<runs, raw, job, drops, mine>>

\* The transaction is over, with its locks.
Close(p) ==
    /\ drops' = [drops EXCEPT ![p] = {}]
    /\ todo' = [todo EXCEPT ![p] = << >>]
    /\ mine' = [mine EXCEPT ![p] = << >>]
    /\ staged' = [staged EXCEPT ![p] = {}]
Leave(p) == GoTo(p, "idle") /\ job' = [job EXCEPT ![p] = NoJob]

Record(p, status) ==
    runs' = [runs EXCEPT ![job[p].batch] =
                Append(@, [status |-> status, tables |-> staged[p]])]

Commit(p) ==
    /\ pc[p] = "commit"
    /\ raw' = [t \in Table |-> Sees(p, t)]
    /\ Record(p, "completed")
    /\ Close(p) /\ Leave(p)

\* A mistake, for a mutant: the tables are dropped on a connection of their own.
Rollback_KeepsDrops(p) ==
    /\ raw' = [t \in Table |-> IF t \in DOMAIN mine[p] THEN NoRows ELSE raw[t]]
    /\ Close(p)

\* Whatever was raised: the tables dropped and created are as they were.
Rollback(p) == UNCHANGED raw /\ Close(p)

Fail(p) ==
    /\ pc[p] = "failed"
    /\ Rollback(p)
    /\ GoTo(p, "record")
    /\ UNCHANGED <<runs, job>>

\* The second transaction inserts the failed attempt under the same number;
\* if somebody has taken it that error is raised instead.
RecordFailure(p) ==
    /\ pc[p] = "record"
    /\ NumberFree(p)
    /\ IF Taken(p) THEN UNCHANGED runs ELSE Record(p, "failed")
    /\ Leave(p)
    /\ UNCHANGED <<raw, drops, todo, mine, staged>>

\* The table or the number a process may be waiting for is the other's.
WaitsFor(p, q) ==
    \/ pc[p] = "cleanup" /\ drops[p] \cap DOMAIN mine[q] # {}
    \/ pc[p] = "cleanup" /\ drops[p] = {} /\ Inserted(q) /\ ~NumberFree(p)
    \/ pc[p] \in {"drop", "create"} /\ Head(todo[p]) \in DOMAIN mine[q]
    \/ pc[p] = "validate" /\ Parent(Head(todo[p])) \in DOMAIN mine[q]

\* PostgreSQL aborts one of two transactions that wait for one another.
Deadlock(p) ==
    /\ \E q \in Process \ {p} : WaitsFor(p, q) /\ WaitsFor(q, p)
    /\ Rollback(p)
    /\ GoTo(p, "record")
    /\ UNCHANGED <<runs, job>>

\* The process is killed; nothing is recorded.
Crash(p) ==
    /\ pc[p] # "idle"
    /\ Rollback(p) /\ Leave(p)
    /\ UNCHANGED runs

Next ==
    \E p \in Process :
        \/ \E b \in Batch, d \in Source, selection \in Selection :
              Stage(p, b, d, selection)
        \/ (\E t \in Table : CleanTable(p, t)) \/ InsertRun(p)
        \/ DropTable(p) \/ CreateTable(p) \/ ValidateTable(p)
        \/ Commit(p) \/ Fail(p) \/ RecordFailure(p) \/ Deadlock(p) \/ Crash(p)

Spec == Init /\ [][Next]_vars
-----------------------------------------------------------------------------
(* Properties *)

\* Types of the variables; a process's tables are those of its run.
TypeOK ==
    /\ \A b \in Batch : \A n \in DOMAIN runs[b] : runs[b][n] \in Run
    /\ \A t \in Table : raw[t] \in Rows \cup {NoRows}
    /\ \A p \in Process :
          /\ job[p] \in Job \cup {NoJob}
          /\ DOMAIN mine[p] \subseteq Table
          /\ staged[p] \subseteq DOMAIN mine[p]
          /\ pc[p] = "idle" <=> job[p] = NoJob

\* Whatever fails, waits or is killed, the tables of the last completed run of a
\* batch stand: they exist, and rows of that batch in them are of that run, never
\* a mixture of attempts.
LastRunStands ==
    \A b \in Batch :
        Latest(b) # 0 =>
            \A t \in runs[b][Latest(b)].tables :
                /\ raw[t] # NoRows
                /\ raw[t].batch = b => raw[t].attempt = Latest(b)

-----------------------------------------------------------------------------
(* The inductive invariant of LastRunStands *)

Label == {"idle", "cleanup", "drop", "create", "validate", "commit", "failed", "record"}

\* The tables, of one kind each.
ShapesFit ==
    /\ runs \in [Batch -> Seq(Run)]
    /\ raw \in [Table -> Rows \cup {NoRows}]
    /\ pc \in [Process -> Label]
    /\ job \in [Process -> Job \cup {NoJob}]
    /\ drops \in [Process -> SUBSET Table]
    /\ todo \in [Process -> Seq(Table)]
    /\ staged \in [Process -> SUBSET Table]
    /\ DOMAIN mine = Process
    /\ \A p \in Process : \A t \in DOMAIN mine[p] : t \in Table /\ mine[p][t] \in Rows \cup {NoRows}

\* The number of an attempt is at most the next one of its batch.  A run that is
\* inserted has that one, and nobody else of the batch has a run inserted.
NumberFits(p) ==
    /\ pc[p] = "idle" <=> job[p] = NoJob
    /\ pc[p] # "idle" => job[p].number =< NextAttempt(job[p].batch)
    /\ Inserted(p) => job[p].number = NextAttempt(job[p].batch) /\ NumberFree(p)

\* The tables a run still has to stage, and the rows it loads.
Ahead(p) == {todo[p][i] : i \in DOMAIN todo[p]}
RowsOf(p) == [batch |-> job[p].batch, source |-> job[p].source, attempt |-> job[p].number]

\* What a transaction has dropped it stages again before it commits, and what it
\* is through with is of its own run.
TablesFit(p) ==
    /\ staged[p] \subseteq DOMAIN mine[p]
    /\ pc[p] = "cleanup" => drops[p] \subseteq Ahead(p)
    /\ \A t \in DOMAIN mine[p] : t \in Ahead(p) \/ (t \in staged[p] /\ mine[p][t] = RowsOf(p))
    /\ pc[p] \in {"cleanup", "drop", "create", "validate"} => todo[p] # << >>
    /\ pc[p] = "validate" => /\ Head(todo[p]) \in DOMAIN mine[p]
                             /\ mine[p][Head(todo[p])] = RowsOf(p)
    /\ pc[p] = "commit" => todo[p] = << >>
    /\ pc[p] \in {"idle", "record"} => mine[p] = << >> /\ staged[p] = {}

IInv ==
    /\ ShapesFit
    /\ \A p \in Process : NumberFits(p) /\ TablesFit(p)
    /\ LastRunStands
-----------------------------------------------------------------------------
\* A run is failed over dangling references only if the export it stages has
\* them: "Orphan detail doc_numbers indicate a source-file inconsistency".
OnlyOrphansAreRefused ==
    [][\A p \in Process :
          LET t == Head(todo[p])
          IN  (pc[p] = "validate" /\ pc'[p] = "failed")
                => ~(Refs[t, job[p].source] \subseteq Keys[Parent(t), job[p].source])]_vars
=============================================================================

---------------------------- MODULE Legacy_proofs ----------------------------
(***************************************************************************)
(* Proofs about the legacy import: about LegacyPipeline, for any exports,  *)
(* batches, categories and numbers of importers, runs and commands, and    *)
(* about LegacyStaging, for any tables, files and numbers of processes and *)
(* attempts.                                                               *)
(***************************************************************************)
EXTENDS Legacy, SumFacts, SequenceTheorems

\* A sequence, of whatever.
IsSeq(s) == \E S : s \in Seq(S)

\* A sequence with one element more.
LEMMA Appended ==
  ASSUME NEW s, IsSeq(s), NEW e
  PROVE  /\ IsSeq(Append(s, e))
         /\ Len(s) \in Nat /\ DOMAIN s = 1 .. Len(s)
         /\ Len(Append(s, e)) = Len(s) + 1
         /\ DOMAIN Append(s, e) = 1 .. Len(s) + 1
         /\ \A n \in DOMAIN s : Append(s, e)[n] = s[n]
         /\ Append(s, e)[Len(s) + 1] = e
  <1>1. PICK S : s \in Seq(S)
    BY DEF IsSeq
  <1>2. PICK T : T = S \cup {e}
    OBVIOUS
  <1>3. s \in Seq(T) /\ e \in T
    BY <1>1, <1>2
  <1>4. Append(s, e) \in Seq(T)
    BY <1>3
  <1> QED
    BY <1>3, <1>4 DEF IsSeq

\* A sequence with one element replaced.
LEMMA Replaced ==
  ASSUME NEW s, IsSeq(s), NEW m \in DOMAIN s, NEW e
  PROVE  /\ IsSeq([s EXCEPT ![m] = e])
         /\ Len([s EXCEPT ![m] = e]) = Len(s)
         /\ DOMAIN [s EXCEPT ![m] = e] = DOMAIN s
         /\ DOMAIN s = 1 .. Len(s) /\ Len(s) \in Nat
         /\ \A n \in DOMAIN s : [s EXCEPT ![m] = e][n] = IF n = m THEN e ELSE s[n]
  <1>1. PICK S : s \in Seq(S)
    BY DEF IsSeq
  <1>2. PICK T : T = S \cup {e}
    OBVIOUS
  <1>3. s \in Seq(T) /\ e \in T
    BY <1>1, <1>2
  <1>4. [s EXCEPT ![m] = e] \in Seq(T) /\ Len([s EXCEPT ![m] = e]) = Len(s)
    BY <1>3
  <1> QED
    BY <1>3, <1>4 DEF IsSeq

\* The empty sequence, and one of one element.
LEMMA ShortSeqs ==
  ASSUME NEW e
  PROVE  /\ IsSeq(<< >>) /\ DOMAIN << >> = {} /\ Len(<< >>) = 0
         /\ IsSeq(<<e>>) /\ DOMAIN <<e>> = {1} /\ <<e>>[1] = e /\ Len(<<e>>) = 1
  <1>1. << >> \in Seq({}) /\ <<e>> \in Seq({e})
    OBVIOUS
  <1>2. IsSeq(<< >>) /\ IsSeq(<<e>>)
    BY <1>1 DEF IsSeq
  <1>3. Len(<< >>) = 0 /\ Len(<<e>>) = 1 /\ <<e>>[1] = e
    OBVIOUS
  <1>4. DOMAIN << >> = {} /\ DOMAIN <<e>> = {1}
    OBVIOUS
  <1> QED
    BY <1>2, <1>3, <1>4

\* Rows written over others.
LEMMA OverFacts ==
  ASSUME NEW new, NEW old
  PROVE  /\ DOMAIN Over(new, old) = DOMAIN new \cup DOMAIN old
         /\ \A k \in DOMAIN new : Over(new, old)[k] = new[k]
         /\ \A k \in DOMAIN old : k \notin DOMAIN new => Over(new, old)[k] = old[k]
  BY DEF Over
-----------------------------------------------------------------------------
(* The inductive invariant *)

\* The rows of the tables the commands share, one record each, and what a seed has
\* read of them.
MappingFits(m) == m = Mapping(m.target, m.resolution, m.approval, m.batch)
SeedFits(s) ==
    /\ s.batch \in Batch /\ s.codes # {} /\ UNKNOWN \in s.known
    /\ \A c \in DOMAIN s.read : MappingFits(s.read[c])
TablesFit ==
    /\ DOMAIN raw = Table
    /\ \A t \in Table : raw[t] = Unstaged \/ raw[t] \in [batch : Batch, export : Export]
    /\ DOMAIN norm = Batch
    /\ \A b \in Batch :
          /\ norm[b] = [parties |-> norm[b].parties, products |-> norm[b].products,
                        stock |-> norm[b].stock, review |-> norm[b].review]
          /\ norm[b].review \subseteq DOMAIN norm[b].products
    /\ \A c \in DOMAIN mapping : MappingFits(mapping[c])
    /\ \A k \in DOMAIN seeds : SeedFits(seeds[k])
    /\ refresh \subseteq Batch

\* A run of an importer, and its number, by which its id goes.
ImportRow(b, n, run) ==
    /\ run = [id |-> run.id, status |-> run.status, steps |-> run.steps, after |-> run.after,
              counts |-> run.counts, scope |-> run.scope, disposition |-> run.disposition,
              verdict |-> run.verdict]
    /\ \E i \in Importer : run.id = <<b, n, i>>
StagingRow(run) == run = Run(run.kind, run.status, run.staged)

\* A payment import that has failed has a number the runs of its batch reach, or
\* the next one.
FailureFits(f) ==
    /\ f.batch \in Batch
    /\ f.number \in 1 .. Len(stagings[f.batch]) + 1 /\ f.number <= MaxRuns
RunsFit ==
    /\ DOMAIN imports = Batch /\ DOMAIN stagings = Batch
    /\ \A b \in Batch :
          /\ IsSeq(imports[b]) /\ IsSeq(stagings[b])
          /\ Len(stagings[b]) <= MaxRuns
          /\ \A n \in DOMAIN imports[b] : ImportRow(b, n, imports[b][n])
          /\ \A n \in DOMAIN stagings[b] : StagingRow(stagings[b][n])
    /\ \A k \in DOMAIN failing : FailureFits(failing[k])

\* An importer in its transaction has the next number of its batch for itself.
HasNumber(i) ==
    /\ job[i].batch \in Batch
    /\ job[i].number \in 1 .. Len(imports[job[i].batch]) + 1
    /\ job[i] = [batch |-> job[i].batch, number |-> job[i].number,
                 mapping |-> job[i].mapping, after |-> job[i].after]
Alone(i) ==
    \A j \in Importer \ {i} : InTransaction(j) => job[j].batch # job[i].batch
Standing(i) ==
    /\ pc[i] # "idle" => HasNumber(i)
    /\ InTransaction(i) => job[i].number = Len(imports[job[i].batch]) + 1 /\ Alone(i)
    /\ mine[i] # << >> => InTransaction(i) \/ pc[i] = "failed"
    /\ \A k \in DOMAIN mine[i] : k[1] \in RowKinds \cup {"held"}
Labels == {"idle", "run", "parties", "products", "documents", "commit", "failed", "record",
           "refused"}
JobsFit ==
    /\ pc \in [Importer -> Labels]
    /\ DOMAIN job = Importer /\ DOMAIN seen = Importer /\ DOMAIN mine = Importer
    /\ \A i \in Importer : Standing(i)

\* The ids of the runs on record with their steps, or their tables, completed.
ImportRecords ==
    {id \in Batch \X Nat \X Importer :
        /\ id[2] \in DOMAIN imports[id[1]]
        /\ imports[id[1]][id[2]].id = id
        /\ imports[id[1]][id[2]].steps = "completed"}
PaymentRecords ==
    {id \in Batch \X Nat \X {"payments"} :
        /\ id[2] \in DOMAIN stagings[id[1]]
        /\ stagings[id[1]][id[2]].kind = "payments"
        /\ stagings[id[1]][id[2]].staged # {}}
Records == ImportRecords \cup PaymentRecords

\* Rows are explained by a run on record.
RowsFit ==
    /\ \A k \in DOMAIN lineage : lineage[k] \in Records
    /\ \A k \in DOMAIN held : held[k] \in Records
    /\ \A r \in DOMAIN erp : r[1] \in RowKinds /\ \E b \in Batch : <<b, r>> \in DOMAIN lineage

IInv == TablesFit /\ RunsFit /\ JobsFit /\ RowsFit
-----------------------------------------------------------------------------
LEMMA InitInv == Init => IInv
  <1> SUFFICES ASSUME Init PROVE IInv
    OBVIOUS
  <1>0. DOMAIN << >> = {} /\ IsSeq(<< >>) /\ Len(<< >>) = 0
    BY ShortSeqs
  <1>1. TablesFit
    BY <1>0 DEF Init, TablesFit, Blank
  <1>2. RunsFit
    BY <1>0, PipelineAssumption DEF Init, RunsFit
  <1>3. JobsFit
    BY <1>0 DEF Init, JobsFit, Standing, InTransaction, Labels
  <1>4. RowsFit
    BY <1>0 DEF Init, RowsFit
  <1> QED
    BY <1>1, <1>2, <1>3, <1>4 DEF IInv

\* What is recorded stays recorded, whatever becomes of its status.
RunsStand ==
    /\ \A b \in Batch : \A n \in DOMAIN imports[b] :
          /\ n \in DOMAIN imports'[b]
          /\ imports'[b][n].id = imports[b][n].id
          /\ imports'[b][n].steps = imports[b][n].steps
    /\ \A b \in Batch : \A n \in DOMAIN stagings[b] :
          /\ n \in DOMAIN stagings'[b]
          /\ stagings'[b][n].kind = stagings[b][n].kind
          /\ stagings'[b][n].staged = stagings[b][n].staged
StatusesStand ==
    \A b \in Batch : \A n \in DOMAIN imports[b] :
        imports'[b][n].status = imports[b][n].status

LEMMA RecordsStand ==
  ASSUME RunsStand
  PROVE  Records \subseteq Records'
  <1>1. ASSUME NEW id \in ImportRecords PROVE id \in ImportRecords'
    <2>1. id \in Batch \X Nat \X Importer /\ id[1] \in Batch
      BY DEF ImportRecords
    <2> QED
      BY <2>1 DEF ImportRecords, RunsStand
  <1>2. ASSUME NEW id \in PaymentRecords PROVE id \in PaymentRecords'
    <2>1. id \in Batch \X Nat \X {"payments"} /\ id[1] \in Batch
      BY DEF PaymentRecords
    <2> QED
      BY <2>1 DEF PaymentRecords, RunsStand
  <1> QED
    BY <1>1, <1>2 DEF Records

\* A step that writes no canonical row.
LEMMA RowsStay ==
  ASSUME RowsFit, RunsStand, UNCHANGED <<erp, lineage, held>>
  PROVE  RowsFit'
  BY RecordsStand DEF RowsFit

\* A step of a command: the importers stay where they are.
LEMMA JobsStay ==
  ASSUME JobsFit, UNCHANGED importers,
         \A b \in Batch : Len(imports'[b]) = Len(imports[b])
  PROVE  JobsFit'
  BY DEF JobsFit, Standing, Alone, HasNumber, InTransaction, importers
-----------------------------------------------------------------------------
(* The commands that work on the tables *)

\* No payment import fails in a step, though one may have ended.
NoMoreFailing == \A k \in DOMAIN failing' : k \in DOMAIN failing /\ failing'[k] = failing[k]

\* A batch has one run more.
LEMMA StagingAdded ==
  ASSUME RunsFit, NEW b \in Batch, Len(stagings[b]) < MaxRuns,
         NEW kind, NEW status, NEW loaded,
         stagings' = [stagings EXCEPT ![b] = Append(@, Run(kind, status, loaded))],
         UNCHANGED imports, NoMoreFailing
  PROVE  RunsFit' /\ RunsStand
  <1> DEFINE e == Run(kind, status, loaded)
  <1>0. StagingRow(e)
    BY DEF StagingRow, Run
  <1> HIDE DEF e
  <1>1. IsSeq(stagings[b]) /\ DOMAIN stagings = Batch
    BY DEF RunsFit
  <1>2. \A c \in Batch : stagings'[c] = IF c = b THEN Append(stagings[c], e) ELSE stagings[c]
    BY <1>1 DEF e
  <1>3. /\ IsSeq(Append(stagings[b], e))
        /\ Len(stagings[b]) \in Nat /\ DOMAIN stagings[b] = 1 .. Len(stagings[b])
        /\ Len(Append(stagings[b], e)) = Len(stagings[b]) + 1
        /\ DOMAIN Append(stagings[b], e) = 1 .. Len(stagings[b]) + 1
        /\ \A n \in DOMAIN stagings[b] : Append(stagings[b], e)[n] = stagings[b][n]
        /\ Append(stagings[b], e)[Len(stagings[b]) + 1] = e
    BY <1>1, Appended
  <1>4. MaxRuns \in Nat
    BY PipelineAssumption
  <1>5. RunsFit'
    <2>1. DOMAIN stagings' = Batch
      BY <1>1
    <2>2. ASSUME NEW c \in Batch
          PROVE  /\ IsSeq(stagings'[c]) /\ Len(stagings'[c]) <= MaxRuns
                 /\ \A n \in DOMAIN stagings'[c] : StagingRow(stagings'[c][n])
      <3>1. CASE c = b
        <4>1. stagings'[c] = Append(stagings[b], e)
          BY <3>1, <1>2
        <4>2. ASSUME NEW n \in DOMAIN Append(stagings[b], e)
              PROVE  StagingRow(Append(stagings[b], e)[n])
          <5>1. n \in DOMAIN stagings[b] \/ n = Len(stagings[b]) + 1
            BY <1>3
          <5> QED
            BY <5>1, <1>3, <1>0 DEF RunsFit
        <4>3. Len(Append(stagings[b], e)) <= MaxRuns
          BY <1>3, <1>4
        <4> QED
          BY <4>1, <4>2, <4>3, <1>3
      <3>2. CASE c # b
        BY <3>2, <1>2 DEF RunsFit
      <3> QED
        BY <3>1, <3>2
    <2>3. ASSUME NEW k \in DOMAIN failing' PROVE FailureFits(failing[k])'
      <3>1. PICK f : f = failing[k] /\ f = failing'[k] /\ FailureFits(f)
        BY <2>3 DEF NoMoreFailing, RunsFit
      <3>2. Len(stagings[f.batch]) \in Nat /\ Len(stagings'[f.batch]) \in Nat
            /\ Len(stagings[f.batch]) <= Len(stagings'[f.batch])
        <4>1. IsSeq(stagings[f.batch])
          BY <3>1 DEF RunsFit, FailureFits
        <4> QED
          BY <3>1, <4>1, <1>2, <1>3, Appended DEF FailureFits
      <3>3. f.number \in 1 .. Len(stagings'[f.batch]) + 1
        BY <3>1, <3>2 DEF FailureFits
      <3> QED
        BY <3>1, <3>3 DEF FailureFits
    <2> QED
      BY <2>1, <2>2, <2>3 DEF RunsFit
  <1>6. RunsStand
    <2>1. ASSUME NEW c \in Batch, NEW n \in DOMAIN stagings[c]
          PROVE  n \in DOMAIN stagings'[c] /\ stagings'[c][n] = stagings[c][n]
      BY <1>2, <1>3
    <2> QED
      BY <2>1 DEF RunsStand
  <1> QED
    BY <1>5, <1>6

\* The runs do not change.
LEMMA RunsAsTheyAre ==
  ASSUME RunsFit, UNCHANGED <<attempts, imports>>
  PROVE  RunsFit' /\ RunsStand /\ StatusesStand
  BY DEF RunsFit, RunsStand, StatusesStand, FailureFits, attempts

LEMMA StageInv ==
  ASSUME IInv, NEW b \in Batch, NEW e \in Export, NEW ts \in Selection, Stage(b, e, ts)
  PROVE  IInv'
  <1> USE DEF Stage
  <1>1. TablesFit'
    <2>1. \A t \in Table : raw'[t] = Unstaged \/ raw'[t] \in [batch : Batch, export : Export]
      BY DEF IInv, TablesFit
    <2>2. DOMAIN raw' = Table
      OBVIOUS
    <2> QED
      BY <2>1, <2>2 DEF IInv, TablesFit
  <1>2. RunsFit' /\ RunsStand
    BY StagingAdded DEF IInv, NoMoreFailing, canonical
  <1>3. JobsFit'
    BY JobsStay DEF IInv, canonical
  <1>4. RowsFit'
    BY <1>2, RowsStay DEF IInv, canonical
  <1> QED
    BY <1>1, <1>2, <1>3, <1>4 DEF IInv

\* A command that fails records its attempt, with nothing staged, and no more.
LEMMA StageFailsInv ==
  ASSUME IInv, NEW b \in Batch, StageFails(b)
  PROVE  IInv'
  <1> USE DEF StageFails, canonical, tables
  <1>1. TablesFit'
    BY DEF IInv, TablesFit
  <1>2. RunsFit' /\ RunsStand
    BY StagingAdded DEF IInv, NoMoreFailing
  <1>3. JobsFit'
    BY JobsStay DEF IInv
  <1>4. RowsFit'
    BY <1>2, RowsStay DEF IInv
  <1> QED
    BY <1>1, <1>2, <1>3, <1>4 DEF IInv

\* A payment import fails, and has still to record it.
LEMMA PaymentsFailInv ==
  ASSUME IInv, NEW b \in Batch, PaymentsFail(b) \/ PaymentsRefused(b)
  PROVE  IInv'
  <1> USE DEF canonical, tables
  <1>1. UNCHANGED <<tables, stagings, canonical, importers>>
    BY DEF PaymentsFail, PaymentsRefused
  <1>2. PICK f : /\ failing' = Over([k \in {commands} |-> f], failing)
                 /\ FailureFits(f)
    <2>1. Len(stagings[b]) \in Nat /\ MaxRuns \in Nat \ {0}
      BY Appended, PipelineAssumption DEF IInv, RunsFit
    <2>2. PICK number, read : /\ Failed(b, number, read)
                              /\ \/ number = Len(stagings[b]) + 1 /\ Len(stagings[b]) < MaxRuns
                                 \/ number = 1
      BY DEF PaymentsFail, PaymentsRefused
    <2>3. number \in 1 .. Len(stagings[b]) + 1 /\ number <= MaxRuns
      BY <2>1, <2>2
    <2>4. PICK f : f = [batch |-> b, number |-> number, read |-> read]
      OBVIOUS
    <2>5. FailureFits(f)
      BY <2>3, <2>4 DEF FailureFits
    <2> QED
      BY <2>2, <2>4, <2>5 DEF Failed
  <1>3. \A k \in DOMAIN failing' : failing'[k] = f \/ (k \in DOMAIN failing /\ failing'[k] = failing[k])
    BY <1>2 DEF Over
  <1>4. \A k \in DOMAIN failing' : FailureFits(failing'[k])
    BY <1>2, <1>3 DEF IInv, RunsFit
  <1>5. RunsFit' /\ RunsStand
    BY <1>1, <1>4 DEF IInv, RunsFit, RunsStand, FailureFits
  <1>6. TablesFit'
    BY <1>1 DEF IInv, TablesFit
  <1>7. JobsFit'
    BY <1>1, JobsStay DEF IInv
  <1>8. RowsFit'
    BY <1>1, <1>5, RowsStay DEF IInv
  <1> QED
    BY <1>5, <1>6, <1>7, <1>8 DEF IInv

\* A run found under a number is set to failed, and nothing else of it.
LEMMA StagingRelabelled ==
  ASSUME RunsFit, NEW b \in Batch, NEW m \in DOMAIN stagings[b], NEW status,
         stagings' = [stagings EXCEPT ![b] = [@ EXCEPT ![m].status = status]],
         UNCHANGED imports, NoMoreFailing
  PROVE  RunsFit' /\ RunsStand
  <1>1. PICK old, run, new : /\ old = stagings[b] /\ run = old[m]
                             /\ new = [run EXCEPT !.status = status]
    OBVIOUS
  <1>2. DOMAIN stagings = Batch /\ IsSeq(old) /\ m \in DOMAIN old
        /\ \A n \in DOMAIN old : StagingRow(old[n])
    BY <1>1 DEF RunsFit
  <1>3. StagingRow(new) /\ new.kind = run.kind /\ new.staged = run.staged
    <2>1. PICK k, st, s : run = [kind |-> k, status |-> st, staged |-> s]
      BY <1>1, <1>2 DEF StagingRow, Run
    <2>2. new = [kind |-> k, status |-> status, staged |-> s]
      BY <1>1, <2>1
    <2> QED
      BY <2>1, <2>2 DEF StagingRow, Run
  <1>4. PICK s : s = [old EXCEPT ![m] = new]
    OBVIOUS
  <1>5. /\ IsSeq(s) /\ Len(s) = Len(old) /\ DOMAIN s = DOMAIN old
        /\ \A n \in DOMAIN old : s[n] = IF n = m THEN new ELSE old[n]
    BY <1>2, <1>4, Replaced
  <1>6. \A c \in Batch : stagings'[c] = IF c = b THEN s ELSE stagings[c]
    BY <1>1, <1>2, <1>4
  <1>7. DOMAIN stagings' = Batch /\ \A c \in Batch : Len(stagings'[c]) = Len(stagings[c])
    BY <1>1, <1>2, <1>5, <1>6
  <1>8. \A n \in DOMAIN s : StagingRow(s[n])
    BY <1>2, <1>3, <1>5
  <1>9. \A k \in DOMAIN failing' : FailureFits(failing[k])'
    <2> SUFFICES ASSUME NEW k \in DOMAIN failing' PROVE FailureFits(failing[k])'
      OBVIOUS
    <2>1. PICK f : f = failing[k] /\ f = failing'[k] /\ FailureFits(f)
      BY DEF NoMoreFailing, RunsFit
    <2>2. Len(stagings'[f.batch]) = Len(stagings[f.batch])
      BY <1>7, <2>1 DEF FailureFits
    <2> QED
      BY <2>1, <2>2 DEF FailureFits
  <1>10. RunsFit'
    BY <1>1, <1>5, <1>6, <1>7, <1>8, <1>9 DEF RunsFit
  <1>11. RunsStand
    BY <1>1, <1>3, <1>5, <1>6 DEF RunsStand
  <1> QED
    BY <1>10, <1>11

\* A payment import records its failure, as a run more or in place of another's
\* status, or it cannot; or it is killed before that.
LEMMA RecordPaymentsFailureInv ==
  ASSUME IInv, NEW k \in DOMAIN failing, RecordPaymentsFailure(k) \/ CrashPayments(k)
  PROVE  IInv'
  <1> USE DEF canonical, tables
  <1>1. UNCHANGED <<tables, canonical, importers>>
    BY DEF RecordPaymentsFailure, CrashPayments
  <1>2. NoMoreFailing
    BY DEF RecordPaymentsFailure, CrashPayments, EndFailing, Restrict, NoMoreFailing
  <1>3. PICK b, number : b = failing[k].batch /\ number = failing[k].number
    OBVIOUS
  <1>4. b \in Batch /\ number \in 1 .. Len(stagings[b]) + 1 /\ number <= MaxRuns
    BY <1>3 DEF IInv, RunsFit, FailureFits
  <1>5. RunsFit' /\ RunsStand
    <2>1. /\ DOMAIN stagings = Batch /\ Len(stagings[b]) \in Nat
          /\ DOMAIN stagings[b] = 1 .. Len(stagings[b])
      BY <1>4, Appended DEF IInv, RunsFit
    <2>2. CASE number > Len(stagings[b]) /\ RecordPaymentsFailure(k)
      <3>1. stagings' = [stagings EXCEPT ![b] = Append(@, Run("payments", "failed", {}))]
        BY <1>3, <2>1, <2>2 DEF RecordPaymentsFailure
      <3>2. Len(stagings[b]) < MaxRuns
        BY <1>4, <2>1, <2>2, PipelineAssumption
      <3> QED
        BY <1>1, <1>2, <1>4, <3>1, <3>2, StagingAdded DEF IInv
    <2>3. CASE DOMAIN stagings' = Batch /\ \A c \in Batch : stagings'[c] = stagings[c]
      <3>1. \A j \in DOMAIN failing' : FailureFits(failing[j])'
        BY <1>2, <2>3 DEF IInv, RunsFit, NoMoreFailing, FailureFits
      <3> QED
        BY <1>1, <2>3, <3>1 DEF IInv, RunsFit, RunsStand
    <2>4. CASE ~(number > Len(stagings[b])) /\ RecordPaymentsFailure(k) /\ ~failing[k].read
      <3>1. stagings' = [stagings EXCEPT ![b] = [@ EXCEPT ![number].status = "failed"]]
        BY <1>3, <2>1, <2>4 DEF RecordPaymentsFailure
      <3>2. number \in DOMAIN stagings[b]
        BY <1>4, <2>1, <2>4
      <3> QED
        BY <1>1, <1>2, <1>4, <3>1, <3>2, StagingRelabelled DEF IInv
    <2>5. CASE ~(number > Len(stagings[b])) /\ RecordPaymentsFailure(k) /\ failing[k].read
      <3>1. stagings' = [stagings EXCEPT ![b] = stagings[b]]
        BY <1>3, <2>1, <2>5 DEF RecordPaymentsFailure
      <3>2. DOMAIN stagings' = Batch /\ \A c \in Batch : stagings'[c] = stagings[c]
        BY <3>1, <2>1
      <3> QED
        BY <3>2, <2>3
    <2> QED
      <3>1. CASE UNCHANGED stagings
        BY <2>1, <2>3, <3>1
      <3> QED
        BY <2>2, <2>4, <2>5, <3>1 DEF CrashPayments
  <1>6. TablesFit'
    BY <1>1 DEF IInv, TablesFit
  <1>7. JobsFit'
    BY <1>1, JobsStay DEF IInv
  <1>8. RowsFit'
    BY <1>1, <1>5, RowsStay DEF IInv
  <1> QED
    BY <1>5, <1>6, <1>7, <1>8 DEF IInv

\* Normalized rows of a batch in place of those it has.
NormFits(n) ==
    /\ n = [parties |-> n.parties, products |-> n.products, stock |-> n.stock,
            review |-> n.review]
    /\ n.review \subseteq DOMAIN n.products

LEMMA NormReplaced ==
  ASSUME TablesFit, NEW b \in Batch, NEW n, NormFits(n), norm' = [norm EXCEPT ![b] = n]
  PROVE  /\ DOMAIN norm' = Batch
         /\ \A c \in Batch : NormFits(norm'[c])
  <1>1. \A c \in Batch : NormFits(norm[c])
    BY DEF TablesFit, NormFits
  <1>2. DOMAIN norm = Batch
    BY DEF TablesFit
  <1> QED
    BY <1>1, <1>2

LEMMA NormalizedFits ==
  ASSUME NEW b
  PROVE  NormFits(Normalized(b))
  <1>1. PICK d : d = Derivations(b)
    OBVIOUS
  <1>2. Normalized(b) = [parties |-> RowsOf("tbscust", b, NoContent).parties,
                         products |-> [c \in DOMAIN d |-> d[c].category],
                         stock |-> RowsOf("tbsstock", b, NoContent).stock,
                         review |-> {c \in DOMAIN d : NeedsReview(d[c])}]
    BY <1>1 DEF Normalized
  <1> QED
    BY <1>2 DEF NormFits

LEMMA RenewFits ==
  ASSUME TablesFit, NEW b \in Batch, Renew(b)
  PROVE  /\ DOMAIN norm' = Batch
         /\ \A c \in Batch : NormFits(norm'[c])
  <1>1. CASE norm' = [norm EXCEPT ![b] = Normalized(b)]
    BY <1>1, NormalizedFits, NormReplaced
  <1>2. CASE UNCHANGED norm
    BY <1>2 DEF TablesFit, NormFits
  <1> QED
    BY <1>1, <1>2 DEF Renew

\* A command that leaves the runs alone and writes no canonical row.
LEMMA TableCommand ==
  ASSUME IInv, UNCHANGED <<raw, attempts, canonical, importers>>,
         DOMAIN norm' = Batch, \A c \in Batch : NormFits(norm'[c]),
         \A c \in DOMAIN mapping' : MappingFits(mapping'[c]),
         \A k \in DOMAIN seeds' : SeedFits(seeds'[k]),
         refresh' \subseteq Batch
  PROVE  IInv'
  <1>1. TablesFit'
    BY DEF IInv, TablesFit, NormFits
  <1>2. RunsFit' /\ RunsStand
    BY RunsAsTheyAre DEF IInv, canonical
  <1>3. JobsFit'
    BY JobsStay DEF IInv, canonical
  <1>4. RowsFit'
    BY <1>2, RowsStay DEF IInv, canonical
  <1> QED
    BY <1>1, <1>2, <1>3, <1>4 DEF IInv

\* What a command finds of the tables.
LEMMA TablesAsTheyAre ==
  ASSUME IInv
  PROVE  /\ DOMAIN norm = Batch /\ \A c \in Batch : NormFits(norm[c])
         /\ \A c \in DOMAIN mapping : MappingFits(mapping[c])
         /\ \A k \in DOMAIN seeds : SeedFits(seeds[k])
         /\ refresh \subseteq Batch
  BY DEF IInv, TablesFit, NormFits

LEMMA NormalizeInv ==
  ASSUME IInv, NEW b \in Batch, Normalize(b)
  PROVE  IInv'
  <1>1. DOMAIN norm' = Batch /\ \A c \in Batch : NormFits(norm'[c])
    BY RenewFits DEF Normalize, IInv
  <1> QED
    BY <1>1, TablesAsTheyAre, TableCommand DEF Normalize

LEMMA ReviewCategoryInv ==
  ASSUME IInv, NEW b \in Batch, NEW c, NEW category, ReviewCategory(b, c, category)
  PROVE  IInv'
  BY TablesAsTheyAre, TableCommand DEF ReviewCategory

LEMMA RefreshBatchInv ==
  ASSUME IInv, NEW b \in Batch, RefreshBatch(b)
  PROVE  IInv'
  <1>1. DOMAIN norm' = Batch /\ \A c \in Batch : NormFits(norm'[c])
    BY RenewFits DEF RefreshBatch, IInv
  <1> QED
    BY <1>1, TablesAsTheyAre, TableCommand DEF RefreshBatch

LEMMA LoseRefreshInv ==
  ASSUME IInv, NEW b \in Batch, LoseRefresh(b)
  PROVE  IInv'
  BY TablesAsTheyAre, TableCommand DEF LoseRefresh

\* The placeholder joins the products.
LEMMA UnknownJoins ==
  ASSUME IInv, NEW b \in Batch,
         norm' = [norm EXCEPT ![b] = WithPlaceholder(@)]
  PROVE  /\ DOMAIN norm' = Batch
         /\ \A c \in Batch : NormFits(norm'[c])
  <1>1. PICK n : n = norm[b]
    OBVIOUS
  <1>2. PICK m : m = [parties |-> n.parties, products |-> WithUnknown(n.products),
                      stock |-> n.stock, review |-> n.review]
    OBVIOUS
  <1>3. NormFits(n)
    BY <1>1, TablesAsTheyAre
  <1>4. DOMAIN norm = Batch
    BY TablesAsTheyAre
  <1>5. WithPlaceholder(n) = m
    <2>1. PICK p, q, r, s : n = [parties |-> p, products |-> q, stock |-> r, review |-> s]
      BY <1>3 DEF NormFits
    <2> QED
      BY <1>2, <2>1 DEF WithPlaceholder
  <1>6. norm' = [norm EXCEPT ![b] = m]
    BY <1>1, <1>4, <1>5
  <1>7. NormFits(m)
    <2>1. DOMAIN n.products \subseteq DOMAIN WithUnknown(n.products)
      <3>1. PICK u : u = [k \in {UNKNOWN} |-> "none"]
        OBVIOUS
      <3>2. DOMAIN Over(n.products, u) = DOMAIN n.products \cup DOMAIN u
        BY OverFacts
      <3>3. WithUnknown(n.products) = Over(n.products, u)
        BY <3>1 DEF WithUnknown
      <3> QED
        BY <3>2, <3>3
    <2>2. n.review \subseteq DOMAIN n.products
      BY <1>3 DEF NormFits
    <2> QED
      BY <2>1, <2>2, <1>2 DEF NormFits
  <1> QED
    BY <1>6, <1>7, NormReplaced DEF IInv

\* What a seed writes is a mapping, whatever it has read.
LEMMA SeededFits ==
  ASSUME NEW c, NEW known, NEW old, old # << >> => MappingFits(old[1]), NEW b
  PROVE  MappingFits(Seeded(c, known, old, b))
  <1>1. PICK m : m = old[1]
    OBVIOUS
  <1>2. CASE old # << >> /\ m.approval = "review-import"
    <2>1. [m EXCEPT !.batch = b] = Mapping(m.target, m.resolution, m.approval, b)
      <3>1. PICK t, r, a, c0 : m = [target |-> t, resolution |-> r, approval |-> a, batch |-> c0]
        BY <1>1, <1>2 DEF MappingFits, Mapping
      <3> QED
        BY <3>1 DEF Mapping
    <2>2. Seeded(c, known, old, b) = [m EXCEPT !.batch = b]
      BY <1>1, <1>2 DEF Seeded
    <2> QED
      BY <2>1, <2>2 DEF MappingFits, Mapping
  <1>3. CASE ~(old # << >> /\ m.approval = "review-import")
    <2>1. \E t, r, a : Seeded(c, known, old, b) = Mapping(t, r, a, b)
      BY <1>1, <1>3 DEF Seeded
    <2> QED
      BY <2>1 DEF MappingFits, Mapping
  <1> QED
    BY <1>2, <1>3

\* Mappings written over those that are there.
LEMMA MappingsWritten ==
  ASSUME IInv, NEW new, \A c \in DOMAIN new : MappingFits(new[c]), mapping' = Over(new, mapping)
  PROVE  \A c \in DOMAIN mapping' : MappingFits(mapping'[c])
  <1> SUFFICES ASSUME NEW c \in DOMAIN mapping' PROVE MappingFits(mapping'[c])
    OBVIOUS
  <1>1. /\ DOMAIN Over(new, mapping) = DOMAIN new \cup DOMAIN mapping
        /\ c \in DOMAIN new => Over(new, mapping)[c] = new[c]
        /\ c \in DOMAIN mapping /\ c \notin DOMAIN new => Over(new, mapping)[c] = mapping[c]
    BY DEF Over
  <1> QED
    BY <1>1, TablesAsTheyAre

\* A seed reads what is there, and writes nothing yet.
LEMMA MapProductsInv ==
  ASSUME IInv, NEW b \in Batch, MapProducts(b)
  PROVE  IInv'
  <1>1. PICK s : /\ seeds' = Over([k \in {commands} |-> s], seeds)
                 /\ s = [batch |-> b, placed |-> ~HasUnknown(b), known |-> Known(b),
                         codes |-> SoldCodes(b), read |-> mapping]
    BY DEF MapProducts
  <1>2. SeedFits(s)
    <2>1. SoldCodes(b) # {} /\ UNKNOWN \in Known(b)
      BY DEF MapProducts, Known
    <2> QED
      BY <1>1, <2>1, TablesAsTheyAre DEF SeedFits
  <1>3. ASSUME NEW k \in DOMAIN seeds' PROVE SeedFits(seeds'[k])
    <2>1. seeds'[k] = s \/ (k \in DOMAIN seeds /\ seeds'[k] = seeds[k])
      BY <1>1 DEF Over
    <2> QED
      BY <1>2, <2>1, TablesAsTheyAre
  <1>4. UNCHANGED <<raw, norm, mapping, refresh, attempts, canonical, importers>>
    BY DEF MapProducts
  <1> QED
    BY <1>3, <1>4, TablesAsTheyAre, TableCommand

\* A seed that is over leaves the others what they have read.
LEMMA SeedEnds ==
  ASSUME IInv, NEW k, EndSeed(k)
  PROVE  \A j \in DOMAIN seeds' : SeedFits(seeds'[j])
  <1>1. \A j \in DOMAIN seeds' : j \in DOMAIN seeds /\ seeds'[j] = seeds[j]
    BY DEF EndSeed, Restrict
  <1> QED
    BY <1>1, TablesAsTheyAre

LEMMA WriteMappingsInv ==
  ASSUME IInv, NEW k \in DOMAIN seeds, WriteMappings(k)
  PROVE  IInv'
  <1>1. PICK s : s = seeds[k] /\ SeedFits(s)
    BY TablesAsTheyAre
  <1>2. DOMAIN norm' = Batch /\ \A c \in Batch : NormFits(norm'[c])
    <2>1. s.batch \in Batch
      BY <1>1 DEF SeedFits
    <2>2. CASE norm' = [norm EXCEPT ![s.batch] = WithPlaceholder(@)]
      BY <2>1, <2>2, UnknownJoins
    <2>3. CASE UNCHANGED norm
      BY <2>3, TablesAsTheyAre
    <2> QED
      BY <1>1, <2>2, <2>3 DEF WriteMappings
  <1>3. PICK new : /\ mapping' = Over(new, mapping)
                   /\ \A c \in DOMAIN new : MappingFits(new[c])
    <2> DEFINE rows == [c \in s.codes |-> Seeded(c, s.known, Old(c, s.read), s.batch)]
    <2>1. ASSUME NEW c \in s.codes
          PROVE  MappingFits(Seeded(c, s.known, Old(c, s.read), s.batch))
      <3>1. Old(c, s.read) # << >> => MappingFits(Old(c, s.read)[1])
        BY <1>1 DEF Old, SeedFits
      <3> QED
        BY <3>1, SeededFits
    <2>2. mapping' = Over(rows, mapping)
      BY <1>1 DEF WriteMappings
    <2>3. \A c \in DOMAIN rows : MappingFits(rows[c])
      BY <2>1
    <2> QED
      BY <2>2, <2>3
  <1>4. \A c \in DOMAIN mapping' : MappingFits(mapping'[c])
    BY <1>3, MappingsWritten
  <1>5. \A j \in DOMAIN seeds' : SeedFits(seeds'[j])
    BY SeedEnds DEF WriteMappings
  <1>6. UNCHANGED <<raw, refresh, attempts, canonical, importers>>
    BY DEF WriteMappings
  <1> QED
    BY <1>2, <1>4, <1>5, <1>6, TablesAsTheyAre, TableCommand

LEMMA LoseSeedInv ==
  ASSUME IInv, NEW k \in DOMAIN seeds, LoseSeed(k)
  PROVE  IInv'
  <1>1. \A j \in DOMAIN seeds' : SeedFits(seeds'[j])
    BY SeedEnds DEF LoseSeed
  <1> QED
    BY <1>1, TablesAsTheyAre, TableCommand DEF LoseSeed

LEMMA ReviewMappingInv ==
  ASSUME IInv, NEW b \in Batch, NEW c, NEW target, ReviewMapping(b, c, target)
  PROVE  IInv'
  <1>1. DOMAIN norm' = Batch /\ \A d \in Batch : NormFits(norm'[d])
    BY UnknownJoins DEF ReviewMapping
  <1>2. PICK resolution :
            mapping' = Over([k \in {c} |-> Mapping(target, resolution, "review-import", b)],
                            mapping)
    BY DEF ReviewMapping
  <1>3. MappingFits(Mapping(target, resolution, "review-import", b))
    BY DEF MappingFits, Mapping
  <1>4. \A d \in DOMAIN mapping' : MappingFits(mapping'[d])
    BY <1>2, <1>3, MappingsWritten
  <1>5. UNCHANGED <<raw, seeds, refresh, attempts, canonical, importers>>
    BY DEF ReviewMapping
  <1> QED
    BY <1>1, <1>4, <1>5, TablesAsTheyAre, TableCommand

\* Payments leave rows and holds of their own run, which is on record by then.
LEMMA ImportPaymentsInv ==
  ASSUME IInv, NEW b \in Batch, ImportPayments(b)
  PROVE  IInv'
  <1>1. TablesFit'
    BY DEF IInv, TablesFit, ImportPayments, tables
  <1>2. RunsFit' /\ RunsStand
    BY StagingAdded DEF IInv, ImportPayments, NoMoreFailing
  <1>3. JobsFit'
    BY JobsStay DEF IInv, ImportPayments
  <1>4. PICK id, loaded : id = PaymentRunId(b) /\ loaded = {"tbsspay"} \X {raw["tbsspay"].export}
    OBVIOUS
  <1>5. id \in Records'
    <2>1. /\ Len(stagings[b]) \in Nat
          /\ DOMAIN stagings'[b] = 1 .. Len(stagings[b]) + 1
          /\ stagings'[b][Len(stagings[b]) + 1] = Run("payments", "completed", loaded)
      <3>1. IsSeq(stagings[b]) /\ DOMAIN stagings = Batch
        BY DEF IInv, RunsFit
      <3> QED
        BY <1>4, <3>1, Appended DEF ImportPayments
    <2>2. id = <<b, Len(stagings[b]) + 1, "payments">>
      BY <1>4 DEF PaymentRunId
    <2>3. loaded # {}
      <3>1. PICK e : e = raw["tbsspay"].export
        OBVIOUS
      <3>2. <<"tbsspay", e>> \in loaded
        BY <1>4, <3>1
      <3> QED
        BY <3>2
    <2>4. id \in PaymentRecords'
      BY <2>1, <2>2, <2>3 DEF PaymentRecords, Run
    <2> QED
      BY <2>4 DEF Records
  <1>6. Records \subseteq Records'
    BY <1>2, RecordsStand
  <1> DEFINE done == HoldKeys(b, Verified(b))
             rows == [k \in {<<"payment", n[2]>> : n \in done} |-> "unapplied"]
             lines == [k \in {<<b, <<"payment", n[2]>>>> : n \in done} |-> id]
  <1>7. erp' = Over(rows, erp) /\ lineage' = Over(lines, lineage)
    BY <1>4 DEF ImportPayments
  <1>8. \A k \in DOMAIN lines : lines[k] = id
    OBVIOUS
  <1>9. \A k \in DOMAIN rows : k[1] \in RowKinds /\ <<b, k>> \in DOMAIN lines
    BY DEF RowKinds
  <1> HIDE DEF rows, lines, done
  <1>10. ASSUME NEW k \in DOMAIN lineage' PROVE lineage'[k] \in Records'
    <2>1. /\ DOMAIN Over(lines, lineage) = DOMAIN lines \cup DOMAIN lineage
          /\ k \in DOMAIN lines => Over(lines, lineage)[k] = lines[k]
          /\ k \in DOMAIN lineage /\ k \notin DOMAIN lines => Over(lines, lineage)[k] = lineage[k]
      BY DEF Over
    <2> QED
      BY <2>1, <1>5, <1>6, <1>7, <1>8 DEF IInv, RowsFit
  <1>11. ASSUME NEW k \in DOMAIN held' PROVE held'[k] \in Records'
    <2>1. k \in DOMAIN held \/ k \in HoldKeys(b, Payments(b))
      BY DEF ImportPayments, HeldAfter
    <2>2. held'[k] = IF k \in HoldKeys(b, Payments(b)) THEN id ELSE held[k]
      BY <1>4 DEF ImportPayments, HeldAfter
    <2> QED
      BY <2>1, <2>2, <1>5, <1>6 DEF IInv, RowsFit
  <1>12. ASSUME NEW r \in DOMAIN erp'
         PROVE  r[1] \in RowKinds /\ \E c \in Batch : <<c, r>> \in DOMAIN lineage'
    <2>1. r \in DOMAIN rows \/ r \in DOMAIN erp
      BY <1>7, OverFacts
    <2>2. DOMAIN lineage' = DOMAIN lines \cup DOMAIN lineage
      BY <1>7, OverFacts
    <2> QED
      BY <2>1, <2>2, <1>9 DEF IInv, RowsFit
  <1>13. RowsFit'
    BY <1>10, <1>11, <1>12 DEF RowsFit
  <1> QED
    BY <1>1, <1>2, <1>3, <1>13 DEF IInv

\* A validation writes its findings into the latest run and leaves the run's id,
\* status and steps alone.
LEMMA ValidateKeepsRuns ==
  ASSUME RunsFit, NEW b \in Batch, Validate(b)
  PROVE  \E s : /\ imports' = [imports EXCEPT ![b] = s]
                /\ IsSeq(s) /\ Len(s) = Len(imports[b]) /\ DOMAIN s = DOMAIN imports[b]
                /\ \A n \in DOMAIN imports[b] :
                      /\ ImportRow(b, n, s[n])
                      /\ s[n].id = imports[b][n].id /\ s[n].status = imports[b][n].status
                      /\ s[n].steps = imports[b][n].steps
  <1>1. PICK old : old = imports[b]
    OBVIOUS
  <1>2. PICK m : m = Len(old)
    OBVIOUS
  <1>3. PICK run : run = old[m]
    OBVIOUS
  <1>4. /\ DOMAIN imports = Batch /\ IsSeq(old)
        /\ \A n \in DOMAIN old : ImportRow(b, n, old[n])
    BY <1>1 DEF RunsFit
  <1>5. m \in DOMAIN old
    <2>1. PICK S : old \in Seq(S)
      BY <1>4 DEF IsSeq
    <2>2. old # << >>
      BY <1>1 DEF Validate
    <2> QED
      BY <2>1, <2>2, <1>2
  <1>6. Last(old) = run
    BY <1>2, <1>3 DEF Last
  <1>7. PICK scope, counts, disposition, verdict :
            imports' = [imports EXCEPT ![b] = [@ EXCEPT ![Len(imports[b])] =
                [run EXCEPT !.scope = scope, !.counts = counts,
                            !.disposition = disposition, !.verdict = verdict]]]
    BY <1>1, <1>6, Zenon DEF Validate
  <1>8. PICK new : new = [run EXCEPT !.scope = scope, !.counts = counts,
                            !.disposition = disposition, !.verdict = verdict]
    OBVIOUS
  <1>9. PICK s : s = [old EXCEPT ![m] = new]
    OBVIOUS
  <1>10. imports' = [imports EXCEPT ![b] = s]
    BY <1>1, <1>2, <1>4, <1>7, <1>8, <1>9
  <1>11. /\ IsSeq(s) /\ Len(s) = Len(old) /\ DOMAIN s = DOMAIN old
         /\ \A n \in DOMAIN old : s[n] = IF n = m THEN new ELSE old[n]
    BY <1>4, <1>5, <1>9, Replaced
  <1>12. /\ ImportRow(b, m, new) /\ new.id = run.id /\ new.status = run.status
         /\ new.steps = run.steps
    <2>1. ImportRow(b, m, run)
      BY <1>3, <1>4, <1>5
    <2>2. PICK d, st, sp, a, c, sc, di, v :
              run = [id |-> d, status |-> st, steps |-> sp, after |-> a, counts |-> c,
                     scope |-> sc, disposition |-> di, verdict |-> v]
      BY <2>1 DEF ImportRow
    <2>3. new = [id |-> d, status |-> st, steps |-> sp, after |-> a, counts |-> counts,
                 scope |-> scope, disposition |-> disposition, verdict |-> verdict]
      BY <2>2, <1>8
    <2>4. run.id = d /\ run.status = st /\ run.steps = sp
      BY <2>2
    <2> QED
      BY <2>1, <2>3, <2>4 DEF ImportRow
  <1>13. ASSUME NEW n \in DOMAIN old
         PROVE  /\ ImportRow(b, n, s[n]) /\ s[n].id = old[n].id
                /\ s[n].status = old[n].status /\ s[n].steps = old[n].steps
    BY <1>3, <1>4, <1>11, <1>12
  <1> QED
    BY <1>1, <1>10, <1>11, <1>13

LEMMA ValidateInv ==
  ASSUME IInv, NEW b \in Batch, Validate(b)
  PROVE  IInv' /\ RunsStand /\ StatusesStand
  <1>1. TablesFit'
    BY DEF IInv, TablesFit, Validate, tables
  <1>2. PICK s : /\ imports' = [imports EXCEPT ![b] = s]
                 /\ IsSeq(s) /\ Len(s) = Len(imports[b]) /\ DOMAIN s = DOMAIN imports[b]
                 /\ \A n \in DOMAIN imports[b] :
                       /\ ImportRow(b, n, s[n])
                       /\ s[n].id = imports[b][n].id /\ s[n].status = imports[b][n].status
                       /\ s[n].steps = imports[b][n].steps
    BY ValidateKeepsRuns DEF IInv
  <1>3. DOMAIN imports = Batch
    BY DEF IInv, RunsFit
  <1>4. \A c \in Batch : imports'[c] = IF c = b THEN s ELSE imports[c]
    BY <1>2, <1>3
  <1>5. UNCHANGED <<raw, attempts, importers, erp, lineage, held>>
    BY DEF Validate, tables
  <1>6. DOMAIN imports' = Batch
    BY <1>2, <1>3
  <1>7. RunsFit'
    BY <1>2, <1>4, <1>5, <1>6 DEF IInv, RunsFit, FailureFits, attempts
  <1>8. RunsStand /\ StatusesStand
    BY <1>2, <1>4, <1>5 DEF RunsStand, StatusesStand, attempts
  <1>9. JobsFit'
    BY <1>2, <1>4, <1>5, JobsStay DEF IInv
  <1>10. RowsFit'
    BY <1>5, <1>8, RowsStay DEF IInv
  <1> QED
    BY <1>1, <1>7, <1>8, <1>9, <1>10 DEF IInv
-----------------------------------------------------------------------------
(* The steps of an importer *)

LEMMA LensAreNat ==
  ASSUME RunsFit, NEW b \in Batch
  PROVE  /\ Len(imports[b]) \in Nat /\ DOMAIN imports[b] = 1 .. Len(imports[b])
         /\ Len(stagings[b]) \in Nat /\ DOMAIN stagings[b] = 1 .. Len(stagings[b])
  BY Appended DEF RunsFit

\* One importer moves on; the runs of the others' batches do not change while
\* they are in their transactions.
OthersWait(i) ==
    /\ pc' \in [Importer -> Labels]
    /\ DOMAIN job' = Importer /\ DOMAIN seen' = Importer /\ DOMAIN mine' = Importer
    /\ \A j \in Importer \ {i} :
          /\ pc'[j] = pc[j] /\ job'[j] = job[j] /\ mine'[j] = mine[j]
          /\ InTransaction(j) => Len(imports'[job[j].batch]) = Len(imports[job[j].batch])
    /\ \A c \in Batch : /\ Len(imports[c]) \in Nat /\ Len(imports'[c]) \in Nat
                        /\ Len(imports[c]) <= Len(imports'[c])

LEMMA ImporterMoves ==
  ASSUME JobsFit, NEW i \in Importer, OthersWait(i), Standing(i)'
  PROVE  JobsFit'
  <1>1. \A j \in Importer \ {i} : InTransaction(j)' <=> InTransaction(j)
    BY DEF InTransaction, OthersWait
  <1>2. ASSUME NEW j \in Importer \ {i} PROVE Standing(j)'
    <2>1. pc'[j] = pc[j] /\ job'[j] = job[j] /\ mine'[j] = mine[j]
      BY DEF OthersWait
    <2>2. Standing(j)
      BY DEF JobsFit
    <2>3. pc'[j] # "idle" => HasNumber(j)'
      <3> SUFFICES ASSUME pc'[j] # "idle" PROVE HasNumber(j)'
        OBVIOUS
      <3>1. HasNumber(j)
        BY <2>1, <2>2 DEF Standing
      <3>2. job[j].batch \in Batch
        BY <3>1 DEF HasNumber
      <3>3. job[j].number \in 1 .. Len(imports'[job[j].batch]) + 1
        BY <3>1, <3>2 DEF HasNumber, OthersWait
      <3> QED
        BY <2>1, <3>1, <3>2, <3>3 DEF HasNumber
    <2>4. ASSUME InTransaction(j)' PROVE Alone(j)'
      <3>1. ASSUME NEW k \in Importer \ {j}, InTransaction(k)'
            PROVE  job'[k].batch # job'[j].batch
        <4>1. CASE k = i
          BY <4>1, <3>1, <2>4 DEF Standing, Alone
        <4>2. CASE k # i
          <5>1. InTransaction(j) /\ InTransaction(k) /\ job'[k] = job[k]
            BY <4>2, <3>1, <2>4, <1>1 DEF OthersWait
          <5> QED
            BY <5>1, <2>1, <2>2, <3>1 DEF Standing, Alone
        <4> QED
          BY <4>1, <4>2
      <3> QED
        BY <3>1 DEF Alone
    <2>5. InTransaction(j)' => job'[j].number = Len(imports'[job'[j].batch]) + 1
      BY <1>1, <2>1, <2>2 DEF Standing, OthersWait
    <2> QED
      BY <1>1, <2>1, <2>2, <2>3, <2>4, <2>5 DEF Standing
  <1> QED
    BY <1>2 DEF JobsFit, OthersWait

\* A step of an importer: where it goes, its batch and number, its rows.
Moves(i, label, n, rows) ==
    /\ pc' = [pc EXCEPT ![i] = label]
    /\ job' = [job EXCEPT ![i] = n] \/ (UNCHANGED job /\ n = job[i])
    /\ mine' = [mine EXCEPT ![i] = rows] \/ (UNCHANGED mine /\ rows = mine[i])
    /\ DOMAIN seen' = Importer

\* The others wait when no run is recorded.
LEMMA NoRunRecorded ==
  ASSUME IInv, NEW i \in Importer, NEW label \in Labels, NEW n, NEW rows,
         Moves(i, label, n, rows), UNCHANGED imports
  PROVE  /\ OthersWait(i)
         /\ pc'[i] = label /\ job'[i] = n /\ mine'[i] = rows
  <1> USE DEF Moves
  <1>1. JobsFit /\ \A c \in Batch : Len(imports[c]) \in Nat
    BY LensAreNat DEF IInv
  <1>2. pc' \in [Importer -> Labels] /\ pc'[i] = label
    BY <1>1 DEF JobsFit
  <1>3. DOMAIN job' = Importer /\ DOMAIN seen' = Importer /\ DOMAIN mine' = Importer
    BY <1>1 DEF JobsFit
  <1>4. job'[i] = n /\ mine'[i] = rows
    BY <1>1 DEF JobsFit
  <1>5. \A j \in Importer \ {i} : pc'[j] = pc[j] /\ job'[j] = job[j] /\ mine'[j] = mine[j]
    BY <1>1 DEF JobsFit
  <1> QED
    BY <1>1, <1>2, <1>3, <1>4, <1>5 DEF OthersWait

\* A step that touches neither tables nor canonical rows.
LEMMA ImporterStep ==
  ASSUME IInv, UNCHANGED <<tables, attempts, canonical>>, JobsFit'
  PROVE  IInv'
  <1>1. TablesFit'
    BY DEF IInv, TablesFit, tables
  <1>2. RunsFit' /\ RunsStand
    BY RunsAsTheyAre DEF IInv, canonical
  <1>3. RowsFit'
    BY <1>2, RowsStay DEF IInv, canonical
  <1> QED
    BY <1>1, <1>2, <1>3 DEF IInv

\* An import begins with the next number of its batch, or one that is there.
LEMMA BeginImportInv ==
  ASSUME IInv, NEW i \in Importer, NEW b \in Batch, BeginImport(i, b) \/ RefuseImport(i, b)
  PROVE  IInv'
  <1> DEFINE Begun(label, n) ==
            /\ label \in {"run", "refused"}
            /\ pc' = [pc EXCEPT ![i] = label] /\ job' = [job EXCEPT ![i] = n]
            /\ n = [batch |-> b, number |-> n.number, mapping |-> n.mapping, after |-> n.after]
            /\ n.number \in {1, Len(imports[b]) + 1}
  <1>1. PICK label, n : Begun(label, n)
    <2>1. CASE BeginImport(i, b)
      <3>1. PICK n : n = [batch |-> b, number |-> Len(imports[b]) + 1,
                          mapping |-> mapping, after |-> {}]
        OBVIOUS
      <3>2. n = [batch |-> b, number |-> n.number, mapping |-> n.mapping, after |-> n.after]
            /\ n.number = Len(imports[b]) + 1
        BY <3>1
      <3>3. pc' = [pc EXCEPT ![i] = "run"] /\ job' = [job EXCEPT ![i] = n]
        BY <2>1, <3>1 DEF BeginImport, GoTo
      <3>4. Begun("run", n)
        BY <3>2, <3>3
      <3> HIDE DEF Begun
      <3> QED
        BY <3>4
    <2>2. CASE RefuseImport(i, b)
      <3>1. PICK m \in {1, Len(imports[b]) + 1} :
                job' = [job EXCEPT ![i] = [batch |-> b, number |-> m,
                                           mapping |-> << >>, after |-> {}]]
        BY <2>2 DEF RefuseImport
      <3>2. PICK n : n = [batch |-> b, number |-> m, mapping |-> << >>, after |-> {}]
        OBVIOUS
      <3>3. n = [batch |-> b, number |-> n.number, mapping |-> n.mapping, after |-> n.after]
            /\ n.number = m
        BY <3>2
      <3>4. pc' = [pc EXCEPT ![i] = "refused"] /\ job' = [job EXCEPT ![i] = n]
        BY <2>2, <3>1, <3>2 DEF RefuseImport, GoTo
      <3>5. Begun("refused", n)
        BY <3>3, <3>4
      <3> HIDE DEF Begun
      <3> QED
        BY <3>5
    <2> QED
      BY <2>1, <2>2
  <1>2. /\ UNCHANGED <<tables, attempts, imports, erp, lineage, held, seen, mine>>
        /\ pc[i] = "idle"
    BY DEF BeginImport, RefuseImport, canonical
  <1>3. JobsFit /\ label \in Labels /\ Standing(i)
    BY <1>1 DEF IInv, JobsFit, Labels
  <1>4. OthersWait(i) /\ pc'[i] = label /\ job'[i] = n /\ mine'[i] = mine[i]
    <2>1. Moves(i, label, n, mine[i])
      BY <1>1, <1>2, <1>3 DEF Moves, JobsFit
    <2> QED
      BY <2>1, <1>2, <1>3, NoRunRecorded
  <1>5. mine[i] = << >>
    BY <1>2, <1>3 DEF Standing, InTransaction
  <1>6. Standing(i)'
    <2>1. n.number \in 1 .. Len(imports[b]) + 1
      BY <1>1, LensAreNat DEF IInv
    <2>2. n = [batch |-> n.batch, number |-> n.number, mapping |-> n.mapping, after |-> n.after]
          /\ n.batch = b
      BY <1>1
    <2>3. HasNumber(i)'
      BY <1>2, <1>4, <2>1, <2>2 DEF HasNumber
    <2> QED
      BY <2>3, <1>1, <1>3, <1>4, <1>5 DEF Standing, InTransaction
  <1>7. JobsFit'
    BY <1>3, <1>4, <1>6, ImporterMoves
  <1> QED
    BY <1>2, <1>7, ImporterStep DEF canonical

LEMMA InsertRunInv ==
  ASSUME IInv, NEW i \in Importer, InsertRun(i)
  PROVE  IInv'
  <1>1. PICK done : done = Completed(stagings[job[i].batch])
    OBVIOUS
  <1>2. PICK label : label = IF Taken(i) THEN "failed" ELSE "parties"
    OBVIOUS
  <1>3. PICK n : n = [batch |-> job[i].batch, number |-> job[i].number,
                      mapping |-> job[i].mapping, after |-> done]
    OBVIOUS
  <1>4. JobsFit /\ Standing(i) /\ pc[i] = "run" /\ HasNumber(i)
    BY DEF IInv, JobsFit, Standing, InsertRun
  <1>5. job' = [job EXCEPT ![i] = n]
    <2>1. PICK d, u, m, a : job[i] = [batch |-> d, number |-> u, mapping |-> m, after |-> a]
      BY <1>4 DEF HasNumber
    <2>2. [job[i] EXCEPT !.after = done] = n
      BY <1>3, <2>1
    <2>3. job' = [job EXCEPT ![i] = [job[i] EXCEPT !.after = done]]
      BY <1>1 DEF InsertRun
    <2> QED
      BY <2>2, <2>3
  <1>6. /\ pc' = [pc EXCEPT ![i] = label] /\ label \in Labels
        /\ UNCHANGED <<tables, attempts, imports, erp, lineage, held, seen, mine>>
    BY <1>2 DEF InsertRun, GoTo, canonical, Labels
  <1>7. OthersWait(i) /\ pc'[i] = label /\ job'[i] = n /\ mine'[i] = mine[i]
    <2>1. Moves(i, label, n, mine[i])
      BY <1>4, <1>5, <1>6 DEF Moves, JobsFit
    <2> QED
      BY <2>1, <1>6, NoRunRecorded
  <1>8. mine[i] = << >>
    BY <1>4 DEF Standing, InTransaction
  <1>9. HasNumber(i)'
    BY <1>3, <1>4, <1>6, <1>7 DEF HasNumber
  <1>10. ASSUME InTransaction(i)'
         PROVE  job'[i].number = Len(imports'[job'[i].batch]) + 1 /\ Alone(i)'
    <2>1. ~Taken(i)
      BY <1>2, <1>7, <1>10 DEF InTransaction
    <2>2. job[i].number = Len(imports[job[i].batch]) + 1
      BY <2>1, <1>4, LensAreNat DEF IInv, Taken, HasNumber
    <2>3. ASSUME NEW j \in Importer \ {i}, InTransaction(j)' PROVE job'[j].batch # job'[i].batch
      <3>1. InTransaction(j) /\ job'[j] = job[j] /\ Standing(j)
        BY <1>4, <1>7, <2>3 DEF OthersWait, InTransaction, JobsFit
      <3>2. job[j].number = Len(imports[job[j].batch]) + 1
        BY <3>1 DEF Standing
      <3>3. job[j].batch # job[i].batch
        BY <2>2, <3>1, <3>2 DEF InsertRun, NumberFree
      <3> QED
        BY <3>1, <3>3, <1>3, <1>7
    <2> QED
      BY <2>2, <2>3, <1>3, <1>6, <1>7 DEF Alone
  <1>11. Standing(i)'
    BY <1>4, <1>7, <1>8, <1>9, <1>10 DEF Standing
  <1>12. JobsFit'
    BY <1>4, <1>7, <1>11, ImporterMoves
  <1> QED
    BY <1>6, <1>12, ImporterStep DEF canonical

\* Rows of the tables the import knows.
Kinds(rows) == \A k \in DOMAIN rows : k[1] \in RowKinds \cup {"held"}

LEMMA OverKinds ==
  ASSUME NEW new, NEW old, Kinds(new), Kinds(old)
  PROVE  Kinds(Over(new, old))
  BY DEF Kinds, Over

LEMMA RowsOfKinds ==
  ASSUME NEW i, NEW ps, NEW n, NEW sales, NEW rows, NEW bills, NEW b
  PROVE  /\ Kinds(CustomerRows(ps)) /\ Kinds(SupplierRows(ps))
         /\ Kinds(ProductRows(n)) /\ Kinds(StockRows(n))
         /\ Kinds(LineRows(i, sales)) /\ Kinds(InvoiceRows(i, sales, rows))
         /\ Kinds(BillRows(bills)) /\ Kinds(BillLineRows(bills))
         /\ Kinds(ReceiptRows(i, bills)) /\ Kinds(HeldRows(b))
  <1> USE DEF Kinds, RowKinds
  <1>1. Kinds(CustomerRows(ps))
    BY DEF CustomerRows
  <1>2. Kinds(SupplierRows(ps))
    BY DEF SupplierRows
  <1>3. Kinds(ProductRows(n))
    BY DEF ProductRows
  <1>4. Kinds(StockRows(n))
    BY DEF StockRows
  <1>5. Kinds(LineRows(i, sales))
    <2>1. PICK ks : ks = UNION {{<<"line", s.doc, m>> : m \in DOMAIN s.lines} : s \in Sales(i, sales)}
      OBVIOUS
    <2>2. \A k \in ks : k[1] = "line"
      BY <2>1
    <2>3. DOMAIN LineRows(i, sales) = ks
      BY <2>1 DEF LineRows
    <2> QED
      BY <2>2, <2>3
  <1>6. Kinds(InvoiceRows(i, sales, rows))
    BY DEF InvoiceRows
  <1>7. Kinds(BillRows(bills))
    BY DEF BillRows
  <1>8. Kinds(BillLineRows(bills))
    <2>1. PICK ks : ks = UNION {{<<"billLine", x.doc, m>> : m \in DOMAIN x.lines} : x \in bills}
      OBVIOUS
    <2>2. \A k \in ks : k[1] = "billLine"
      BY <2>1
    <2>3. DOMAIN BillLineRows(bills) = ks
      BY <2>1 DEF BillLineRows
    <2> QED
      BY <2>2, <2>3
  <1>9. Kinds(ReceiptRows(i, bills))
    BY DEF ReceiptRows
  <1>10. Kinds(HeldRows(b))
    BY DEF HeldRows
  <1> QED
    BY <1>1, <1>2, <1>3, <1>4, <1>5, <1>6, <1>7, <1>8, <1>9, <1>10

\* A step of an importer that keeps its batch and number; none but the first
\* enters the transaction.
LEMMA StepOfImport ==
  ASSUME IInv, NEW i \in Importer, pc[i] # "idle",
         NEW label \in Labels \ {"idle"}, NEW rows, Kinds(rows),
         label \in {"parties", "products", "documents", "commit"} => InTransaction(i),
         label \in {"run", "record", "refused"} => rows = << >>,
         Moves(i, label, job[i], rows), UNCHANGED <<tables, attempts, canonical>>
  PROVE  IInv'
  <1>1. JobsFit /\ Standing(i) /\ HasNumber(i)
    BY DEF IInv, JobsFit, Standing
  <1>2. OthersWait(i) /\ pc'[i] = label /\ job'[i] = job[i] /\ mine'[i] = rows /\ UNCHANGED imports
    BY NoRunRecorded DEF canonical
  <1>3. HasNumber(i)'
    BY <1>1, <1>2 DEF HasNumber
  <1>4. ASSUME Alone(i) PROVE Alone(i)'
    <2>1. ASSUME NEW j \in Importer \ {i}, InTransaction(j)'
          PROVE  job'[j].batch # job'[i].batch
      <3>1. InTransaction(j) /\ job'[j] = job[j]
        BY <2>1, <1>2 DEF OthersWait, InTransaction
      <3> QED
        BY <3>1, <1>2, <1>4 DEF Alone
    <2> QED
      BY <2>1 DEF Alone
  <1>5. InTransaction(i)' => InTransaction(i)
    BY <1>2 DEF InTransaction
  <1>6. mine'[i] # << >> => InTransaction(i)' \/ pc'[i] = "failed"
    BY <1>2 DEF InTransaction, Labels
  <1>7. Standing(i)'
    BY <1>1, <1>2, <1>3, <1>4, <1>5, <1>6 DEF Standing, Kinds
  <1>8. JobsFit'
    BY <1>1, <1>2, <1>7, ImporterMoves
  <1> QED
    BY <1>8, ImporterStep

\* What an importer has written so far is of known kinds.
LEMMA MineKinds ==
  ASSUME IInv, NEW i \in Importer
  PROVE  Kinds(mine[i]) /\ DOMAIN seen = Importer /\ DOMAIN mine = Importer
  BY DEF IInv, JobsFit, Standing, Kinds

LEMMA ImportPartiesInv ==
  ASSUME IInv, NEW i \in Importer, ImportParties(i)
  PROVE  IInv'
  <1>1. PICK ps : ps = norm[job[i].batch].parties
    OBVIOUS
  <1>2. PICK rows : rows = Over(Over(CustomerRows(ps), SupplierRows(ps)), mine[i])
    OBVIOUS
  <1>3. Kinds(rows)
    BY <1>2, RowsOfKinds, OverKinds, MineKinds
  <1>4. Moves(i, "products", job[i], rows)
    BY <1>1, <1>2, MineKinds DEF ImportParties, Write, GoTo, Moves
  <1>5. InTransaction(i) /\ pc[i] # "idle" /\ UNCHANGED <<tables, attempts, canonical>> /\ "products" \in Labels
    BY DEF ImportParties, InTransaction, Labels
  <1> QED
    BY <1>3, <1>4, <1>5, StepOfImport

LEMMA ImportProductsInv ==
  ASSUME IInv, NEW i \in Importer, ImportProducts(i)
  PROVE  IInv'
  <1>1. PICK n : n = norm[job[i].batch]
    OBVIOUS
  <1>2. PICK rows : rows = Over(Over(ProductRows(n), StockRows(n)), mine[i])
    OBVIOUS
  <1>3. Kinds(rows) /\ Kinds(mine[i])
    BY <1>2, RowsOfKinds, OverKinds, MineKinds
  <1>4. Moves(i, "documents", job[i], rows) \/ Moves(i, "failed", job[i], mine[i])
    BY <1>1, <1>2, MineKinds DEF ImportProducts, Write, GoTo, Moves
  <1>5. InTransaction(i) /\ pc[i] # "idle" /\ UNCHANGED <<tables, attempts, canonical>>
    BY DEF ImportProducts, InTransaction
  <1> QED
    BY <1>3, <1>4, <1>5, StepOfImport DEF Labels

LEMMA ImportDocumentsInv ==
  ASSUME IInv, NEW i \in Importer, ImportDocuments(i)
  PROVE  IInv'
  <1>1. PICK b, sales, bills, lines :
            /\ b = job[i].batch
            /\ sales = RowsOf("tbsslipx", b, NoContent).sales
            /\ bills = RowsOf("tbsslipj", b, NoContent).bills
            /\ lines = LineRows(i, sales)
    OBVIOUS
  <1>2. PICK new : new = Over(Over(InvoiceRows(i, sales, Over(lines, erp)), lines),
                              Over(Over(BillRows(bills), BillLineRows(bills)),
                                   Over(ReceiptRows(i, bills), HeldRows(b))))
    OBVIOUS
  <1>3. Kinds(new)
    BY <1>1, <1>2, RowsOfKinds, OverKinds
  <1>4. Kinds(Over(new, mine[i])) /\ Kinds(mine[i])
    BY <1>3, OverKinds, MineKinds
  <1>5. Moves(i, "commit", job[i], Over(new, mine[i])) \/ Moves(i, "failed", job[i], mine[i])
    BY <1>1, <1>2, MineKinds DEF ImportDocuments, Write, GoTo, Moves
  <1>6. InTransaction(i) /\ pc[i] # "idle" /\ UNCHANGED <<tables, attempts, canonical>>
    BY DEF ImportDocuments, InTransaction
  <1> QED
    BY <1>4, <1>5, <1>6, StepOfImport DEF Labels

LEMMA FailImportInv ==
  ASSUME IInv, NEW i \in Importer, FailImport(i)
  PROVE  IInv'
  <1>1. Moves(i, "record", job[i], << >>)
    BY MineKinds DEF FailImport, Rollback, Close, GoTo, Moves
  <1>2. pc[i] # "idle" /\ UNCHANGED <<tables, attempts, canonical>>
    BY DEF FailImport, Rollback, InTransaction, canonical
  <1>3. Kinds(<< >>)
    BY ShortSeqs DEF Kinds
  <1> QED
    BY <1>1, <1>2, <1>3, StepOfImport DEF Labels

LEMMA RunNotInsertedInv ==
  ASSUME IInv, NEW i \in Importer, RunNotInserted(i)
  PROVE  IInv'
  <1>1. pc[i] = "run" /\ mine[i] = << >>
    BY DEF IInv, JobsFit, Standing, InTransaction, RunNotInserted
  <1>2. Moves(i, "refused", job[i], << >>)
    BY <1>1, MineKinds DEF RunNotInserted, GoTo, Moves
  <1>3. UNCHANGED <<tables, attempts, canonical>>
    BY DEF RunNotInserted
  <1>4. Kinds(<< >>)
    BY ShortSeqs DEF Kinds
  <1> QED
    BY <1>1, <1>2, <1>3, <1>4, StepOfImport DEF Labels

\* An importer with nothing to do stands well.
LEMMA IdleStands ==
  ASSUME NEW i, pc'[i] = "idle", mine'[i] = << >>
  PROVE  Standing(i)'
  BY ShortSeqs DEF Standing, InTransaction

LEMMA CrashImportInv ==
  ASSUME IInv, NEW i \in Importer, CrashImport(i)
  PROVE  IInv'
  <1>1. Moves(i, "idle", NoJob, << >>)
    BY MineKinds DEF CrashImport, Rollback, Close, Leave, GoTo, Moves
  <1>2. UNCHANGED <<tables, attempts, canonical>>
    BY DEF CrashImport, Rollback, canonical
  <1>3. OthersWait(i) /\ pc'[i] = "idle" /\ mine'[i] = << >>
    BY <1>1, <1>2, NoRunRecorded DEF canonical, Labels
  <1>4. JobsFit'
    BY <1>3, IdleStands, ImporterMoves DEF IInv
  <1> QED
    BY <1>2, <1>4, ImporterStep

\* The runs of one batch grow, the others' stay as many.
RunsLonger(b) ==
    \A c \in Batch : /\ Len(imports[c]) \in Nat /\ Len(imports'[c]) \in Nat
                     /\ Len(imports[c]) <= Len(imports'[c])
                     /\ c # b => Len(imports'[c]) = Len(imports[c])

\* An import's run goes under the number after the last.
LEMMA ImportAdded ==
  ASSUME RunsFit, NEW b \in Batch, NEW run, ImportRow(b, Len(imports[b]) + 1, run),
         imports' = [imports EXCEPT ![b] = Append(@, run)], UNCHANGED attempts
  PROVE  /\ RunsFit' /\ RunsStand /\ StatusesStand /\ RunsLonger(b)
         /\ Len(imports[b]) + 1 \in DOMAIN imports'[b]
         /\ imports'[b][Len(imports[b]) + 1] = run
  <1>1. IsSeq(imports[b]) /\ DOMAIN imports = Batch
    BY DEF RunsFit
  <1>2. PICK s : s = Append(imports[b], run)
    OBVIOUS
  <1>3. \A c \in Batch : imports'[c] = IF c = b THEN s ELSE imports[c]
    BY <1>1, <1>2
  <1>4. /\ IsSeq(s)
        /\ Len(imports[b]) \in Nat /\ DOMAIN imports[b] = 1 .. Len(imports[b])
        /\ Len(s) = Len(imports[b]) + 1
        /\ DOMAIN s = 1 .. Len(imports[b]) + 1
        /\ \A n \in DOMAIN imports[b] : s[n] = imports[b][n]
        /\ s[Len(imports[b]) + 1] = run
    BY <1>1, <1>2, Appended
  <1>5. DOMAIN imports' = Batch
    BY <1>1
  <1>6. \A n \in DOMAIN s : ImportRow(b, n, s[n])
    <2>1. ASSUME NEW n \in DOMAIN s PROVE n \in DOMAIN imports[b] \/ n = Len(imports[b]) + 1
      BY <1>4
    <2> QED
      BY <2>1, <1>4 DEF RunsFit
  <1>7. RunsFit'
    BY <1>3, <1>4, <1>5, <1>6 DEF RunsFit, FailureFits, attempts
  <1>8. RunsStand /\ StatusesStand
    BY <1>3, <1>4 DEF RunsStand, StatusesStand, attempts
  <1>9. \A c \in Batch : Len(imports[c]) \in Nat
    BY LensAreNat
  <1>10. RunsLonger(b)
    BY <1>3, <1>4, <1>9 DEF RunsLonger
  <1> QED
    BY <1>3, <1>4, <1>7, <1>8, <1>10

\* An importer leaves with a run recorded for its batch, in which nobody else is.
LEMMA LeavesRecorded ==
  ASSUME IInv, NEW i \in Importer, NEW b \in Batch,
         Moves(i, "idle", NoJob, << >>),
         \A j \in Importer \ {i} : InTransaction(j) => job[j].batch # b,
         RunsLonger(b)
  PROVE  JobsFit'
  <1>1. JobsFit
    BY DEF IInv
  <1>2. pc' \in [Importer -> Labels] /\ pc'[i] = "idle"
    BY <1>1 DEF JobsFit, Moves, Labels
  <1>3. DOMAIN job' = Importer /\ DOMAIN seen' = Importer /\ DOMAIN mine' = Importer
    BY <1>1 DEF JobsFit, Moves
  <1>4. mine'[i] = << >>
    BY <1>1 DEF JobsFit, Moves
  <1>5. ASSUME NEW j \in Importer \ {i}
        PROVE  /\ pc'[j] = pc[j] /\ job'[j] = job[j] /\ mine'[j] = mine[j]
               /\ InTransaction(j) => Len(imports'[job[j].batch]) = Len(imports[job[j].batch])
    <2>1. pc'[j] = pc[j] /\ job'[j] = job[j] /\ mine'[j] = mine[j]
      BY <1>1 DEF JobsFit, Moves
    <2>2. InTransaction(j) => job[j].batch \in Batch
      BY <1>1 DEF JobsFit, Standing, HasNumber, InTransaction
    <2> QED
      BY <2>1, <2>2 DEF RunsLonger
  <1>6. OthersWait(i)
    BY <1>2, <1>3, <1>5 DEF OthersWait, RunsLonger
  <1> QED
    BY <1>1, <1>2, <1>4, <1>6, IdleStands, ImporterMoves

\* A failure is recorded as a run more.
LEMMA FailureAdded ==
  ASSUME IInv, NEW i \in Importer, pc[i] # "idle", mine[i] = << >>, NumberFree(i),
         ~Taken(i), Moves(i, "idle", NoJob, << >>), NEW steps,
         imports' = [imports EXCEPT ![job[i].batch] = Append(@, FailedRun(i, steps))],
         UNCHANGED <<tables, attempts, erp, lineage, held>>
  PROVE  IInv' /\ RunsStand /\ StatusesStand
  <1>1. JobsFit /\ Standing(i) /\ HasNumber(i)
    BY DEF IInv, JobsFit, Standing
  <1>2. PICK b : b = job[i].batch /\ b \in Batch
    BY <1>1 DEF HasNumber
  <1>3. job[i].number = Len(imports[b]) + 1
    BY <1>1, <1>2, LensAreNat DEF IInv, Taken, HasNumber
  <1>4. PICK run : run = FailedRun(i, steps)
    OBVIOUS
  <1>5. ImportRow(b, Len(imports[b]) + 1, run)
    <2>1. PICK after : after = Completed(stagings[b])
      OBVIOUS
    <2>2. run = [ImportRun(i, "failed", steps) EXCEPT !.after = after]
      BY <1>2, <1>4, <2>1 DEF FailedRun
    <2> QED
      BY <1>2, <1>3, <2>2 DEF ImportRun, RunId, ImportRow
  <1>6. imports' = [imports EXCEPT ![b] = Append(@, run)]
    BY <1>2, <1>4
  <1>7. RunsFit' /\ RunsStand /\ StatusesStand /\ RunsLonger(b)
    <2>1. RunsFit /\ UNCHANGED attempts
      BY DEF IInv
    <2> QED
      BY <1>2, <1>5, <1>6, <2>1, ImportAdded
  <1>8. ASSUME NEW j \in Importer \ {i}, InTransaction(j) PROVE job[j].batch # b
    <2>1. job[j].number = Len(imports[job[j].batch]) + 1
      BY <1>1, <1>8 DEF JobsFit, Standing
    <2> QED
      BY <1>2, <1>3, <1>8, <2>1 DEF NumberFree
  <1>9. JobsFit'
    BY <1>2, <1>7, <1>8, LeavesRecorded
  <1>10. TablesFit'
    BY DEF IInv, TablesFit, tables
  <1>11. RowsFit'
    BY <1>7, RowsStay DEF IInv
  <1> QED
    BY <1>7, <1>9, <1>10, <1>11 DEF IInv

\* An importer that records a failure leaves.
LEMMA RecordingLeaves ==
  ASSUME IInv, NEW i \in Importer, RecordFailure(i) \/ RecordRefusal(i)
  PROVE  /\ pc[i] # "idle" /\ mine[i] = << >> /\ NumberFree(i)
         /\ Moves(i, "idle", NoJob, << >>)
         /\ UNCHANGED <<tables, attempts, erp, lineage, held, seen, mine>>
  <1>1. JobsFit /\ Standing(i) /\ pc[i] \in {"record", "refused"}
    BY DEF IInv, JobsFit, RecordFailure, RecordRefusal
  <1>2. mine[i] = << >>
    BY <1>1 DEF Standing, InTransaction
  <1>3. /\ UNCHANGED <<tables, attempts, erp, lineage, held, seen, mine>>
        /\ NumberFree(i) /\ Leave(i)
    BY DEF RecordFailure, RecordRefusal
  <1> QED
    BY <1>1, <1>2, <1>3 DEF Leave, GoTo, Moves, JobsFit

LEMMA RecordFailureInv ==
  ASSUME IInv, NEW i \in Importer, RecordFailure(i)
  PROVE  IInv' /\ RunsStand /\ StatusesStand
  <1>1. CASE Taken(i)
    <2>1. UNCHANGED imports
      BY <1>1 DEF RecordFailure
    <2>2. OthersWait(i) /\ pc'[i] = "idle" /\ mine'[i] = << >>
      BY <2>1, RecordingLeaves, NoRunRecorded DEF Labels
    <2>3. JobsFit'
      BY <2>2, IdleStands, ImporterMoves DEF IInv
    <2> QED
      BY <2>1, <2>3, RecordingLeaves, ImporterStep, RunsAsTheyAre DEF canonical, IInv
  <1>2. CASE ~Taken(i)
    <2>1. imports' = [imports EXCEPT ![job[i].batch] = Append(@, FailedRun(i, "failed"))]
      BY <1>2 DEF RecordFailure
    <2> QED
      BY <1>2, <2>1, RecordingLeaves, FailureAdded
  <1> QED
    BY <1>1, <1>2

\* A run found under a number is set to failed; its id and its steps stay.
ImportRows(b, old) == IsSeq(old) /\ \A m \in DOMAIN old : ImportRow(b, m, old[m])
SameButFor(n, b, old, s) ==
    /\ IsSeq(s) /\ Len(s) = Len(old) /\ DOMAIN s = DOMAIN old
    /\ \A m \in DOMAIN old : /\ m # n => s[m] = old[m]
                            /\ ImportRow(b, m, s[m])
                            /\ s[m].id = old[m].id /\ s[m].steps = old[m].steps
LEMMA RelabelledFits ==
  ASSUME NEW b, NEW old, NEW n, ImportRows(b, old), n \in DOMAIN old
  PROVE  SameButFor(n, b, old, Relabelled(old, n))
  <1> PICK s : s = Relabelled(old, n)
    OBVIOUS
  <1>1. PICK run : run = old[n]
    OBVIOUS
  <1>2. PICK counts, scope : counts = [rows |-> 0] /\ scope = << >>
    OBVIOUS
  <1>3. PICK new : new = [run EXCEPT !.status = "failed", !.counts = counts, !.scope = scope,
                                     !.disposition = "none", !.verdict = "none"]
    OBVIOUS
  <1>4. s = [old EXCEPT ![n] = new]
    BY <1>1, <1>2, <1>3, Zenon DEF Relabelled
  <1>5. ImportRow(b, n, run)
    BY <1>1 DEF ImportRows
  <1>6. PICK d, st, sp, a, c, sc, di, v :
            run = [id |-> d, status |-> st, steps |-> sp, after |-> a, counts |-> c,
                   scope |-> sc, disposition |-> di, verdict |-> v]
    BY <1>5 DEF ImportRow
  <1>7. new = [id |-> d, status |-> "failed", steps |-> sp, after |-> a,
               counts |-> counts, scope |-> scope, disposition |-> "none", verdict |-> "none"]
    BY <1>3, <1>6
  <1>8. run.id = d /\ run.steps = sp
    BY <1>6
  <1>9. ImportRow(b, n, new) /\ new.id = run.id /\ new.steps = run.steps
    BY <1>5, <1>7, <1>8 DEF ImportRow
  <1>10. IsSeq(old) /\ n \in DOMAIN old
    BY DEF ImportRows
  <1>11. /\ IsSeq(s) /\ Len(s) = Len(old) /\ DOMAIN s = DOMAIN old
         /\ \A m \in DOMAIN old : s[m] = IF m = n THEN new ELSE old[m]
    <2>1. /\ IsSeq([old EXCEPT ![n] = new]) /\ Len([old EXCEPT ![n] = new]) = Len(old)
          /\ DOMAIN [old EXCEPT ![n] = new] = DOMAIN old
          /\ \A m \in DOMAIN old : [old EXCEPT ![n] = new][m] = IF m = n THEN new ELSE old[m]
      BY <1>10, Replaced, Zenon
    <2> QED
      BY <1>4, <2>1, Zenon
  <1>12. ASSUME NEW m \in DOMAIN old
         PROVE  /\ m # n => s[m] = old[m]
                /\ ImportRow(b, m, s[m])
                /\ s[m].id = old[m].id /\ s[m].steps = old[m].steps
    <2>1. CASE m = n
      BY <1>1, <1>9, <1>11, <2>1
    <2>2. CASE m # n
      BY <1>11, <2>2 DEF ImportRows
    <2> QED
      BY <2>1, <2>2
  <1> QED
    BY <1>11, <1>12 DEF SameButFor

\* An import that had reached no step sets whichever run has its number to
\* failed, and no other.
LEMMA RecordRefusalInv ==
  ASSUME IInv, NEW i \in Importer, RecordRefusal(i)
  PROVE  /\ IInv' /\ RunsStand
         /\ \A b \in Batch : \A n \in DOMAIN imports[b] :
               imports'[b][n].status # imports[b][n].status
                   => job[i].batch = b /\ job[i].number = n
  <1>1. HasNumber(i)
    BY RecordingLeaves DEF IInv, JobsFit, Standing
  <1>2. CASE Taken(i)
    <2>1. PICK b, n, old : b = job[i].batch /\ n = job[i].number /\ old = imports[b]
      OBVIOUS
    <2>2. b \in Batch /\ n \in DOMAIN old /\ DOMAIN imports = Batch /\ IsSeq(old)
      BY <1>1, <1>2, <2>1, LensAreNat DEF HasNumber, Taken, IInv, RunsFit
    <2>3. PICK s : s = Relabelled(old, n)
      OBVIOUS
    <2>4. imports' = [imports EXCEPT ![b] = s]
      BY <1>2, <2>1, <2>2, <2>3 DEF RecordRefusal
    <2>5. \A c \in Batch : imports'[c] = IF c = b THEN s ELSE imports[c]
      BY <2>2, <2>4
    <2>6. ImportRows(b, old)
      BY <2>1, <2>2 DEF IInv, RunsFit, ImportRows
    <2>7. SameButFor(n, b, old, s)
      BY <2>2, <2>3, <2>6, RelabelledFits
    <2>8. RunsFit'
      <3>1. DOMAIN imports' = Batch /\ UNCHANGED attempts
        BY <2>2, <2>4, RecordingLeaves
      <3> QED
        BY <2>5, <2>7, <3>1 DEF SameButFor, IInv, RunsFit, FailureFits, attempts
    <2>9. RunsStand
      BY <2>1, <2>5, <2>7, RecordingLeaves DEF SameButFor, RunsStand, attempts
    <2>10. RunsLonger(b) /\ \A c \in Batch : Len(imports'[c]) = Len(imports[c])
      <3>1. \A c \in Batch : Len(imports[c]) \in Nat
        BY LensAreNat DEF IInv
      <3> QED
        BY <2>1, <2>5, <2>7, <3>1 DEF SameButFor, RunsLonger
    <2>11. JobsFit'
      <3>1. OthersWait(i) /\ pc'[i] = "idle" /\ mine'[i] = << >>
        <4>1. \A c \in Batch : Len(imports[c]) \in Nat /\ Len(imports'[c]) = Len(imports[c])
          BY <2>10, LensAreNat DEF IInv
        <4>2. \A j \in Importer : InTransaction(j) => job[j].batch \in Batch
          BY DEF IInv, JobsFit, Standing, HasNumber, InTransaction
        <4>3. Moves(i, "idle", NoJob, << >>)
          BY RecordingLeaves
        <4> QED
          BY <4>1, <4>2, <4>3 DEF IInv, JobsFit, Moves, OthersWait, Labels
      <3> QED
        BY <3>1, IdleStands, ImporterMoves DEF IInv
    <2>12. TablesFit'
      BY RecordingLeaves DEF IInv, TablesFit, tables
    <2>13. RowsFit'
      BY <2>9, RecordingLeaves, RowsStay DEF IInv
    <2>14. ASSUME NEW c \in Batch, NEW m \in DOMAIN imports[c],
                  imports'[c][m].status # imports[c][m].status
           PROVE  job[i].batch = c /\ job[i].number = m
      BY <2>1, <2>5, <2>7, <2>14 DEF SameButFor
    <2> QED
      BY <2>8, <2>9, <2>11, <2>12, <2>13, <2>14 DEF IInv
  <1>3. CASE ~Taken(i)
    <2>1. imports' = [imports EXCEPT ![job[i].batch] = Append(@, FailedRun(i, "none"))]
      <3>1. PICK s : s = Append(imports[job[i].batch], FailedRun(i, "none"))
        OBVIOUS
      <3> QED
        BY <1>3, <3>1 DEF RecordRefusal
    <2> QED
      BY <1>3, <2>1, RecordingLeaves, FailureAdded DEF StatusesStand
  <1> QED
    BY <1>2, <1>3

\* What a transaction has written is committed with its run.
LEMMA CommitImportInv ==
  ASSUME IInv, NEW i \in Importer, CommitImport(i)
  PROVE  IInv' /\ RunsStand /\ StatusesStand
  <1>1. JobsFit /\ Standing(i) /\ HasNumber(i) /\ Alone(i) /\ InTransaction(i)
    BY DEF IInv, JobsFit, Standing, CommitImport, InTransaction
  <1>2. PICK b : b = job[i].batch /\ b \in Batch
    BY <1>1 DEF HasNumber
  <1>3. job[i].number = Len(imports[b]) + 1
    BY <1>1, <1>2 DEF Standing
  <1>4. PICK run : run = ImportRun(i, "completed", "completed")
    OBVIOUS
  <1>5. PICK id : id = RunId(i)
    OBVIOUS
  <1>6. ImportRow(b, Len(imports[b]) + 1, run) /\ run.id = id /\ run.steps = "completed"
    BY <1>2, <1>3, <1>4, <1>5 DEF ImportRun, RunId, ImportRow
  <1>7. UNCHANGED <<tables, attempts>>
    BY DEF CommitImport
  <1>8. imports' = [imports EXCEPT ![b] = Append(@, run)]
    BY <1>2, <1>4 DEF CommitImport
  <1>9. /\ RunsFit' /\ RunsStand /\ StatusesStand /\ RunsLonger(b)
        /\ Len(imports[b]) + 1 \in DOMAIN imports'[b]
        /\ imports'[b][Len(imports[b]) + 1] = run
    <2>1. RunsFit /\ UNCHANGED attempts
      BY <1>7 DEF IInv, tables
    <2> QED
      BY <1>2, <1>6, <1>8, <2>1, ImportAdded
  <1>10. Moves(i, "idle", NoJob, << >>)
    BY <1>1 DEF CommitImport, Close, Leave, GoTo, Moves, JobsFit
  <1>11. JobsFit'
    <2>1. \A j \in Importer \ {i} : InTransaction(j) => job[j].batch # b
      BY <1>1, <1>2 DEF Alone
    <2> QED
      BY <1>2, <1>9, <1>10, <2>1, LeavesRecorded
  <1>12. id \in Records'
    <2>1. id = <<b, Len(imports[b]) + 1, i>>
      BY <1>2, <1>3, <1>5 DEF RunId
    <2>2. Len(imports[b]) + 1 \in Nat
      BY <1>2, <1>9 DEF RunsLonger
    <2>3. id \in ImportRecords'
      BY <1>2, <1>6, <1>9, <2>1, <2>2 DEF ImportRecords
    <2> QED
      BY <2>3 DEF Records
  <1>13. Records \subseteq Records'
    BY <1>9, RecordsStand
  <1> DEFINE holds == {r \in DOMAIN mine[i] : r[1] = "held"}
             rows == Restrict(mine[i], DOMAIN mine[i] \ holds)
             lines == [k \in {<<b, r>> : r \in DOMAIN rows} |-> id]
             keeps == [k \in {<<b, r[3]>> : r \in holds} |-> id]
  <1>14. /\ erp' = Over(rows, erp) /\ lineage' = Over(lines, lineage)
         /\ held' = Over(keeps, held)
    BY <1>2, <1>5 DEF CommitImport
  <1>15. \A k \in DOMAIN rows : k[1] \in RowKinds
    BY <1>1 DEF Standing, Restrict
  <1>16. \A k \in DOMAIN rows : <<b, k>> \in DOMAIN lines
    OBVIOUS
  <1>17. (\A k \in DOMAIN lines : lines[k] = id) /\ (\A k \in DOMAIN keeps : keeps[k] = id)
    OBVIOUS
  <1> HIDE DEF rows, lines, keeps, holds
  <1>18. ASSUME NEW k \in DOMAIN lineage' PROVE lineage'[k] \in Records'
    <2>1. /\ DOMAIN Over(lines, lineage) = DOMAIN lines \cup DOMAIN lineage
          /\ k \in DOMAIN lines => Over(lines, lineage)[k] = lines[k]
          /\ k \in DOMAIN lineage /\ k \notin DOMAIN lines => Over(lines, lineage)[k] = lineage[k]
      BY DEF Over
    <2> QED
      BY <2>1, <1>12, <1>13, <1>14, <1>17 DEF IInv, RowsFit
  <1>19. ASSUME NEW k \in DOMAIN held' PROVE held'[k] \in Records'
    <2>1. /\ DOMAIN Over(keeps, held) = DOMAIN keeps \cup DOMAIN held
          /\ k \in DOMAIN keeps => Over(keeps, held)[k] = keeps[k]
          /\ k \in DOMAIN held /\ k \notin DOMAIN keeps => Over(keeps, held)[k] = held[k]
      BY DEF Over
    <2> QED
      BY <2>1, <1>12, <1>13, <1>14, <1>17 DEF IInv, RowsFit
  <1>20. ASSUME NEW r \in DOMAIN erp'
         PROVE  r[1] \in RowKinds /\ \E c \in Batch : <<c, r>> \in DOMAIN lineage'
    <2>1. r \in DOMAIN rows \/ r \in DOMAIN erp
      BY <1>14 DEF Over
    <2>2. DOMAIN lineage' = DOMAIN lines \cup DOMAIN lineage
      BY <1>14 DEF Over
    <2> QED
      BY <2>1, <2>2, <1>2, <1>15, <1>16 DEF IInv, RowsFit
  <1>21. RowsFit'
    BY <1>18, <1>19, <1>20 DEF RowsFit
  <1>22. TablesFit'
    BY <1>7 DEF IInv, TablesFit, tables
  <1> QED
    BY <1>9, <1>11, <1>21, <1>22 DEF IInv
-----------------------------------------------------------------------------
LEMMA NextInv == IInv /\ [Next]_vars => IInv'
  <1> SUFFICES ASSUME IInv, [Next]_vars PROVE IInv'
    OBVIOUS
  <1>1. CASE UNCHANGED vars
    <2>1. UNCHANGED <<raw, norm, mapping, seeds, overrides, refresh, attempts, imports, erp,
                      lineage, held, pc, job, seen, mine>>
      BY <1>1 DEF vars, tables
    <2>2. TablesFit'
      BY <2>1 DEF IInv, TablesFit
    <2>3. RunsFit' /\ RunsStand
      BY <2>1, RunsAsTheyAre DEF IInv
    <2>4. JobsFit'
      BY <2>1, JobsStay DEF IInv, importers
    <2>5. RowsFit'
      BY <2>1, <2>3, RowsStay DEF IInv
    <2> QED
      BY <2>2, <2>3, <2>4, <2>5 DEF IInv
  <1>2. ASSUME NEW b \in Batch, NEW e \in Export, NEW ts \in Selection, Stage(b, e, ts)
        PROVE  IInv'
    BY <1>2, StageInv
  <1>3. ASSUME NEW b \in Batch,
               StageFails(b) \/ Normalize(b) \/ RefreshBatch(b) \/ LoseRefresh(b)
        PROVE  IInv'
    BY <1>3, StageFailsInv, NormalizeInv, RefreshBatchInv, LoseRefreshInv
  <1>4. ASSUME NEW b \in Batch, MapProducts(b) \/ ImportPayments(b) \/ PaymentsFail(b)
                                \/ PaymentsRefused(b) \/ Validate(b)
        PROVE  IInv'
    BY <1>4, MapProductsInv, ImportPaymentsInv, PaymentsFailInv, ValidateInv
  <1>5. ASSUME NEW b \in Batch, NEW c, NEW category, ReviewCategory(b, c, category)
        PROVE  IInv'
    BY <1>5, ReviewCategoryInv
  <1>6. ASSUME NEW b \in Batch, NEW c, NEW target, ReviewMapping(b, c, target)
        PROVE  IInv'
    BY <1>6, ReviewMappingInv
  <1>7. ASSUME NEW i \in Importer, NEW b \in Batch, BeginImport(i, b) \/ RefuseImport(i, b)
        PROVE  IInv'
    BY <1>7, BeginImportInv
  <1>8. ASSUME NEW i \in Importer,
               InsertRun(i) \/ ImportParties(i) \/ ImportProducts(i) \/ ImportDocuments(i)
        PROVE  IInv'
    BY <1>8, InsertRunInv, ImportPartiesInv, ImportProductsInv, ImportDocumentsInv
  <1>9. ASSUME NEW i \in Importer,
               CommitImport(i) \/ FailImport(i) \/ RecordFailure(i) \/ CrashImport(i)
        PROVE  IInv'
    BY <1>9, CommitImportInv, FailImportInv, RecordFailureInv, CrashImportInv
  <1>10. ASSUME NEW i \in Importer, RunNotInserted(i) \/ RecordRefusal(i)
         PROVE  IInv'
    BY <1>10, RunNotInsertedInv, RecordRefusalInv
  <1>11. ASSUME NEW k \in DOMAIN seeds, WriteMappings(k) \/ LoseSeed(k)
         PROVE  IInv'
    BY <1>11, WriteMappingsInv, LoseSeedInv
  <1>12. ASSUME NEW k \in DOMAIN failing, RecordPaymentsFailure(k) \/ CrashPayments(k)
         PROVE  IInv'
    BY <1>12, RecordPaymentsFailureInv
  <1> QED
    BY <1>1, <1>2, <1>3, <1>4, <1>5, <1>6, <1>7, <1>8, <1>9, <1>10, <1>11, <1>12 DEF Next
-----------------------------------------------------------------------------
(* Theorems *)

\* The inductive invariant holds of every reachable state: every table has rows of
\* its kind, every run its number, every importer in its transaction the next
\* number for itself, and every row a run on record that reached its last step,
\* though its status may be another failure's by now.
THEOREM Invariance == Spec => []IInv
  BY InitInv, NextInv, PTL DEF Spec

\* Types: a row is of a table the import knows, a run's id has its number, only an
\* importer in its transaction has written rows, a payment import that has failed
\* has no number beyond the next, and a seed has codes to write.
THEOREM TypeCorrect == Spec => []TypeOK
  <1>1. ASSUME IInv PROVE TypeOK
    <2>1. \A b \in Batch : \A n \in DOMAIN imports[b] :
             \E i \in Importer : imports[b][n].id = <<b, n, i>>
      BY <1>1 DEF IInv, RunsFit, ImportRow
    <2>2. \A i \in Importer : mine[i] # << >> => InTransaction(i) \/ pc[i] = "failed"
      BY <1>1 DEF IInv, JobsFit, Standing
    <2>3. /\ \A t \in Table : raw[t] = Unstaged \/ raw[t] \in [batch : Batch, export : Export]
          /\ \A b \in Batch : norm[b].review \subseteq DOMAIN norm[b].products
          /\ refresh \subseteq Batch
      BY <1>1 DEF IInv, TablesFit
    <2>4. \A b \in Batch : Len(stagings[b]) <= MaxRuns
      BY <1>1 DEF IInv, RunsFit
    <2>5. \A r \in DOMAIN erp : r[1] \in RowKinds
      BY <1>1 DEF IInv, RowsFit
    <2>6. \A k \in DOMAIN failing : failing[k].number <= Len(stagings[failing[k].batch]) + 1
      <3> SUFFICES ASSUME NEW k \in DOMAIN failing
                   PROVE  failing[k].number <= Len(stagings[failing[k].batch]) + 1
        OBVIOUS
      <3>1. PICK b : b = failing[k].batch /\ b \in Batch /\ failing[k].number \in 1 .. Len(stagings[b]) + 1
        BY <1>1 DEF IInv, RunsFit, FailureFits
      <3>2. Len(stagings[b]) \in Nat
        BY <1>1, <3>1, LensAreNat DEF IInv
      <3> QED
        BY <3>1, <3>2
    <2>7. \A k \in DOMAIN seeds : seeds[k].codes # {} /\ UNKNOWN \in seeds[k].known
      BY <1>1 DEF IInv, TablesFit, SeedFits
    <2> QED
      BY <2>1, <2>2, <2>3, <2>4, <2>5, <2>6, <2>7 DEF TypeOK
  <1> QED
    BY <1>1, Invariance, PTL

\* Whatever fails, is killed or runs at the same time, every canonical row and
\* every row held leads to the run that wrote it, on record under its id with all
\* its steps, or its tables, completed: no failure recorded late, not even one that
\* sets the status of another's run, takes that away.
THEOREM RowsExplained == Spec => []RowsAreExplained
  <1>1. ASSUME IInv PROVE RowsAreExplained
    <2>1. ASSUME NEW id \in Records PROVE Explained(id)
      <3>1. CASE id \in ImportRecords
        <4>1. id[3] \in Importer /\ imports[id[1]][id[2]].id = id
              /\ imports[id[1]][id[2]].steps = "completed"
          BY <3>1 DEF ImportRecords
        <4>2. id[3] # "payments"
          BY <4>1, PipelineAssumption
        <4> QED
          BY <4>1, <4>2 DEF Explained
      <3>2. CASE id \in PaymentRecords
        BY <3>2 DEF PaymentRecords, Explained
      <3> QED
        BY <3>1, <3>2 DEF Records
    <2> QED
      BY <1>1, <2>1 DEF IInv, RowsFit, RowsAreExplained
  <1> QED
    BY <1>1, Invariance, PTL

\* A run on record stays under its number with its id and its steps, and with its
\* status unless an import of its number is refused.
LEMMA ImportsStand ==
  ASSUME IInv, [Next]_vars
  PROVE  \A b \in Batch : \A n \in DOMAIN imports[b] :
            /\ n \in DOMAIN imports'[b] /\ imports'[b][n].id = imports[b][n].id
            /\ imports'[b][n].steps = imports[b][n].steps
            /\ imports'[b][n].status # imports[b][n].status => RefusedAs(b, n)
  <1>1. CASE UNCHANGED imports
    BY <1>1
  <1>2. CASE RunsStand /\ StatusesStand
    BY <1>2 DEF RunsStand, StatusesStand
  <1>3. ASSUME NEW b \in Batch, Validate(b)
        PROVE  RunsStand /\ StatusesStand
    BY <1>3, ValidateInv
  <1>4. ASSUME NEW i \in Importer, CommitImport(i) \/ RecordFailure(i)
        PROVE  RunsStand /\ StatusesStand
    BY <1>4, CommitImportInv, RecordFailureInv
  <1>5. ASSUME NEW i \in Importer, RecordRefusal(i), NEW b \in Batch, NEW n \in DOMAIN imports[b]
        PROVE  /\ n \in DOMAIN imports'[b] /\ imports'[b][n].id = imports[b][n].id
               /\ imports'[b][n].steps = imports[b][n].steps
               /\ imports'[b][n].status # imports[b][n].status => RefusedAs(b, n)
    BY <1>5, RecordRefusalInv DEF RunsStand, RefusedAs
  <1>6. \/ UNCHANGED imports
        \/ \E b \in Batch : Validate(b)
        \/ \E i \in Importer : CommitImport(i) \/ RecordFailure(i) \/ RecordRefusal(i)
    <2>1. CASE UNCHANGED vars
      BY <2>1 DEF vars
    <2>2. ASSUME NEW b \in Batch, NEW e \in Export, NEW ts \in Selection, Stage(b, e, ts)
          PROVE  UNCHANGED imports
      BY <2>2 DEF Stage, canonical
    <2>3. ASSUME NEW b \in Batch, StageFails(b) \/ PaymentsFail(b) \/ PaymentsRefused(b)
                                  \/ ImportPayments(b)
          PROVE  UNCHANGED imports
      BY <2>3 DEF StageFails, PaymentsFail, PaymentsRefused, ImportPayments, canonical
    <2>4. ASSUME NEW b \in Batch, Normalize(b) \/ RefreshBatch(b) \/ LoseRefresh(b)
                                  \/ MapProducts(b)
          PROVE  UNCHANGED imports
      BY <2>4 DEF Normalize, RefreshBatch, LoseRefresh, MapProducts, canonical
    <2>5. ASSUME NEW b \in Batch, NEW c, NEW t, ReviewCategory(b, c, t) \/ ReviewMapping(b, c, t)
          PROVE  UNCHANGED imports
      BY <2>5 DEF ReviewCategory, ReviewMapping, canonical
    <2>6. ASSUME NEW i \in Importer, NEW b \in Batch, BeginImport(i, b) \/ RefuseImport(i, b)
          PROVE  UNCHANGED imports
      BY <2>6 DEF BeginImport, RefuseImport, canonical
    <2>7. ASSUME NEW i \in Importer,
                 \/ InsertRun(i) \/ RunNotInserted(i) \/ ImportParties(i) \/ ImportProducts(i)
                 \/ ImportDocuments(i) \/ FailImport(i) \/ CrashImport(i)
          PROVE  UNCHANGED imports
      BY <2>7 DEF InsertRun, RunNotInserted, ImportParties, ImportProducts, ImportDocuments,
                  FailImport, CrashImport, canonical
    <2>8. ASSUME NEW k, \/ WriteMappings(k) \/ LoseSeed(k)
                        \/ RecordPaymentsFailure(k) \/ CrashPayments(k)
          PROVE  UNCHANGED imports
      BY <2>8 DEF WriteMappings, LoseSeed, RecordPaymentsFailure, CrashPayments, canonical
    <2> QED
      BY <2>1, <2>2, <2>3, <2>4, <2>5, <2>6, <2>7, <2>8 DEF Next
  <1> QED
    BY <1>1, <1>2, <1>3, <1>4, <1>5, <1>6

\* An import that has committed keeps its number, its id and its steps; its status
\* changes only when an import of its number fails that had reached no step.  No
\* other import and no failure at a step, recorded late, takes its row over.
THEOREM CompletedImportsStand == Spec => CompletedImportStands
  <1>1. ASSUME IInv, [Next]_vars
        PROVE  \A b \in Batch : \A n \in Committed(imports[b]) :
                  /\ n \in Committed(imports'[b])
                  /\ imports'[b][n].id = imports[b][n].id
                  /\ imports'[b][n].status # imports[b][n].status => RefusedAs(b, n)
    BY <1>1, ImportsStand DEF Committed
  <1> QED
    BY <1>1, Invariance, PTL DEF Spec, CompletedImportStands

\* Only two steps write mappings, only two write rows of payments.
LEMMA WhoWrites ==
  ASSUME [Next]_vars
  PROVE  /\ \/ UNCHANGED mapping
            \/ \E k \in DOMAIN seeds : WriteMappings(k)
            \/ \E b \in Batch : \E c, t : ReviewMapping(b, c, t)
         /\ \/ UNCHANGED <<lineage, held>>
            \/ \E b \in Batch : ImportPayments(b)
            \/ \E i \in Importer : CommitImport(i)
  <1>1. CASE UNCHANGED vars
    BY <1>1 DEF vars, tables
  <1>2. ASSUME NEW b \in Batch, NEW e \in Export, NEW ts \in Selection, Stage(b, e, ts)
        PROVE  UNCHANGED <<mapping, lineage, held>>
    BY <1>2 DEF Stage, canonical
  <1>3. ASSUME NEW b \in Batch,
               \/ StageFails(b) \/ PaymentsFail(b) \/ PaymentsRefused(b) \/ Validate(b)
        PROVE  UNCHANGED <<mapping, lineage, held>>
    BY <1>3 DEF StageFails, PaymentsFail, PaymentsRefused, Validate, canonical, tables
  <1>4. ASSUME NEW b \in Batch, Normalize(b) \/ RefreshBatch(b) \/ LoseRefresh(b)
        PROVE  UNCHANGED <<mapping, lineage, held>>
    BY <1>4 DEF Normalize, RefreshBatch, LoseRefresh, canonical
  <1>5. ASSUME NEW b \in Batch, NEW c, NEW t, ReviewCategory(b, c, t)
        PROVE  UNCHANGED <<mapping, lineage, held>>
    BY <1>5 DEF ReviewCategory, canonical
  <1>6. ASSUME NEW b \in Batch, NEW c, NEW t, ReviewMapping(b, c, t)
        PROVE  UNCHANGED <<lineage, held>>
    BY <1>6 DEF ReviewMapping, canonical
  <1>7. ASSUME NEW b \in Batch, ImportPayments(b)
        PROVE  UNCHANGED mapping
    BY <1>7 DEF ImportPayments, tables
  <1>8. ASSUME NEW i \in Importer, NEW b \in Batch, BeginImport(i, b) \/ RefuseImport(i, b)
        PROVE  UNCHANGED <<mapping, lineage, held>>
    BY <1>8 DEF BeginImport, RefuseImport, canonical, tables
  <1>9. ASSUME NEW i \in Importer,
               \/ InsertRun(i) \/ RunNotInserted(i)
               \/ ImportParties(i) \/ ImportProducts(i) \/ ImportDocuments(i)
        PROVE  UNCHANGED <<mapping, lineage, held>>
    BY <1>9 DEF InsertRun, RunNotInserted, ImportParties, ImportProducts, ImportDocuments,
                canonical, tables
  <1>10. ASSUME NEW i \in Importer, \/ FailImport(i) \/ CrashImport(i)
                                    \/ RecordFailure(i) \/ RecordRefusal(i)
         PROVE  UNCHANGED <<mapping, lineage, held>>
    BY <1>10 DEF FailImport, CrashImport, RecordFailure, RecordRefusal, Rollback, tables
  <1>11. ASSUME NEW i \in Importer, CommitImport(i)
         PROVE  UNCHANGED mapping
    BY <1>11 DEF CommitImport, tables
  <1>12. ASSUME NEW b \in Batch, MapProducts(b)
         PROVE  UNCHANGED <<mapping, lineage, held>>
    BY <1>12 DEF MapProducts, canonical
  <1>13. ASSUME NEW k \in DOMAIN seeds, WriteMappings(k)
         PROVE  UNCHANGED <<lineage, held>>
    BY <1>13 DEF WriteMappings, canonical
  <1>14. ASSUME NEW k \in DOMAIN seeds, LoseSeed(k)
         PROVE  UNCHANGED <<mapping, lineage, held>>
    BY <1>14 DEF LoseSeed, canonical
  <1>15. ASSUME NEW k \in DOMAIN failing, RecordPaymentsFailure(k) \/ CrashPayments(k)
         PROVE  UNCHANGED <<mapping, lineage, held>>
    BY <1>15 DEF RecordPaymentsFailure, CrashPayments, canonical, tables
  <1> QED
    BY <1>1, <1>2, <1>3, <1>4, <1>5, <1>6, <1>7, <1>8, <1>9, <1>10, <1>11, <1>12, <1>13,
       <1>14, <1>15 DEF Next

\* A seed leaves the target of a code it has read as reviewed.
LEMMA SeedKeepsReviewed ==
  ASSUME IInv, NEW k \in DOMAIN seeds, WriteMappings(k), NEW c \in DOMAIN mapping, HasRead(k, c)
  PROVE  mapping'[c].target = mapping[c].target
  <1>1. PICK s : s = seeds[k] /\ SeedFits(s)
    BY TablesAsTheyAre
  <1>2. PICK m : m = s.read[c]
    OBVIOUS
  <1>3. /\ Old(c, s.read) = <<m>> /\ m.approval = "review-import"
        /\ m.target = mapping[c].target /\ MappingFits(m)
    BY <1>1, <1>2 DEF HasRead, Old, SeedFits
  <1>4. PICK new : /\ mapping' = Over(new, mapping)
                   /\ DOMAIN new = s.codes
                   /\ \A d \in s.codes : new[d] = Seeded(d, s.known, Old(d, s.read), s.batch)
    <2> DEFINE rows == [d \in s.codes |-> Seeded(d, s.known, Old(d, s.read), s.batch)]
    <2>1. mapping' = Over(rows, mapping)
      BY <1>1 DEF WriteMappings
    <2>2. /\ DOMAIN rows = s.codes
          /\ \A d \in s.codes : rows[d] = Seeded(d, s.known, Old(d, s.read), s.batch)
      OBVIOUS
    <2> HIDE DEF rows
    <2> QED
      BY <2>1, <2>2
  <1>5. mapping'[c] = IF c \in s.codes THEN new[c] ELSE mapping[c]
    BY <1>4 DEF Over
  <1>6. ASSUME c \in s.codes PROVE new[c].target = m.target
    <2>1. new[c] = Seeded(c, s.known, <<m>>, s.batch)
      BY <1>3, <1>4, <1>6
    <2>2. <<m>> # << >> /\ <<m>>[1] = m
      OBVIOUS
    <2>3. Seeded(c, s.known, <<m>>, s.batch) = [m EXCEPT !.batch = s.batch]
      BY <1>3, <2>2 DEF Seeded
    <2>4. PICK t, r, a, o : m = [target |-> t, resolution |-> r, approval |-> a, batch |-> o]
      BY <1>3 DEF MappingFits, Mapping
    <2> QED
      BY <2>1, <2>3, <2>4
  <1> QED
    BY <1>3, <1>5, <1>6

\* What an analyst has decided about a code changes only by another decision, or
\* by a seed under way that had not read this one; no seed undoes what it has read,
\* whatever has happened to the products since and for whichever batch.
THEOREM ReviewsAreKept == Spec => ReviewedMappingKept
  <1>1. ASSUME IInv, [Next]_vars, NEW c \in DOMAIN mapping,
               mapping[c].approval = "review-import", mapping'[c].target # mapping[c].target
        PROVE  \/ \E b \in Batch : \E t \in DOMAIN norm'[b].products : ReviewMapping(b, c, t)
               \/ \E k \in DOMAIN seeds : ~HasRead(k, c) /\ WriteMappings(k)
    <2>1. CASE UNCHANGED mapping
      BY <1>1, <2>1
    <2>2. ASSUME NEW k \in DOMAIN seeds, WriteMappings(k)
          PROVE  ~HasRead(k, c)
      BY <1>1, <2>2, SeedKeepsReviewed
    <2>3. ASSUME NEW b \in Batch, NEW d, NEW t, ReviewMapping(b, d, t)
          PROVE  d = c /\ t \in DOMAIN norm'[b].products
      <3>1. PICK decision : mapping' = Over([k \in {d} |-> decision], mapping)
        BY <2>3 DEF ReviewMapping
      <3>2. d = c
        <4> SUFFICES ASSUME d # c PROVE mapping'[c] = mapping[c]
          BY <1>1
        <4> QED
          BY <3>1 DEF Over
      <3>3. DOMAIN norm = Batch
        BY <1>1, TablesAsTheyAre
      <3>4. norm'[b] = WithPlaceholder(norm[b])
        BY <2>3, <3>3 DEF ReviewMapping
      <3>5. norm'[b].products = WithUnknown(norm[b].products)
        <4>1. PICK n : n = norm[b]
          OBVIOUS
        <4>2. PICK p, q, r, s : n = [parties |-> p, products |-> q, stock |-> r, review |-> s]
          BY <1>1, <4>1, TablesAsTheyAre DEF NormFits
        <4>3. WithPlaceholder(n).products = WithUnknown(n.products)
          BY <4>2 DEF WithPlaceholder
        <4> QED
          BY <3>4, <4>1, <4>3
      <3>6. t \in DOMAIN WithUnknown(norm[b].products)
        <4>1. t \in DOMAIN norm[b].products \cup {UNKNOWN}
          BY <2>3 DEF ReviewMapping, Known
        <4> QED
          BY <4>1 DEF WithUnknown, Over
      <3> QED
        BY <3>2, <3>5, <3>6
    <2> QED
      BY <1>1, <2>1, <2>2, <2>3, WhoWrites
  <1>2. IInv /\ [Next]_vars =>
            \A c \in DOMAIN mapping :
               (mapping[c].approval = "review-import" /\ mapping'[c].target # mapping[c].target)
                  => \/ \E b \in Batch : \E t \in DOMAIN norm'[b].products :
                           ReviewMapping(b, c, t)
                     \/ \E k \in DOMAIN seeds : ~HasRead(k, c) /\ WriteMappings(k)
    BY <1>1
  <1> QED
    BY <1>2, Invariance, PTL DEF Spec, ReviewedMappingKept

\* A payment row once held or imported stays held or imported, whichever of the
\* two imports runs again, between or beside the other.
THEOREM PaymentsAreKept == Spec => PaymentRowsAreKept
  <1>1. ASSUME [Next]_vars PROVE Accounted \subseteq Accounted'
    <2>1. CASE UNCHANGED <<lineage, held>>
      BY <2>1 DEF Accounted
    <2>2. ASSUME NEW b \in Batch, ImportPayments(b) PROVE Accounted \subseteq Accounted'
      <3>1. PICK done : done = HoldKeys(b, Verified(b))
        OBVIOUS
      <3>2. PICK lines : /\ lineage' = Over(lines, lineage)
                         /\ DOMAIN lines = {<<b, <<"payment", n[2]>>>> : n \in done}
        <4>1. PICK lines : lines = [k \in {<<b, <<"payment", n[2]>>>> : n \in done} |->
                                       PaymentRunId(b)]
          OBVIOUS
        <4>2. lineage' = Over(lines, lineage)
          BY <2>2, <3>1, <4>1 DEF ImportPayments
        <4> QED
          BY <4>1, <4>2
      <3>3. DOMAIN lineage \subseteq DOMAIN lineage' /\ DOMAIN lines \subseteq DOMAIN lineage'
        BY <3>2 DEF Over
      <3>4. \A k \in DOMAIN held : k \in DOMAIN held' \/ k \in done
        BY <2>2, <3>1 DEF ImportPayments, HeldAfter
      <3>5. ASSUME NEW k \in done PROVE k \in Accounted'
        <4>1. k = <<b, k[2]>>
          BY <3>1, <3>5 DEF HoldKeys
        <4>2. <<b, <<"payment", k[2]>>>> \in DOMAIN lineage'
          BY <3>2, <3>3
        <4> QED
          BY <4>1, <4>2 DEF Accounted
      <3>6. \A k \in DOMAIN held : k \in Accounted'
        BY <3>4, <3>5 DEF Accounted
      <3> QED
        BY <3>3, <3>6 DEF Accounted
    <2>3. ASSUME NEW i \in Importer, CommitImport(i) PROVE Accounted \subseteq Accounted'
      <3>1. PICK lines, keeps : lineage' = Over(lines, lineage) /\ held' = Over(keeps, held)
        BY <2>3 DEF CommitImport
      <3>2. DOMAIN lineage \subseteq DOMAIN lineage' /\ DOMAIN held \subseteq DOMAIN held'
        BY <3>1 DEF Over
      <3> QED
        BY <3>2 DEF Accounted
    <2> QED
      BY <1>1, <2>1, <2>2, <2>3, WhoWrites
  <1> QED
    BY <1>1, PTL DEF Spec, PaymentRowsAreKept
-----------------------------------------------------------------------------
(* Totals *)

\* Documents and their lines, which an import writes in its last step but one.
Documents == {"invoice", "line", "bill", "billLine"}
NoDocuments(rows) == \A k \in DOMAIN rows : k[1] \notin Documents

\* A document goes by its number, its lines are written with it, and it is right
\* by them.
KeysFit(rows) == \A k \in DOMAIN rows : k[1] \in {"invoice", "bill"} => k = <<k[1], k[2]>>
HaveHeads(rows) ==
    \A k \in DOMAIN rows : /\ k[1] = "line" => <<"invoice", k[2]>> \in DOMAIN rows
                           /\ k[1] = "billLine" => <<"bill", k[2]>> \in DOMAIN rows
TotalsFit(rows, all) ==
    \A r \in DOMAIN rows : r[1] = "invoice" => rows[r].total = TotalOf(r[2], all)
BillsFit(rows) == \A r \in DOMAIN rows : r[1] = "bill" => BillBalances(r, rows)

\* What an importer has written by the time it commits, and before that.
Prepared(i) ==
    /\ KeysFit(mine[i])
    /\ pc[i] # "commit" => NoDocuments(mine[i])
    /\ pc[i] = "commit" => /\ HaveHeads(mine[i]) /\ BillsFit(mine[i])
                           /\ TotalsFit(mine[i], Over(mine[i], erp))
Apart == \A i, j \in Importer : i # j => DOMAIN mine[i] \cap DOMAIN mine[j] = {}
DocumentsFit ==
    /\ Apart /\ \A i \in Importer : Prepared(i)
    /\ KeysFit(erp) /\ TotalsFit(erp, erp) /\ BillsFit(erp)

DInv == IInv /\ DocumentsFit

\* The other sums of the models are the same.
LEMMA SumsAgree ==
  ASSUME NEW f
  PROVE  SumFunction(f) = SumOf(f, DOMAIN f) /\ Sum(f) = SumOf(f, DOMAIN f)
  <1>1. SumFunction(f) = SumOf(f, DOMAIN f)
    BY DEF SumFunction, SumFunctionOnSet, FoldFunctionOnSet, SumOf, MapThenSumSet, MapThenFoldSet
  <1>2. Sum(f) = SumOf(f, DOMAIN f)
    BY DEF Sum, FoldSeq, FoldFunction, FoldFunctionOnSet, SumOf, MapThenSumSet, MapThenFoldSet
  <1> QED
    BY <1>1, <1>2

LEMMA HalfUpIsInt ==
  ASSUME NEW n \in Int, NEW d \in Int, d # 0
  PROVE  HalfUp(n, d) \in Int
  BY DEF HalfUp

\* The shares of a bill's lines are integers and add up to its tax, however the
\* shares before the last are rounded.
LEMMA TaxIsAllocated ==
  ASSUME NEW ls \in Seq(Int), ls # << >>, NEW tax \in Int
  PROVE  /\ AllocateTax(ls, tax) \in [1 .. Len(ls) -> Int]
         /\ SumOf(AllocateTax(ls, tax), 1 .. Len(ls)) = tax
  <1>1. PICK n : n = Len(ls) /\ n \in Nat \ {0} /\ DOMAIN ls = 1 .. n
    OBVIOUS
  <1>2. IsFiniteSet(1 .. n) /\ IsFiniteSet(1 .. n - 1)
    BY <1>1, FS_Interval
  <1>3. Sum(ls) \in Int
    <2>1. ls \in [1 .. n -> Int]
      BY <1>1
    <2>2. SumOf(ls, 1 .. n) \in Int
      BY <1>2, <2>1, SumLaws DEF SumsUp
    <2> QED
      BY <1>1, <2>2, SumsAgree
  <1>4. ASSUME NEW i \in 1 .. n - 1 PROVE Share(ls, tax, i) \in Int
    <2>1. ls[i] \in Int
      BY <1>1
    <2>2. tax * ls[i] \in Int
      BY <2>1
    <2> QED
      BY <1>3, <2>2, HalfUpIsInt DEF Share
  <1>5. PICK before : before = [i \in 1 .. n - 1 |-> Share(ls, tax, i)]
    OBVIOUS
  <1>6. before \in [1 .. n - 1 -> Int]
    BY <1>4, <1>5
  <1>7. PICK w : w = [i \in 1 .. n |-> IF i = n THEN tax - Sum(before) ELSE before[i]]
    OBVIOUS
  <1>8. AllocateTax(ls, tax) = w
    BY <1>1, <1>5, <1>7 DEF AllocateTax
  <1>9. Sum(before) = SumOf(before, 1 .. n - 1)
    BY <1>6, SumsAgree
  <1>10. Sum(before) \in Int
    <2>1. SumsUp(before, 1 .. n - 1)
      BY <1>2, <1>6, SumLaws
    <2>2. 1 .. n - 1 \in SUBSET (1 .. n - 1)
      OBVIOUS
    <2> QED
      BY <1>9, <2>1, <2>2 DEF SumsUp
  <1>11. w \in [1 .. n -> Int]
    BY <1>1, <1>6, <1>7, <1>10
  <1>12. SumOf(w, 1 .. n - 1) = SumOf(before, 1 .. n - 1)
    <2>1. PICK P, Q : P = 1 .. n - 1 /\ Q = 1 .. n
      OBVIOUS
    <2>2. /\ IsFiniteSet(P) /\ before \in [P -> Int] /\ IsFiniteSet(Q) /\ w \in [Q -> Int]
          /\ P \subseteq Q
      BY <1>1, <1>2, <1>6, <1>11, <2>1
    <2>3. \A i \in P : w[i] = before[i]
      BY <1>1, <1>7, <2>1
    <2>4. SumOf(before, P) = SumOf(w, P)
      BY <2>2, <2>3, SamePart
    <2> QED
      BY <2>1, <2>4
  <1>13. SumOf(w, 1 .. n) = w[n] + SumOf(w, 1 .. n - 1)
    <2>1. (1 .. n) \ {n} = 1 .. n - 1
      BY <1>1
    <2>2. SumsUp(w, 1 .. n)
      BY <1>2, <1>11, SumLaws
    <2>3. n \in 1 .. n /\ 1 .. n \in SUBSET (1 .. n)
      BY <1>1
    <2>4. SumOf(w, 1 .. n) = w[n] + SumOf(w, (1 .. n) \ {n})
      BY <2>2, <2>3 DEF SumsUp
    <2> QED
      BY <2>1, <2>4
  <1>14. w[n] = tax - Sum(before)
    BY <1>1, <1>7
  <1> QED
    BY <1>1, <1>8, <1>9, <1>10, <1>11, <1>12, <1>13, <1>14

\* The bills of an export and their lines balance, once written as they are.
LEMMA BillsBalance ==
  ASSUME NEW bills, \A x \in bills : x.lines \in Seq(Int) /\ x.tax \in Int,
         NEW rows, DOMAIN BillLineRows(bills) \subseteq DOMAIN rows,
         \A k \in DOMAIN BillRows(bills) : rows[k] = BillRows(bills)[k],
         \A k \in DOMAIN BillLineRows(bills) : rows[k] = BillLineRows(bills)[k],
         NEW r \in DOMAIN BillRows(bills)
  PROVE  BillBalances(r, rows)
  <1>1. PICK d : d = r[2]
    OBVIOUS
  <1>2. PICK x : x = CHOOSE y \in bills : y.doc = d
    OBVIOUS
  <1>3. x \in bills /\ x.doc = d
    BY <1>1, <1>2 DEF BillRows
  <1>4. rows[r].lines = Len(x.lines) /\ rows[r].tax = x.tax
    <2>1. PICK total, status :
              BillRows(bills)[r] = [supplier |-> x.supplier, lines |-> Len(x.lines),
                                    tax |-> x.tax, status |-> status, total |-> total]
      BY <1>1, <1>2 DEF BillRows
    <2> QED
      BY <2>1
  <1>5. PICK m, w : m = Len(x.lines) /\ w = AllocateTax(x.lines, x.tax)
    OBVIOUS
  <1>6. m \in Nat /\ DOMAIN x.lines = 1 .. m /\ IsFiniteSet(1 .. m)
    <2>1. x.lines \in Seq(Int)
      BY <1>3
    <2>2. m \in Nat /\ DOMAIN x.lines = 1 .. m
      BY <1>5, <2>1
    <2>3. 1 \in Int /\ m \in Int
      BY <2>2
    <2>4. IsFiniteSet(1 .. m)
      BY <2>3, FS_Interval, Zenon
    <2> QED
      BY <2>2, <2>4
  <1>7. PICK g : g = [n \in 1 .. m |-> <<"billLine", d, n>>]
    OBVIOUS
  <1>8. PICK own : own = ImageOf(g, 1 .. m) /\ own = OwnLines(r, rows)
    BY <1>1, <1>4, <1>5, <1>7 DEF ImageOf, OwnLines
  <1>9. ASSUME NEW n \in 1 .. m
        PROVE  g[n] \in DOMAIN BillLineRows(bills) /\ BillLineRows(bills)[g[n]] = w[n]
    <2>1. PICK k : k = <<"billLine", d, n>> /\ k = g[n] /\ k[2] = d /\ k[3] = n
      BY <1>7
    <2>2. k \in DOMAIN BillLineRows(bills)
      BY <1>3, <1>6, <2>1 DEF BillLineRows
    <2>3. BillLineRows(bills)[k] = AllocateTax(x.lines, x.tax)[n]
      BY <1>2, <2>1, <2>2 DEF BillLineRows
    <2> QED
      BY <1>5, <2>1, <2>2, <2>3
  <1>10. own \subseteq DOMAIN rows
    BY <1>8, <1>9 DEF ImageOf
  <1>11. ASSUME own # {}
         PROVE  SumFunction([k \in own |-> rows[k]]) = x.tax
    <2>1. x.lines \in Seq(Int) /\ x.tax \in Int /\ x.lines # << >>
      BY <1>3, <1>5, <1>6, <1>8, <1>11 DEF ImageOf
    <2>2. w \in [1 .. m -> Int] /\ SumOf(w, 1 .. m) = x.tax
      BY <1>5, <2>1, TaxIsAllocated
    <2>3. PICK f : f = [k \in own |-> rows[k]]
      OBVIOUS
    <2>4. /\ \A n \in 1 .. m : w[n] = f[g[n]]
          /\ f \in [own -> Int] /\ g \in [1 .. m -> own]
          /\ \A n, o \in 1 .. m : g[n] = g[o] => n = o
      <3>1. \A n \in 1 .. m : g[n] \in own /\ f[g[n]] = w[n]
        BY <1>8, <1>9, <2>3 DEF ImageOf
      <3>2. f \in [own -> Int]
        <4>1. \A k \in own : \E n \in 1 .. m : k = g[n]
          BY <1>8 DEF ImageOf
        <4>2. \A k \in own : f[k] \in Int
          BY <2>2, <3>1, <4>1
        <4> QED
          BY <2>3, <4>2
      <3> QED
        BY <1>7, <3>1, <3>2
    <2>5. IsFiniteSet(own)
      <3>1. g \in Surjection(1 .. m, own)
        BY <1>8, <2>4 DEF ImageOf, Surjection
      <3> QED
        BY <1>6, <3>1, FS_Surjection
    <2>6. SumOf(w, 1 .. m) = SumOf(f, own)
      <3>1. PICK P : P = 1 .. m
        OBVIOUS
      <3>2. /\ IsFiniteSet(P) /\ w \in [P -> Int] /\ IsFiniteSet(own) /\ f \in [own -> Int]
            /\ g \in [P -> own] /\ \A n, o \in P : g[n] = g[o] => n = o
            /\ \A n \in P : w[n] = f[g[n]]
        BY <1>6, <2>2, <2>4, <2>5, <3>1
      <3>3. SumOf(w, P) = SumOf(f, ImageOf(g, P))
        BY <3>2, Renamed
      <3> QED
        BY <1>8, <3>1, <3>3
    <2>7. SumFunction(f) = SumOf(f, own)
      BY <2>3, SumsAgree
    <2> QED
      BY <2>2, <2>3, <2>6, <2>7
  <1> QED
    BY <1>4, <1>8, <1>10, <1>11 DEF BillBalances

\* The total of a document depends on its lines alone.
IsLine(k, d, rows) == k \in DOMAIN rows /\ k[1] = "line" /\ k[2] = d
LEMMA SameLines ==
  ASSUME NEW d, NEW rows, NEW more,
         \A k : IsLine(k, d, rows) <=> IsLine(k, d, more),
         \A k : IsLine(k, d, rows) => rows[k] = more[k]
  PROVE  TotalOf(d, rows) = TotalOf(d, more)
  <1>1. PICK ks : ks = {k \in DOMAIN rows : k[1] = "line" /\ k[2] = d}
    OBVIOUS
  <1>2. ks = {k \in DOMAIN more : k[1] = "line" /\ k[2] = d}
    BY <1>1 DEF IsLine
  <1>3. PICK f : f = [k \in ks |-> rows[k].amount]
    OBVIOUS
  <1>4. f = [k \in ks |-> more[k].amount]
    BY <1>1, <1>3 DEF IsLine
  <1>5. TotalOf(d, rows) = SumFunction(f)
    BY <1>1, <1>3 DEF TotalOf
  <1>6. TotalOf(d, more) = SumFunction(f)
    BY <1>2, <1>4 DEF TotalOf
  <1> QED
    BY <1>5, <1>6

\* A bill balances by its own lines alone.
LEMMA SameOwnLines ==
  ASSUME NEW r, NEW rows, NEW more, more[r] = rows[r], BillBalances(r, rows),
         \A k \in OwnLines(r, rows) : k \in DOMAIN more /\ more[k] = rows[k]
  PROVE  BillBalances(r, more)
  <1>1. PICK own : own = OwnLines(r, rows)
    OBVIOUS
  <1>2. own = OwnLines(r, more)
    BY <1>1 DEF OwnLines
  <1>3. PICK f : f = [k \in own |-> rows[k]]
    OBVIOUS
  <1>4. f = [k \in own |-> more[k]]
    BY <1>1, <1>3
  <1>5. own # {} => SumFunction(f) = rows[r].tax
    BY <1>1, <1>3 DEF BillBalances
  <1> QED
    BY <1>1, <1>2, <1>4, <1>5 DEF BillBalances

\* Documents written with all their lines leave the canonical rows right.
RowsRight(rows) == KeysFit(rows) /\ TotalsFit(rows, rows) /\ BillsFit(rows)

LEMMA WrittenRight ==
  ASSUME NEW old, RowsRight(old), NEW rows, KeysFit(rows), HaveHeads(rows), BillsFit(rows),
         NEW all, all = Over(rows, old), TotalsFit(rows, all)
  PROVE  RowsRight(all)
  <1>1. /\ DOMAIN all = DOMAIN rows \cup DOMAIN old
        /\ \A k \in DOMAIN rows : all[k] = rows[k]
        /\ \A k \in DOMAIN old : k \notin DOMAIN rows => all[k] = old[k]
    BY DEF Over
  <1>2. KeysFit(all)
    BY <1>1 DEF KeysFit, RowsRight
  <1>3. ASSUME NEW r \in DOMAIN all, r[1] = "invoice" PROVE all[r].total = TotalOf(r[2], all)
    <2>1. CASE r \in DOMAIN rows
      BY <1>1, <1>3, <2>1 DEF TotalsFit
    <2>2. CASE r \notin DOMAIN rows
      <3>1. all[r] = old[r] /\ old[r].total = TotalOf(r[2], old)
        BY <1>1, <1>3, <2>2 DEF TotalsFit, RowsRight
      <3>2. r = <<"invoice", r[2]>>
        BY <1>2, <1>3 DEF KeysFit
      <3>3. \A k : ~IsLine(k, r[2], rows)
        BY <2>2, <3>2 DEF IsLine, HaveHeads
      <3>4. \A k : IsLine(k, r[2], old) <=> IsLine(k, r[2], all)
        BY <1>1, <3>3 DEF IsLine
      <3>5. \A k : IsLine(k, r[2], old) => old[k] = all[k]
        BY <1>1, <3>3 DEF IsLine
      <3>6. TotalOf(r[2], old) = TotalOf(r[2], all)
        BY <3>4, <3>5, SameLines
      <3> QED
        BY <3>1, <3>6
    <2> QED
      BY <2>1, <2>2
  <1>4. ASSUME NEW r \in DOMAIN all, r[1] = "bill" PROVE BillBalances(r, all)
    <2>1. CASE r \in DOMAIN rows
      <3>1. BillBalances(r, rows) /\ all[r] = rows[r]
        BY <1>1, <1>4, <2>1 DEF BillsFit
      <3>2. OwnLines(r, rows) \subseteq DOMAIN rows
        BY <3>1 DEF BillBalances
      <3> QED
        BY <1>1, <3>1, <3>2, SameOwnLines
    <2>2. CASE r \notin DOMAIN rows
      <3>1. BillBalances(r, old) /\ all[r] = old[r]
        BY <1>1, <1>4, <2>2 DEF BillsFit, RowsRight
      <3>2. OwnLines(r, old) \subseteq DOMAIN old
        BY <3>1 DEF BillBalances
      <3>3. r = <<"bill", r[2]>>
        BY <1>2, <1>4 DEF KeysFit
      <3>4. ASSUME NEW k \in OwnLines(r, old) PROVE k \notin DOMAIN rows
        <4>1. k[1] = "billLine" /\ k[2] = r[2]
          BY DEF OwnLines
        <4> QED
          BY <2>2, <3>3, <4>1 DEF HaveHeads
      <3> QED
        BY <1>1, <3>1, <3>2, <3>4, SameOwnLines
    <2> QED
      BY <2>1, <2>2
  <1> QED
    BY <1>2, <1>3, <1>4 DEF RowsRight, TotalsFit, BillsFit

\* What another has prepared stays right when no line of its invoices is written.
LEMMA PreparedStays ==
  ASSUME NEW mj, NEW old, KeysFit(mj), TotalsFit(mj, Over(mj, old)),
         NEW rows,
         \A k \in DOMAIN rows : k[1] = "line" => <<"invoice", k[2]>> \notin DOMAIN mj
  PROVE  TotalsFit(mj, Over(mj, Over(rows, old)))
  <1>1. PICK a, b : a = Over(mj, old) /\ b = Over(mj, Over(rows, old))
    OBVIOUS
  <1>2. /\ DOMAIN b = DOMAIN mj \cup DOMAIN rows \cup DOMAIN old
        /\ DOMAIN a = DOMAIN mj \cup DOMAIN old
        /\ \A k \in DOMAIN a : k \notin DOMAIN rows => a[k] = b[k]
    BY <1>1 DEF Over
  <1>3. ASSUME NEW r \in DOMAIN mj, r[1] = "invoice" PROVE mj[r].total = TotalOf(r[2], b)
    <2>1. mj[r].total = TotalOf(r[2], a)
      BY <1>1, <1>3 DEF TotalsFit
    <2>2. r = <<"invoice", r[2]>>
      BY <1>3 DEF KeysFit
    <2>3. \A k : ~IsLine(k, r[2], rows)
      BY <2>2 DEF IsLine
    <2>4. \A k : IsLine(k, r[2], a) <=> IsLine(k, r[2], b)
      BY <1>2, <2>3 DEF IsLine
    <2>5. \A k : IsLine(k, r[2], a) => a[k] = b[k]
      BY <1>2, <2>3 DEF IsLine
    <2>6. TotalOf(r[2], a) = TotalOf(r[2], b)
      BY <2>4, <2>5, SameLines
    <2> QED
      BY <2>1, <2>6
  <1> QED
    BY <1>1, <1>3 DEF TotalsFit

\* A step that neither writes rows nor begins or ends a commit.
LEMMA DocumentsStay ==
  ASSUME DocumentsFit, UNCHANGED erp, \A i \in Importer : mine'[i] = mine[i],
         \A i \in Importer : pc'[i] = "commit" <=> pc[i] = "commit"
  PROVE  DocumentsFit'
  <1>1. Apart'
    BY DEF DocumentsFit, Apart
  <1>2. ASSUME NEW i \in Importer PROVE Prepared(i)'
    <2>1. Prepared(i)
      BY DEF DocumentsFit
    <2> QED
      BY <2>1 DEF Prepared
  <1> QED
    BY <1>1, <1>2 DEF DocumentsFit

\* Rows that are no documents have nothing to be right about.
LEMMA NoDocumentsFit ==
  ASSUME NEW rows, NoDocuments(rows), NEW all
  PROVE  KeysFit(rows) /\ HaveHeads(rows) /\ BillsFit(rows) /\ TotalsFit(rows, all)
  BY DEF NoDocuments, Documents, KeysFit, HaveHeads, BillsFit, TotalsFit

\* One importer, which does not end up about to commit, closes or writes rows
\* that are no documents.
LEMMA OneMoves ==
  ASSUME DocumentsFit, UNCHANGED erp, NEW i \in Importer, pc'[i] # "commit",
         \A j \in Importer \ {i} : mine'[j] = mine[j] /\ pc'[j] = pc[j],
         NoDocuments(mine'[i]),
         \A j \in Importer \ {i} : DOMAIN mine'[i] \cap DOMAIN mine[j] = {}
  PROVE  DocumentsFit'
  <1>1. Apart'
    BY DEF DocumentsFit, Apart
  <1>2. ASSUME NEW j \in Importer PROVE Prepared(j)'
    <2>1. CASE j = i
      BY <2>1, NoDocumentsFit DEF Prepared
    <2>2. CASE j # i
      <3>1. Prepared(j)
        BY DEF DocumentsFit
      <3> QED
        BY <2>2, <3>1 DEF Prepared
    <2> QED
      BY <2>1, <2>2
  <1> QED
    BY <1>1, <1>2 DEF DocumentsFit

\* The keys an importer writes are nobody else's.
LEMMA WritesApart ==
  ASSUME JobsFit, Apart, NEW i \in Importer, NEW rows, Write(i, rows)
  PROVE  /\ mine'[i] = Over(rows, mine[i])
         /\ \A j \in Importer \ {i} : /\ mine'[j] = mine[j]
                                      /\ DOMAIN mine'[i] \cap DOMAIN mine[j] = {}
  <1>1. mine'[i] = Over(rows, mine[i])
    BY DEF Write, JobsFit
  <1>2. DOMAIN mine'[i] = DOMAIN rows \cup DOMAIN mine[i]
    BY <1>1 DEF Over
  <1>3. ASSUME NEW j \in Importer \ {i}
        PROVE  mine'[j] = mine[j] /\ DOMAIN mine'[i] \cap DOMAIN mine[j] = {}
    BY <1>2 DEF Write, JobsFit, Free, Apart
  <1> QED
    BY <1>1, <1>3

LEMMA PartiesDocuments ==
  ASSUME IInv, DocumentsFit, NEW i \in Importer, ImportParties(i)
  PROVE  DocumentsFit'
  <1>1. PICK ps : ps = norm[job[i].batch].parties
    OBVIOUS
  <1>2. PICK rows : rows = Over(CustomerRows(ps), SupplierRows(ps))
    OBVIOUS
  <1>3. NoDocuments(rows)
    BY <1>2 DEF NoDocuments, Documents, Over, CustomerRows, SupplierRows
  <1>4. Write(i, rows) /\ pc' = [pc EXCEPT ![i] = "products"] /\ pc[i] = "parties" /\ UNCHANGED erp
    BY <1>1, <1>2 DEF ImportParties, GoTo, canonical
  <1>5. /\ mine'[i] = Over(rows, mine[i])
        /\ \A j \in Importer \ {i} : /\ mine'[j] = mine[j]
                                     /\ DOMAIN mine'[i] \cap DOMAIN mine[j] = {}
    BY <1>4, WritesApart DEF IInv, DocumentsFit
  <1>6. pc'[i] = "products" /\ \A j \in Importer \ {i} : pc'[j] = pc[j]
    BY <1>4 DEF IInv, JobsFit
  <1>7. NoDocuments(mine'[i])
    BY <1>3, <1>4, <1>5 DEF NoDocuments, Over, DocumentsFit, Prepared
  <1> QED
    BY <1>4, <1>5, <1>6, <1>7, OneMoves

LEMMA ProductsDocuments ==
  ASSUME IInv, DocumentsFit, NEW i \in Importer, ImportProducts(i)
  PROVE  DocumentsFit'
  <1>1. PICK n : n = norm[job[i].batch]
    OBVIOUS
  <1>2. PICK rows : rows = Over(ProductRows(n), StockRows(n))
    OBVIOUS
  <1>3. NoDocuments(rows)
    BY <1>2 DEF NoDocuments, Documents, Over, ProductRows, StockRows
  <1>4. pc[i] = "products" /\ UNCHANGED erp
    BY DEF ImportProducts, canonical
  <1>5. CASE Write(i, rows) /\ pc' = [pc EXCEPT ![i] = "documents"]
    <2>1. /\ mine'[i] = Over(rows, mine[i])
          /\ \A j \in Importer \ {i} : /\ mine'[j] = mine[j]
                                       /\ DOMAIN mine'[i] \cap DOMAIN mine[j] = {}
      BY <1>5, WritesApart DEF IInv, DocumentsFit
    <2>2. pc'[i] = "documents" /\ \A j \in Importer \ {i} : pc'[j] = pc[j]
      BY <1>5 DEF IInv, JobsFit
    <2>3. NoDocuments(mine'[i])
      BY <1>3, <1>4, <2>1 DEF NoDocuments, Over, DocumentsFit, Prepared
    <2> QED
      BY <1>4, <2>1, <2>2, <2>3, OneMoves
  <1>6. CASE UNCHANGED mine /\ pc' = [pc EXCEPT ![i] = "failed"]
    BY <1>4, <1>6, DocumentsStay DEF IInv, JobsFit
  <1> QED
    BY <1>1, <1>2, <1>5, <1>6 DEF ImportProducts, GoTo

\* An importer that gives up, however it does.
LEMMA ClosedDocuments ==
  ASSUME IInv, DocumentsFit, NEW i \in Importer, FailImport(i) \/ CrashImport(i)
  PROVE  DocumentsFit'
  <1>1. PICK label : pc' = [pc EXCEPT ![i] = label] /\ label # "commit"
    BY DEF FailImport, CrashImport, Leave, GoTo
  <1>2. UNCHANGED erp /\ mine' = [mine EXCEPT ![i] = << >>]
    BY DEF FailImport, CrashImport, Rollback, Close
  <1>3. pc'[i] # "commit" /\ mine'[i] = << >>
    BY <1>1, <1>2 DEF IInv, JobsFit
  <1>4. \A j \in Importer \ {i} : mine'[j] = mine[j] /\ pc'[j] = pc[j]
    BY <1>1, <1>2 DEF IInv, JobsFit
  <1>5. DOMAIN mine'[i] = {}
    BY <1>3, ShortSeqs
  <1>6. NoDocuments(mine'[i])
    BY <1>5 DEF NoDocuments
  <1> QED
    BY <1>2, <1>3, <1>4, <1>5, <1>6, OneMoves

\* The others' documents when one has committed, or payments have been written.
LEMMA OthersPrepared ==
  ASSUME DocumentsFit, NEW j \in Importer, mine'[j] = mine[j], pc'[j] = pc[j],
         NEW rows, erp' = Over(rows, erp),
         \A k \in DOMAIN rows : k[1] = "line" => <<"invoice", k[2]>> \notin DOMAIN mine[j]
  PROVE  Prepared(j)'
  <1>1. Prepared(j)
    BY DEF DocumentsFit
  <1>2. ASSUME pc[j] = "commit" PROVE TotalsFit(mine[j], Over(mine[j], Over(rows, erp)))
    BY <1>1, <1>2, PreparedStays DEF Prepared
  <1> QED
    BY <1>1, <1>2 DEF Prepared

LEMMA CommitDocuments ==
  ASSUME IInv, DocumentsFit, NEW i \in Importer, CommitImport(i)
  PROVE  DocumentsFit'
  <1>1. PICK my : my = mine[i]
    OBVIOUS
  <1>2. PICK rows : rows = Restrict(my, DOMAIN my \ {r \in DOMAIN my : r[1] = "held"})
    OBVIOUS
  <1>3. erp' = Over(rows, erp)
    BY <1>1, <1>2 DEF CommitImport
  <1>4. /\ DOMAIN rows \subseteq DOMAIN my
        /\ \A k \in DOMAIN my : k[1] # "held" => k \in DOMAIN rows
        /\ \A k \in DOMAIN rows : rows[k] = my[k]
    BY <1>2 DEF Restrict
  <1>5. KeysFit(my) /\ HaveHeads(my) /\ BillsFit(my) /\ TotalsFit(my, Over(my, erp))
    BY <1>1 DEF CommitImport, DocumentsFit, Prepared
  <1>6. KeysFit(rows)
    BY <1>4, <1>5 DEF KeysFit
  <1>7. HaveHeads(rows)
    <2>1. ASSUME NEW k \in DOMAIN rows, k[1] = "line" PROVE <<"invoice", k[2]>> \in DOMAIN rows
      BY <1>4, <1>5, <2>1 DEF HaveHeads
    <2>2. ASSUME NEW k \in DOMAIN rows, k[1] = "billLine" PROVE <<"bill", k[2]>> \in DOMAIN rows
      BY <1>4, <1>5, <2>2 DEF HaveHeads
    <2> QED
      BY <2>1, <2>2 DEF HaveHeads
  <1>8. BillsFit(rows)
    <2>1. ASSUME NEW r \in DOMAIN rows, r[1] = "bill" PROVE BillBalances(r, rows)
      <3>1. BillBalances(r, my) /\ rows[r] = my[r]
        BY <1>4, <1>5, <2>1 DEF BillsFit
      <3>2. OwnLines(r, my) \subseteq DOMAIN my /\ \A k \in OwnLines(r, my) : k[1] = "billLine"
        BY <3>1 DEF BillBalances, OwnLines
      <3> QED
        BY <1>4, <3>1, <3>2, SameOwnLines
    <2> QED
      BY <2>1 DEF BillsFit
  <1>9. TotalsFit(rows, Over(rows, erp))
    <2>1. PICK a, b : a = Over(my, erp) /\ b = Over(rows, erp)
      OBVIOUS
    <2>2. ASSUME NEW k, k[1] = "line"
          PROVE  (k \in DOMAIN a <=> k \in DOMAIN b) /\ (k \in DOMAIN a => a[k] = b[k])
      BY <1>4, <2>1, <2>2 DEF Over
    <2>3. ASSUME NEW r \in DOMAIN rows, r[1] = "invoice" PROVE rows[r].total = TotalOf(r[2], b)
      <3>1. rows[r] = my[r] /\ my[r].total = TotalOf(r[2], a)
        BY <1>4, <1>5, <2>1, <2>3 DEF TotalsFit
      <3>2. \A k : IsLine(k, r[2], a) <=> IsLine(k, r[2], b)
        BY <2>2 DEF IsLine
      <3>3. \A k : IsLine(k, r[2], a) => a[k] = b[k]
        BY <2>2 DEF IsLine
      <3>4. TotalOf(r[2], a) = TotalOf(r[2], b)
        BY <3>2, <3>3, SameLines
      <3> QED
        BY <3>1, <3>4
    <2> QED
      BY <2>1, <2>3 DEF TotalsFit
  <1>10. RowsRight(erp')
    <2>1. RowsRight(erp)
      BY DEF DocumentsFit, RowsRight
    <2> QED
      BY <1>3, <1>6, <1>7, <1>8, <1>9, <2>1, WrittenRight
  <1>11. /\ pc'[i] = "idle" /\ mine'[i] = << >>
         /\ \A j \in Importer \ {i} : mine'[j] = mine[j] /\ pc'[j] = pc[j]
    BY DEF CommitImport, Close, Leave, GoTo, IInv, JobsFit
  <1>12. DOMAIN mine'[i] = {}
    BY <1>11, ShortSeqs
  <1>13. Apart'
    BY <1>11, <1>12 DEF DocumentsFit, Apart
  <1>14. ASSUME NEW j \in Importer PROVE Prepared(j)'
    <2>1. CASE j = i
      <3>1. NoDocuments(mine'[i])
        BY <1>12 DEF NoDocuments
      <3> QED
        BY <2>1, <1>11, <3>1, NoDocumentsFit DEF Prepared
    <2>2. CASE j # i
      <3>1. DOMAIN rows \cap DOMAIN mine[j] = {}
        BY <1>1, <1>4, <2>2 DEF DocumentsFit, Apart
      <3>2. \A k \in DOMAIN rows :
               k[1] = "line" => <<"invoice", k[2]>> \notin DOMAIN mine[j]
        BY <1>7, <3>1 DEF HaveHeads
      <3> QED
        BY <1>3, <1>11, <2>2, <3>2, OthersPrepared
    <2> QED
      BY <2>1, <2>2
  <1> QED
    BY <1>10, <1>13, <1>14 DEF DocumentsFit, RowsRight

LEMMA PaymentsDocuments ==
  ASSUME IInv, DocumentsFit, NEW b \in Batch, ImportPayments(b)
  PROVE  DocumentsFit'
  <1>1. PICK rows : rows = [k \in {<<"payment", n[2]>> : n \in HoldKeys(b, Verified(b))} |->
                               "unapplied"]
    OBVIOUS
  <1>2. erp' = Over(rows, erp) /\ UNCHANGED <<mine, pc>>
    BY <1>1 DEF ImportPayments, importers
  <1>3. \A k \in DOMAIN rows : k[1] = "payment"
    BY <1>1
  <1>4. NoDocuments(rows)
    BY <1>3 DEF NoDocuments, Documents
  <1>5. RowsRight(erp')
    BY <1>2, <1>4, NoDocumentsFit, WrittenRight DEF DocumentsFit, RowsRight
  <1>6. ASSUME NEW j \in Importer PROVE Prepared(j)'
    BY <1>2, <1>3, OthersPrepared
  <1>7. Apart'
    BY <1>2 DEF DocumentsFit, Apart
  <1> QED
    BY <1>5, <1>6, <1>7 DEF DocumentsFit, RowsRight

\* The bills of an export are numbers.
LEMMA BillsAreNumbers ==
  ASSUME TablesFit, NEW b \in Batch
  PROVE  \A x \in RowsOf("tbsslipj", b, NoContent).bills :
            x.lines \in Seq(Int) /\ x.tax \in Int
  <1>1. "tbsslipj" \in Table
    BY DEF Table
  <1>2. CASE Staged("tbsslipj", b)
    <2>1. raw["tbsslipj"].export \in Export
      <3>1. raw["tbsslipj"] # Unstaged
        BY <1>2, PipelineAssumption DEF Staged, Unstaged
      <3> QED
        BY <1>1, <3>1 DEF TablesFit
    <2> QED
      BY <1>2, <2>1, PipelineAssumption DEF RowsOf
  <1>3. CASE ~Staged("tbsslipj", b)
    BY <1>3 DEF RowsOf, NoContent
  <1> QED
    BY <1>2, <1>3

\* The rows of documents, apart from one another by their tables.
LEMMA DocumentRows ==
  ASSUME NEW i, NEW sales, NEW rows, NEW bills, NEW b
  PROVE  /\ \A k \in DOMAIN InvoiceRows(i, sales, rows) : k = <<"invoice", k[2]>>
         /\ \A k \in DOMAIN LineRows(i, sales) :
               k[1] = "line" /\ <<"invoice", k[2]>> \in DOMAIN InvoiceRows(i, sales, rows)
         /\ \A k \in DOMAIN BillRows(bills) : k = <<"bill", k[2]>>
         /\ \A k \in DOMAIN BillLineRows(bills) :
               k[1] = "billLine" /\ <<"bill", k[2]>> \in DOMAIN BillRows(bills)
         /\ \A k \in DOMAIN ReceiptRows(i, bills) : k[1] = "receipt"
         /\ \A k \in DOMAIN HeldRows(b) : k[1] = "held"
  <1>1. \A k \in DOMAIN InvoiceRows(i, sales, rows) : k = <<"invoice", k[2]>>
    BY DEF InvoiceRows
  <1>2. ASSUME NEW k \in DOMAIN LineRows(i, sales)
        PROVE  k[1] = "line" /\ <<"invoice", k[2]>> \in DOMAIN InvoiceRows(i, sales, rows)
    <2>1. PICK s \in Sales(i, sales) : \E n : k = <<"line", s.doc, n>>
      BY DEF LineRows
    <2>2. <<"invoice", s.doc>> \in DOMAIN InvoiceRows(i, sales, rows)
      BY <2>1 DEF InvoiceRows
    <2> QED
      BY <2>1, <2>2
  <1>3. \A k \in DOMAIN BillRows(bills) : k = <<"bill", k[2]>>
    BY DEF BillRows
  <1>4. ASSUME NEW k \in DOMAIN BillLineRows(bills)
        PROVE  k[1] = "billLine" /\ <<"bill", k[2]>> \in DOMAIN BillRows(bills)
    <2>1. PICK x \in bills : \E n : k = <<"billLine", x.doc, n>>
      BY DEF BillLineRows
    <2>2. <<"bill", x.doc>> \in DOMAIN BillRows(bills)
      BY <2>1 DEF BillRows
    <2> QED
      BY <2>1, <2>2
  <1>5. \A k \in DOMAIN ReceiptRows(i, bills) : k[1] = "receipt"
    BY DEF ReceiptRows
  <1>6. \A k \in DOMAIN HeldRows(b) : k[1] = "held"
    BY DEF HeldRows
  <1> QED
    BY <1>1, <1>2, <1>3, <1>4, <1>5, <1>6

\* What an importer has written of documents, right by the rows committed.
LEMMA DocumentsWritten ==
  ASSUME NEW i, NEW sales, NEW bills, NEW b, NEW old, NoDocuments(old),
         \A x \in bills : x.lines \in Seq(Int) /\ x.tax \in Int,
         NEW lines, lines = LineRows(i, sales), NEW rows, NEW all,
         all = Over(Over(Over(InvoiceRows(i, sales, Over(lines, rows)), lines),
                         Over(Over(BillRows(bills), BillLineRows(bills)),
                              Over(ReceiptRows(i, bills), HeldRows(b)))), old)
  PROVE  KeysFit(all) /\ HaveHeads(all) /\ BillsFit(all) /\ TotalsFit(all, Over(all, rows))
  <1>1. PICK inv, bl, bll, rec, held0 :
            /\ inv = InvoiceRows(i, sales, Over(lines, rows)) /\ bl = BillRows(bills)
            /\ bll = BillLineRows(bills) /\ rec = ReceiptRows(i, bills) /\ held0 = HeldRows(b)
    OBVIOUS
  <1>2. PICK head, foot, rest, tail, new :
            /\ head = Over(inv, lines) /\ foot = Over(bl, bll) /\ rest = Over(rec, held0)
            /\ tail = Over(foot, rest) /\ new = Over(head, tail)
    OBVIOUS
  <1>3. all = Over(new, old)
    BY <1>1, <1>2
  <1>4. /\ \A k \in DOMAIN inv : k = <<"invoice", k[2]>>
        /\ \A k \in DOMAIN lines : k[1] = "line" /\ <<"invoice", k[2]>> \in DOMAIN inv
        /\ \A k \in DOMAIN bl : k = <<"bill", k[2]>>
        /\ \A k \in DOMAIN bll : k[1] = "billLine" /\ <<"bill", k[2]>> \in DOMAIN bl
        /\ \A k \in DOMAIN rec : k[1] = "receipt"
        /\ \A k \in DOMAIN held0 : k[1] = "held"
    BY <1>1, DocumentRows
  <1>5. /\ \A k \in DOMAIN inv : k[1] = "invoice"
        /\ \A k \in DOMAIN bl : k[1] = "bill"
        /\ \A k \in DOMAIN old : k[1] \notin {"invoice", "line", "bill", "billLine"}
    BY <1>4 DEF NoDocuments, Documents
  <1>6. ASSUME NEW k \in DOMAIN all
        PROVE  /\ k[1] = "invoice" => k \in DOMAIN inv
               /\ k[1] = "line" => k \in DOMAIN lines
               /\ k[1] = "bill" => k \in DOMAIN bl
               /\ k[1] = "billLine" => k \in DOMAIN bll
    <2>1. k \in DOMAIN new \/ k \in DOMAIN old
      BY <1>3 DEF Over
    <2>2. k \in DOMAIN new => k \in DOMAIN head \/ k \in DOMAIN foot \/ k \in DOMAIN rest
      BY <1>2 DEF Over
    <2>3. /\ k \in DOMAIN head => k \in DOMAIN inv \/ k \in DOMAIN lines
          /\ k \in DOMAIN foot => k \in DOMAIN bl \/ k \in DOMAIN bll
          /\ k \in DOMAIN rest => k \in DOMAIN rec \/ k \in DOMAIN held0
      BY <1>2 DEF Over
    <2>4. /\ k \in DOMAIN lines => k[1] = "line"
          /\ k \in DOMAIN bll => k[1] = "billLine"
          /\ k \in DOMAIN rec => k[1] = "receipt"
          /\ k \in DOMAIN held0 => k[1] = "held"
      BY <1>4
    <2> QED
      BY <2>1, <2>2, <2>3, <2>4, <1>5
  <1>7. /\ \A k \in DOMAIN inv : k \in DOMAIN all /\ all[k] = inv[k]
        /\ \A k \in DOMAIN lines : k \in DOMAIN all /\ all[k] = lines[k]
        /\ \A k \in DOMAIN bl : k \in DOMAIN all /\ all[k] = bl[k]
        /\ \A k \in DOMAIN bll : k \in DOMAIN all /\ all[k] = bll[k]
    <2>1. \A k \in DOMAIN new : k \in DOMAIN all /\ all[k] = new[k]
      BY <1>3 DEF Over
    <2>2. /\ \A k \in DOMAIN head : k \in DOMAIN new /\ new[k] = head[k]
          /\ \A k \in DOMAIN foot : k \notin DOMAIN head => k \in DOMAIN new /\ new[k] = foot[k]
      BY <1>2 DEF Over
    <2>3. /\ \A k \in DOMAIN inv : k \in DOMAIN head /\ head[k] = inv[k]
          /\ \A k \in DOMAIN lines : k \notin DOMAIN inv => k \in DOMAIN head /\ head[k] = lines[k]
          /\ \A k \in DOMAIN bl : k \in DOMAIN foot /\ foot[k] = bl[k]
          /\ \A k \in DOMAIN bll : k \notin DOMAIN bl => k \in DOMAIN foot /\ foot[k] = bll[k]
      BY <1>2 DEF Over
    <2>4. DOMAIN head = DOMAIN inv \cup DOMAIN lines
      BY <1>2 DEF Over
    <2>5. /\ \A k \in DOMAIN lines : k[1] = "line"
          /\ \A k \in DOMAIN bll : k[1] = "billLine"
      BY <1>4
    <2> QED
      BY <2>1, <2>2, <2>3, <2>4, <2>5, <1>5
  <1>8. KeysFit(all)
    BY <1>4, <1>6 DEF KeysFit
  <1>9. HaveHeads(all)
    BY <1>4, <1>6, <1>7 DEF HaveHeads
  <1>10. BillsFit(all)
    <2>1. ASSUME NEW r \in DOMAIN all, r[1] = "bill" PROVE BillBalances(r, all)
      <3>1. r \in DOMAIN BillRows(bills)
        BY <1>1, <1>6, <2>1
      <3>2. /\ DOMAIN BillLineRows(bills) \subseteq DOMAIN all
            /\ \A k \in DOMAIN BillRows(bills) : all[k] = BillRows(bills)[k]
            /\ \A k \in DOMAIN BillLineRows(bills) : all[k] = BillLineRows(bills)[k]
        BY <1>1, <1>7
      <3> QED
        BY <3>1, <3>2, BillsBalance, SMTT(30)
    <2> QED
      BY <2>1 DEF BillsFit
  <1>11. TotalsFit(all, Over(all, rows))
    <2>1. PICK x, y : x = Over(lines, rows) /\ y = Over(all, rows)
      OBVIOUS
    <2>2. ASSUME NEW k, k[1] = "line"
          PROVE  (k \in DOMAIN x <=> k \in DOMAIN y) /\ (k \in DOMAIN x => x[k] = y[k])
      <3>1. k \in DOMAIN all <=> k \in DOMAIN lines
        BY <1>6, <1>7, <2>2
      <3>2. k \in DOMAIN lines => all[k] = lines[k]
        BY <1>7
      <3> QED
        BY <2>1, <3>1, <3>2 DEF Over
    <2>3. ASSUME NEW r \in DOMAIN all, r[1] = "invoice" PROVE all[r].total = TotalOf(r[2], y)
      <3>1. r \in DOMAIN inv /\ all[r] = inv[r]
        BY <1>6, <1>7, <2>3
      <3>2. inv[r].total = TotalOf(r[2], x)
        <4>1. PICK s : s = CHOOSE z \in sales : z.doc = r[2]
          OBVIOUS
        <4>2. s.doc = r[2]
          BY <1>1, <3>1, <4>1 DEF InvoiceRows, Sales
        <4>3. PICK customer, status, order :
                  inv[r] = [customer |-> customer, status |-> status, order |-> order,
                            total |-> TotalOf(s.doc, x)]
          BY <1>1, <2>1, <3>1, <4>1 DEF InvoiceRows
        <4> QED
          BY <4>2, <4>3
      <3>3. \A k : IsLine(k, r[2], x) <=> IsLine(k, r[2], y)
        BY <2>2 DEF IsLine
      <3>4. \A k : IsLine(k, r[2], x) => x[k] = y[k]
        BY <2>2 DEF IsLine
      <3>5. TotalOf(r[2], x) = TotalOf(r[2], y)
        BY <3>3, <3>4, SameLines
      <3> QED
        BY <3>1, <3>2, <3>5
    <2> QED
      BY <2>1, <2>3 DEF TotalsFit
  <1> QED
    BY <1>8, <1>9, <1>10, <1>11

LEMMA DocumentsDocuments ==
  ASSUME IInv, DocumentsFit, NEW i \in Importer, ImportDocuments(i)
  PROVE  DocumentsFit'
  <1>1. PICK b, sales, bills, lines :
            /\ b = job[i].batch
            /\ sales = RowsOf("tbsslipx", b, NoContent).sales
            /\ bills = RowsOf("tbsslipj", b, NoContent).bills
            /\ lines = LineRows(i, sales)
    OBVIOUS
  <1>2. PICK new : new = Over(Over(InvoiceRows(i, sales, Over(lines, erp)), lines),
                              Over(Over(BillRows(bills), BillLineRows(bills)),
                                   Over(ReceiptRows(i, bills), HeldRows(b))))
    OBVIOUS
  <1>3. pc[i] = "documents" /\ UNCHANGED erp
    BY DEF ImportDocuments, canonical
  <1>4. CASE Write(i, new) /\ pc' = [pc EXCEPT ![i] = "commit"]
    <2>1. /\ mine'[i] = Over(new, mine[i])
          /\ \A j \in Importer \ {i} : /\ mine'[j] = mine[j]
                                       /\ DOMAIN mine'[i] \cap DOMAIN mine[j] = {}
      BY <1>4, WritesApart DEF IInv, DocumentsFit
    <2>2. pc'[i] = "commit" /\ \A j \in Importer \ {i} : pc'[j] = pc[j]
      BY <1>4 DEF IInv, JobsFit
    <2>3. Apart'
      BY <2>1 DEF DocumentsFit, Apart
    <2>4. Prepared(i)'
      <3>1. NoDocuments(mine[i])
        BY <1>3 DEF DocumentsFit, Prepared
      <3>2. \A x \in bills : x.lines \in Seq(Int) /\ x.tax \in Int
        <4>1. b \in Batch
          BY <1>1, <1>3 DEF IInv, JobsFit, Standing, HasNumber
        <4> QED
          BY <1>1, <4>1, BillsAreNumbers DEF IInv
      <3>3. PICK all, old : all = Over(new, old) /\ old = mine[i]
        OBVIOUS
      <3>4. KeysFit(all) /\ HaveHeads(all) /\ BillsFit(all) /\ TotalsFit(all, Over(all, erp))
        BY <1>1, <1>2, <3>1, <3>2, <3>3, DocumentsWritten
      <3> QED
        BY <1>3, <2>1, <2>2, <3>3, <3>4 DEF Prepared
    <2>5. ASSUME NEW j \in Importer \ {i} PROVE Prepared(j)'
      <3>1. Prepared(j)
        BY DEF DocumentsFit
      <3> QED
        BY <1>3, <2>1, <2>2, <3>1 DEF Prepared
    <2> QED
      BY <1>3, <2>3, <2>4, <2>5 DEF DocumentsFit
  <1>5. CASE UNCHANGED mine /\ pc' = [pc EXCEPT ![i] = "failed"]
    BY <1>3, <1>5, DocumentsStay DEF IInv, JobsFit
  <1> QED
    BY <1>1, <1>2, <1>4, <1>5 DEF ImportDocuments, GoTo

\* A command other than the import of payments writes no canonical row.
LEMMA CommandsDocuments ==
  ASSUME DocumentsFit, UNCHANGED <<erp, importers>>
  PROVE  DocumentsFit'
  BY DocumentsStay DEF importers

\* Nor does a step of an import outside its transaction, or the first in it.
Starts(i) ==
    \/ \E b \in Batch : BeginImport(i, b) \/ RefuseImport(i, b)
    \/ InsertRun(i) \/ RunNotInserted(i) \/ RecordFailure(i) \/ RecordRefusal(i)
LEMMA StartDocuments ==
  ASSUME IInv, DocumentsFit, NEW i \in Importer, Starts(i)
  PROVE  DocumentsFit'
  <1>1. PICK label : pc' = [pc EXCEPT ![i] = label] /\ label # "commit" /\ pc[i] # "commit"
    BY DEF Starts, BeginImport, RefuseImport, InsertRun, RunNotInserted, RecordFailure,
           RecordRefusal, Leave, GoTo
  <1>2. UNCHANGED <<erp, mine>>
    BY DEF Starts, BeginImport, RefuseImport, InsertRun, RunNotInserted, RecordFailure,
           RecordRefusal, canonical
  <1>3. \A j \in Importer : pc'[j] = "commit" <=> pc[j] = "commit"
    BY <1>1 DEF IInv, JobsFit
  <1> QED
    BY <1>2, <1>3, DocumentsStay

LEMMA NextDocuments == IInv /\ DocumentsFit /\ [Next]_vars => DocumentsFit'
  <1> SUFFICES ASSUME IInv, DocumentsFit, [Next]_vars PROVE DocumentsFit'
    OBVIOUS
  <1>1. CASE UNCHANGED <<erp, importers>>
    BY <1>1, CommandsDocuments
  <1>2. ASSUME NEW b \in Batch, ImportPayments(b)
        PROVE  DocumentsFit'
    BY <1>2, PaymentsDocuments
  <1>3. ASSUME NEW i \in Importer, Starts(i)
        PROVE  DocumentsFit'
    BY <1>3, StartDocuments
  <1>4. ASSUME NEW i \in Importer, \/ ImportParties(i) \/ ImportProducts(i) \/ ImportDocuments(i)
                                   \/ CommitImport(i) \/ FailImport(i) \/ CrashImport(i)
        PROVE  DocumentsFit'
    BY <1>4, PartiesDocuments, ProductsDocuments, DocumentsDocuments, CommitDocuments,
       ClosedDocuments
  <1>5. \/ UNCHANGED <<erp, importers>>
        \/ \E b \in Batch : ImportPayments(b)
        \/ \E i \in Importer :
              \/ Starts(i)
              \/ ImportParties(i) \/ ImportProducts(i) \/ ImportDocuments(i)
              \/ CommitImport(i) \/ FailImport(i) \/ CrashImport(i)
    <2>1. CASE UNCHANGED vars
      BY <2>1 DEF vars, importers
    <2>2. ASSUME NEW b \in Batch, NEW e \in Export, NEW ts \in Selection, Stage(b, e, ts)
          PROVE  UNCHANGED <<erp, importers>>
      BY <2>2 DEF Stage, canonical
    <2>3. ASSUME NEW b \in Batch,
                 \/ StageFails(b) \/ PaymentsFail(b) \/ PaymentsRefused(b) \/ Validate(b)
          PROVE  UNCHANGED <<erp, importers>>
      BY <2>3 DEF StageFails, PaymentsFail, PaymentsRefused, Validate, canonical
    <2>4. ASSUME NEW b \in Batch, Normalize(b) \/ RefreshBatch(b) \/ LoseRefresh(b)
                                  \/ MapProducts(b)
          PROVE  UNCHANGED <<erp, importers>>
      BY <2>4 DEF Normalize, RefreshBatch, LoseRefresh, MapProducts, canonical
    <2>5. ASSUME NEW b \in Batch, NEW c, NEW t, ReviewCategory(b, c, t) \/ ReviewMapping(b, c, t)
          PROVE  UNCHANGED <<erp, importers>>
      BY <2>5 DEF ReviewCategory, ReviewMapping, canonical
    <2>6. ASSUME NEW k, \/ WriteMappings(k) \/ LoseSeed(k)
                        \/ RecordPaymentsFailure(k) \/ CrashPayments(k)
          PROVE  UNCHANGED <<erp, importers>>
      BY <2>6 DEF WriteMappings, LoseSeed, RecordPaymentsFailure, CrashPayments, canonical
    <2> QED
      BY <2>1, <2>2, <2>3, <2>4, <2>5, <2>6 DEF Next, Starts
  <1> QED
    BY <1>1, <1>2, <1>3, <1>4, <1>5

\* The total of an invoice is that of its lines, and the taxes of a bill's own
\* lines add up to the bill's, whichever imports wrote them and however they ran
\* beside each other.
THEOREM TotalsAreRight == Spec => []TotalsFollowLines
  <1>1. ASSUME Init PROVE DocumentsFit
    <2>1. DOMAIN << >> = {}
      BY ShortSeqs
    <2>2. erp = << >> /\ \A i \in Importer : mine[i] = << >> /\ pc[i] = "idle"
      BY <1>1 DEF Init
    <2>3. NoDocuments(erp) /\ \A i \in Importer : NoDocuments(mine[i])
      BY <2>1, <2>2 DEF NoDocuments
    <2>4. \A i \in Importer : Prepared(i)
      BY <2>2, <2>3, NoDocumentsFit DEF Prepared
    <2>5. Apart
      BY <2>1, <2>2 DEF Apart
    <2> QED
      BY <2>3, <2>4, <2>5, NoDocumentsFit DEF DocumentsFit
  <1>2. DocumentsFit => TotalsFollowLines
    BY DEF DocumentsFit, TotalsFit, BillsFit, TotalsFollowLines
  <1> QED
    BY <1>1, <1>2, Invariance, NextDocuments, PTL DEF Spec
-----------------------------------------------------------------------------
(* The staging *)

\* The elements of the rest of a sequence.
LEMMA TailElements ==
  ASSUME NEW S, NEW s \in Seq(S), s # << >>
  PROVE  /\ Head(s) \in S /\ Tail(s) \in Seq(S)
         /\ {s[i] : i \in DOMAIN s} = {Head(s)} \cup {Tail(s)[i] : i \in DOMAIN Tail(s)}
         /\ Len(s) = 1 => Tail(s) = << >>
         /\ Len(s) # 1 => Tail(s) # << >>
  <1>1. Len(s) \in Nat \ {0} /\ Head(s) = s[1] /\ Tail(s) \in Seq(S) /\ Len(Tail(s)) = Len(s) - 1
    OBVIOUS
  <1>2. DOMAIN s = 1 .. Len(s) /\ DOMAIN Tail(s) = 1 .. Len(s) - 1
    OBVIOUS
  <1>3. \A i \in 1 .. Len(s) - 1 : Tail(s)[i] = s[i + 1]
    OBVIOUS
  <1>4. \A i \in 1 .. Len(s) : i # 1 => i - 1 \in 1 .. Len(s) - 1 /\ Tail(s)[i - 1] = s[i]
    BY <1>1, <1>3
  <1>5. ASSUME NEW i \in 1 .. Len(s)
        PROVE  s[i] \in {Head(s)} \cup {Tail(s)[k] : k \in DOMAIN Tail(s)}
    BY <1>1, <1>2, <1>4
  <1>6. {Head(s)} \cup {Tail(s)[i] : i \in DOMAIN Tail(s)} \subseteq {s[i] : i \in DOMAIN s}
    <2>1. Head(s) \in {s[i] : i \in DOMAIN s}
      BY <1>1, <1>2
    <2>2. ASSUME NEW i \in 1 .. Len(s) - 1 PROVE Tail(s)[i] \in {s[j] : j \in DOMAIN s}
      BY <1>1, <1>2, <1>3
    <2> QED
      BY <2>1, <2>2, <1>2
  <1>7. Head(s) \in S
    BY <1>1
  <1>8. Len(s) = 1 <=> Tail(s) = << >>
    <2>1. Len(<< >>) = 0 /\ \A seq \in Seq(S) : seq # << >> => Len(seq) \in Nat \ {0}
      BY EmptySeq
    <2>2. Tail(s) = << >> => Len(Tail(s)) = 0
      BY <2>1
    <2>3. Tail(s) # << >> => Len(Tail(s)) # 0
      BY <1>1, <2>1
    <2> QED
      BY <1>1, <2>2, <2>3
  <1> QED
    BY <1>1, <1>2, <1>5, <1>6, <1>7, <1>8

\* A set of numbers below a bound has a greatest one.
LEMMA GreatestNat ==
  ASSUME NEW T, T \subseteq Nat, T # {}, NEW n \in Nat, \A m \in T : m =< n
  PROVE  \E k \in T : \A m \in T : m =< k
  <1> DEFINE B == {k \in Nat : \A m \in T : m =< k}
  <1>1. PICK k \in B : \A l \in B : k =< l
    BY LeastNat
  <1>2. CASE k \in T
    BY <1>1, <1>2
  <1>3. CASE k \notin T
    <2>1. PICK m \in T : TRUE
      OBVIOUS
    <2>2. k > 0
      BY <1>1, <1>3, <2>1
    <2>3. k - 1 \in B
      BY <1>1, <1>3, <2>2
    <2> QED
      BY <1>1, <2>2, <2>3
  <1> QED
    BY <1>2, <1>3

\* The latest completed attempt is one of the attempts.
Done(rs) == {n \in DOMAIN rs : rs[n].status = "completed"}
LEMMA StagingLatestIsOne ==
  ASSUME Staging!ShapesFit, NEW b \in Batch
  PROVE  /\ runs[b] \in Seq(Staging!Run) /\ Len(runs[b]) \in Nat /\ DOMAIN runs[b] = 1 .. Len(runs[b])
         /\ Staging!Latest(b) \in Nat
         /\ Staging!Latest(b) # 0 => Staging!Latest(b) \in DOMAIN runs[b]
         /\ Done(runs[b]) = {} <=> Staging!Latest(b) = 0
  <1>1. runs[b] \in Seq(Staging!Run) /\ Len(runs[b]) \in Nat /\ DOMAIN runs[b] = 1 .. Len(runs[b])
    BY DEF Staging!ShapesFit
  <1>2. CASE Done(runs[b]) = {}
    BY <1>1, <1>2 DEF Staging!Latest, Done
  <1>3. CASE Done(runs[b]) # {}
    <2>1. PICK k \in Done(runs[b]) : \A m \in Done(runs[b]) : m =< k
      <3>1. Done(runs[b]) \subseteq Nat /\ \A m \in Done(runs[b]) : m =< Len(runs[b])
        BY <1>1 DEF Done
      <3> QED
        BY <1>1, <1>3, <3>1, GreatestNat
    <2>2. Staging!Latest(b) = CHOOSE n \in Done(runs[b]) : \A m \in Done(runs[b]) : m <= n
      BY <1>3 DEF Staging!Latest, Done
    <2>3. Staging!Latest(b) \in Done(runs[b])
      BY <2>1, <2>2
    <2> QED
      BY <1>1, <1>3, <2>3 DEF Done
  <1> QED
    BY <1>1, <1>2, <1>3

LEMMA StagingInitInv == Staging!StagingAssumption /\ Staging!Init => Staging!IInv
  <1> SUFFICES ASSUME Staging!StagingAssumption, Staging!Init PROVE Staging!IInv
    OBVIOUS
  <1>1. DOMAIN << >> = {} /\ \A S : << >> \in Seq(S)
    OBVIOUS
  <1>2. Staging!ShapesFit
    BY <1>1 DEF Staging!Init, Staging!ShapesFit, Staging!Label
  <1>3. \A p \in Process : Staging!NumberFits(p) /\ Staging!TablesFit(p)
    BY <1>1 DEF Staging!Init, Staging!NumberFits, Staging!TablesFit, Staging!Inserted,
       Staging!Ahead
  <1>4. \A b \in Batch : Staging!Latest(b) = 0
    BY <1>1 DEF Staging!Init, Staging!Latest
  <1>5. Staging!LastRunStands
    BY <1>4 DEF Staging!LastRunStands
  <1> QED
    BY <1>2, <1>3, <1>5 DEF Staging!IInv

\* Steps that leave the runs and the numbers of the jobs alone.
LEMMA StagingNumbersStand ==
  ASSUME Staging!IInv, NEW p \in Process, UNCHANGED <<runs, sJob>>,
         NEW label \in Staging!Label, sPc' = [sPc EXCEPT ![p] = label],
         sPc[p] # "idle", label # "idle",
         label \in {"drop", "create", "validate", "commit"} =>
            Staging!Inserted(p) \/ (sJob[p].number = Staging!NextAttempt(sJob[p].batch)
            /\ Staging!NumberFree(p))
  PROVE  \A q \in Process : Staging!NumberFits(q)'
  <1> SUFFICES ASSUME NEW q \in Process PROVE Staging!NumberFits(q)'
    OBVIOUS
  <1>1. sPc \in [Process -> Staging!Label] /\ sPc' \in [Process -> Staging!Label]
        /\ \A r \in Process : sPc'[r] = IF r = p THEN label ELSE sPc[r]
    BY DEF Staging!IInv, Staging!ShapesFit
  <1>2. \A r \in Process : Staging!Inserted(r)' => Staging!Inserted(r) \/ r = p
    BY <1>1 DEF Staging!Inserted
  <1>3. runs' = runs /\ sJob' = sJob
    OBVIOUS
  <1>4. sPc'[q] = "idle" <=> sJob'[q] = Staging!NoJob
    BY <1>1 DEF Staging!IInv, Staging!NumberFits
  <1>5. sJob[q] # Staging!NoJob => sJob[q].batch \in Batch
    BY DEF Staging!IInv, Staging!ShapesFit, Staging!Job
  <1>6. sPc'[q] # "idle" => sJob[q].number =< Staging!NextAttempt(sJob[q].batch)
    BY <1>1 DEF Staging!IInv, Staging!NumberFits
  <1>7. ASSUME Staging!Inserted(q)'
        PROVE  sJob[q].number = Staging!NextAttempt(sJob[q].batch) /\ Staging!NumberFree(q)'
    <2>1. sJob[q].number = Staging!NextAttempt(sJob[q].batch) /\ Staging!NumberFree(q)
      <3>1. CASE q = p
        BY <1>1, <1>7, <3>1 DEF Staging!IInv, Staging!NumberFits, Staging!Inserted
      <3>2. CASE q # p
        BY <1>2, <1>7, <3>2 DEF Staging!IInv, Staging!NumberFits
      <3> QED
        BY <3>1, <3>2
    <2>2. Staging!NumberFree(q)'
      <3> SUFFICES ASSUME NEW r \in Process \ {q}, Staging!Inserted(r)',
                          sJob[r].batch = sJob[q].batch, sJob[r].number = sJob[q].number
                   PROVE  FALSE
        BY DEF Staging!NumberFree
      <3>1. CASE Staging!Inserted(r)
        BY <2>1, <3>1 DEF Staging!NumberFree
      <3>2. CASE ~Staging!Inserted(r)
        <4>1. r = p /\ Staging!NumberFree(p)
          BY <1>1, <1>2, <3>2 DEF Staging!Inserted
        <4>2. Staging!Inserted(q)
          BY <1>2, <1>7, <4>1
        <4> QED
          BY <4>1, <4>2 DEF Staging!NumberFree
      <3> QED
        BY <3>1, <3>2
    <2> QED
      BY <2>1, <2>2
  <1> QED
    BY <1>3, <1>4, <1>6, <1>7 DEF Staging!NumberFits, Staging!NextAttempt

\* A step of one process leaves the tables of the others alone.
LEMMA StagingTablesStand ==
  ASSUME Staging!IInv, NEW p \in Process, NEW q \in Process \ {p},
         sPc'[q] = sPc[q], sJob'[q] = sJob[q], drops'[q] = drops[q], todo'[q] = todo[q],
         sMine'[q] = sMine[q], staged'[q] = staged[q]
  PROVE  Staging!TablesFit(q)'
  BY DEF Staging!IInv, Staging!TablesFit, Staging!Ahead, Staging!RowsOf

\* The latest completed attempt depends on the completed ones only.
Newest(done) == IF done = {} THEN 0 ELSE CHOOSE n \in done : \A m \in done : m <= n
LEMMA StagingLatestIsNewest ==
  ASSUME NEW b
  PROVE  Staging!Latest(b) = Newest(Done(runs[b])) /\ Staging!Latest(b)' = Newest(Done(runs'[b]))
  BY DEF Staging!Latest, Newest, Done

LEMMA StagingRunStands ==
  ASSUME Staging!LastRunStands, UNCHANGED <<runs, stored>>
  PROVE  Staging!LastRunStands'
  <1>1. \A b \in Batch : Staging!Latest(b)' = Staging!Latest(b)
    BY DEF Staging!Latest
  <1> QED
    BY <1>1 DEF Staging!LastRunStands

\* The rest of the rows of a transaction, when it has dropped or loaded a table.
LEMMA StagingSetFacts ==
  ASSUME Staging!IInv, NEW p \in Process, NEW t \in Staging!Table, NEW rows, Staging!Set(p, t, rows)
  PROVE  /\ DOMAIN sMine' = Process
         /\ \A q \in Process \ {p} : sMine'[q] = sMine[q]
         /\ DOMAIN sMine'[p] = DOMAIN sMine[p] \cup {t}
         /\ sMine'[p][t] = rows
         /\ \A u \in DOMAIN sMine[p] : u # t => sMine'[p][u] = sMine[p][u]
  BY DEF Staging!IInv, Staging!ShapesFit, Staging!Set

\* A process leaves; what it has recorded is the next attempt of its batch.
Recorded(p, run) ==
    /\ run \in Staging!Run
    /\ sJob[p].number = Staging!NextAttempt(sJob[p].batch) /\ Staging!NumberFree(p)
    /\ runs' = [runs EXCEPT ![sJob[p].batch] = Append(@, run)]
LEMMA StagingRecordedFacts ==
  ASSUME Staging!IInv, NEW p \in Process, sPc[p] # "idle", NEW run, Recorded(p, run)
  PROVE  /\ sJob[p].batch \in Batch /\ sJob[p] \in Staging!Job
         /\ runs' \in [Batch -> Seq(Staging!Run)]
         /\ \A b \in Batch : b # sJob[p].batch => runs'[b] = runs[b]
         /\ runs'[sJob[p].batch] = Append(runs[sJob[p].batch], run)
         /\ Len(runs'[sJob[p].batch]) = Len(runs[sJob[p].batch]) + 1
         /\ DOMAIN runs'[sJob[p].batch] = 1 .. sJob[p].number
         /\ \A n \in DOMAIN runs[sJob[p].batch] : runs'[sJob[p].batch][n] = runs[sJob[p].batch][n]
         /\ runs'[sJob[p].batch][sJob[p].number] = run
  <1>1. sJob[p] \in Staging!Job /\ sJob[p].batch \in Batch
    BY DEF Staging!IInv, Staging!ShapesFit, Staging!NumberFits, Staging!Job
  <1>2. PICK rs : rs = runs[sJob[p].batch] /\ rs \in Seq(Staging!Run)
    BY <1>1 DEF Staging!IInv, Staging!ShapesFit
  <1>3. /\ runs'[sJob[p].batch] = Append(rs, run)
        /\ \A b \in Batch : b # sJob[p].batch => runs'[b] = runs[b]
        /\ runs' \in [Batch -> Seq(Staging!Run)]
    BY <1>1, <1>2 DEF Recorded, Staging!IInv, Staging!ShapesFit
  <1>4. /\ Append(rs, run) \in Seq(Staging!Run) /\ Len(rs) \in Nat
        /\ Len(Append(rs, run)) = Len(rs) + 1
        /\ DOMAIN Append(rs, run) = 1 .. Len(rs) + 1
        /\ DOMAIN rs = 1 .. Len(rs)
        /\ \A n \in 1 .. Len(rs) : Append(rs, run)[n] = rs[n]
        /\ Append(rs, run)[Len(rs) + 1] = run
    BY <1>2 DEF Recorded
  <1>5. sJob[p].number = Len(rs) + 1
    BY <1>2 DEF Recorded, Staging!NextAttempt
  <1> QED
    BY <1>1, <1>2, <1>3, <1>4, <1>5

LEMMA StagingLeavingNumbers ==
  ASSUME Staging!IInv, NEW p \in Process, sPc[p] # "idle", Staging!Leave(p),
         runs' = runs \/ \E run \in Staging!Run : Recorded(p, run)
  PROVE  \A q \in Process : Staging!NumberFits(q)'
  <1> SUFFICES ASSUME NEW q \in Process PROVE Staging!NumberFits(q)'
    OBVIOUS
  <1>1. /\ sPc'[p] = "idle" /\ sJob'[p] = Staging!NoJob
        /\ \A r \in Process \ {p} : sPc'[r] = sPc[r] /\ sJob'[r] = sJob[r]
    BY DEF Staging!Leave, Staging!GoTo, Staging!IInv, Staging!ShapesFit
  <1>2. CASE q = p
    BY <1>1, <1>2 DEF Staging!NumberFits, Staging!Inserted
  <1>3. CASE q # p
    <2>1. sPc'[q] = "idle" <=> sJob'[q] = Staging!NoJob
      BY <1>1, <1>3 DEF Staging!IInv, Staging!NumberFits
    <2> SUFFICES ASSUME sPc[q] # "idle"
                 PROVE  /\ sJob[q].number =< Len(runs'[sJob[q].batch]) + 1
                        /\ Staging!Inserted(q) => /\ sJob[q].number = Len(runs'[sJob[q].batch]) + 1
                                          /\ Staging!NumberFree(q)'
      BY <1>1, <1>3, <2>1 DEF Staging!NumberFits, Staging!NextAttempt, Staging!Inserted
    <2>2. /\ sJob[q].number =< Len(runs[sJob[q].batch]) + 1
          /\ Staging!Inserted(q) => sJob[q].number = Len(runs[sJob[q].batch]) + 1
             /\ Staging!NumberFree(q)
          /\ sJob[q] \in Staging!Job /\ sJob[q].batch \in Batch /\ sJob[q].number \in Nat
      BY DEF Staging!IInv, Staging!NumberFits, Staging!NextAttempt, Staging!ShapesFit,
         Staging!Job
    <2>3. Staging!Inserted(q) => Staging!NumberFree(q)'
      BY <1>1, <1>3, <2>2 DEF Staging!NumberFree, Staging!Inserted
    <2>4. CASE runs' = runs
      BY <2>2, <2>3, <2>4
    <2>5. CASE \E run \in Staging!Run : Recorded(p, run)
      <3>1. PICK run \in Staging!Run : Recorded(p, run)
        BY <2>5
      <3>2. /\ \A b \in Batch : b # sJob[p].batch => runs'[b] = runs[b]
            /\ Len(runs'[sJob[p].batch]) = Len(runs[sJob[p].batch]) + 1
        BY <3>1, StagingRecordedFacts
      <3>3. CASE sJob[q].batch = sJob[p].batch
        <4>1. ~Staging!Inserted(q)
          BY <1>3, <2>2, <3>1, <3>3 DEF Recorded, Staging!NumberFree, Staging!NextAttempt
        <4>2. Len(runs[sJob[q].batch]) \in Nat
          BY <2>2, StagingLatestIsOne DEF Staging!IInv
        <4> QED
          BY <2>2, <3>2, <3>3, <4>1, <4>2
      <3>4. CASE sJob[q].batch # sJob[p].batch
        BY <2>2, <2>3, <3>2, <3>4
      <3> QED
        BY <3>3, <3>4
    <2> QED
      BY <2>4, <2>5
  <1> QED
    BY <1>2, <1>3

\* What a process has done is gone with its transaction.
LEMMA StagingClosedFacts ==
  ASSUME Staging!IInv, NEW p \in Process, Staging!Close(p)
  PROVE  /\ drops' \in [Process -> SUBSET Staging!Table] /\ todo' \in [Process -> Seq(Staging!Table)]
         /\ staged' \in [Process -> SUBSET Staging!Table] /\ DOMAIN sMine' = Process
         /\ \A q \in Process : \A t \in DOMAIN sMine'[q] :
               t \in Staging!Table /\ sMine'[q][t] \in Staging!Rows \cup {Staging!NoRows}
         /\ drops'[p] = {} /\ todo'[p] = << >> /\ sMine'[p] = << >> /\ staged'[p] = {}
         /\ \A q \in Process \ {p} :
               /\ drops'[q] = drops[q] /\ todo'[q] = todo[q]
               /\ sMine'[q] = sMine[q] /\ staged'[q] = staged[q]
  <1>1. << >> \in Seq(Staging!Table) /\ DOMAIN << >> = {}
    OBVIOUS
  <1> QED
    BY <1>1 DEF Staging!IInv, Staging!ShapesFit, Staging!Close
-----------------------------------------------------------------------------
(* Every step keeps the invariant. *)

LEMMA StagingStageInv ==
  ASSUME Staging!StagingAssumption, Staging!IInv, NEW p \in Process, NEW b \in Batch, NEW d \in Source,
         NEW selection \in TableSelection, Staging!Stage(p, b, d, selection)
  PROVE  Staging!IInv'
  <1> DEFINE ahead == IF selection = << >> THEN Manifest ELSE selection
             new == [batch |-> b, source |-> d, number |-> Staging!NextAttempt(b)]
  <1>1. /\ ahead \in Seq(Staging!Table) /\ ahead # << >>
    BY DEF Staging!StagingAssumption
  <1>2. Staging!Latest(b) # 0 => Staging!Latest(b) \in DOMAIN runs[b]
        /\ runs[b][Staging!Latest(b)].tables \subseteq Staging!Table
    <2>1. \A n \in DOMAIN runs[b] : runs[b][n] \in Staging!Run
      BY StagingLatestIsOne DEF Staging!IInv
    <2> QED
      BY <2>1, StagingLatestIsOne DEF Staging!IInv, Staging!Run
  <1>3. /\ Staging!Cleanup(b, selection) \subseteq Staging!Table
        /\ Staging!Cleanup(b, selection) \subseteq {ahead[i] : i \in DOMAIN ahead}
    <2>1. CASE Staging!Latest(b) = 0
      BY <2>1 DEF Staging!Cleanup
    <2>2. CASE Staging!Latest(b) # 0 /\ selection = << >>
      <3>1. DOMAIN << >> = {}
        OBVIOUS
      <3> QED
        BY <2>2, <3>1 DEF Staging!Cleanup
    <2>3. CASE Staging!Latest(b) # 0 /\ selection # << >>
      BY <1>2, <2>3 DEF Staging!Cleanup
    <2> QED
      BY <2>1, <2>2, <2>3
  <1>4. Staging!NextAttempt(b) \in 1 .. MaxAttempts
    <2>1. Len(runs[b]) \in Nat
      BY StagingLatestIsOne DEF Staging!IInv
    <2> QED
      BY <2>1 DEF Staging!Stage, Staging!NextAttempt, Staging!StagingAssumption
  <1>5. new \in Staging!Job /\ new # Staging!NoJob
    BY <1>4 DEF Staging!Job, Staging!NoJob
  <1>6. /\ sPc[p] = "idle" /\ sPc' = [sPc EXCEPT ![p] = "cleanup"]
        /\ sJob' = [sJob EXCEPT ![p] = new]
        /\ drops' = [drops EXCEPT ![p] = Staging!Cleanup(b, selection)]
        /\ todo' = [todo EXCEPT ![p] = ahead]
        /\ UNCHANGED <<runs, stored, sMine, staged>>
    BY DEF Staging!Stage, Staging!GoTo
  <1> HIDE DEF ahead, new
  <1>7. Staging!ShapesFit'
    BY <1>1, <1>3, <1>5, <1>6 DEF Staging!IInv, Staging!ShapesFit, Staging!Label
  <1>8. ASSUME NEW q \in Process PROVE Staging!NumberFits(q)' /\ Staging!TablesFit(q)'
    <2>1. /\ sPc'[p] = "cleanup" /\ sJob'[p] = new /\ drops'[p] = Staging!Cleanup(b, selection)
          /\ todo'[p] = ahead /\ sMine'[p] = << >> /\ staged'[p] = {}
          /\ \A r \in Process \ {p} :
                /\ sPc'[r] = sPc[r] /\ sJob'[r] = sJob[r] /\ drops'[r] = drops[r]
                /\ todo'[r] = todo[r] /\ sMine'[r] = sMine[r] /\ staged'[r] = staged[r]
      BY <1>6 DEF Staging!IInv, Staging!ShapesFit, Staging!TablesFit
    <2>2. CASE q = p
      <3>1. DOMAIN << >> = {}
        OBVIOUS
      <3>2. Staging!TablesFit(p)'
        BY <1>1, <1>3, <2>1, <3>1 DEF Staging!TablesFit, Staging!Ahead
      <3>3. Staging!NumberFits(p)'
        <4>1. new.batch = b /\ new.number = Len(runs'[b]) + 1 /\ Len(runs'[b]) \in Nat
          BY <1>6, StagingLatestIsOne DEF new, Staging!NextAttempt, Staging!IInv
        <4> QED
          BY <1>5, <2>1, <4>1 DEF Staging!NumberFits, Staging!Inserted, Staging!NextAttempt
      <3> QED
        BY <2>2, <3>2, <3>3
    <2>3. CASE q # p
      <3>1. Staging!TablesFit(q)'
        BY <2>1, <2>3, StagingTablesStand
      <3>2. Staging!NumberFits(q)'
        BY <1>6, <2>1, <2>3 DEF Staging!IInv, Staging!NumberFits, Staging!NumberFree,
           Staging!Inserted, Staging!NextAttempt
      <3> QED
        BY <3>1, <3>2
    <2> QED
      BY <2>2, <2>3
  <1>9. Staging!LastRunStands'
    BY <1>6, StagingRunStands DEF Staging!IInv
  <1> QED
    BY <1>7, <1>8, <1>9 DEF Staging!IInv

\* The parts that a transaction's changes of its tables leave.
LEMMA StagingSetShapes ==
  ASSUME Staging!IInv, NEW p \in Process, NEW t \in Staging!Table,
         NEW rows \in Staging!Rows \cup {Staging!NoRows},
         Staging!Set(p, t, rows) \/ UNCHANGED sMine
  PROVE  /\ DOMAIN sMine' = Process
         /\ \A q \in Process : \A u \in DOMAIN sMine'[q] : u \in Staging!Table
            /\ sMine'[q][u] \in Staging!Rows \cup {Staging!NoRows}
  <1>1. CASE UNCHANGED sMine
    BY <1>1 DEF Staging!IInv, Staging!ShapesFit
  <1>2. CASE Staging!Set(p, t, rows)
    <2>1. ASSUME NEW q \in Process, NEW u \in DOMAIN sMine'[q]
          PROVE  u \in Staging!Table /\ sMine'[q][u] \in Staging!Rows \cup {Staging!NoRows}
      <3>1. CASE q # p
        BY <1>2, <2>1, <3>1, StagingSetFacts DEF Staging!IInv, Staging!ShapesFit
      <3>2. CASE q = p /\ u = t
        BY <1>2, <3>2, StagingSetFacts
      <3>3. CASE q = p /\ u # t
        BY <1>2, <2>1, <3>3, StagingSetFacts DEF Staging!IInv, Staging!ShapesFit
      <3> QED
        BY <3>1, <3>2, <3>3
    <2> QED
      BY <1>2, <2>1, StagingSetFacts
  <1> QED
    BY <1>1, <1>2

LEMMA StagingCleanTableInv ==
  ASSUME Staging!StagingAssumption, Staging!IInv, NEW p \in Process, NEW t \in Staging!Table,
         Staging!CleanTable(p, t)
  PROVE  Staging!IInv'
  <1>1. /\ sPc[p] = "cleanup" /\ t \in drops[p] /\ Staging!Set(p, t, Staging!NoRows)
        /\ drops' = [drops EXCEPT ![p] = @ \ {t}]
        /\ UNCHANGED <<runs, stored, sPc, sJob, todo, staged>>
    BY DEF Staging!CleanTable
  <1>2. Staging!ShapesFit'
    BY <1>1, StagingSetShapes DEF Staging!IInv, Staging!ShapesFit
  <1>3. \A q \in Process : Staging!NumberFits(q)'
    BY <1>1 DEF Staging!IInv, Staging!NumberFits, Staging!NumberFree, Staging!Inserted,
       Staging!NextAttempt
  <1>4. ASSUME NEW q \in Process PROVE Staging!TablesFit(q)'
    <2>1. CASE q = p
      <3>1. /\ drops'[p] = drops[p] \ {t} /\ Staging!Ahead(p)' = Staging!Ahead(p)
               /\ Staging!RowsOf(p)' = Staging!RowsOf(p)
        BY <1>1 DEF Staging!IInv, Staging!ShapesFit, Staging!Ahead, Staging!RowsOf
      <3>2. t \in Staging!Ahead(p)
        BY <1>1 DEF Staging!IInv, Staging!TablesFit
      <3> QED
        BY <1>1, <2>1, <3>1, <3>2, StagingSetFacts DEF Staging!IInv, Staging!TablesFit
    <2>2. CASE q # p
      <3>1. drops'[q] = drops[q] /\ sMine'[q] = sMine[q]
        BY <1>1, <2>2, StagingSetFacts DEF Staging!IInv, Staging!ShapesFit
      <3> QED
        BY <1>1, <2>2, <3>1, StagingTablesStand
    <2> QED
      BY <2>1, <2>2
  <1>5. Staging!LastRunStands'
    BY <1>1, StagingRunStands DEF Staging!IInv
  <1> QED
    BY <1>2, <1>3, <1>4, <1>5 DEF Staging!IInv

LEMMA StagingInsertRunInv ==
  ASSUME Staging!StagingAssumption, Staging!IInv, NEW p \in Process, Staging!InsertRun(p)
  PROVE  Staging!IInv'
  <1> DEFINE label == IF Staging!Taken(p) THEN "failed" ELSE "drop"
  <1>1. /\ sPc[p] = "cleanup" /\ drops[p] = {} /\ Staging!NumberFree(p)
        /\ sPc' = [sPc EXCEPT ![p] = label]
        /\ UNCHANGED <<runs, stored, sJob, drops, todo, sMine, staged>>
    BY DEF Staging!InsertRun, Staging!GoTo
  <1>2. label \in {"failed", "drop"} /\ label \in Staging!Label
    BY DEF Staging!Label
  <1>3. label = "drop" => sJob[p].number = Staging!NextAttempt(sJob[p].batch)
    <2>1. sJob[p] \in Staging!Job /\ sJob[p].batch \in Batch /\ sJob[p].number \in Nat
      BY <1>1 DEF Staging!IInv, Staging!NumberFits, Staging!ShapesFit, Staging!Job
    <2>2. Len(runs[sJob[p].batch]) \in Nat
      BY <2>1, StagingLatestIsOne DEF Staging!IInv
    <2>3. sJob[p].number =< Len(runs[sJob[p].batch]) + 1
      BY <1>1 DEF Staging!IInv, Staging!NumberFits, Staging!NextAttempt
    <2> QED
      BY <2>1, <2>2, <2>3 DEF Staging!Taken, Staging!NextAttempt
  <1> HIDE DEF label
  <1>4. Staging!ShapesFit'
    BY <1>1, <1>2 DEF Staging!IInv, Staging!ShapesFit
  <1>5. \A q \in Process : Staging!NumberFits(q)'
    BY <1>1, <1>2, <1>3, StagingNumbersStand
  <1>6. ASSUME NEW q \in Process PROVE Staging!TablesFit(q)'
    <2>1. CASE q = p
      <3>1. sPc'[p] = label
        BY <1>1 DEF Staging!IInv, Staging!ShapesFit
      <3> QED
        BY <1>1, <1>2, <2>1, <3>1 DEF Staging!IInv, Staging!TablesFit, Staging!Ahead,
           Staging!RowsOf
    <2>2. CASE q # p
      <3>1. sPc'[q] = sPc[q]
        BY <1>1, <2>2 DEF Staging!IInv, Staging!ShapesFit
      <3> QED
        BY <1>1, <2>2, <3>1, StagingTablesStand
    <2> QED
      BY <2>1, <2>2
  <1>7. Staging!LastRunStands'
    BY <1>1, StagingRunStands DEF Staging!IInv
  <1> QED
    BY <1>4, <1>5, <1>6, <1>7 DEF Staging!IInv

LEMMA StagingDropTableInv ==
  ASSUME Staging!StagingAssumption, Staging!IInv, NEW p \in Process, Staging!DropTable(p)
  PROVE  Staging!IInv'
  <1> DEFINE t == Head(todo[p])
  <1>1. /\ sPc[p] = "drop"
        /\ \E label \in {"failed", "create"} : sPc' = [sPc EXCEPT ![p] = label]
        /\ UNCHANGED sMine \/ Staging!Set(p, t, Staging!NoRows)
        /\ UNCHANGED <<runs, stored, sJob, drops, todo, staged>>
    BY DEF Staging!DropTable, Staging!GoTo
  <1>2. PICK label \in {"failed", "create"} : sPc' = [sPc EXCEPT ![p] = label]
    BY <1>1
  <1>3. t \in Staging!Table /\ t \in Staging!Ahead(p)
    <2>1. todo[p] \in Seq(Staging!Table) /\ todo[p] # << >>
      BY <1>1 DEF Staging!IInv, Staging!ShapesFit, Staging!TablesFit
    <2> QED
      BY <2>1, TailElements DEF Staging!Ahead
  <1> HIDE DEF t
  <1>4. Staging!ShapesFit'
    BY <1>1, <1>2, <1>3, StagingSetShapes DEF Staging!IInv, Staging!ShapesFit, Staging!Label
  <1>5. \A q \in Process : Staging!NumberFits(q)'
    BY <1>1, <1>2, StagingNumbersStand DEF Staging!Inserted, Staging!Label
  <1>6. ASSUME NEW q \in Process PROVE Staging!TablesFit(q)'
    <2>1. CASE q = p
      <3>1. sPc'[p] = label /\ Staging!Ahead(p)' = Staging!Ahead(p)
            /\ Staging!RowsOf(p)' = Staging!RowsOf(p)
        BY <1>1, <1>2 DEF Staging!IInv, Staging!ShapesFit, Staging!Ahead, Staging!RowsOf
      <3> QED
        BY <1>1, <1>3, <2>1, <3>1, StagingSetFacts DEF Staging!IInv, Staging!TablesFit
    <2>2. CASE q # p
      <3>1. sPc'[q] = sPc[q] /\ sMine'[q] = sMine[q]
        BY <1>1, <1>2, <1>3, <2>2, StagingSetFacts DEF Staging!IInv, Staging!ShapesFit
      <3> QED
        BY <1>1, <2>2, <3>1, StagingTablesStand
    <2> QED
      BY <2>1, <2>2
  <1>7. Staging!LastRunStands'
    BY <1>1, StagingRunStands DEF Staging!IInv
  <1> QED
    BY <1>4, <1>5, <1>6, <1>7 DEF Staging!IInv

LEMMA StagingCreateTableInv ==
  ASSUME Staging!StagingAssumption, Staging!IInv, NEW p \in Process, Staging!CreateTable(p)
  PROVE  Staging!IInv'
  <1> DEFINE t == Head(todo[p])
  <1>1. /\ sPc[p] = "create"
        /\ \/ sPc' = [sPc EXCEPT ![p] = "failed"] /\ UNCHANGED sMine
           \/ sPc' = [sPc EXCEPT ![p] = "validate"] /\ Staging!Set(p, t, Staging!RowsOf(p))
        /\ UNCHANGED <<runs, stored, sJob, drops, todo, staged>>
    BY DEF Staging!CreateTable, Staging!GoTo, Staging!RowsOf
  <1>2. PICK label \in {"failed", "validate"} :
           /\ sPc' = [sPc EXCEPT ![p] = label]
           /\ UNCHANGED sMine \/ Staging!Set(p, t, Staging!RowsOf(p))
           /\ label = "validate" => Staging!Set(p, t, Staging!RowsOf(p))
    BY <1>1
  <1>3. t \in Staging!Table /\ t \in Staging!Ahead(p) /\ t = Head(todo[p]) /\ todo[p] # << >>
    <2>1. todo[p] \in Seq(Staging!Table) /\ todo[p] # << >>
      BY <1>1 DEF Staging!IInv, Staging!ShapesFit, Staging!TablesFit
    <2> QED
      BY <2>1, TailElements DEF Staging!Ahead
  <1>4. Staging!RowsOf(p) \in Staging!Rows
    <2>1. sJob[p] \in Staging!Job
      BY <1>1 DEF Staging!IInv, Staging!ShapesFit, Staging!NumberFits
    <2> QED
      BY <2>1 DEF Staging!Job, Staging!Rows, Staging!RowsOf
  <1> HIDE DEF t
  <1>5. Staging!ShapesFit'
    BY <1>1, <1>2, <1>3, <1>4, StagingSetShapes DEF Staging!IInv, Staging!ShapesFit,
       Staging!Label
  <1>6. \A q \in Process : Staging!NumberFits(q)'
    BY <1>1, <1>2, StagingNumbersStand DEF Staging!Inserted, Staging!Label
  <1>7. ASSUME NEW q \in Process PROVE Staging!TablesFit(q)'
    <2>1. CASE q = p
      <3>1. sPc'[p] = label /\ Staging!Ahead(p)' = Staging!Ahead(p)
            /\ Staging!RowsOf(p)' = Staging!RowsOf(p)
        BY <1>1, <1>2 DEF Staging!IInv, Staging!ShapesFit, Staging!Ahead, Staging!RowsOf
      <3> QED
        BY <1>1, <1>2, <1>3, <2>1, <3>1, StagingSetFacts DEF Staging!IInv, Staging!TablesFit
    <2>2. CASE q # p
      <3>1. sPc'[q] = sPc[q] /\ sMine'[q] = sMine[q]
        BY <1>1, <1>2, <1>3, <2>2, StagingSetFacts DEF Staging!IInv, Staging!ShapesFit
      <3> QED
        BY <1>1, <2>2, <3>1, StagingTablesStand
    <2> QED
      BY <2>1, <2>2
  <1>8. Staging!LastRunStands'
    BY <1>1, StagingRunStands DEF Staging!IInv
  <1> QED
    BY <1>5, <1>6, <1>7, <1>8 DEF Staging!IInv

LEMMA StagingValidateTableInv ==
  ASSUME Staging!StagingAssumption, Staging!IInv, NEW p \in Process, Staging!ValidateTable(p)
  PROVE  Staging!IInv'
  <1> DEFINE t == Head(todo[p])
             next == IF Len(todo[p]) = 1 THEN "commit" ELSE "drop"
  <1>1. /\ sPc[p] = "validate"
        /\ \/ sPc' = [sPc EXCEPT ![p] = "failed"] /\ UNCHANGED <<todo, staged>>
           \/ /\ sPc' = [sPc EXCEPT ![p] = next]
              /\ todo' = [todo EXCEPT ![p] = Tail(@)]
              /\ staged' = [staged EXCEPT ![p] = @ \cup {t}]
        /\ UNCHANGED <<runs, stored, sJob, drops, sMine>>
    BY DEF Staging!ValidateTable, Staging!GoTo
  <1>2. todo[p] \in Seq(Staging!Table) /\ todo[p] # << >> /\ t \in DOMAIN sMine[p]
        /\ sMine[p][t] = Staging!RowsOf(p)
    BY <1>1 DEF Staging!IInv, Staging!ShapesFit, Staging!TablesFit
  <1>3. /\ t \in Staging!Table /\ Tail(todo[p]) \in Seq(Staging!Table)
        /\ Staging!Ahead(p) = {t} \cup {Tail(todo[p])[i] : i \in DOMAIN Tail(todo[p])}
        /\ next = "commit" => Tail(todo[p]) = << >>
        /\ next = "drop" => Tail(todo[p]) # << >>
        /\ next \in {"drop", "commit"}
    BY <1>2, TailElements DEF Staging!Ahead
  <1> HIDE DEF t, next
  <1>4. PICK label \in {"failed", "drop", "commit"} : sPc' = [sPc EXCEPT ![p] = label]
    BY <1>1, <1>3
  <1>5. Staging!ShapesFit'
    <2>1. todo' \in [Process -> Seq(Staging!Table)]
      BY <1>1, <1>3 DEF Staging!IInv, Staging!ShapesFit
    <2>2. staged' \in [Process -> SUBSET Staging!Table]
      <3>1. staged \in [Process -> SUBSET Staging!Table] /\ staged[p] \cup {t} \in SUBSET Staging!Table
        BY <1>3 DEF Staging!IInv, Staging!ShapesFit
      <3> QED
        BY <1>1, <3>1
    <2> QED
      BY <1>1, <1>4, <2>1, <2>2 DEF Staging!IInv, Staging!ShapesFit, Staging!Label
  <1>6. \A q \in Process : Staging!NumberFits(q)'
    BY <1>1, <1>4, StagingNumbersStand DEF Staging!Inserted, Staging!Label
  <1>7. ASSUME NEW q \in Process PROVE Staging!TablesFit(q)'
    <2>1. CASE q = p
      <3>1. CASE sPc' = [sPc EXCEPT ![p] = "failed"] /\ UNCHANGED <<todo, staged>>
        <4>1. sPc'[p] = "failed"
          BY <3>1 DEF Staging!IInv, Staging!ShapesFit
        <4> QED
          BY <1>1, <2>1, <3>1, <4>1 DEF Staging!IInv, Staging!TablesFit, Staging!Ahead,
             Staging!RowsOf
      <3>2. CASE /\ sPc' = [sPc EXCEPT ![p] = next]
                 /\ todo' = [todo EXCEPT ![p] = Tail(@)]
                 /\ staged' = [staged EXCEPT ![p] = @ \cup {t}]
        <4>1. sPc'[p] = next /\ todo'[p] = Tail(todo[p]) /\ staged'[p] = staged[p] \cup {t}
              /\ sMine'[p] = sMine[p] /\ drops'[p] = drops[p] /\ Staging!RowsOf(p)' = Staging!RowsOf(p)
          BY <1>1, <3>2 DEF Staging!IInv, Staging!ShapesFit, Staging!RowsOf
        <4>2. Staging!Ahead(p) = {t} \cup Staging!Ahead(p)'
          BY <1>3, <4>1 DEF Staging!Ahead
        <4> QED
          BY <1>1, <1>2, <1>3, <2>1, <4>1, <4>2 DEF Staging!IInv, Staging!TablesFit
      <3> QED
        BY <1>1, <3>1, <3>2
    <2>2. CASE q # p
      <3>1. sPc'[q] = sPc[q] /\ todo'[q] = todo[q] /\ staged'[q] = staged[q]
        BY <1>1, <1>4, <2>2 DEF Staging!IInv, Staging!ShapesFit
      <3> QED
        BY <1>1, <2>2, <3>1, StagingTablesStand
    <2> QED
      BY <2>1, <2>2
  <1>8. Staging!LastRunStands'
    BY <1>1, StagingRunStands DEF Staging!IInv
  <1> QED
    BY <1>5, <1>6, <1>7, <1>8 DEF Staging!IInv

LEMMA StagingClosedTables ==
  ASSUME Staging!IInv, NEW p \in Process, Staging!Close(p),
         Staging!Leave(p) \/ (Staging!GoTo(p, "record") /\ UNCHANGED sJob)
  PROVE  \A q \in Process : Staging!TablesFit(q)'
  <1> SUFFICES ASSUME NEW q \in Process PROVE Staging!TablesFit(q)'
    OBVIOUS
  <1>1. /\ sPc'[p] \in {"idle", "record"}
        /\ \A r \in Process \ {p} : sPc'[r] = sPc[r] /\ sJob'[r] = sJob[r]
    BY DEF Staging!Leave, Staging!GoTo, Staging!IInv, Staging!ShapesFit
  <1>2. CASE q = p
    <2>1. DOMAIN << >> = {}
      OBVIOUS
    <2> QED
      BY <1>1, <1>2, <2>1, StagingClosedFacts DEF Staging!TablesFit
  <1>3. CASE q # p
    BY <1>1, <1>3, StagingClosedFacts, StagingTablesStand
  <1> QED
    BY <1>2, <1>3

LEMMA StagingCommitInv ==
  ASSUME Staging!StagingAssumption, Staging!IInv, NEW p \in Process, Staging!Commit(p)
  PROVE  Staging!IInv'
  <1> DEFINE b0 == sJob[p].batch
             run == [status |-> "completed", tables |-> staged[p]]
  <1>1. /\ sPc[p] = "commit" /\ stored' = [t \in Staging!Table |-> Staging!Sees(p, t)]
        /\ runs' = [runs EXCEPT ![b0] = Append(@, run)]
        /\ Staging!Close(p) /\ Staging!Leave(p)
    BY DEF Staging!Commit, Staging!Record
  <1>2. /\ staged[p] \subseteq DOMAIN sMine[p] /\ DOMAIN sMine[p] \subseteq staged[p]
        /\ \A t \in DOMAIN sMine[p] : t \in Staging!Table /\ sMine[p][t] = Staging!RowsOf(p)
    <2>1. Staging!Ahead(p) = {}
      <3>1. DOMAIN << >> = {}
        OBVIOUS
      <3> QED
        BY <1>1, <3>1 DEF Staging!IInv, Staging!TablesFit, Staging!Ahead
    <2> QED
      BY <2>1 DEF Staging!IInv, Staging!TablesFit, Staging!ShapesFit
  <1>3. Recorded(p, run)
    <2>1. run \in Staging!Run
      BY DEF Staging!Run, Staging!IInv, Staging!ShapesFit
    <2>2. sJob[p].number = Staging!NextAttempt(b0) /\ Staging!NumberFree(p)
      BY <1>1 DEF Staging!IInv, Staging!NumberFits, Staging!Inserted
    <2> QED
      BY <1>1, <2>1, <2>2 DEF Recorded
  <1>4. /\ b0 \in Batch /\ sJob[p] \in Staging!Job
        /\ runs' \in [Batch -> Seq(Staging!Run)]
        /\ \A b \in Batch : b # b0 => runs'[b] = runs[b]
        /\ DOMAIN runs'[b0] = 1 .. sJob[p].number
        /\ runs'[b0][sJob[p].number] = run
    BY <1>1, <1>3, StagingRecordedFacts
  <1>5. Staging!RowsOf(p) \in Staging!Rows /\ Staging!RowsOf(p) # Staging!NoRows
        /\ Staging!RowsOf(p).batch = b0
        /\ Staging!RowsOf(p).attempt = sJob[p].number /\ sJob[p].number \in Nat \ {0}
    <2>1. sJob[p].number \in 1 .. MaxAttempts /\ sJob[p].source \in Source
      BY <1>4 DEF Staging!Job
    <2>2. sJob[p].number # 0 /\ sJob[p].number \in Nat
      BY <2>1 DEF Staging!StagingAssumption
    <2> QED
      BY <1>4, <2>1, <2>2 DEF Staging!RowsOf, Staging!Rows, Staging!NoRows
  <1>6. \A t \in Staging!Table : stored'[t] = IF t \in DOMAIN sMine[p] THEN Staging!RowsOf(p) ELSE stored[t]
    BY <1>1, <1>2 DEF Staging!Sees
  <1>7. Staging!ShapesFit'
    <2>1. stored' \in [Staging!Table -> Staging!Rows \cup {Staging!NoRows}]
      BY <1>1, <1>5, <1>6 DEF Staging!IInv, Staging!ShapesFit
    <2>2. sPc' \in [Process -> Staging!Label] /\ sJob' \in [Process -> Staging!Job \cup {Staging!NoJob}]
      BY <1>1 DEF Staging!Leave, Staging!GoTo, Staging!IInv, Staging!ShapesFit, Staging!Label
    <2> QED
      BY <1>1, <1>4, <2>1, <2>2, StagingClosedFacts DEF Staging!ShapesFit
  <1>8. \A q \in Process : Staging!NumberFits(q)'
    BY <1>1, <1>3, <1>4, StagingLeavingNumbers
  <1>9. ASSUME NEW q \in Process PROVE Staging!TablesFit(q)'
    BY <1>1, StagingClosedTables
  <1>10. Staging!LastRunStands'
    <2> SUFFICES ASSUME NEW b \in Batch, (Staging!Latest(b) # 0)',
                        NEW t \in (runs[b][Staging!Latest(b)].tables)'
                 PROVE  stored'[t] # Staging!NoRows /\ (stored'[t].batch = b
                        => stored'[t].attempt = Staging!Latest(b)')
      BY DEF Staging!LastRunStands
    <2>1. CASE b = b0
      <3>1. Staging!Latest(b)' = sJob[p].number
        <4>1. {n \in DOMAIN runs'[b] : runs'[b][n].status = "completed"} \subseteq 1 .. sJob[p].number
          BY <1>4, <2>1
        <4>2. sJob[p].number \in {n \in DOMAIN runs'[b] : runs'[b][n].status = "completed"}
          BY <1>4, <1>5, <2>1
        <4> DEFINE done == {n \in DOMAIN runs'[b] : runs'[b][n].status = "completed"}
        <4>3. Staging!Latest(b)' = CHOOSE n \in done : \A m \in done : m =< n
          BY <4>2 DEF Staging!Latest
        <4>4. \A n \in done : (\A m \in done : m =< n) <=> n = sJob[p].number
          BY <1>5, <4>1, <4>2
        <4> HIDE DEF done
        <4> QED
          BY <4>2, <4>3, <4>4 DEF done
      <3>2. t \in staged[p]
        BY <1>4, <2>1, <3>1
      <3> QED
        BY <1>2, <1>5, <1>6, <2>1, <3>1, <3>2
    <2>2. CASE b # b0
      <3>1. runs'[b] = runs[b] /\ Staging!Latest(b)' = Staging!Latest(b)
        BY <1>4, <2>2, StagingLatestIsNewest
      <3>2. t \in Staging!Table
        <4>1. runs[b][Staging!Latest(b)] \in Staging!Run
          BY <3>1, StagingLatestIsOne DEF Staging!IInv
        <4> QED
          BY <3>1, <4>1 DEF Staging!Run
      <3>3. stored[t] # Staging!NoRows /\ (stored[t].batch = b => stored[t].attempt = Staging!Latest(b))
        BY <3>1 DEF Staging!IInv, Staging!LastRunStands
      <3> QED
        BY <1>5, <1>6, <2>2, <3>1, <3>2, <3>3
    <2> QED
      BY <2>1, <2>2
  <1> QED
    BY <1>7, <1>8, <1>9, <1>10 DEF Staging!IInv

\* A rolled-back transaction changes nothing but its own process.
LEMMA StagingRolledBackInv ==
  ASSUME Staging!StagingAssumption, Staging!IInv, NEW p \in Process, sPc[p] # "idle",
         Staging!Rollback(p),
         UNCHANGED runs, Staging!Leave(p) \/ (Staging!GoTo(p, "record") /\ UNCHANGED sJob)
  PROVE  Staging!IInv'
  <1>1. UNCHANGED stored /\ Staging!Close(p)
    BY DEF Staging!Rollback
  <1>2. Staging!ShapesFit'
    <2>1. sPc' \in [Process -> Staging!Label] /\ sJob' \in [Process -> Staging!Job \cup {Staging!NoJob}]
      BY DEF Staging!Leave, Staging!GoTo, Staging!IInv, Staging!ShapesFit, Staging!Label
    <2>2. runs' \in [Batch -> Seq(Staging!Run)]
          /\ stored' \in [Staging!Table -> Staging!Rows \cup {Staging!NoRows}]
      BY <1>1 DEF Staging!IInv, Staging!ShapesFit
    <2> QED
      BY <1>1, <2>1, <2>2, StagingClosedFacts DEF Staging!ShapesFit
  <1>3. ASSUME NEW q \in Process PROVE Staging!NumberFits(q)'
    <2>1. CASE Staging!Leave(p)
      BY <2>1, StagingLeavingNumbers
    <2>2. CASE Staging!GoTo(p, "record") /\ UNCHANGED sJob
      BY <2>2, StagingNumbersStand DEF Staging!GoTo, Staging!Label
    <2> QED
      BY <2>1, <2>2
  <1>4. \A q \in Process : Staging!TablesFit(q)'
    BY <1>1, StagingClosedTables
  <1>5. Staging!LastRunStands'
    BY <1>1, StagingRunStands DEF Staging!IInv
  <1> QED
    BY <1>2, <1>3, <1>4, <1>5 DEF Staging!IInv

LEMMA StagingFailInv ==
  ASSUME Staging!StagingAssumption, Staging!IInv, NEW p \in Process, Staging!Fail(p)
  PROVE  Staging!IInv'
  BY StagingRolledBackInv DEF Staging!Fail

LEMMA StagingCrashInv ==
  ASSUME Staging!StagingAssumption, Staging!IInv, NEW p \in Process, Staging!Crash(p)
  PROVE  Staging!IInv'
  BY StagingRolledBackInv DEF Staging!Crash

LEMMA StagingDeadlockInv ==
  ASSUME Staging!StagingAssumption, Staging!IInv, NEW p \in Process, Staging!Deadlock(p)
  PROVE  Staging!IInv'
  <1>1. sPc[p] # "idle"
    BY DEF Staging!Deadlock, Staging!WaitsFor
  <1> QED
    BY <1>1, StagingRolledBackInv DEF Staging!Deadlock

LEMMA StagingRecordFailureInv ==
  ASSUME Staging!StagingAssumption, Staging!IInv, NEW p \in Process, Staging!RecordFailure(p)
  PROVE  Staging!IInv'
  <1> DEFINE run == [status |-> "failed", tables |-> staged[p]]
  <1>0. PICK b0 : b0 = sJob[p].batch
    OBVIOUS
  <1>1. /\ sPc[p] = "record" /\ Staging!NumberFree(p) /\ Staging!Leave(p)
        /\ UNCHANGED <<stored, drops, todo, sMine, staged>>
        /\ Staging!Taken(p) => UNCHANGED runs
        /\ ~Staging!Taken(p) => runs' = [runs EXCEPT ![b0] = Append(@, run)]
    BY <1>0 DEF Staging!RecordFailure, Staging!Record
  <1>2. sJob[p] \in Staging!Job /\ b0 \in Batch /\ sJob[p].number \in Nat
    BY <1>0, <1>1 DEF Staging!IInv, Staging!NumberFits, Staging!ShapesFit, Staging!Job
  <1>3. ~Staging!Taken(p) => Recorded(p, run)
    <2>1. run \in Staging!Run
      BY DEF Staging!Run, Staging!IInv, Staging!ShapesFit
    <2>2. Len(runs[b0]) \in Nat /\ sJob[p].number =< Len(runs[b0]) + 1
      BY <1>0, <1>1, <1>2, StagingLatestIsOne DEF Staging!IInv, Staging!NumberFits,
         Staging!NextAttempt
    <2>3. ~Staging!Taken(p) => sJob[p].number = Staging!NextAttempt(b0)
      BY <1>0, <1>2, <2>2 DEF Staging!Taken, Staging!NextAttempt
    <2> QED
      BY <1>0, <1>1, <2>1, <2>3 DEF Recorded
  <1>4. runs' = runs \/ Recorded(p, run)
    BY <1>1, <1>3
  <1>5. run \in Staging!Run
    BY DEF Staging!Run, Staging!IInv, Staging!ShapesFit
  <1>6. Staging!ShapesFit'
    <2>1. sPc' \in [Process -> Staging!Label] /\ sJob' \in [Process -> Staging!Job \cup {Staging!NoJob}]
      BY <1>1 DEF Staging!Leave, Staging!GoTo, Staging!IInv, Staging!ShapesFit, Staging!Label
    <2>2. runs' \in [Batch -> Seq(Staging!Run)]
      BY <1>1, <1>4, <1>5, StagingRecordedFacts DEF Staging!IInv, Staging!ShapesFit
    <2> QED
      BY <1>1, <2>1, <2>2 DEF Staging!IInv, Staging!ShapesFit
  <1>7. \A q \in Process : Staging!NumberFits(q)'
    BY <1>1, <1>4, <1>5, StagingLeavingNumbers
  <1>8. ASSUME NEW q \in Process PROVE Staging!TablesFit(q)'
    <2>1. /\ sPc'[p] = "idle"
          /\ \A r \in Process \ {p} : sPc'[r] = sPc[r] /\ sJob'[r] = sJob[r]
      BY <1>1 DEF Staging!Leave, Staging!GoTo, Staging!IInv, Staging!ShapesFit
    <2>2. CASE q = p
      <3>1. DOMAIN << >> = {}
        OBVIOUS
      <3> QED
        BY <1>1, <2>1, <2>2, <3>1 DEF Staging!IInv, Staging!TablesFit
    <2>3. CASE q # p
      BY <1>1, <2>1, <2>3, StagingTablesStand
    <2> QED
      BY <2>2, <2>3
  <1>9. Staging!LastRunStands'
    <2>1. CASE runs' = runs
      BY <1>1, <2>1, StagingRunStands DEF Staging!IInv
    <2>2. CASE Recorded(p, run)
      <3>1. /\ \A b \in Batch : b # b0 => runs'[b] = runs[b]
            /\ runs'[b0] = Append(runs[b0], run)
            /\ DOMAIN runs'[b0] = 1 .. sJob[p].number
            /\ \A n \in DOMAIN runs[b0] : runs'[b0][n] = runs[b0][n]
            /\ runs'[b0][sJob[p].number] = run
        BY <1>0, <1>1, <1>5, <2>2, StagingRecordedFacts
      <3>2. DOMAIN runs[b0] = 1 .. Len(runs[b0]) /\ Len(runs[b0]) \in Nat
            /\ sJob[p].number = Len(runs[b0]) + 1
        BY <1>0, <1>2, <2>2, StagingLatestIsOne DEF Staging!IInv, Recorded, Staging!NextAttempt
      <3>3. \A n \in DOMAIN runs'[b0] : n \in DOMAIN runs[b0] \/ n = sJob[p].number
        BY <3>1, <3>2
      <3>4. Done(runs'[b0]) = Done(runs[b0])
        BY <3>1, <3>2, <3>3 DEF Done
      <3>5. Staging!Latest(b0)' = Staging!Latest(b0)
        BY <3>4, StagingLatestIsNewest
      <3>6. \A b \in Batch : b # b0 => Staging!Latest(b)' = Staging!Latest(b)
        BY <3>1, StagingLatestIsNewest
      <3>7. ASSUME NEW b \in Batch, Staging!Latest(b) # 0
            PROVE  runs'[b][Staging!Latest(b)] = runs[b][Staging!Latest(b)]
        BY <3>1, <3>7, StagingLatestIsOne DEF Staging!IInv
      <3>8. \A b \in Batch : Staging!Latest(b)' = Staging!Latest(b)
        BY <3>5, <3>6
      <3> QED
        BY <1>1, <3>7, <3>8 DEF Staging!IInv, Staging!LastRunStands
    <2> QED
      BY <1>4, <2>1, <2>2
  <1> QED
    BY <1>6, <1>7, <1>8, <1>9 DEF Staging!IInv

LEMMA StagingNextInv == Staging!StagingAssumption /\ Staging!IInv
                        /\ [Staging!Next]_(Staging!vars) => Staging!IInv'
  <1> SUFFICES ASSUME Staging!StagingAssumption, Staging!IInv,
                      [Staging!Next]_(Staging!vars) PROVE Staging!IInv'
    OBVIOUS
  <1>1. CASE Staging!Next
    <2>1. PICK p \in Process :
             \/ \E b \in Batch, d \in Source, selection \in TableSelection :
                   Staging!Stage(p, b, d, selection)
             \/ (\E t \in Staging!Table : Staging!CleanTable(p, t)) \/ Staging!InsertRun(p)
             \/ Staging!DropTable(p) \/ Staging!CreateTable(p) \/ Staging!ValidateTable(p)
             \/ Staging!Commit(p) \/ Staging!Fail(p) \/ Staging!RecordFailure(p)
                \/ Staging!Deadlock(p) \/ Staging!Crash(p)
      BY <1>1 DEF Staging!Next
    <2> QED
      BY <2>1, StagingStageInv, StagingCleanTableInv, StagingInsertRunInv, StagingDropTableInv,
         StagingCreateTableInv,
         StagingValidateTableInv, StagingCommitInv, StagingFailInv, StagingRecordFailureInv,
         StagingDeadlockInv, StagingCrashInv
  <1>2. CASE UNCHANGED Staging!vars
    <2>1. Staging!ShapesFit'
      BY <1>2 DEF Staging!vars, Staging!IInv, Staging!ShapesFit
    <2>2. \A q \in Process : Staging!NumberFits(q)'
      BY <1>2 DEF Staging!vars, Staging!IInv, Staging!NumberFits, Staging!NumberFree,
         Staging!Inserted, Staging!NextAttempt
    <2>3. \A q \in Process : Staging!TablesFit(q)'
      BY <1>2 DEF Staging!vars, Staging!IInv, Staging!TablesFit, Staging!Ahead, Staging!RowsOf
    <2>4. Staging!LastRunStands'
      BY <1>2, StagingRunStands DEF Staging!vars, Staging!IInv
    <2> QED
      BY <2>1, <2>2, <2>3, <2>4 DEF Staging!IInv
  <1> QED
    BY <1>1, <1>2

LEMMA StagingIInvTypes == Staging!StagingAssumption /\ Staging!IInv => Staging!TypeOK
  <1> SUFFICES ASSUME Staging!StagingAssumption, Staging!IInv PROVE Staging!TypeOK
    OBVIOUS
  <1>1. \A b \in Batch : \A n \in DOMAIN runs[b] : runs[b][n] \in Staging!Run
    BY StagingLatestIsOne DEF Staging!IInv
  <1>2. \A t \in Staging!Table : stored[t] \in Staging!Rows \cup {Staging!NoRows}
    BY DEF Staging!IInv, Staging!ShapesFit
  <1> QED
    BY <1>1, <1>2 DEF Staging!TypeOK, Staging!IInv, Staging!ShapesFit, Staging!NumberFits,
       Staging!TablesFit

\* Both parts of a behaviour of the import are behaviours of their modules.
THEOREM Composition == LegacySpec => Spec /\ Staging!Spec
  <1>1. LegacyInit => Init /\ Staging!Init
    BY DEF LegacyInit
  <1>2. [LegacyNext]_legacy => [Next]_vars /\ [Staging!Next]_(Staging!vars)
    BY DEF LegacyNext, StagingSteps, PipelineSteps, legacy, staging, Staging!vars
  <1> QED
    BY <1>1, <1>2, PTL DEF LegacySpec, Spec, Staging!Spec

\* The inductive invariant of the staging: the numbers of attempts fit, nobody else
\* of the batch has a run inserted, what a transaction has dropped it stages again
\* before it commits, and the tables of the last completed run stand.
THEOREM StagingInvariance == Staging!Spec => []Staging!IInv
  <1>1. Staging!Init => Staging!IInv
    BY LegacyAssumption, StagingInitInv
  <1>2. Staging!IInv /\ [Staging!Next]_(Staging!vars) => Staging!IInv'
    BY LegacyAssumption, StagingNextInv
  <1> QED
    BY <1>1, <1>2, PTL DEF Staging!Spec

\* Whatever fails, waits, deadlocks or is killed, the tables of the last completed
\* staging of a batch stand, and every process's tables are those of its run.
THEOREM CompletedRunStands == LegacySpec => []LastRunStands
  <1>1. Staging!IInv => LastRunStands
    BY LegacyAssumption, StagingIInvTypes DEF LastRunStands, Staging!IInv
  <1> QED
    BY <1>1, Composition, StagingInvariance, PTL
=============================================================================

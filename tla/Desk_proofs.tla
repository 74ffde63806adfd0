----------------------------- MODULE Desk_proofs -----------------------------
(***************************************************************************)
(* Proofs about the desk, for any number of sessions and any values of the *)
(* constants: about its approvals, eGUI submissions, customers and monthly *)
(* sales, each by its inductive invariant; the supplier orders by the      *)
(* theorem of SupplierOrders_proofs.  The desk's steps are those of its    *)
(* parts (Composition), so what is proved of a part holds of the desk.     *)
(***************************************************************************)
EXTENDS Desk, TLAPS

USE ApprovalAssumption, NoSessionAssumption

\* The rows that can be locked.
Rows == Request \cup {StockRow}

LEMMA InitInv == Init => IInv
  BY DEF Init, IInv, TypeOK, ApprovedIsExecuted, InStep, WritesOne, HoldsTheStock,
         Written, Unlocked, Status

\* What a session holds and is about to do is of no concern to a step that leaves
\* its locks alone; the stock only changes when the session does not have it.
LEMMA StaysInStep ==
  ASSUME NEW s \in Session, IInv,
         pc'[s] = pc[s], decision'[s] = decision[s], todo'[s] = todo[s],
         DOMAIN owner' = Rows,
         \A r \in Rows : owner'[r] = s <=> owner[r] = s,
         quantity' = quantity \/ owner[StockRow] # s
  PROVE  InStep(s)'
  <1>1. InStep(s) /\ DOMAIN owner = Rows
    BY DEF IInv, TypeOK, Rows
  <1>2. Written(s)' = Written(s)
    BY DEF Written, Rows
  <1>3. WritesOne(s)'
    BY <1>1, <1>2 DEF InStep, WritesOne
  <1>4. HoldsTheStock(s)'
    <2>1. CASE pc[s] = "commit" /\ decision[s] = "approved"
      BY <1>1, <1>2, <2>1 DEF InStep, HoldsTheStock, Fits, Rows
    <2>2. CASE ~(pc[s] = "commit" /\ decision[s] = "approved")
      BY <1>1, <2>2 DEF InStep, HoldsTheStock, Rows
    <2> QED
      BY <2>1, <2>2
  <1> QED
    BY <1>1, <1>2, <1>3, <1>4 DEF InStep

LEMMA CreateAdjustmentInv ==
  ASSUME NEW actor \in ActorType, NEW r \in Request, IInv, CreateAdjustment(actor, r)
  PROVE  IInv'
  <1>1. UNCHANGED <<due, owner, pc, decision, todo>> /\ status[r] = "none"
    BY DEF CreateAdjustment, session
  <1>2. \/ /\ status' = [status EXCEPT ![r] = "pending"]
           /\ UNCHANGED <<quantity, executed>>
        \/ /\ owner[StockRow] = NoSession /\ Fits(r)
           /\ quantity' = quantity + Change[r]
           /\ status' = [status EXCEPT ![r] = "made"]
           /\ executed' = [executed EXCEPT ![r] = 1]
    BY DEF CreateAdjustment
  <1>3. TypeOK'
    BY <1>1, <1>2 DEF IInv, TypeOK, Fits, Status
  <1>4. ApprovedIsExecuted'
    BY <1>1, <1>2 DEF IInv, TypeOK, ApprovedIsExecuted
  <1>5. \A s \in Session : InStep(s)'
    BY <1>1, <1>2, StaysInStep DEF IInv, TypeOK, Rows
  <1> QED
    BY <1>3, <1>4, <1>5 DEF IInv

LEMMA ExpireInv ==
  ASSUME NEW r \in Request, IInv, Expire(r)
  PROVE  IInv'
  <1>1. due' = due \cup {r} /\ UNCHANGED <<status, quantity, executed, owner, pc, decision, todo>>
    BY DEF Expire, session
  <1>2. TypeOK' /\ ApprovedIsExecuted'
    BY <1>1 DEF IInv, TypeOK, ApprovedIsExecuted
  <1>3. \A s \in Session : InStep(s)'
    BY <1>1, StaysInStep DEF IInv, TypeOK, Rows
  <1> QED
    BY <1>2, <1>3 DEF IInv

\* A resolver takes one request, a list may take several but approves none.
LEMMA WriteInv ==
  ASSUME NEW s \in Session, IInv, NEW rs \in SUBSET Request,
         NEW st \in {"approved", "rejected", "expired"},
         st = "approved" => \E r \in Request : rs = {r},
         pc[s] = "idle", Write(s, rs, st)
  PROVE  IInv'
  <1>1. /\ pc' = [pc EXCEPT ![s] = "update"]
        /\ decision' = [decision EXCEPT ![s] = st]
        /\ todo' = [todo EXCEPT ![s] = rs]
        /\ UNCHANGED <<status, due, quantity, executed, owner>>
    BY DEF Write
  <1>2. TypeOK' /\ ApprovedIsExecuted'
    BY <1>1 DEF IInv, TypeOK, ApprovedIsExecuted, Status
  <1>3. ASSUME NEW t \in Session, t # s PROVE InStep(t)'
    BY <1>1, <1>3, StaysInStep DEF IInv, TypeOK, Rows
  <1>4. InStep(s)'
    <2>1. /\ pc'[s] = "update" /\ decision'[s] = st /\ todo'[s] = rs
          /\ Written(s)' = {} /\ owner'[StockRow] # s
      BY <1>1 DEF IInv, TypeOK, InStep, HoldsTheStock, Written
    <2>2. WritesOne(s)' /\ HoldsTheStock(s)'
      BY <2>1 DEF WritesOne, HoldsTheStock
    <2> QED
      BY <2>1, <2>2 DEF InStep
  <1> QED
    BY <1>2, <1>3, <1>4 DEF IInv

LEMMA RequestsInv ==
  ASSUME NEW s \in Session, IInv,
         \/ \E r \in Request, st \in {"approved", "rejected"} : Resolve(s, r, st)
         \/ ListApprovals(s)
  PROVE  IInv'
  <1>1. ASSUME NEW r \in Request, NEW st \in {"approved", "rejected"}, Resolve(s, r, st)
        PROVE  IInv'
    BY <1>1, WriteInv DEF Resolve
  <1>2. CASE ListApprovals(s)
    <2> DEFINE lapsed == {r \in due : status[r] = "pending"}
    <2>1. lapsed \in SUBSET Request
      BY DEF IInv, TypeOK
    <2>2. pc[s] = "idle" /\ Write(s, lapsed, "expired")
      BY <1>2 DEF ListApprovals
    <2> HIDE DEF lapsed
    <2> QED
      BY <2>1, <2>2, WriteInv
  <1> QED
    BY <1>1, <1>2
-----------------------------------------------------------------------------
\* The end of a transaction leaves the others in step, unless it changes a stock it
\* did not have.
LEMMA CloseInStep ==
  ASSUME NEW s \in Session, IInv, Close(s), quantity' = quantity \/ owner[StockRow] = s
  PROVE  \A t \in Session : InStep(t)'
  <1> SUFFICES ASSUME NEW t \in Session PROVE InStep(t)'
    OBVIOUS
  <1>1. /\ DOMAIN owner' = Rows
        /\ \A r \in Rows : owner'[r] = IF owner[r] = s THEN NoSession ELSE owner[r]
    BY DEF IInv, TypeOK, Close, Release, Rows
  <1>2. CASE t = s
    <2>1. pc'[s] = "idle" /\ decision'[s] = "none" /\ todo'[s] = {}
      BY DEF IInv, TypeOK, Close
    <2>2. Written(s)' = {} /\ owner'[StockRow] # s
      BY <1>1 DEF Written, Rows
    <2> QED
      BY <1>2, <2>1, <2>2 DEF InStep, WritesOne, HoldsTheStock
  <1>3. CASE t # s
    BY <1>1, <1>3, StaysInStep DEF IInv, TypeOK, Close
  <1> QED
    BY <1>2, <1>3

LEMMA CloseTypes ==
  ASSUME NEW s \in Session, IInv, Close(s)
  PROVE  /\ owner' \in [Request \cup {StockRow} -> Session \cup {NoSession}]
         /\ pc' \in [Session -> {"idle", "update", "execute", "commit"}]
         /\ decision' \in [Session -> Status \ {"pending"}]
         /\ todo' \in [Session -> SUBSET Request]
  BY DEF IInv, TypeOK, Close, Release, Status

\* A transaction that is rolled back.
LEMMA RollbackInv ==
  ASSUME NEW s \in Session, IInv, Close(s), UNCHANGED <<status, due, quantity, executed>>
  PROVE  IInv'
  <1>1. TypeOK'
    BY CloseTypes DEF IInv, TypeOK
  <1>2. ApprovedIsExecuted'
    BY DEF IInv, ApprovedIsExecuted
  <1> QED
    BY <1>1, <1>2, CloseInStep DEF IInv

LEMMA UpdateInv ==
  ASSUME NEW s \in Session, IInv, Update(s)
  PROVE  IInv'
  <1>1. PICK r \in Request :
          /\ r \in todo[s] /\ Available(owner, s, r) /\ pc[s] = "update"
          /\ owner' = Acquire(owner, s, r)
          /\ todo' = [todo EXCEPT ![s] = @ \ {r}]
          /\ pc' = [pc EXCEPT ![s] = NextPc(s, todo'[s])]
          /\ UNCHANGED <<status, due, quantity, executed, decision>>
    BY DEF Update, Flushed
  <1>2. /\ todo'[s] = todo[s] \ {r} /\ pc'[s] = NextPc(s, todo'[s])
        /\ NextPc(s, todo'[s]) \in {"update", "execute", "commit"}
        /\ DOMAIN owner' = Rows /\ owner'[r] = s /\ r # StockRow
        /\ \A x \in Rows : x # r => owner'[x] = owner[x]
    BY <1>1 DEF IInv, TypeOK, NextPc, Acquire, Rows
  <1>3. TypeOK' /\ ApprovedIsExecuted'
    BY <1>1, <1>2 DEF IInv, TypeOK, ApprovedIsExecuted, Acquire
  <1>4. ASSUME NEW t \in Session, t # s PROVE InStep(t)'
    BY <1>1, <1>2, <1>4, StaysInStep DEF IInv, TypeOK, Rows, Available
  <1>5. InStep(s)'
    <2>1. InStep(s)
      BY DEF IInv
    <2>2. Written(s)' = Written(s) \cup {r}
      BY <1>2 DEF Written, Rows
    <2>3. /\ decision'[s] = decision[s] /\ decision[s] \in {"approved", "rejected", "expired"}
          /\ todo'[s] # {} => pc'[s] = "update"
          /\ todo'[s] = {} /\ decision[s] = "approved" => pc'[s] = "execute"
          /\ todo'[s] = {} /\ decision[s] # "approved" => pc'[s] = "commit"
      BY <1>1, <1>2, <2>1 DEF InStep, NextPc
    <2>4. WritesOne(s)'
      BY <1>1, <1>2, <2>1, <2>2, <2>3 DEF InStep, WritesOne
    <2>5. HoldsTheStock(s)'
      BY <1>1, <1>2, <2>1, <2>3 DEF InStep, HoldsTheStock, Rows
    <2> QED
      BY <2>3, <2>4, <2>5 DEF InStep
  <1> QED
    BY <1>3, <1>4, <1>5 DEF IInv

LEMMA ExecuteInv ==
  ASSUME NEW s \in Session, IInv, Execute(s)
  PROVE  IInv'
  <1>1. CASE Close(s) /\ UNCHANGED <<status, due, quantity, executed>>
    BY <1>1, RollbackInv
  <1>2. CASE /\ \A r \in Written(s) : Fits(r)
             /\ owner' = Acquire(owner, s, StockRow)
             /\ pc' = [pc EXCEPT ![s] = "commit"]
             /\ UNCHANGED <<status, due, quantity, executed, decision, todo>>
    <2>1. pc[s] = "execute" /\ Available(owner, s, StockRow) /\ InStep(s)
      BY DEF Execute, IInv
    <2>2. /\ DOMAIN owner' = Rows /\ owner'[StockRow] = s
          /\ \A x \in Request : owner'[x] = owner[x]
      BY <1>2 DEF IInv, TypeOK, Acquire, Rows
    <2>3. TypeOK' /\ ApprovedIsExecuted'
      BY <1>2 DEF IInv, TypeOK, ApprovedIsExecuted, Acquire
    <2>4. ASSUME NEW t \in Session, t # s PROVE InStep(t)'
      BY <1>2, <2>1, <2>2, <2>4, StaysInStep DEF IInv, TypeOK, Rows, Available
    <2>5. InStep(s)'
      <3>1. Written(s)' = Written(s)
        BY <2>2 DEF Written
      <3>2. pc'[s] = "commit" /\ decision[s] = "approved"
        BY <1>2, <2>1 DEF InStep, IInv, TypeOK
      <3>3. WritesOne(s)'
        BY <1>2, <2>1, <3>1 DEF InStep, WritesOne
      <3>4. HoldsTheStock(s)'
        BY <1>2, <2>2, <3>1, <3>2 DEF HoldsTheStock, Fits
      <3> QED
        BY <1>2, <2>1, <3>2, <3>3, <3>4 DEF InStep
    <2> QED
      BY <2>3, <2>4, <2>5 DEF IInv
  <1> QED
    BY <1>1, <1>2 DEF Execute

LEMMA CommitInv ==
  ASSUME NEW s \in Session, IInv, Commit(s)
  PROVE  IInv'
  <1>1. /\ pc[s] = "commit" /\ Close(s) /\ due' = due
        /\ status' = [r \in Request |-> IF owner[r] = s THEN decision[s] ELSE status[r]]
    BY DEF Commit
  <1>2. /\ decision[s] \in {"approved", "rejected", "expired"}
        /\ owner[StockRow] = s <=> decision[s] = "approved"
    BY <1>1 DEF IInv, InStep, HoldsTheStock
  <1>3. CASE decision[s] = "approved"
    <2>1. PICK r \in Written(s) : /\ quantity' = quantity + Change[r]
                                  /\ executed' = [executed EXCEPT ![r] = @ + 1]
      BY <1>2, <1>3 DEF Commit
    <2>2. r \in Request /\ owner[r] = s /\ Fits(r)
      BY <1>1, <1>3 DEF Written, IInv, InStep, HoldsTheStock
    <2>3. \A x \in Request : owner[x] = s <=> x = r
      BY <1>3, <2>2 DEF IInv, InStep, WritesOne, Written
    <2>4. quantity' \in 0 .. MaxInt /\ executed' \in [Request -> Nat]
          /\ status' \in [Request -> Status]
      BY <1>1, <1>3, <2>1, <2>2 DEF Fits, IInv, TypeOK, Status
    <2>5. TypeOK'
      BY <1>1, <2>4, CloseTypes DEF IInv, TypeOK
    <2>6. ApprovedIsExecuted'
      BY <1>1, <1>3, <2>1, <2>2, <2>3 DEF IInv, TypeOK, ApprovedIsExecuted
    <2> QED
      BY <1>1, <1>2, <1>3, <2>5, <2>6, CloseInStep DEF IInv
  <1>4. CASE decision[s] # "approved"
    <2>1. UNCHANGED <<quantity, executed>>
      BY <1>2, <1>4 DEF Commit
    <2>2. status' \in [Request -> Status]
      BY <1>1, <1>2 DEF IInv, TypeOK, Status
    <2>3. TypeOK'
      BY <1>1, <2>1, <2>2, CloseTypes DEF IInv, TypeOK
    <2>4. ApprovedIsExecuted'
      BY <1>1, <1>2, <1>4, <2>1 DEF IInv, TypeOK, ApprovedIsExecuted
    <2> QED
      BY <1>1, <2>1, <2>3, <2>4, CloseInStep DEF IInv
  <1> QED
    BY <1>3, <1>4

LEMMA NextInv == IInv /\ [Next]_vars => IInv'
  <1> SUFFICES ASSUME IInv, [Next]_vars PROVE IInv'
    OBVIOUS
  <1>1. CASE \E r \in Request : Expire(r) \/ \E actor \in ActorType : CreateAdjustment(actor, r)
    BY <1>1, ExpireInv, CreateAdjustmentInv
  <1>2. ASSUME NEW s \in Session,
               \/ \E r \in Request, st \in {"approved", "rejected"} : Resolve(s, r, st)
               \/ ListApprovals(s)
        PROVE  IInv'
    BY <1>2, RequestsInv
  <1>3. ASSUME NEW s \in Session, Statement(s) PROVE IInv'
    BY <1>3, UpdateInv, ExecuteInv, CommitInv DEF Statement
  <1>4. ASSUME NEW s \in Session, Abort(s) PROVE IInv'
    BY <1>4, RollbackInv DEF Abort
  <1>5. CASE UNCHANGED vars
    BY <1>5 DEF vars, session, IInv, TypeOK, ApprovedIsExecuted, InStep, WritesOne,
                HoldsTheStock, Written, Fits
  <1> QED
    BY <1>1, <1>2, <1>3, <1>4, <1>5 DEF Next
-----------------------------------------------------------------------------
THEOREM Invariance == Spec => []IInv
  BY InitInv, NextInv, PTL DEF Spec

\* Type correctness; with it, no approval takes more stock than there is, although
\* the stock may have changed since it was asked for.
THEOREM TypeCorrect == Spec => []TypeOK
  <1>1. IInv => TypeOK
    BY DEF IInv
  <1> QED
    BY <1>1, Invariance, PTL

\* A request that is approved has been executed, and one that is pending has not.
THEOREM Executed == Spec => []ApprovedIsExecuted
  <1>1. IInv => ApprovedIsExecuted
    BY DEF IInv
  <1> QED
    BY <1>1, Invariance, PTL

\* Nothing is executed but by the step that approves it, unless a person asks or the
\* change is small.
THEOREM OnlyOnApproval == Spec => ExecutesOnApproval
  <1> DEFINE Approves ==
               \A r \in Request : executed'[r] # executed[r] =>
                  \/ status'[r] = "approved"
                  \/ /\ status[r] = "none"
                     /\ "user" \in ActorType \/ Change[r] \in -Threshold .. Threshold
  <1>1. ASSUME IInv, [Next]_vars PROVE Approves \/ UNCHANGED vars
    <2>1. ASSUME NEW actor \in ActorType, NEW x \in Request, CreateAdjustment(actor, x)
          PROVE  Approves
      BY <1>1, <2>1 DEF CreateAdjustment, NeedsApproval, IInv, TypeOK
    <2>2. ASSUME NEW s \in Session, Commit(s) PROVE Approves
      <3>1. CASE owner[StockRow] # s
        BY <2>2, <3>1 DEF Commit
      <3>2. CASE owner[StockRow] = s
        <4>1. decision[s] = "approved"
          BY <1>1, <3>2 DEF IInv, InStep, HoldsTheStock
        <4>2. PICK r \in Written(s) : executed' = [executed EXCEPT ![r] = @ + 1]
          BY <2>2, <3>2 DEF Commit
        <4>3. status'[r] = "approved"
          BY <2>2, <4>1 DEF Commit, Written
        <4> QED
          BY <1>1, <4>2, <4>3 DEF IInv, TypeOK
      <3> QED
        BY <3>1, <3>2
    <2>3. CASE \/ \E r \in Request : Expire(r)
               \/ \E s \in Session :
                     \/ \E r \in Request, st \in {"approved", "rejected"} : Resolve(s, r, st)
                     \/ ListApprovals(s) \/ Update(s) \/ Execute(s) \/ Abort(s)
      <3>1. executed' = executed
        BY <2>3 DEF Expire, Resolve, ListApprovals, Write, Update, Execute, Abort
      <3> QED
        BY <3>1
    <2> QED
      BY <1>1, <2>1, <2>2, <2>3 DEF Next, Statement
  <1>2. IInv /\ [Next]_vars => [Approves]_vars
    BY <1>1
  <1> QED
    BY <1>2, Invariance, PTL DEF Spec, ExecutesOnApproval
-----------------------------------------------------------------------------
(* The eGUI submissions *)

\* A row, by its columns.
LEMMA EguiColumns ==
  ASSUME NEW r
  PROVE  /\ r \in Egui!Submission => /\ r.status \in Egui!Status /\ r.retries \in Nat
                                /\ r.reference \in BOOLEAN
                                /\ DOMAIN r = {"status", "retries", "reference"} /\ r # Egui!NoRow
         /\ r = Egui!NoRow => r.status = "none" /\ ~r.reference
                         /\ DOMAIN r = {"status", "retries", "reference"}
  BY DEF Egui!Submission, Egui!NoRow, Egui!Status

\* What a refresh makes of the row it has loaded.
LEMMA EguiAdvancedFacts ==
  ASSUME NEW r \in Egui!Submission, NEW new, new = Egui!Advanced(r)
  PROVE  /\ new \in Egui!Submission
         /\ r.reference => new.reference
         /\ new.status = r.status => new = r
         /\ new.status # r.status =>
               /\ new.status = "ACKED" => new.reference
               /\ new.status = "RETRYING" => new.retries \in 1 .. 2 /\ new.retries # r.retries
               /\ new.retries # r.retries => new.status = "RETRYING"
  <1>1. /\ r.status \in Egui!Status /\ r.retries \in Nat /\ r.reference \in BOOLEAN
    BY EguiColumns
  <1>2. PICK next : next = Egui!NextStatus(r)
    OBVIOUS
  <1>3. CASE <<r.status, next>> \notin Egui!Allowed
    <2>1. new = r
      BY <1>2, <1>3 DEF Egui!Advanced
    <2> QED
      BY <2>1
  <1>4. CASE <<r.status, next>> \in Egui!Allowed
    <2>1. new = [status |-> next,
                 retries |-> IF next = "RETRYING" THEN r.retries + 1 ELSE r.retries,
                 reference |-> r.reference \/ next = "ACKED"]
      BY <1>2, <1>4 DEF Egui!Advanced
    <2>2. next \in Egui!Status /\ next # r.status
      BY <1>4 DEF Egui!Allowed, Egui!Status
    <2>3. PICK n, b : /\ n = (IF next = "RETRYING" THEN r.retries + 1 ELSE r.retries)
                      /\ b = (r.reference \/ next = "ACKED")
      OBVIOUS
    <2>4. n \in Nat /\ b \in BOOLEAN /\ (r.reference => b) /\ (next = "ACKED" => b)
      <3>1. n \in Nat
        BY <1>1, <2>3
      <3>2. b \in BOOLEAN
        BY <2>3
      <3>3. (r.reference => b) /\ (next = "ACKED" => b)
        BY <2>3, Zenon
      <3> QED
        BY <3>1, <3>2, <3>3
    <2>5. new = [status |-> next, retries |-> n, reference |-> b]
      BY <2>1, <2>3, Zenon
    <2>6. new.status = next /\ new.retries = n /\ new.reference = b
      BY <2>5
    <2>7. next = "RETRYING" => r.retries \in 0 .. 1
      BY <1>1, <1>2, <2>2 DEF Egui!NextStatus, Egui!Status
    <2>8. next = "RETRYING" => n \in 1 .. 2 /\ n # r.retries
      BY <1>1, <2>3, <2>7
    <2>9. n # r.retries => next = "RETRYING"
      BY <2>3
    <2>10. new \in Egui!Submission
      BY <2>2, <2>4, <2>5 DEF Egui!Submission
    <2>11. r.reference => new.reference
      BY <2>4, <2>6, Zenon
    <2>12. new.status = "ACKED" => new.reference
      BY <2>4, <2>6, Zenon
    <2>13. /\ new.status = "RETRYING" => new.retries \in 1 .. 2 /\ new.retries # r.retries
           /\ new.retries # r.retries => new.status = "RETRYING"
      BY <2>6, <2>8, <2>9
    <2> QED
      BY <2>2, <2>6, <2>10, <2>11, <2>12, <2>13, Zenon
  <1> QED
    BY <1>3, <1>4

\* An UPDATE of the columns that differ.
LEMMA EguiOverwriteFacts ==
  ASSUME NEW current \in Egui!Submission, NEW old \in Egui!Submission, NEW new \in Egui!Submission,
         NEW r, r = Egui!Overwrite(current, old, new)
  PROVE  /\ r \in Egui!Submission
         /\ r.status = IF new.status = old.status THEN current.status ELSE new.status
         /\ r.retries = IF new.retries = old.retries THEN current.retries ELSE new.retries
         /\ r.reference = IF new.reference = old.reference THEN current.reference ELSE new.reference
  <1>1. DOMAIN current = {"status", "retries", "reference"}
    BY EguiColumns
  <1>2. r = [c \in {"status", "retries", "reference"} |->
                IF new[c] = old[c] THEN current[c] ELSE new[c]]
    BY <1>1 DEF Egui!Overwrite
  <1>3. /\ r.status = IF new.status = old.status THEN current.status ELSE new.status
        /\ r.retries = IF new.retries = old.retries THEN current.retries ELSE new.retries
        /\ r.reference = IF new.reference = old.reference THEN current.reference ELSE new.reference
    BY <1>2
  <1>4. r = [status |-> r.status, retries |-> r.retries, reference |-> r.reference]
    BY <1>2
  <1>5. r.status \in Egui!Status /\ r.retries \in Nat /\ r.reference \in BOOLEAN
    BY <1>3, EguiColumns
  <1> QED
    BY <1>3, <1>4, <1>5 DEF Egui!Submission

\* What a refresh writes is sound, and keeps the reference of the row.
LEMMA EguiWritesSound ==
  ASSUME NEW current \in Egui!Submission, Egui!Sound(current), NEW old \in Egui!Submission,
         old.reference => current.reference,
         NEW r, r = Egui!Overwrite(current, old, Egui!Advanced(old))
  PROVE  r \in Egui!Submission /\ Egui!Sound(r) /\ (current.reference => r.reference)
  <1>1. PICK new : new = Egui!Advanced(old)
    OBVIOUS
  <1>2. /\ new \in Egui!Submission
        /\ old.reference => new.reference
        /\ new.status = old.status => new = old
        /\ new.status # old.status =>
              /\ new.status = "ACKED" => new.reference
              /\ new.status = "RETRYING" => new.retries \in 1 .. 2 /\ new.retries # old.retries
              /\ new.retries # old.retries => new.status = "RETRYING"
    BY <1>1, EguiAdvancedFacts
  <1>3. /\ r \in Egui!Submission
        /\ r.status = IF new.status = old.status THEN current.status ELSE new.status
        /\ r.retries = IF new.retries = old.retries THEN current.retries ELSE new.retries
        /\ r.reference = IF new.reference = old.reference THEN current.reference ELSE new.reference
    BY <1>1, <1>2, EguiOverwriteFacts
  <1>4. /\ new.reference \in BOOLEAN /\ old.reference \in BOOLEAN /\ current.reference \in BOOLEAN
    BY <1>2, EguiColumns
  <1>5. current.reference => r.reference
    BY <1>2, <1>3, <1>4
  <1>6. r.status = "ACKED" => r.reference
    BY <1>2, <1>3, <1>4, <1>5 DEF Egui!Sound
  <1>7. r.status = "RETRYING" => r.retries \in 1 .. 2
    BY <1>2, <1>3 DEF Egui!Sound
  <1> QED
    BY <1>3, <1>5, <1>6, <1>7 DEF Egui!Sound
-----------------------------------------------------------------------------
LEMMA EguiInitInv == Egui!EguiAssumption /\ Egui!Init => Egui!IInv
  <1> SUFFICES ASSUME Egui!EguiAssumption, Egui!Init PROVE Egui!IInv
    OBVIOUS
  <1>1. row \in Egui!Submission \cup {Egui!NoRow} /\ Egui!Sound(row)
    <2>1. CASE row = Egui!NoRow
      BY <2>1 DEF Egui!Sound, Egui!NoRow
    <2>2. CASE \E st \in External, n \in 0 .. 3 :
                  row = [status |-> st, retries |-> n, reference |-> FALSE]
      BY <2>2 DEF Egui!EguiAssumption, Egui!Sound, Egui!Submission
    <2> QED
      BY <2>1, <2>2 DEF Egui!Init
  <1>2. Egui!TypeOK
    BY <1>1 DEF Egui!Init, Egui!TypeOK, Egui!Unlocked
  <1> QED
    BY <1>1, <1>2, NoSessionAssumption DEF Egui!Init, Egui!IInv, Egui!InStep, Egui!Unlocked

\* A session whose row and lock another one does not touch.
LEMMA EguiStaysInStep ==
  ASSUME Egui!IInv, NEW q \in Session, ePc'[q] = ePc[q], loaded'[q] = loaded[q],
         written'[q] = written[q],
         eOwner'[TheRow] = q <=> eOwner[TheRow] = q,
         \/ row' = row
         \/ /\ eOwner[TheRow] # q /\ row' \in Egui!Submission
            /\ row.reference => row'.reference
  PROVE  Egui!InStep(q)'
  <1>1. row' = row \/ row' # Egui!NoRow
    BY EguiColumns
  <1> QED
    BY <1>1 DEF Egui!IInv, Egui!InStep

\* The end of a request, which may have committed the row it had locked.
LEMMA EguiCloseInv ==
  ASSUME Egui!IInv, NEW s \in Session, Egui!Close(s),
         \/ row' = row
         \/ /\ eOwner[TheRow] = s /\ row' \in Egui!Submission /\ Egui!Sound(row')
            /\ row.reference => row'.reference
  PROVE  Egui!IInv'
  <1>1. Egui!TypeOK
    BY DEF Egui!IInv
  <1>2. /\ ePc' = [ePc EXCEPT ![s] = "idle"] /\ eKind' = [eKind EXCEPT ![s] = "none"]
        /\ loaded' = [loaded EXCEPT ![s] = Egui!NoRow] /\ written' = [written EXCEPT ![s] = Egui!NoRow]
        /\ eOwner' \in [{TheRow} -> Session \cup {NoSession}]
        /\ eOwner'[TheRow] = IF eOwner[TheRow] = s THEN NoSession ELSE eOwner[TheRow]
    BY <1>1 DEF Egui!Close, Egui!Release, Egui!TypeOK
  <1>3. Egui!TypeOK'
    BY <1>1, <1>2 DEF Egui!TypeOK
  <1>4. Egui!Sound(row)'
    BY DEF Egui!IInv, Egui!Sound
  <1>5. ASSUME NEW q \in Session PROVE Egui!InStep(q)'
    <2>1. CASE q = s
      BY <1>1, <1>2, <2>1, NoSessionAssumption DEF Egui!TypeOK, Egui!InStep
    <2>2. CASE q # s
      <3>1. ePc'[q] = ePc[q] /\ loaded'[q] = loaded[q] /\ written'[q] = written[q]
            /\ (eOwner'[TheRow] = q <=> eOwner[TheRow] = q)
        BY <1>1, <1>2, <2>2, NoSessionAssumption DEF Egui!TypeOK
      <3> QED
        BY <2>2, <3>1, EguiStaysInStep
    <2> QED
      BY <2>1, <2>2
  <1> QED
    BY <1>3, <1>4, <1>5 DEF Egui!IInv

\* A step that commits nothing.
LEMMA EguiStepInv ==
  ASSUME Egui!IInv, NEW s \in Session, row' = row,
         eOwner' \in [{TheRow} -> Session \cup {NoSession}],
         eOwner'[TheRow] = eOwner[TheRow]
            \/ (eOwner'[TheRow] = s /\ eOwner[TheRow] = NoSession)
            \/ (eOwner'[TheRow] = NoSession /\ eOwner[TheRow] = s),
         NEW label \in {"select", "insert", "update", "commit", "lost"},
         ePc' = [ePc EXCEPT ![s] = label],
         eKind' \in [Session -> {"none", "read", "refresh"}],
         NEW l \in Egui!Submission \cup {Egui!NoRow}, loaded' = [loaded EXCEPT ![s] = l],
         NEW w \in Egui!Submission \cup {Egui!NoRow}, written' = [written EXCEPT ![s] = w],
         Egui!InStep(s)'
  PROVE  Egui!IInv'
  <1>1. Egui!TypeOK /\ Egui!TypeOK'
    BY DEF Egui!IInv, Egui!TypeOK
  <1>2. Egui!Sound(row)'
    BY DEF Egui!IInv, Egui!Sound
  <1>3. ASSUME NEW q \in Session PROVE Egui!InStep(q)'
    <2>1. CASE q # s
      <3>1. ePc'[q] = ePc[q] /\ loaded'[q] = loaded[q] /\ written'[q] = written[q]
            /\ (eOwner'[TheRow] = q <=> eOwner[TheRow] = q)
        BY <1>1, <2>1, NoSessionAssumption DEF Egui!TypeOK
      <3> QED
        BY <3>1, EguiStaysInStep
    <2> QED
      BY <2>1
  <1> QED
    BY <1>1, <1>2, <1>3 DEF Egui!IInv

LEMMA EguiAcquireFacts ==
  ASSUME Egui!TypeOK, NEW s \in Session, Egui!Available(eOwner, s, TheRow),
         eOwner' = Egui!Acquire(eOwner, s, TheRow)
  PROVE  /\ eOwner' \in [{TheRow} -> Session \cup {NoSession}] /\ eOwner'[TheRow] = s
         /\ eOwner[TheRow] \in {NoSession, s}
  BY DEF Egui!TypeOK, Egui!Available, Egui!Acquire

LEMMA EguiBeginInv ==
  ASSUME Egui!IInv, NEW s \in Session, NEW k \in {"read", "refresh"}, Egui!Begin(s, k)
  PROVE  Egui!IInv'
  <1>1. /\ Egui!TypeOK /\ ePc[s] = "idle" /\ ePc' = [ePc EXCEPT ![s] = "select"]
        /\ eKind' = [eKind EXCEPT ![s] = k]
        /\ row' = row /\ eOwner' = eOwner /\ loaded' = loaded /\ written' = written
    BY DEF Egui!IInv, Egui!Begin, Egui!GoTo
  <1>2. /\ eOwner' \in [{TheRow} -> Session \cup {NoSession}]
        /\ eKind' \in [Session -> {"none", "read", "refresh"}]
        /\ loaded[s] \in Egui!Submission \cup {Egui!NoRow} /\ loaded' = [loaded EXCEPT ![s] = loaded[s]]
        /\ written[s] \in Egui!Submission \cup {Egui!NoRow}
           /\ written' = [written EXCEPT ![s] = written[s]]
        /\ ePc'[s] = "select"
    BY <1>1 DEF Egui!TypeOK
  <1>3. Egui!InStep(s)'
    BY <1>1, <1>2 DEF Egui!IInv, Egui!InStep
  <1> QED
    BY <1>1, <1>2, <1>3, EguiStepInv

LEMMA EguiSelectInv ==
  ASSUME Egui!IInv, NEW s \in Session, Egui!Select(s)
  PROVE  Egui!IInv'
  <1>1. Egui!TypeOK /\ ePc[s] = "select" /\ eOwner[TheRow] # s
    BY DEF Egui!IInv, Egui!InStep, Egui!Select
  <1>2. CASE Egui!Close(s) /\ UNCHANGED row
    BY <1>2, EguiCloseInv
  <1>3. CASE /\ Egui!GoTo(s, "insert") /\ UNCHANGED <<row, eOwner, eKind, loaded, written>>
    <2>1. /\ eOwner' \in [{TheRow} -> Session \cup {NoSession}]
          /\ eKind' \in [Session -> {"none", "read", "refresh"}]
          /\ loaded[s] \in Egui!Submission \cup {Egui!NoRow}
             /\ loaded' = [loaded EXCEPT ![s] = loaded[s]]
          /\ written[s] \in Egui!Submission \cup {Egui!NoRow}
             /\ written' = [written EXCEPT ![s] = written[s]]
          /\ ePc' = [ePc EXCEPT ![s] = "insert"] /\ ePc'[s] = "insert"
      BY <1>1, <1>3 DEF Egui!TypeOK, Egui!GoTo
    <2>2. Egui!InStep(s)'
      BY <1>1, <1>3, <2>1 DEF Egui!InStep
    <2> QED
      BY <1>3, <2>1, <2>2, EguiStepInv
  <1>4. CASE /\ row # Egui!NoRow /\ loaded' = [loaded EXCEPT ![s] = row]
             /\ Egui!GoTo(s, "update") /\ UNCHANGED <<row, eOwner, eKind, written>>
    <2>1. /\ eOwner' \in [{TheRow} -> Session \cup {NoSession}]
          /\ eKind' \in [Session -> {"none", "read", "refresh"}]
          /\ row \in Egui!Submission /\ loaded'[s] = row
          /\ written[s] \in Egui!Submission \cup {Egui!NoRow}
             /\ written' = [written EXCEPT ![s] = written[s]]
          /\ ePc' = [ePc EXCEPT ![s] = "update"] /\ ePc'[s] = "update"
      BY <1>1, <1>4 DEF Egui!TypeOK, Egui!GoTo
    <2>2. Egui!InStep(s)'
      BY <1>1, <1>4, <2>1 DEF Egui!InStep
    <2> QED
      BY <1>4, <2>1, <2>2, EguiStepInv
  <1> QED
    BY <1>2, <1>3, <1>4 DEF Egui!Select

LEMMA EguiInsertInv ==
  ASSUME Egui!IInv, NEW s \in Session, Egui!Insert(s)
  PROVE  Egui!IInv'
  <1>1. Egui!TypeOK /\ ePc[s] = "insert" /\ eOwner[TheRow] # s /\ Egui!Available(eOwner, s, TheRow)
    BY DEF Egui!IInv, Egui!InStep, Egui!Insert
  <1>2. CASE Egui!GoTo(s, Egui!Conflict) /\ UNCHANGED <<row, eOwner, eKind, loaded, written>>
    <2>1. /\ eOwner' \in [{TheRow} -> Session \cup {NoSession}]
          /\ eKind' \in [Session -> {"none", "read", "refresh"}]
          /\ loaded[s] \in Egui!Submission \cup {Egui!NoRow}
             /\ loaded' = [loaded EXCEPT ![s] = loaded[s]]
          /\ written[s] \in Egui!Submission \cup {Egui!NoRow}
             /\ written' = [written EXCEPT ![s] = written[s]]
          /\ ePc' = [ePc EXCEPT ![s] = "select"] /\ ePc'[s] = "select"
      BY <1>1, <1>2 DEF Egui!TypeOK, Egui!GoTo, Egui!Conflict
    <2>2. Egui!InStep(s)'
      BY <1>1, <1>2, <2>1 DEF Egui!InStep
    <2> QED
      BY <1>2, <2>1, <2>2, EguiStepInv
  <1> DEFINE new == [status |-> "PENDING", retries |-> 0, reference |-> FALSE]
  <1>3. CASE /\ row = Egui!NoRow /\ eOwner' = Egui!Acquire(eOwner, s, TheRow)
             /\ loaded' = [loaded EXCEPT ![s] = new]
             /\ written' = [written EXCEPT ![s] = loaded'[s]]
             /\ Egui!GoTo(s, IF eKind[s] = "refresh" THEN "update" ELSE "commit")
             /\ UNCHANGED <<row, eKind>>
    <2>1. new \in Egui!Submission /\ Egui!Sound(new)
      BY DEF Egui!Submission, Egui!Status, Egui!Sound
    <2> HIDE DEF new
    <2>2. /\ eOwner' \in [{TheRow} -> Session \cup {NoSession}] /\ eOwner'[TheRow] = s
          /\ eOwner[TheRow] \in {NoSession, s}
      BY <1>1, <1>3, EguiAcquireFacts
    <2>3. loaded'[s] = new /\ written' = [written EXCEPT ![s] = new] /\ written'[s] = new
          /\ eKind' \in [Session -> {"none", "read", "refresh"}]
      BY <1>1, <1>3 DEF Egui!TypeOK
    <2>4. PICK label \in {"update", "commit"} : ePc' = [ePc EXCEPT ![s] = label]
      BY <1>3 DEF Egui!GoTo
    <2>5. ePc'[s] = label /\ ~row'.reference /\ row' = Egui!NoRow
      BY <1>1, <1>3, <2>4, EguiColumns DEF Egui!TypeOK
    <2>6. Egui!InStep(s)'
      BY <2>1, <2>2, <2>3, <2>5 DEF Egui!InStep
    <2> QED
      BY <1>1, <1>3, <2>1, <2>2, <2>3, <2>4, <2>6, EguiStepInv
  <1> QED
    BY <1>2, <1>3 DEF Egui!Insert

LEMMA EguiUpdateInv ==
  ASSUME Egui!IInv, NEW s \in Session, Egui!Update(s)
  PROVE  Egui!IInv'
  <1>1. /\ Egui!TypeOK /\ ePc[s] = "update" /\ Egui!InStep(s) /\ Egui!Sound(row)
        /\ Egui!Available(eOwner, s, TheRow)
        /\ eOwner' = Egui!Acquire(eOwner, s, TheRow) /\ ePc' = [ePc EXCEPT ![s] = "commit"]
        /\ row' = row /\ eKind' = eKind /\ loaded' = loaded
    BY DEF Egui!IInv, Egui!Update, Egui!GoTo
  <1>2. PICK current, r :
           /\ current = IF eOwner[TheRow] = s THEN written[s] ELSE row
           /\ r = Egui!Overwrite(current, loaded[s], Egui!Advanced(loaded[s]))
           /\ written' = [written EXCEPT ![s] = r]
    BY DEF Egui!Update
  <1>3. /\ loaded[s] \in Egui!Submission /\ current \in Egui!Submission /\ Egui!Sound(current)
        /\ loaded[s].reference => current.reference
        /\ row.reference => current.reference
    <2>1. CASE eOwner[TheRow] = s
      BY <1>1, <1>2, <2>1, EguiColumns DEF Egui!InStep
    <2>2. CASE eOwner[TheRow] # s
      BY <1>1, <1>2, <2>2 DEF Egui!InStep, Egui!TypeOK
    <2> QED
      BY <2>1, <2>2
  <1>4. r \in Egui!Submission /\ Egui!Sound(r) /\ (current.reference => r.reference)
    BY <1>2, <1>3, EguiWritesSound
  <1>5. /\ eOwner' \in [{TheRow} -> Session \cup {NoSession}] /\ eOwner'[TheRow] = s
        /\ eOwner[TheRow] \in {NoSession, s}
    BY <1>1, EguiAcquireFacts
  <1>6. /\ ePc'[s] = "commit" /\ written'[s] = r /\ loaded' = [loaded EXCEPT ![s] = loaded[s]]
        /\ eKind' \in [Session -> {"none", "read", "refresh"}]
    BY <1>1, <1>2 DEF Egui!TypeOK
  <1>7. Egui!InStep(s)'
    BY <1>1, <1>3, <1>4, <1>5, <1>6 DEF Egui!InStep
  <1> QED
    BY <1>1, <1>2, <1>3, <1>4, <1>5, <1>6, <1>7, EguiStepInv

LEMMA EguiAbortInv ==
  ASSUME Egui!IInv, NEW s \in Session, Egui!Abort(s)
  PROVE  Egui!IInv'
  <1>1. /\ Egui!TypeOK /\ ePc' = [ePc EXCEPT ![s] = "lost"] /\ eOwner' = Egui!Release(eOwner, s)
        /\ row' = row /\ eKind' = eKind /\ loaded' = loaded /\ written' = written
    BY DEF Egui!IInv, Egui!Abort, Egui!GoTo
  <1>2. /\ eOwner' \in [{TheRow} -> Session \cup {NoSession}]
        /\ eOwner'[TheRow] = IF eOwner[TheRow] = s THEN NoSession ELSE eOwner[TheRow]
        /\ eKind' \in [Session -> {"none", "read", "refresh"}]
        /\ loaded[s] \in Egui!Submission \cup {Egui!NoRow} /\ loaded' = [loaded EXCEPT ![s] = loaded[s]]
        /\ written[s] \in Egui!Submission \cup {Egui!NoRow}
           /\ written' = [written EXCEPT ![s] = written[s]]
        /\ ePc'[s] = "lost"
    BY <1>1 DEF Egui!TypeOK, Egui!Release
  <1>3. Egui!InStep(s)'
    BY <1>1, <1>2, NoSessionAssumption DEF Egui!InStep
  <1> QED
    BY <1>1, <1>2, <1>3, EguiStepInv

LEMMA EguiNextInv ==
  ASSUME Egui!IInv, [Egui!Next]_(Egui!vars)
  PROVE  Egui!IInv'
  <1>1. CASE UNCHANGED Egui!vars
    BY <1>1 DEF Egui!vars, Egui!session, Egui!IInv, Egui!TypeOK, Egui!Sound, Egui!InStep
  <1>2. ASSUME NEW s \in Session, Egui!Commit(s) PROVE Egui!IInv'
    <2>1. /\ Egui!Close(s) /\ eOwner[TheRow] = s /\ row' = written[s]
          /\ written[s] \in Egui!Submission /\ Egui!Sound(written[s])
          /\ row.reference => written[s].reference
      BY <1>2 DEF Egui!Commit, Egui!IInv, Egui!InStep
    <2> QED
      BY <2>1, EguiCloseInv
  <1>3. ASSUME NEW s \in Session, Egui!Lost(s) PROVE Egui!IInv'
    BY <1>3, EguiCloseInv DEF Egui!Lost
  <1> QED
    BY <1>1, <1>2, <1>3, EguiBeginInv, EguiSelectInv, EguiInsertInv, EguiUpdateInv,
       EguiAbortInv DEF Egui!Next, Egui!Statement

LEMMA EguiIInvAcknowledges == Egui!IInv => Egui!TypeOK /\ Egui!AcknowledgedWithReference
  BY DEF Egui!IInv, Egui!Sound, Egui!AcknowledgedWithReference
-----------------------------------------------------------------------------
(* The customers *)

\* What a step of another session leaves alone.
ClientStays(q) ==
    /\ cPc'[q] = cPc[q] /\ cKind'[q] = cKind[q] /\ cId'[q] = cId[q] /\ cNumber'[q] = cNumber[q]
    /\ expected'[q] = expected[q] /\ cMine'[q] = cMine[q]
    /\ answer'[q] = answer[q] /\ named'[q] = named[q]
    /\ \A r \in Customer \cup Number : cOwner[r] = q => cOwner'[r] = q

LEMMA ClientsInitInv == Clients!CustomersAssumption /\ Clients!Init => Clients!IInv
  <1> SUFFICES ASSUME Clients!CustomersAssumption, Clients!Init PROVE Clients!IInv
    OBVIOUS
  <1>1. "none" \notin Number /\ MaxVersion \in Nat \ {0}
    BY DEF Clients!CustomersAssumption
  <1>2. Clients!TypeOK
    BY <1>1 DEF Clients!Init, Clients!TypeOK, Clients!Unlocked, Clients!Answer
  <1>3. \A n \in Number : Clients!Bearer(n) = {}
    BY <1>1 DEF Clients!Init, Clients!Bearer, Clients!NoRow
  <1> QED
    BY <1>2, <1>3 DEF Clients!Init, Clients!IInv, Clients!OneBearer, Clients!RequestFits,
       Clients!HasTheNumber, Clients!ToldTheWinner

\* A step that commits nothing.
LEMMA ClientsNothingCommitted ==
  ASSUME Clients!IInv, NEW s \in Session, UNCHANGED Clients!committed, Clients!TypeOK',
         \A q \in Session \ {s} : ClientStays(q),
         Clients!RequestFits(s)', Clients!HasTheNumber(s)', Clients!ToldTheWinner(s)'
  PROVE  Clients!IInv'
  <1>1. customer' = customer /\ given' = given
        /\ \A n : Clients!Bearer(n)' = Clients!Bearer(n) /\ Clients!SeenInUse(n)' = Clients!SeenInUse(n)
    BY DEF Clients!committed, Clients!Bearer, Clients!SeenInUse
  <1>2. Clients!OneBearer'
    BY <1>1 DEF Clients!IInv, Clients!OneBearer
  <1>3. ASSUME NEW q \in Session \ {s}
        PROVE  Clients!RequestFits(q)' /\ Clients!HasTheNumber(q)' /\ Clients!ToldTheWinner(q)'
    <2>1. Clients!RequestFits(q) /\ Clients!HasTheNumber(q) /\ Clients!ToldTheWinner(q)
          /\ ClientStays(q)
      BY <1>3 DEF Clients!IInv
    <2>2. Clients!RequestFits(q)'
      BY <2>1 DEF Clients!RequestFits, ClientStays
    <2>3. Clients!HasTheNumber(q)'
      BY <1>1, <2>1 DEF Clients!HasTheNumber, Clients!RequestFits, ClientStays
    <2>4. Clients!ToldTheWinner(q)'
      BY <1>1, <2>1 DEF Clients!ToldTheWinner, ClientStays
    <2> QED
      BY <2>2, <2>3, <2>4
  <1> QED
    BY <1>2, <1>3 DEF Clients!IInv

LEMMA ClientsAcquireFacts ==
  ASSUME Clients!TypeOK, NEW s \in Session, NEW r \in Customer \cup Number,
         Clients!Available(cOwner, s, r),
         cOwner' = Clients!Acquire(cOwner, s, r)
  PROVE  /\ cOwner' \in [Customer \cup Number -> Session \cup {NoSession}]
         /\ cOwner'[r] = s
         /\ \A q \in Session \ {s} : \A t \in Customer \cup Number : cOwner[t] = q => cOwner'[t] = q
  BY NoSessionAssumption DEF Clients!TypeOK, Clients!Available, Clients!Acquire

LEMMA ClientsReleaseFacts ==
  ASSUME Clients!TypeOK, NEW s \in Session, cOwner' = Clients!Release(cOwner, s)
  PROVE  /\ cOwner' \in [Customer \cup Number -> Session \cup {NoSession}]
         /\ \A q \in Session \ {s} : \A t \in Customer \cup Number : cOwner[t] = q => cOwner'[t] = q
  BY DEF Clients!TypeOK, Clients!Release

\* The end of a request.
LEMMA ClientsEndFacts ==
  ASSUME Clients!IInv, NEW s \in Session, NEW a \in Clients!Answer,
         NEW c \in Customer \cup {NoCustomer},
         Clients!End(s, a, c), customer' \in [Customer -> Clients!Row \cup {Clients!NoRow}], given' \subseteq Number
  PROVE  /\ Clients!TypeOK'
         /\ cPc'[s] = "answered" /\ answer'[s] = a /\ named'[s] = c
         /\ UNCHANGED Clients!request
         /\ \A q \in Session \ {s} : ClientStays(q)
  <1>1. /\ cOwner' = Clients!Release(cOwner, s) /\ UNCHANGED Clients!request
        /\ cPc' = [cPc EXCEPT ![s] = "answered"]
        /\ answer' = [answer EXCEPT ![s] = a]
        /\ named' = [named EXCEPT ![s] = c]
        /\ cMine' = [cMine EXCEPT ![s] = Clients!NoRow]
    BY DEF Clients!End, Clients!GoTo
  <1>2. Clients!TypeOK
    BY DEF Clients!IInv
  <1>3. Clients!TypeOK'
    <2>1. cOwner' \in [Customer \cup Number -> Session \cup {NoSession}]
      BY <1>1, <1>2, ClientsReleaseFacts
    <2> QED
      BY <1>1, <1>2, <2>1 DEF Clients!TypeOK, Clients!request
  <1>4. \A q \in Session \ {s} : ClientStays(q)
    BY <1>1, <1>2, ClientsReleaseFacts DEF Clients!TypeOK, ClientStays, Clients!request
  <1> QED
    BY <1>1, <1>2, <1>3, <1>4 DEF Clients!TypeOK

\* A request ends without a commit.
LEMMA ClientsEndInv ==
  ASSUME Clients!IInv, NEW s \in Session, NEW a \in Clients!Answer,
         NEW c \in Customer \cup {NoCustomer},
         Clients!End(s, a, c), UNCHANGED Clients!committed, cPc[s] # "idle",
         cKind[s] = "create" =>
            /\ a = "error" => cNumber[s] \in given
            /\ a = "duplicate" => c \in Clients!Bearer(cNumber[s])
  PROVE  Clients!IInv'
  <1>1. customer' \in [Customer -> Clients!Row \cup {Clients!NoRow}] /\ given' \subseteq Number
    BY DEF Clients!committed, Clients!IInv, Clients!TypeOK
  <1>2. /\ Clients!TypeOK' /\ cPc'[s] = "answered" /\ answer'[s] = a /\ named'[s] = c
        /\ UNCHANGED Clients!request /\ \A q \in Session \ {s} : ClientStays(q)
    BY <1>1, ClientsEndFacts
  <1>3. Clients!RequestFits(s)'
    BY <1>2 DEF Clients!RequestFits, Clients!request, Clients!IInv
  <1>4. Clients!HasTheNumber(s)'
    BY <1>2 DEF Clients!HasTheNumber
  <1>5. Clients!ToldTheWinner(s)'
    BY <1>2 DEF Clients!ToldTheWinner, Clients!request, Clients!committed, Clients!Bearer
  <1> QED
    BY <1>2, <1>3, <1>4, <1>5, ClientsNothingCommitted

LEMMA ClientsBeginInv ==
  ASSUME Clients!IInv, NEW s \in Session, NEW k \in {"create", "update"}, NEW c \in Customer,
         NEW n \in Number, NEW v \in 0 .. MaxVersion, NEW first \in {"check", "load"},
         Clients!Begin(s, k, c, n, v, first),
         k = "create" <=> first = "check", first = "load" => v \in 1 .. MaxVersion - 1
  PROVE  Clients!IInv'
  <1>1. /\ cPc[s] = "idle" /\ cKind' = [cKind EXCEPT ![s] = k] /\ cId' = [cId EXCEPT ![s] = c]
        /\ cNumber' = [cNumber EXCEPT ![s] = n] /\ expected' = [expected EXCEPT ![s] = v]
        /\ cPc' = [cPc EXCEPT ![s] = first]
        /\ UNCHANGED <<Clients!committed, cOwner, cMine, answer, named>>
    BY DEF Clients!Begin, Clients!GoTo
  <1>2. Clients!TypeOK
    BY DEF Clients!IInv
  <1>3. Clients!TypeOK'
    BY <1>1, <1>2 DEF Clients!TypeOK, Clients!committed
  <1>4. \A q \in Session \ {s} : ClientStays(q)
    BY <1>1, <1>2 DEF Clients!TypeOK, ClientStays
  <1>5. /\ cPc'[s] = first /\ cKind'[s] = k /\ cId'[s] = c /\ cNumber'[s] = n /\ expected'[s] = v
        /\ answer'[s] = "none"
    BY <1>1, <1>2 DEF Clients!TypeOK, Clients!IInv, Clients!RequestFits
  <1>6. Clients!RequestFits(s)' /\ Clients!HasTheNumber(s)' /\ Clients!ToldTheWinner(s)'
    BY <1>5 DEF Clients!RequestFits, Clients!HasTheNumber, Clients!ToldTheWinner
  <1> QED
    BY <1>1, <1>3, <1>4, <1>6, ClientsNothingCommitted

\* A request goes on to its next step.
LEMMA ClientsGoOnInv ==
  ASSUME Clients!IInv, NEW s \in Session, UNCHANGED <<Clients!committed, Clients!request,
         answer, named>>,
         NEW label \in {"insert", "lookup", "commit", "update", "number"},
         cPc' = [cPc EXCEPT ![s] = label], cPc[s] \notin {"idle", "answered"},
         NEW m \in Clients!Row \cup {Clients!NoRow}, cMine' = [cMine EXCEPT ![s] = m],
         cOwner' \in [Customer \cup Number -> Session \cup {NoSession}],
         \A q \in Session \ {s} : \A t \in Customer \cup Number : cOwner[t] = q => cOwner'[t] = q,
         label \in {"insert", "lookup"} => cKind[s] = "create",
         label \in {"update", "number"} => cKind[s] = "update" /\ expected[s] \in 1 .. MaxVersion - 1,
         label = "lookup" => Clients!SeenInUse(cNumber[s]),
         label \in {"update", "number", "commit"} => m \in Clients!Row /\ m.number = cNumber[s],
         label = "commit" => cOwner'[cNumber[s]] = s /\ Clients!Bearer(cNumber[s]) \subseteq {cId[s]}
  PROVE  Clients!IInv'
  <1>1. Clients!TypeOK
    BY DEF Clients!IInv
  <1>2. Clients!TypeOK'
    BY <1>1 DEF Clients!TypeOK, Clients!committed, Clients!request
  <1>3. \A q \in Session \ {s} : ClientStays(q)
    BY <1>1 DEF Clients!TypeOK, ClientStays, Clients!request
  <1>4. /\ cPc'[s] = label /\ cMine'[s] = m /\ answer'[s] = "none" /\ answer' = answer
        /\ cNumber'[s] = cNumber[s] /\ cId'[s] = cId[s] /\ cKind'[s] = cKind[s]
        /\ expected'[s] = expected[s] /\ cNumber[s] \in Number /\ cId[s] \in Customer
        /\ given' = given /\ customer' = customer
    BY <1>1 DEF Clients!TypeOK, Clients!request, Clients!IInv, Clients!RequestFits,
       Clients!committed
  <1>5. Clients!RequestFits(s)' /\ Clients!ToldTheWinner(s)'
    BY <1>4 DEF Clients!RequestFits, Clients!ToldTheWinner
  <1>6. Clients!HasTheNumber(s)'
    BY <1>4 DEF Clients!HasTheNumber, Clients!SeenInUse, Clients!Bearer
  <1> QED
    BY <1>2, <1>3, <1>5, <1>6, ClientsNothingCommitted
-----------------------------------------------------------------------------
LEMMA ClientsCheckInv ==
  ASSUME Clients!IInv, NEW s \in Session, Clients!Check(s)
  PROVE  Clients!IInv'
  <1>1. cPc[s] = "check" /\ cKind[s] = "create" /\ UNCHANGED Clients!committed /\ Clients!TypeOK
    BY DEF Clients!Check, Clients!IInv, Clients!RequestFits
  <1>2. CASE \E c \in Clients!Bearer(cNumber[s]) : Clients!End(s, "duplicate", c)
    <2>1. PICK c \in Clients!Bearer(cNumber[s]) : Clients!End(s, "duplicate", c)
      BY <1>2
    <2> QED
      BY <1>1, <2>1, ClientsEndInv DEF Clients!Bearer, Clients!Answer
  <1>3. CASE /\ Clients!Bearer(cNumber[s]) = {} /\ Clients!GoTo(s, "insert")
             /\ UNCHANGED <<cOwner, Clients!request, cMine, answer, named>>
    <2>1. cMine' = [cMine EXCEPT ![s] = cMine[s]] /\ cMine[s] \in Clients!Row \cup {Clients!NoRow}
      BY <1>1, <1>3 DEF Clients!TypeOK
    <2>2. cOwner' \in [Customer \cup Number -> Session \cup {NoSession}]
      BY <1>1, <1>3 DEF Clients!TypeOK
    <2> QED
      BY <1>1, <1>3, <2>1, <2>2, ClientsGoOnInv DEF Clients!GoTo
  <1> QED
    BY <1>2, <1>3 DEF Clients!Check

LEMMA ClientsInsertInv ==
  ASSUME Clients!CustomersAssumption, Clients!IInv, NEW s \in Session, Clients!Insert(s)
  PROVE  Clients!IInv'
  <1>1. /\ cPc[s] = "insert" /\ cKind[s] = "create" /\ Clients!TypeOK /\ cNumber[s] \in Number
        /\ UNCHANGED <<Clients!committed, Clients!request, answer, named>>
        /\ Clients!NumberAvailable(s, cNumber[s])
    BY DEF Clients!Insert, Clients!IInv, Clients!RequestFits
  <1>2. CASE Clients!Bearer(cNumber[s]) # {} /\ Clients!GoTo(s, Clients!Refused)
        /\ UNCHANGED <<cOwner, cMine>>
    <2>1. cMine' = [cMine EXCEPT ![s] = cMine[s]] /\ cMine[s] \in Clients!Row \cup {Clients!NoRow}
      BY <1>1, <1>2 DEF Clients!TypeOK
    <2>2. cOwner' \in [Customer \cup Number -> Session \cup {NoSession}]
      BY <1>1, <1>2 DEF Clients!TypeOK
    <2> QED
      BY <1>1, <1>2, <2>1, <2>2, ClientsGoOnInv DEF Clients!GoTo, Clients!Refused,
         Clients!SeenInUse
  <1>3. CASE /\ Clients!Bearer(cNumber[s]) = {}
             /\ cOwner' = Clients!Acquire(cOwner, s, cNumber[s])
             /\ cMine' = [cMine EXCEPT ![s] = [number |-> cNumber[s], version |-> 1, by |-> s]]
             /\ Clients!GoTo(s, "commit")
    <2>1. [number |-> cNumber[s], version |-> 1, by |-> s] \in Clients!Row
      BY <1>1 DEF Clients!Row, Clients!CustomersAssumption
    <2>2. /\ cOwner' \in [Customer \cup Number -> Session \cup {NoSession}]
          /\ cOwner'[cNumber[s]] = s
          /\ \A q \in Session \ {s} : \A t \in Customer \cup Number : cOwner[t] = q => cOwner'[t] = q
      BY <1>1, <1>3, ClientsAcquireFacts DEF Clients!NumberAvailable
    <2>3. PICK new : new = [number |-> cNumber[s], version |-> 1, by |-> s]
      OBVIOUS
    <2>4. /\ new \in Clients!Row /\ new.number = cNumber[s]
          /\ cMine' = [cMine EXCEPT ![s] = new] /\ cPc' = [cPc EXCEPT ![s] = "commit"]
          /\ Clients!Bearer(cNumber[s]) \subseteq {cId[s]}
      BY <1>3, <2>1, <2>3 DEF Clients!GoTo
    <2> QED
      BY <1>1, <2>2, <2>4, ClientsGoOnInv
  <1> QED
    BY <1>2, <1>3 DEF Clients!Insert

LEMMA ClientsLookupInv ==
  ASSUME Clients!IInv, NEW s \in Session, Clients!Lookup(s)
  PROVE  Clients!IInv'
  <1>1. cPc[s] = "lookup" /\ UNCHANGED Clients!committed /\ Clients!SeenInUse(cNumber[s])
    BY DEF Clients!Lookup, Clients!IInv, Clients!HasTheNumber
  <1>2. CASE \E c \in Clients!Bearer(cNumber[s]) : Clients!End(s, "duplicate", c)
    <2>1. PICK c \in Clients!Bearer(cNumber[s]) : Clients!End(s, "duplicate", c)
      BY <1>2
    <2> QED
      BY <1>1, <2>1, ClientsEndInv DEF Clients!Bearer, Clients!Answer
  <1>3. CASE Clients!Bearer(cNumber[s]) = {} /\ Clients!End(s, "error", NoCustomer)
    <2>1. cNumber[s] \in given
      BY <1>1, <1>3 DEF Clients!SeenInUse
    <2> QED
      BY <1>1, <1>3, <2>1, ClientsEndInv DEF Clients!Answer
  <1> QED
    BY <1>2, <1>3 DEF Clients!Lookup

LEMMA ClientsLoadInv ==
  ASSUME Clients!CustomersAssumption, Clients!IInv, NEW s \in Session, Clients!Load(s)
  PROVE  Clients!IInv'
  <1>1. /\ cPc[s] = "load" /\ cKind[s] = "update" /\ UNCHANGED Clients!committed /\ Clients!TypeOK
        /\ expected[s] \in 1 .. MaxVersion - 1 /\ cNumber[s] \in Number /\ cId[s] \in Customer
    BY DEF Clients!Load, Clients!IInv, Clients!RequestFits
  <1>2. CASE Clients!End(s, "version_conflict", NoCustomer)
    BY <1>1, <1>2, ClientsEndInv DEF Clients!Answer
  <1>3. CASE \E d \in Clients!Bearer(cNumber[s]) \ {cId[s]} : Clients!End(s, "duplicate", d)
    <2>1. PICK d \in Clients!Bearer(cNumber[s]) : Clients!End(s, "duplicate", d)
      BY <1>3
    <2> QED
      BY <1>1, <2>1, ClientsEndInv DEF Clients!Bearer, Clients!Answer
  <1> DEFINE m == [number |-> cNumber[s], version |-> customer[cId[s]].version + 1, by |-> s]
  <1>4. CASE /\ Clients!VersionMatches(s, cId[s])
             /\ cMine' = [cMine EXCEPT ![s] = m]
             /\ Clients!GoTo(s, "update")
             /\ UNCHANGED <<cOwner, Clients!request, answer, named>>
    <2>1. customer[cId[s]].version + 1 \in 1 .. MaxVersion
      BY <1>1, <1>4 DEF Clients!VersionMatches, Clients!CustomersAssumption
    <2>2. m \in Clients!Row /\ m.number = cNumber[s]
      BY <1>1, <2>1 DEF Clients!Row
    <2>3. cOwner' \in [Customer \cup Number -> Session \cup {NoSession}]
      BY <1>1, <1>4 DEF Clients!TypeOK
    <2> HIDE DEF m
    <2> QED
      BY <1>1, <1>4, <2>2, <2>3, ClientsGoOnInv DEF Clients!GoTo
  <1> QED
    BY <1>2, <1>3, <1>4 DEF Clients!Load

LEMMA ClientsWriteInv ==
  ASSUME Clients!IInv, NEW s \in Session, Clients!Write(s)
  PROVE  Clients!IInv'
  <1>1. /\ cPc[s] = "update" /\ cKind[s] = "update" /\ Clients!TypeOK
        /\ expected[s] \in 1 .. MaxVersion - 1 /\ cId[s] \in Customer
        /\ cMine[s] \in Clients!Row /\ cMine[s].number = cNumber[s]
        /\ Clients!Available(cOwner, s, cId[s]) /\ cOwner' = Clients!Acquire(cOwner, s, cId[s])
        /\ cPc' = [cPc EXCEPT ![s] = "number"]
        /\ UNCHANGED <<Clients!committed, Clients!request, cMine, answer, named>>
    BY DEF Clients!Write, Clients!GoTo, Clients!IInv, Clients!RequestFits, Clients!HasTheNumber
  <1>2. cMine' = [cMine EXCEPT ![s] = cMine[s]]
    BY <1>1 DEF Clients!TypeOK
  <1>3. /\ cOwner' \in [Customer \cup Number -> Session \cup {NoSession}]
        /\ \A q \in Session \ {s} : \A t \in Customer \cup Number : cOwner[t] = q => cOwner'[t] = q
    BY <1>1, ClientsAcquireFacts
  <1> QED
    BY <1>1, <1>2, <1>3, ClientsGoOnInv

LEMMA ClientsWriteNumberInv ==
  ASSUME Clients!IInv, NEW s \in Session, Clients!WriteNumber(s)
  PROVE  Clients!IInv'
  <1>1. /\ cPc[s] = "number" /\ cKind[s] = "update" /\ Clients!TypeOK /\ cNumber[s] \in Number
        /\ cMine[s] \in Clients!Row /\ cMine[s].number = cNumber[s]
        /\ Clients!NumberAvailable(s, cNumber[s]) /\ UNCHANGED Clients!committed
    BY DEF Clients!WriteNumber, Clients!IInv, Clients!RequestFits, Clients!HasTheNumber
  <1>2. CASE /\ Clients!Bearer(cNumber[s]) \subseteq {cId[s]}
             /\ cOwner' = Clients!Acquire(cOwner, s, cNumber[s])
             /\ Clients!GoTo(s, "commit")
             /\ UNCHANGED <<Clients!request, cMine, answer, named>>
    <2>1. cMine' = [cMine EXCEPT ![s] = cMine[s]]
      BY <1>1, <1>2 DEF Clients!TypeOK
    <2>2. /\ cOwner' \in [Customer \cup Number -> Session \cup {NoSession}]
          /\ cOwner'[cNumber[s]] = s
          /\ \A q \in Session \ {s} : \A t \in Customer \cup Number : cOwner[t] = q => cOwner'[t] = q
      BY <1>1, <1>2, ClientsAcquireFacts DEF Clients!NumberAvailable
    <2> QED
      BY <1>1, <1>2, <2>1, <2>2, ClientsGoOnInv DEF Clients!GoTo
  <1>3. CASE Clients!End(s, "error", NoCustomer)
    BY <1>1, <1>3, ClientsEndInv DEF Clients!Answer
  <1> QED
    BY <1>2, <1>3 DEF Clients!WriteNumber

\* A commit gives the number to a customer, to whom alone it then belongs; a number
\* that a customer loses by it has been given up.
LEMMA ClientsCommitInv ==
  ASSUME Clients!CustomersAssumption, Clients!IInv, NEW s \in Session, Clients!Commit(s)
  PROVE  Clients!IInv'
  <1>0. PICK c, n : c = cId[s] /\ n = cNumber[s]
    OBVIOUS
  <1>1. /\ cPc[s] = "commit" /\ Clients!TypeOK /\ n \in Number /\ c \in Customer
        /\ cMine[s] \in Clients!Row /\ cMine[s].number = n /\ cOwner[n] = s
        /\ Clients!Bearer(n) \subseteq {c}
        /\ customer' = [customer EXCEPT ![c] = cMine[s]]
        /\ given' = given \cup ({customer[c].number} \cap (Number \ {n}))
        /\ Clients!End(s, "done", NoCustomer)
    BY <1>0 DEF Clients!Commit, Clients!IInv, Clients!RequestFits, Clients!HasTheNumber
  <1>2. customer' \in [Customer -> Clients!Row \cup {Clients!NoRow}] /\ given' \subseteq Number
    BY <1>1 DEF Clients!TypeOK
  <1>3. /\ Clients!TypeOK' /\ cPc'[s] = "answered" /\ answer'[s] = "done"
        /\ UNCHANGED Clients!request /\ \A q \in Session \ {s} : ClientStays(q)
    BY <1>1, <1>2, ClientsEndFacts DEF Clients!Answer
  <1>4. customer'[c].number = n /\ \A d \in Customer \ {c} : customer'[d] = customer[d]
    BY <1>1 DEF Clients!TypeOK
  <1>5. given \subseteq given'
    BY <1>1
  <1>6. ASSUME NEW m \in Number, NEW d \in Customer, customer[d].number = m
        PROVE  customer'[d].number = m \/ m \in given'
    BY <1>1, <1>4, <1>6
  <1>7. \A m \in Number \ {n} : Clients!Bearer(m)' \subseteq Clients!Bearer(m)
    BY <1>4 DEF Clients!Bearer
  <1>8. Clients!Bearer(n)' \subseteq {c}
    BY <1>1, <1>4 DEF Clients!Bearer
  <1>9. Clients!OneBearer'
    BY <1>7, <1>8 DEF Clients!IInv, Clients!OneBearer
  <1>10. \A m \in Number : Clients!SeenInUse(m) => Clients!SeenInUse(m)'
    <2> SUFFICES ASSUME NEW m \in Number, Clients!SeenInUse(m) PROVE Clients!SeenInUse(m)'
      OBVIOUS
    <2>1. CASE m \in given
      BY <1>5, <2>1 DEF Clients!SeenInUse
    <2>2. CASE Clients!Bearer(m) # {}
      <3>1. PICK d \in Clients!Bearer(m) : d \in Customer /\ customer[d].number = m
        BY <2>2 DEF Clients!Bearer
      <3>2. customer'[d].number = m \/ m \in given'
        BY <1>6, <3>1
      <3> QED
        BY <3>1, <3>2 DEF Clients!SeenInUse, Clients!Bearer
    <2> QED
      BY <2>1, <2>2 DEF Clients!SeenInUse
  <1>11. ASSUME NEW q \in Session
         PROVE  Clients!RequestFits(q)' /\ Clients!HasTheNumber(q)' /\ Clients!ToldTheWinner(q)'
    <2>1. CASE q = s
      BY <1>1, <1>3, <2>1 DEF Clients!RequestFits, Clients!HasTheNumber, Clients!ToldTheWinner,
         Clients!IInv, Clients!request
    <2>2. CASE q # s
      <3>1. Clients!RequestFits(q) /\ Clients!HasTheNumber(q) /\ Clients!ToldTheWinner(q)
            /\ ClientStays(q)
        BY <1>3, <2>2 DEF Clients!IInv
      <3>2. Clients!RequestFits(q)'
        BY <3>1 DEF Clients!RequestFits, ClientStays
      <3>3. Clients!HasTheNumber(q)'
        <4>1. cPc[q] # "idle" => cNumber[q] \in Number
          BY <3>1 DEF Clients!RequestFits
        <4>2. cPc[q] = "commit" => cNumber[q] # n
          BY <1>1, <2>2, <3>1 DEF Clients!HasTheNumber
        <4>3. cPc[q] = "lookup" => Clients!SeenInUse(cNumber[q])'
          BY <1>10, <3>1, <4>1 DEF Clients!HasTheNumber, ClientStays, Clients!SeenInUse,
             Clients!Bearer
        <4>4. cPc[q] = "commit"
              => {d \in Customer : customer'[d].number = cNumber[q]} \subseteq {cId[q]}
          BY <1>7, <3>1, <4>1, <4>2 DEF Clients!HasTheNumber, Clients!Bearer
        <4> QED
          BY <3>1, <4>1, <4>3, <4>4 DEF Clients!HasTheNumber, ClientStays, Clients!Bearer
      <3>4. Clients!ToldTheWinner(q)'
        <4>1. answer[q] # "none" => cNumber[q] \in Number
          BY <3>1 DEF Clients!RequestFits
        <4> QED
          BY <1>5, <1>6, <3>1, <4>1 DEF Clients!ToldTheWinner, ClientStays
      <3> QED
        BY <3>2, <3>3, <3>4
    <2> QED
      BY <2>1, <2>2
  <1> QED
    BY <1>3, <1>9, <1>11 DEF Clients!IInv

LEMMA ClientsRestInv ==
  ASSUME Clients!CustomersAssumption, Clients!IInv, NEW s \in Session, Clients!Rest(s)
  PROVE  Clients!IInv'
  <1>1. Clients!TypeOK
    BY DEF Clients!IInv
  <1>2. Clients!TypeOK'
    <2>1. /\ customer' = customer /\ given' = given /\ cOwner' = cOwner /\ cMine' = cMine
          /\ cPc' = [cPc EXCEPT ![s] = "idle"] /\ cKind' = [cKind EXCEPT ![s] = "none"]
          /\ cId' = [cId EXCEPT ![s] = NoCustomer] /\ cNumber' = [cNumber EXCEPT ![s] = "none"]
          /\ expected' = [expected EXCEPT ![s] = 0] /\ answer' = [answer EXCEPT ![s] = "none"]
          /\ named' = [named EXCEPT ![s] = NoCustomer]
      BY DEF Clients!Rest, Clients!GoTo, Clients!committed
    <2>2. "none" \in Clients!Answer /\ 0 \in 0 .. MaxVersion
      BY DEF Clients!Answer, Clients!CustomersAssumption
    <2> QED
      BY <1>1, <2>1, <2>2 DEF Clients!TypeOK
  <1>3. \A q \in Session \ {s} : ClientStays(q)
    BY <1>1 DEF Clients!Rest, Clients!GoTo, Clients!TypeOK, ClientStays
  <1>4. cPc'[s] = "idle" /\ cKind'[s] = "none" /\ answer'[s] = "none" /\ UNCHANGED Clients!committed
    BY <1>1 DEF Clients!Rest, Clients!GoTo, Clients!TypeOK
  <1>5. Clients!RequestFits(s)' /\ Clients!HasTheNumber(s)' /\ Clients!ToldTheWinner(s)'
    BY <1>4 DEF Clients!RequestFits, Clients!HasTheNumber, Clients!ToldTheWinner
  <1> QED
    BY <1>2, <1>3, <1>4, <1>5, ClientsNothingCommitted

LEMMA ClientsAbortInv ==
  ASSUME Clients!IInv, NEW s \in Session, Clients!Abort(s)
  PROVE  Clients!IInv'
  <1>1. /\ cPc[s] \notin {"idle", "answered"} /\ Clients!TypeOK /\ cOwner' = Clients!Release(cOwner, s)
        /\ cPc' = [cPc EXCEPT ![s] = "answered"] /\ cMine' = [cMine EXCEPT ![s] = Clients!NoRow]
        /\ UNCHANGED <<Clients!committed, Clients!request, answer, named>>
    BY DEF Clients!Abort, Clients!GoTo, Clients!IInv
  <1>2. Clients!TypeOK'
    <2>1. cOwner' \in [Customer \cup Number -> Session \cup {NoSession}]
      BY <1>1, ClientsReleaseFacts
    <2> QED
      BY <1>1, <2>1 DEF Clients!TypeOK, Clients!committed, Clients!request
  <1>3. \A q \in Session \ {s} : ClientStays(q)
    BY <1>1, ClientsReleaseFacts DEF Clients!TypeOK, ClientStays, Clients!request
  <1>4. cPc'[s] = "answered" /\ answer'[s] = "none"
    BY <1>1 DEF Clients!TypeOK, Clients!IInv, Clients!RequestFits
  <1>5. Clients!RequestFits(s)' /\ Clients!HasTheNumber(s)' /\ Clients!ToldTheWinner(s)'
    BY <1>1, <1>4 DEF Clients!RequestFits, Clients!HasTheNumber, Clients!ToldTheWinner,
       Clients!IInv, Clients!request
  <1> QED
    BY <1>1, <1>2, <1>3, <1>5, ClientsNothingCommitted

LEMMA ClientsNextInv ==
  ASSUME Clients!CustomersAssumption, Clients!IInv, [Clients!Next]_(Clients!vars)
  PROVE  Clients!IInv'
  <1>1. CASE UNCHANGED Clients!vars
    <2>1. UNCHANGED <<customer, given, cOwner, cPc, cKind, cId, cNumber, expected, cMine, answer, named>>
      BY <1>1 DEF Clients!vars, Clients!committed, Clients!request
    <2>2. Clients!TypeOK' /\ Clients!OneBearer'
      BY <2>1 DEF Clients!IInv, Clients!TypeOK, Clients!OneBearer, Clients!Bearer
    <2>3. \A s \in Session : Clients!RequestFits(s)' /\ Clients!HasTheNumber(s)'
          /\ Clients!ToldTheWinner(s)'
      BY <2>1 DEF Clients!IInv, Clients!RequestFits, Clients!HasTheNumber,
         Clients!ToldTheWinner, Clients!SeenInUse, Clients!Bearer
    <2> QED
      BY <2>2, <2>3 DEF Clients!IInv
  <1>2. ASSUME NEW s \in Session, NEW c \in Customer, NEW n \in Number, Clients!Create(s, c, n)
        PROVE  Clients!IInv'
    <2>1. 0 \in 0 .. MaxVersion
      BY DEF Clients!CustomersAssumption
    <2> QED
      BY <1>2, <2>1, ClientsBeginInv DEF Clients!Create
  <1>3. ASSUME NEW s \in Session, NEW c \in Customer, NEW n \in Number,
               NEW v \in 1 .. MaxVersion, Clients!Update(s, c, n, v)
        PROVE  Clients!IInv'
    <2>1. customer[c] \in Clients!Row /\ customer[c].version < MaxVersion /\ v =< customer[c].version
      BY <1>3 DEF Clients!Update, Clients!IInv, Clients!TypeOK
    <2>2. v \in 1 .. MaxVersion - 1 /\ v \in 0 .. MaxVersion
      BY <2>1 DEF Clients!Row, Clients!CustomersAssumption
    <2> QED
      BY <1>3, <2>2, ClientsBeginInv DEF Clients!Update
  <1>4. ASSUME NEW s \in Session, Clients!Raise(s) PROVE Clients!IInv'
    BY <1>4 DEF Clients!Raise, Clients!IInv, Clients!HasTheNumber
  <1> QED
    BY <1>1, <1>2, <1>3, <1>4, ClientsCheckInv, ClientsInsertInv, ClientsLookupInv,
       ClientsLoadInv, ClientsWriteInv,
       ClientsWriteNumberInv, ClientsCommitInv, ClientsRestInv, ClientsAbortInv
       DEF Clients!Next, Clients!Statement

LEMMA ClientsIInvAnswers == Clients!IInv => Clients!TypeOK /\ Clients!CreationIsAnswered
  BY DEF Clients!IInv, Clients!OneBearer, Clients!CreationIsAnswered, Clients!ToldTheWinner
-----------------------------------------------------------------------------
(* The monthly sales *)

LEMMA SalesNextTypes ==
  ASSUME Sales!SalesAssumption, Sales!TypeOK, [Sales!Next]_(Sales!vars)
  PROVE  Sales!TypeOK'
  <1>1. ASSUME NEW k \in Key, NEW n \in 0 .. MaxSold, Sales!Sell(k, n) PROVE Sales!TypeOK'
    BY <1>1 DEF Sales!Sell, Sales!TypeOK, Sales!Quantity, Sales!refresh
  <1>2. CASE Sales!TurnOfMonth
    BY <1>2 DEF Sales!TurnOfMonth, Sales!TypeOK, Sales!refresh
  <1>3. ASSUME NEW s \in Session, Sales!Refresh(s) PROVE Sales!TypeOK'
    BY <1>3 DEF Sales!Refresh, Sales!TypeOK
  <1>4. ASSUME NEW s \in Session, Sales!FindStale(s) PROVE Sales!TypeOK'
    BY <1>4 DEF Sales!FindStale, Sales!TypeOK, Sales!Stale, Sales!Keys
  <1>5. ASSUME NEW s \in Session, Sales!Delete(s) PROVE Sales!TypeOK'
    BY <1>5 DEF Sales!Delete, Sales!TypeOK, Sales!Keys, Sales!Acquire
  <1>6. ASSUME NEW s \in Session, Sales!Upsert(s) PROVE Sales!TypeOK'
    BY <1>6 DEF Sales!Upsert, Sales!TypeOK, Sales!Acquire
  <1>7. ASSUME NEW s \in Session, Sales!Close(s), table' \in Sales!Quantity PROVE Sales!TypeOK'
    <2>1. Sales!Nothing \in Sales!Quantity
      BY DEF Sales!SalesAssumption, Sales!Quantity, Sales!Nothing
    <2> QED
      BY <1>7, <2>1 DEF Sales!Close, Sales!Release, Sales!TypeOK
  <1>8. ASSUME NEW s \in Session, Sales!Commit(s) PROVE Sales!TypeOK'
    <2>1. table' \in Sales!Quantity
      BY <1>8 DEF Sales!Commit, Sales!TypeOK, Sales!Quantity
    <2> QED
      BY <1>7, <1>8, <2>1 DEF Sales!Commit
  <1>9. ASSUME NEW s \in Session, Sales!Abort(s) PROVE Sales!TypeOK'
    BY <1>7, <1>9 DEF Sales!Abort, Sales!TypeOK
  <1>10. CASE UNCHANGED Sales!vars
    BY <1>10 DEF Sales!vars, Sales!refresh, Sales!TypeOK
  <1> QED
    BY <1>1, <1>2, <1>3, <1>4, <1>5, <1>6, <1>8, <1>9, <1>10 DEF Sales!Next, Sales!Statement

LEMMA SalesInitTypes == Sales!SalesAssumption /\ Sales!Init => Sales!TypeOK
  BY DEF Sales!SalesAssumption, Sales!Init, Sales!TypeOK, Sales!Quantity, Sales!Nothing,
     Sales!Unlocked
-----------------------------------------------------------------------------
(* The supplier orders *)

\* Their proofs, about the variables of the desk.  An instance has definitions of
\* its own of what it takes from the library: they are the same.
Deliveries == INSTANCE SupplierOrders_proofs WITH stock <- units, owner <- oOwner,
    pc <- oPc, kind <- oKind, asks <- oAsks, mine <- oMine

LEMMA SameAssumption == Deliveries!SupplierAssumption
  BY DeskAssumption DEF Supplier!SupplierAssumption, Deliveries!SupplierAssumption,
     Supplier!IsFiniteSet, Deliveries!IsFiniteSet

LEMMA SameUnits ==
  ASSUME NEW o
  PROVE  Supplier!Units(o) = Deliveries!Units(o)
  BY DEF Supplier!Units, Supplier!MapThenSumSet, Supplier!MapThenFoldSet,
         Deliveries!Units, Deliveries!MapThenSumSet, Deliveries!MapThenFoldSet

LEMMA SameOrders ==
  ASSUME NEW o, NEW q
  PROVE  /\ Supplier!Received(q, o) = Deliveries!Received(q, o)
         /\ Supplier!Open(o) = Deliveries!Open(o)
         /\ Supplier!TooMany(q, o) = Deliveries!TooMany(q, o)
         /\ Supplier!Receivable(o) = Deliveries!Receivable(o)
  BY DEF Supplier!Received, Supplier!Open, Supplier!TooMany, Supplier!Asked,
         Supplier!Receivable, Supplier!Status, Supplier!Everything,
         Deliveries!Received, Deliveries!Open, Deliveries!TooMany, Deliveries!Asked,
         Deliveries!Receivable, Deliveries!Status, Deliveries!Everything

LEMMA SameStatement ==
  ASSUME NEW s
  PROVE  Supplier!Statement(s) \/ Supplier!Abort(s)
            => Deliveries!Statement(s) \/ Deliveries!Abort(s)
  BY SameUnits, SameOrders
     DEF Supplier!Statement, Supplier!LockOrder, Supplier!ForUpdate, Supplier!Refuse,
         Supplier!LockStock, Supplier!Commit, Supplier!Abort, Supplier!Close,
         Supplier!GoTo, Supplier!Allowed, Supplier!Available, Supplier!Acquire,
         Supplier!Release, Supplier!NoOrder, Supplier!Everything, Supplier!Status,
         Supplier!committed, Supplier!request, Supplier!objects,
         Deliveries!Statement, Deliveries!LockOrder, Deliveries!ForUpdate,
         Deliveries!Refuse, Deliveries!LockStock, Deliveries!Commit, Deliveries!Abort,
         Deliveries!Close, Deliveries!GoTo, Deliveries!Allowed, Deliveries!Available,
         Deliveries!Acquire, Deliveries!Release, Deliveries!NoOrder,
         Deliveries!Everything, Deliveries!Status, Deliveries!committed,
         Deliveries!request, Deliveries!objects

LEMMA SameNext == Supplier!Next => Deliveries!Next
  BY SameStatement
     DEF Supplier!Next, Supplier!CreateSupplierOrder, Supplier!Receive,
         Supplier!ChangeStatus, Supplier!Begin, Supplier!GoTo, Supplier!NoOrder,
         Supplier!Everything, Supplier!Status, Supplier!committed, Supplier!request,
         Supplier!objects,
         Deliveries!Next, Deliveries!CreateSupplierOrder, Deliveries!Receive,
         Deliveries!ChangeStatus, Deliveries!Begin, Deliveries!GoTo,
         Deliveries!NoOrder, Deliveries!Everything, Deliveries!Status,
         Deliveries!committed, Deliveries!request, Deliveries!objects

LEMMA SameSpec == Supplier!Spec => Deliveries!Spec
  <1>1. Supplier!Init => Deliveries!Init
    BY DEF Supplier!Init, Supplier!NoOrder, Supplier!Everything, Supplier!Unlocked,
           Deliveries!Init, Deliveries!NoOrder, Deliveries!Everything,
           Deliveries!Unlocked
  <1>2. [Supplier!Next]_(Supplier!vars) => [Deliveries!Next]_(Deliveries!vars)
    BY SameNext
       DEF Supplier!vars, Supplier!committed, Supplier!request, Supplier!objects,
           Deliveries!vars, Deliveries!committed, Deliveries!request,
           Deliveries!objects
  <1> QED
    BY <1>1, <1>2, PTL DEF Supplier!Spec, Deliveries!Spec
-----------------------------------------------------------------------------
(* The theorems about the desk *)

\* Each part of a behaviour of the desk is a behaviour of its module.
THEOREM Composition ==
  DeskSpec => Spec /\ Egui!Spec /\ Supplier!Spec /\ Clients!Spec /\ Sales!Spec
  <1>1. DeskInit => Init /\ Egui!Init /\ Supplier!Init /\ Clients!Init /\ Sales!Init
    BY DEF DeskInit
  <1>2. ASSUME [DeskNext]_desk
        PROVE  /\ [Next]_vars /\ [Egui!Next]_(Egui!vars)
               /\ [Supplier!Next]_(Supplier!vars) /\ [Clients!Next]_(Clients!vars)
               /\ [Sales!Next]_(Sales!vars)
    <2>1. /\ UNCHANGED egui => UNCHANGED Egui!vars
          /\ UNCHANGED supplier => UNCHANGED Supplier!vars
          /\ UNCHANGED customers => UNCHANGED Clients!vars
          /\ UNCHANGED sales => UNCHANGED Sales!vars
      BY DEF egui, supplier, customers, sales, Egui!vars, Egui!session, Supplier!vars,
             Supplier!committed, Supplier!request, Supplier!objects, Clients!vars,
             Clients!committed, Clients!request, Sales!vars, Sales!refresh
    <2>2. CASE UNCHANGED desk
      BY <2>1, <2>2 DEF desk
    <2>3. CASE ApprovalSteps
      BY <2>1, <2>3 DEF ApprovalSteps, Others
    <2>4. CASE EguiSteps
      BY <2>1, <2>4 DEF EguiSteps, Others
    <2>5. CASE SupplierSteps
      BY <2>1, <2>5 DEF SupplierSteps, Others
    <2>6. CASE ClientSteps
      BY <2>1, <2>6 DEF ClientSteps, Others
    <2>7. CASE SalesSteps
      BY <2>1, <2>7 DEF SalesSteps, Others
    <2> QED
      BY <1>2, <2>2, <2>3, <2>4, <2>5, <2>6, <2>7 DEF DeskNext
  <1> QED
    BY <1>1, <1>2, PTL
       DEF DeskSpec, Spec, Egui!Spec, Supplier!Spec, Clients!Spec, Sales!Spec

\* The inductive invariant of the eGUI row: a reference, once it is there, stays,
\* and whatever a refresh is about to commit has it and is sound.
THEOREM EguiInvariance == Egui!Spec => []Egui!IInv
  <1>1. Egui!Init => Egui!IInv
    BY DeskAssumption, EguiInitInv
  <1>2. Egui!IInv /\ [Egui!Next]_(Egui!vars) => Egui!IInv'
    BY EguiNextInv
  <1> QED
    BY <1>1, <1>2, PTL DEF Egui!Spec

\* An acknowledged submission has the reference of the FIA, whichever refreshes
\* overwrite one another.
THEOREM Acknowledged == DeskSpec => []Egui!AcknowledgedWithReference
  <1>1. Egui!IInv => Egui!AcknowledgedWithReference
    BY EguiIInvAcknowledges
  <1> QED
    BY <1>1, Composition, EguiInvariance, PTL

\* The inductive invariant of the customers: a business number has one bearer, who
\* is about to commit a number holds it alone, and whoever was refused had found it
\* in use.
THEOREM ClientsInvariance == Clients!Spec => []Clients!IInv
  <1>1. Clients!Init => Clients!IInv
    BY DeskAssumption, ClientsInitInv
  <1>2. Clients!IInv /\ [Clients!Next]_(Clients!vars) => Clients!IInv'
    BY DeskAssumption, ClientsNextInv
  <1> QED
    BY <1>1, <1>2, PTL DEF Clients!Spec

\* Whoever creates a customer concurrently with others is shown the customer that
\* bears the number, or was just stripped of it, and no number has two bearers.
THEOREM CreationsAnswered == DeskSpec => []CreationIsAnswered
  <1>1. Clients!IInv => CreationIsAnswered
    BY ClientsIInvAnswers DEF CreationIsAnswered
  <1> QED
    BY <1>1, Composition, ClientsInvariance, PTL

\* What a supplier order says has been received is what the stock has gained.
THEOREM DeliveriesBooked == DeskSpec => []DeliveriesAreBooked
  <1>1. Deliveries!Spec => []Deliveries!DeliveriesAreBooked
    BY SameAssumption, Deliveries!AllDeliveriesAreBooked
  <1>2. Deliveries!DeliveriesAreBooked => DeliveriesAreBooked
    BY SameUnits DEF DeliveriesAreBooked, Supplier!DeliveriesAreBooked,
                     Deliveries!DeliveriesAreBooked
  <1> QED
    BY <1>1, <1>2, Composition, SameSpec, PTL

\* Every row, lock, session and answer of the desk is of its type.
THEOREM DeskTypesCorrect == DeskSpec => []DeskTypeOK
  <1>1. DeskInit => part \in Part
    BY DEF DeskInit
  <1>2. part \in Part /\ [DeskNext]_desk => (part \in Part)'
    BY DEF DeskNext, ApprovalSteps, EguiSteps, SupplierSteps, ClientSteps, SalesSteps,
           Others, desk, Part
  <1>3. DeskSpec => [](part \in Part)
    BY <1>1, <1>2, PTL DEF DeskSpec
  <1>4. Sales!Spec => []Sales!TypeOK
    <2>1. Sales!Init => Sales!TypeOK
      BY DeskAssumption, SalesInitTypes
    <2>2. Sales!TypeOK /\ [Sales!Next]_(Sales!vars) => Sales!TypeOK'
      BY DeskAssumption, SalesNextTypes
    <2> QED
      BY <2>1, <2>2, PTL DEF Sales!Spec
  <1>5. Deliveries!Spec => []Deliveries!TypeOK
    BY SameAssumption, Deliveries!TypeCorrect
  <1>6. Deliveries!TypeOK => Supplier!TypeOK
    BY DEF Supplier!TypeOK, Supplier!Order, Supplier!NoOrder, Supplier!Everything,
           Supplier!Status, Deliveries!TypeOK, Deliveries!Order, Deliveries!NoOrder,
           Deliveries!Everything, Deliveries!Status
  <1>7. Egui!IInv => Egui!TypeOK
    BY EguiIInvAcknowledges
  <1>8. Clients!IInv => Clients!TypeOK
    BY ClientsIInvAnswers
  <1>9. /\ part \in Part /\ Egui!TypeOK /\ Supplier!TypeOK /\ Clients!TypeOK
        /\ Sales!TypeOK
        => DeskTypeOK
    BY DEF DeskTypeOK
  <1> QED
    BY <1>3, <1>4, <1>5, <1>6, <1>7, <1>8, <1>9, Composition, EguiInvariance,
       ClientsInvariance, SameSpec, PTL
=============================================================================

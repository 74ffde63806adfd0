------------------------------ MODULE Approval ------------------------------
(***************************************************************************)
(* Approval requests of src/backend/domains/approval: a stock adjustment   *)
(* asked for by an agent, a bot or an automation waits for a person, who   *)
(* approves or rejects it before it expires.  Several people (and lists,   *)
(* which mark what has expired) are at work at once, each in a database    *)
(* transaction of its own under READ COMMITTED.                            *)
(*                                                                         *)
(* Requests are read without a lock; the new status is sent with an UPDATE *)
(* that waits for the row and overwrites it whatever it then says.         *)
(*                                                                         *)
(* Abstracted: roles, audit rows, the identity of the resolver, and every  *)
(* stock row but the one the requests are about (module StockLedger has    *)
(* the adjustment in full).                                                *)
(***************************************************************************)
EXTENDS Integers, FiniteSets, FiniteSetsExt, RowLocks

CONSTANTS
    Request,     \* ids of approval requests, in the order of the primary key
    Change,      \* [Request -> Int]: the adjustment asked for
    Threshold,   \* approval_threshold_inventory_adjust
    MaxInt,      \* largest value of the column "quantity"
    Opening,     \* the stock before the first request
    StockRow,    \* the one row of inventory_stock
    ActorType    \* who asks: "user" or one of the automated actors

ASSUME ApprovalAssumption ==
    /\ Request \subseteq Nat /\ StockRow \notin Request
    /\ Change \in [Request -> Int] /\ Threshold \in Nat
    /\ MaxInt \in Nat /\ Opening \in 0 .. MaxInt
    /\ ActorType \subseteq {"user", "agent", "line_bot", "automation"}

\* "none": not asked for yet; "made": made at once, without a request.
Status == {"none", "made", "pending", "approved", "rejected", "expired"}

VARIABLES
    status,     \* committed status of each request
    due,        \* the requests whose expires_at has passed
    quantity,   \* committed quantity of the stock row
    executed,   \* how many adjustments have been committed for each request
    owner,      \* row locks
    pc, decision,  \* what each session is about to do, the status it writes
    todo        \* the requests it has yet to write

session == <<pc, decision, todo>>
vars == <<status, due, quantity, executed, owner, session>>

Init ==
    /\ status = [r \in Request |-> "none"]
    /\ due = {}
    /\ quantity = Opening
    /\ executed = [r \in Request |-> 0]
    /\ owner = Unlocked(Request \cup {StockRow})
    /\ pc = [s \in Session |-> "idle"]
    /\ decision = [s \in Session |-> "none"]
    /\ todo = [s \in Session |-> {}]
-----------------------------------------------------------------------------
\* needs_approval for "inventory.adjust": people bypass the gate, and so does
\* everybody with a small change.
NeedsApproval_Signed(actor, change) ==  \* mutant: a large removal passes
    actor # "user" /\ change > Threshold
NeedsApproval(actor, change) ==
    /\ actor # "user"
    /\ change > Threshold \/ -change > Threshold

\* What create_stock_adjustment accepts (module StockLedger has its steps).
Fits(r) == quantity + Change[r] \in 0 .. MaxInt

\* POST /adjustments: the change is made at once, or a request is created.
CreateAdjustment(actor, r) ==
    /\ status[r] = "none"
    /\ \/ /\ NeedsApproval(actor, Change[r])
          /\ status' = [status EXCEPT ![r] = "pending"]
          /\ UNCHANGED <<quantity, executed>>
       \/ /\ ~NeedsApproval(actor, Change[r])
          /\ owner[StockRow] = NoSession
          /\ Fits(r)
          /\ quantity' = quantity + Change[r]
          /\ status' = [status EXCEPT ![r] = "made"]
          /\ executed' = [executed EXCEPT ![r] = 1]
    /\ UNCHANGED <<due, owner, session>>

\* The clock passes expires_at.
Expire(r) ==
    /\ status[r] # "none"
    /\ r \notin due
    /\ due' = due \cup {r}
    /\ UNCHANGED <<status, quantity, executed, owner, session>>
-----------------------------------------------------------------------------
Write(s, rs, st) ==
    /\ pc' = [pc EXCEPT ![s] = "update"]
    /\ decision' = [decision EXCEPT ![s] = st]
    /\ todo' = [todo EXCEPT ![s] = rs]
    /\ UNCHANGED <<status, due, quantity, executed, owner>>

\* resolve_approval reads the request: one that is not pending is a conflict
\* (nothing happens), one that is due becomes expired, the others are decided.
Resolvable(r) == status[r] = "pending"

Resolve(s, r, st) ==
    /\ pc[s] = "idle"
    /\ Resolvable(r)
    /\ Write(s, {r}, IF r \in due THEN "expired" ELSE st)

\* list_approvals reads all requests and marks those that are due.
ListApprovals(s) ==
    LET lapsed == {r \in due : status[r] = "pending"}
    IN  /\ pc[s] = "idle"
        /\ lapsed # {}
        /\ Write(s, lapsed, "expired")

\* The flush sends one UPDATE per request, in the order of the primary key.
Flushed(s, r) == r \in todo[s] /\ r = Min(todo[s])

\* After the last one: an approval is executed.
NextPc_Skip(s, rest) == IF rest = {} THEN "commit" ELSE "update"  \* mutant: it is not
NextPc(s, rest) ==
    IF rest # {} THEN "update" ELSE IF decision[s] = "approved" THEN "execute" ELSE "commit"

Update(s) == \E r \in Request :
    /\ pc[s] = "update"
    /\ Flushed(s, r)
    /\ Available(owner, s, r)
    /\ owner' = Acquire(owner, s, r)
    /\ todo' = [todo EXCEPT ![s] = @ \ {r}]
    /\ pc' = [pc EXCEPT ![s] = NextPc(s, todo'[s])]
    /\ UNCHANGED <<status, due, quantity, executed, decision>>

Close(s) ==
    /\ owner' = Release(owner, s)
    /\ pc' = [pc EXCEPT ![s] = "idle"]
    /\ decision' = [decision EXCEPT ![s] = "none"]
    /\ todo' = [todo EXCEPT ![s] = {}]

\* The requests whose rows the session has written.
Written(s) == {r \in Request : owner[r] = s}

\* execute_approval_action: SELECT the stock row FOR UPDATE and check it.  An
\* insufficient quantity is not caught: the request stays pending.
Execute(s) ==
    /\ pc[s] = "execute"
    /\ Available(owner, s, StockRow)
    /\ \/ /\ \A r \in Written(s) : Fits(r)
          /\ owner' = Acquire(owner, s, StockRow)
          /\ pc' = [pc EXCEPT ![s] = "commit"]
          /\ UNCHANGED <<status, due, quantity, executed, decision, todo>>
       \/ /\ \E r \in Written(s) : ~Fits(r)
          /\ Close(s)
          /\ UNCHANGED <<status, due, quantity, executed>>

\* The commit of the endpoint: the statuses and, of an approval, the stock.
Commit(s) ==
    /\ pc[s] = "commit"
    /\ status' = [r \in Request |-> IF owner[r] = s THEN decision[s] ELSE status[r]]
    /\ \/ /\ owner[StockRow] = s
          /\ \E r \in Written(s) :
                /\ quantity' = quantity + Change[r]
                /\ executed' = [executed EXCEPT ![r] = @ + 1]
       \/ /\ owner[StockRow] # s
          /\ UNCHANGED <<quantity, executed>>
    /\ Close(s)
    /\ UNCHANGED due

\* The connection is lost or the server stops.
Abort(s) ==
    /\ pc[s] # "idle"
    /\ Close(s)
    /\ UNCHANGED <<status, due, quantity, executed>>

Statement(s) == Update(s) \/ Execute(s) \/ Commit(s)

Next ==
    \/ \E r \in Request : Expire(r) \/ \E actor \in ActorType : CreateAdjustment(actor, r)
    \/ \E s \in Session :
          \/ \E r \in Request, st \in {"approved", "rejected"} : Resolve(s, r, st)
          \/ ListApprovals(s) \/ Statement(s) \/ Abort(s)

Spec == Init /\ [][Next]_vars

\* PostgreSQL grants a row lock to the waiting sessions in turn; a service never
\* stops between two statements.
FairSpec == Spec /\ \A s \in Session : SF_vars(Statement(s))
-----------------------------------------------------------------------------
(* Properties *)

TypeOK ==
    /\ status \in [Request -> Status]
    /\ due \subseteq Request
    /\ quantity \in 0 .. MaxInt
    /\ executed \in [Request -> Nat]
    /\ owner \in [Request \cup {StockRow} -> Session \cup {NoSession}]
    /\ pc \in [Session -> {"idle", "update", "execute", "commit"}]
    /\ decision \in [Session -> Status \ {"pending"}]
    /\ todo \in [Session -> SUBSET Request]

\* An approved request has been executed, and a pending one has not (story
\* 11-5, AC1 and AC3): the status and the stock change together or not at all,
\* whatever other people decide meanwhile and wherever a request breaks off.
ApprovedIsExecuted ==
    \A r \in Request : /\ status[r] = "approved" => executed[r] > 0
                       /\ status[r] \in {"none", "pending"} => executed[r] = 0

\* The step that executes a request is the step that approves it; nothing is
\* executed without one, unless a person asks or the change is small.
ExecutesOnApproval ==
    [][\A r \in Request : executed'[r] # executed[r] =>
          \/ status'[r] = "approved"
          \/ /\ status[r] = "none"
             /\ "user" \in ActorType \/ Change[r] \in -Threshold .. Threshold]_vars

\* An approved request is executed once, and any other never: what has been
\* resolved cannot be resolved again ("Approval request has already been
\* resolved"), and a request that ends up rejected or expired has not moved
\* the stock (story 11-5, AC4 and AC5).
ExecutedIffApproved ==
    \A r \in Request : executed[r] = IF status[r] \in {"approved", "made"} THEN 1 ELSE 0

\* Whoever resolves or lists gets an answer, without the help of the deadlock
\* detector: rows are locked in one order, the stock row last.
EveryoneIsAnswered == \A s \in Session : pc[s] # "idle" ~> pc[s] = "idle"

\* What a session relies on: who approves writes one request, has the stock row
\* only to commit what fits, and nobody else has the stock row.
WritesOne(s) ==
    decision[s] = "approved" =>
        \E r \in Request : /\ Written(s) \cup todo[s] = {r}
                           /\ Written(s) \cap todo[s] = {}
HoldsTheStock(s) ==
    IF pc[s] = "commit" /\ decision[s] = "approved"
    THEN owner[StockRow] = s /\ \A r \in Written(s) : Fits(r)
    ELSE owner[StockRow] # s
InStep(s) ==
    /\ IF pc[s] = "idle" THEN Written(s) = {}
                         ELSE decision[s] \in {"approved", "rejected", "expired"}
    /\ pc[s] \in {"execute", "commit"} => todo[s] = {}
    /\ pc[s] = "execute" => decision[s] = "approved"
    /\ WritesOne(s) /\ HoldsTheStock(s)

\* The inductive invariant.
IInv == TypeOK /\ ApprovedIsExecuted /\ \A s \in Session : InStep(s)
=============================================================================

------------------------------ MODULE Customers ------------------------------
(***************************************************************************)
(* The customers of src/backend/domains/customers/service.py and their     *)
(* business numbers, unique in the database.  A creation looks for the     *)
(* number in one transaction, inserts in a second one, and when that one   *)
(* loses the race for the number looks the winner up in a third; an update *)
(* compares the version it loaded without a lock.  Requests run            *)
(* concurrently under READ COMMITTED.                                      *)
(*                                                                         *)
(* Abstracted: all columns but the number and one for the rest (who wrote  *)
(* it); the checks of the fields, which only refuse.                       *)
(***************************************************************************)
EXTENDS Integers, RowLocks

CONSTANTS
    Customer,   \* ids of customers
    Number,     \* normalized business numbers
    NoCustomer, \* no id
    MaxVersion  \* bound: how often a customer is updated

CustomersAssumption ==
    /\ NoCustomer \notin Customer /\ "none" \notin Number
    /\ Customer \cap Number = {}
    /\ MaxVersion \in Nat \ {0}

NoRow == [number |-> "none", version |-> 0, by |-> NoSession]
Row == [number : Number, version : 1 .. MaxVersion, by : Session]

\* What a request is answered: it is done (201, 200), the number belongs to a
\* customer (409), the version has moved on (409), or an unhandled error (500).
Answer == {"none", "done", "duplicate", "version_conflict", "error"}

VARIABLES
    row,        \* committed customers, NoRow before they are created
    given,      \* history: the numbers a customer has given up
    owner,      \* who has written a customer, who is inserting a number
    pc, kind, id, number, expected,   \* each session's step and request
    mine,       \* the row it is going to commit
    answer, named   \* its answer, and the customer a duplicate names

committed == <<row, given>>
request == <<kind, id, number, expected>>
vars == <<committed, owner, pc, request, mine, answer, named>>

Init ==
    /\ row = [c \in Customer |-> NoRow]
    /\ given = {}
    /\ owner = Unlocked(Customer \cup Number)
    /\ pc = [s \in Session |-> "idle"]
    /\ kind = [s \in Session |-> "none"]
    /\ id = [s \in Session |-> NoCustomer]
    /\ number = [s \in Session |-> "none"]
    /\ expected = [s \in Session |-> 0]
    /\ mine = [s \in Session |-> NoRow]
    /\ answer = [s \in Session |-> "none"]
    /\ named = [s \in Session |-> NoCustomer]
-----------------------------------------------------------------------------
(* Requests *)

GoTo(s, label) == pc' = [pc EXCEPT ![s] = label]

\* The customers with a number: one at most, by the unique index.
Bearer(n) == {c \in Customer : row[c].number = n}

\* The unique index: a row with the number that is not committed, or is being
\* written, is waited for.
NumberAvailable(s, n) ==
    /\ Available(owner, s, n)
    /\ \A c \in Bearer(n) : Available(owner, s, c)

Begin(s, k, c, n, v, first) ==
    /\ pc[s] = "idle"
    /\ kind' = [kind EXCEPT ![s] = k]
    /\ id' = [id EXCEPT ![s] = c]
    /\ number' = [number EXCEPT ![s] = n]
    /\ expected' = [expected EXCEPT ![s] = v]
    /\ GoTo(s, first)
    /\ UNCHANGED <<committed, owner, mine, answer, named>>

\* POST /customers; the id is new.
Create(s, c, n) ==
    /\ row[c] = NoRow
    /\ \A t \in Session : id[t] # c
    /\ Begin(s, "create", c, n, 0, "check")

\* PATCH /customers/{id} with the version it was shown; n is the customer's
\* number unless the request changes it.
Update(s, c, n, v) ==
    /\ row[c] # NoRow
    /\ v \in 1 .. row[c].version
    /\ row[c].version < MaxVersion
    /\ Begin(s, "update", c, n, v, "load")

\* The end of the request: what its transaction holds is released.
End(s, a, c) ==
    /\ owner' = Release(owner, s)
    /\ GoTo(s, "answered")
    /\ answer' = [answer EXCEPT ![s] = a]
    /\ named' = [named EXCEPT ![s] = c]
    /\ mine' = [mine EXCEPT ![s] = NoRow]
    /\ UNCHANGED request

Rest(s) ==
    /\ pc[s] = "answered"
    /\ GoTo(s, "idle")
    /\ kind' = [kind EXCEPT ![s] = "none"]
    /\ id' = [id EXCEPT ![s] = NoCustomer]
    /\ number' = [number EXCEPT ![s] = "none"]
    /\ expected' = [expected EXCEPT ![s] = 0]
    /\ answer' = [answer EXCEPT ![s] = "none"]
    /\ named' = [named EXCEPT ![s] = NoCustomer]
    /\ UNCHANGED <<committed, owner, mine>>
-----------------------------------------------------------------------------
(* create_customer *)

\* The first transaction: the optimistic pre-check.
Check(s) ==
    /\ pc[s] = "check"
    /\ \/ \E c \in Bearer(number[s]) : End(s, "duplicate", c)
       \/ /\ Bearer(number[s]) = {}
          /\ GoTo(s, "insert")
          /\ UNCHANGED <<owner, request, mine, answer, named>>
    /\ UNCHANGED committed

\* The second one.  An INSERT waits for another one of its number; if that one
\* has been committed by then, it is refused.
Refused_Escapes == "raise"  \* mutant: the IntegrityError is not handled
Refused == "lookup"

Insert(s) ==
    /\ pc[s] = "insert"
    /\ NumberAvailable(s, number[s])
    /\ \/ /\ Bearer(number[s]) # {}
          /\ GoTo(s, Refused)
          /\ UNCHANGED <<owner, mine>>
       \/ /\ Bearer(number[s]) = {}
          /\ owner' = Acquire(owner, s, number[s])
          /\ mine' = [mine EXCEPT ![s] = [number |-> number[s], version |-> 1, by |-> s]]
          /\ GoTo(s, "commit")
    /\ UNCHANGED <<committed, request, answer, named>>

\* The third one.  The winner may have moved on to another number meanwhile.
Lookup(s) ==
    /\ pc[s] = "lookup"
    /\ \/ \E c \in Bearer(number[s]) : End(s, "duplicate", c)
       \/ Bearer(number[s]) = {} /\ End(s, "error", NoCustomer)
    /\ UNCHANGED committed

Raise(s) ==
    /\ pc[s] = "raise"
    /\ End(s, "error", NoCustomer)
    /\ UNCHANGED committed
-----------------------------------------------------------------------------
(* update_customer *)

\* A plain SELECT, the comparison of the versions, and the search for another
\* customer with the number if it changes.
VersionMatches(s, c) == row[c].version = expected[s]

Load(s) ==
    LET c == id[s]
    IN  /\ pc[s] = "load"
        /\ \/ ~VersionMatches(s, c) /\ End(s, "version_conflict", NoCustomer)
           \/ /\ VersionMatches(s, c)
              /\ \E d \in Bearer(number[s]) \ {c} : End(s, "duplicate", d)
           \/ /\ VersionMatches(s, c)
              /\ Bearer(number[s]) \subseteq {c}
              /\ mine' = [mine EXCEPT ![s] =
                    [number |-> number[s], version |-> row[c].version + 1, by |-> s]]
              /\ GoTo(s, "update")
              /\ UNCHANGED <<owner, request, answer, named>>
        /\ UNCHANGED committed

\* The flush: an UPDATE by primary key that waits for another one of the row,
\* then, if the number was changed, for whoever is inserting that number.
Write(s) ==
    /\ pc[s] = "update"
    /\ Available(owner, s, id[s])
    /\ owner' = Acquire(owner, s, id[s])
    /\ GoTo(s, "number")
    /\ UNCHANGED <<committed, request, mine, answer, named>>

WriteNumber(s) ==
    /\ pc[s] = "number"
    /\ NumberAvailable(s, number[s])
    /\ \/ /\ Bearer(number[s]) \subseteq {id[s]}
          /\ owner' = Acquire(owner, s, number[s])
          /\ GoTo(s, "commit")
          /\ UNCHANGED <<request, mine, answer, named>>
       \/ /\ ~(Bearer(number[s]) \subseteq {id[s]})
          /\ End(s, "error", NoCustomer)
    /\ UNCHANGED committed
-----------------------------------------------------------------------------
Commit(s) ==
    /\ pc[s] = "commit"
    /\ row' = [row EXCEPT ![id[s]] = mine[s]]
    /\ given' = given \cup ({row[id[s]].number} \cap (Number \ {number[s]}))
    /\ End(s, "done", NoCustomer)

\* The connection is lost or the server stops.
Abort(s) ==
    /\ pc[s] \notin {"idle", "answered"}
    /\ owner' = Release(owner, s)
    /\ GoTo(s, "answered")
    /\ mine' = [mine EXCEPT ![s] = NoRow]
    /\ UNCHANGED <<committed, request, answer, named>>

Statement(s) ==
    \/ Check(s) \/ Insert(s) \/ Lookup(s) \/ Raise(s)
    \/ Load(s) \/ Write(s) \/ WriteNumber(s) \/ Commit(s) \/ Rest(s)

Next == \E s \in Session :
    \/ \E c \in Customer, n \in Number :
          Create(s, c, n) \/ \E v \in 1 .. MaxVersion : Update(s, c, n, v)
    \/ Statement(s) \/ Abort(s)

Spec == Init /\ [][Next]_vars

\* The database grants a row to the waiting sessions in turn, a service never
\* stops between two statements.
Fairness == \A s \in Session : SF_vars(Statement(s))

FairSpec == Spec /\ Fairness
-----------------------------------------------------------------------------
(* Properties *)

TypeOK ==
    /\ row \in [Customer -> Row \cup {NoRow}]
    /\ given \subseteq Number
    /\ owner \in [Customer \cup Number -> Session \cup {NoSession}]
    /\ pc \in [Session -> {"idle", "check", "insert", "lookup", "raise", "load",
                           "update", "number", "commit", "answered"}]
    /\ kind \in [Session -> {"none", "create", "update"}]
    /\ id \in [Session -> Customer \cup {NoCustomer}]
    /\ number \in [Session -> Number \cup {"none"}]
    /\ expected \in [Session -> 0 .. MaxVersion]
    /\ mine \in [Session -> Row \cup {NoRow}]
    /\ answer \in [Session -> Answer]
    /\ named \in [Session -> Customer \cup {NoCustomer}]

\* Who loses the race for a business number is told so and shown the winner,
\* not an error of the unique index; only a number that changes hands meanwhile
\* can end in one (story 3-4).  No two customers ever share a number.
CreationIsAnswered ==
    /\ \A s \in Session : kind[s] = "create" =>
          /\ answer[s] = "error" => number[s] \in given
          /\ answer[s] = "duplicate" => \/ row[named[s]].number = number[s]
                                        \/ number[s] \in given
    /\ \A n \in Number : \A c, d \in Bearer(n) : c = d

-----------------------------------------------------------------------------
(* The inductive invariant of CreationIsAnswered *)

OneBearer == \A n \in Number : \A c, d \in Bearer(n) : c = d

\* A number that has been seen in use is in use, or was given up.
SeenInUse(n) == Bearer(n) # {} \/ n \in given

\* What a request is about, by its step.
RequestFits(s) ==
    /\ pc[s] # "idle" => number[s] \in Number /\ id[s] \in Customer
    /\ pc[s] \in {"check", "insert", "lookup"} => kind[s] = "create"
    /\ pc[s] \in {"load", "update", "number"} =>
          kind[s] = "update" /\ expected[s] \in 1 .. MaxVersion - 1
    /\ answer[s] # "none" => pc[s] = "answered"

\* Who is about to commit has the number, which nobody else bears; the insert that
\* was refused had found it in use.
HasTheNumber(s) ==
    /\ pc[s] # "raise"
    /\ pc[s] = "lookup" => SeenInUse(number[s])
    /\ pc[s] \in {"update", "number", "commit"} =>
          mine[s] \in Row /\ mine[s].number = number[s]
    /\ pc[s] = "commit" => /\ owner[number[s]] = s
                           /\ Bearer(number[s]) \subseteq {id[s]}

\* The answers to a creation.
ToldTheWinner(s) ==
    kind[s] = "create" =>
        /\ answer[s] = "error" => number[s] \in given
        /\ answer[s] = "duplicate" => /\ named[s] \in Customer
                                      /\ \/ row[named[s]].number = number[s]
                                         \/ number[s] \in given

IInv ==
    /\ TypeOK /\ OneBearer
    /\ \A s \in Session : RequestFits(s) /\ HasTheNumber(s) /\ ToldTheWinner(s)
-----------------------------------------------------------------------------
\* Optimistic locking: whatever an update changes, it changes the version that
\* its sender was shown, by one.
UpdatesAreVersioned ==
    [][\A c \in Customer : row[c] # NoRow /\ row'[c] # row[c] =>
          row'[c].version = row[c].version + 1]_vars

\* Every request ends.
Answered == \A s \in Session : pc[s] # "idle" ~> pc[s] = "idle"
=============================================================================

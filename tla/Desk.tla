--------------------------------- MODULE Desk ---------------------------------
(***************************************************************************)
(* The desk: what people ask of single documents, each in a module of its  *)
(* own that shares no row with the others.  A behaviour is one of them,    *)
(* chosen at the start; the others rest in their first state.  The         *)
(* approvals are extended, the others are instantiated on variables of     *)
(* their own.                                                              *)
(***************************************************************************)
EXTENDS Approval

CONSTANTS
    TheRow, External,                        \* eGUI
    Line, Ordered, OtherLine, Receipt,       \* supplier orders
    Customer, Number, NoCustomer, MaxVersion,
    Key, MaxSold                             \* monthly sales

VARIABLES
    part,
    row, eOwner, ePc, eKind, loaded, written,                 \* eGUI
    order, units, oOwner, oPc, oKind, oAsks, oMine, took,     \* supplier orders
    customer, given, cOwner, cPc, cKind, cId, cNumber, expected, cMine,
    answer, named,                                            \* customers
    month, sold, table, mOwner, mPc, points, mTodo            \* monthly sales

Part == {"approval", "egui", "supplier", "customers", "sales"}

Egui == INSTANCE EguiSubmission WITH owner <- eOwner, pc <- ePc, kind <- eKind

Supplier == INSTANCE SupplierOrders WITH stock <- units, owner <- oOwner,
    pc <- oPc, kind <- oKind, asks <- oAsks, mine <- oMine

Clients == INSTANCE Customers WITH row <- customer, owner <- cOwner,
    pc <- cPc, kind <- cKind, id <- cId, number <- cNumber, mine <- cMine

Sales == INSTANCE SalesMonthly WITH owner <- mOwner, pc <- mPc, todo <- mTodo

ASSUME DeskAssumption ==
    /\ Egui!EguiAssumption
    /\ Supplier!SupplierAssumption /\ Clients!CustomersAssumption
    /\ Sales!SalesAssumption

egui == <<row, eOwner, ePc, eKind, loaded, written>>
supplier == <<order, units, oOwner, oPc, oKind, oAsks, oMine, took>>
customers == <<customer, given, cOwner, cPc, cKind, cId, cNumber, expected, cMine,
               answer, named>>
sales == <<month, sold, table, mOwner, mPc, points, mTodo>>
desk == <<part, vars, egui, supplier, customers, sales>>

\* The eGUI row starts in any state its module allows when it is what runs.
DeskInit ==
    /\ part \in Part
    /\ Init
    /\ Egui!Init /\ (part # "egui" => row = Egui!NoRow)
    /\ Supplier!Init
    /\ Clients!Init
    /\ Sales!Init

Others(p) ==
    /\ UNCHANGED part
    /\ IF p = "approval" THEN TRUE ELSE UNCHANGED vars
    /\ IF p = "egui" THEN TRUE ELSE UNCHANGED egui
    /\ IF p = "supplier" THEN TRUE ELSE UNCHANGED supplier
    /\ IF p = "customers" THEN TRUE ELSE UNCHANGED customers
    /\ IF p = "sales" THEN TRUE ELSE UNCHANGED sales

ApprovalSteps == part = "approval" /\ Next /\ Others("approval")
EguiSteps == part = "egui" /\ Egui!Next /\ Others("egui")
SupplierSteps == part = "supplier" /\ Supplier!Next /\ Others("supplier")
ClientSteps == part = "customers" /\ Clients!Next /\ Others("customers")
SalesSteps == part = "sales" /\ Sales!Next /\ Others("sales")
DeskNext == ApprovalSteps \/ EguiSteps \/ SupplierSteps \/ ClientSteps \/ SalesSteps

\* The fairness of each module; as one part runs, that of the union of their
\* steps is that of its own.  The database grants a row to the waiting sessions
\* in turn and a service never stops between two statements; people do not stop
\* refreshing, nor receiving what is missing.
Serve(s) ==
    \/ part = "approval" /\ Statement(s) /\ Others("approval")
    \/ part = "egui" /\ Egui!Statement(s) /\ Others("egui")
    \/ part = "supplier" /\ Supplier!Statement(s) /\ Others("supplier")
    \/ part = "customers" /\ Clients!Statement(s) /\ Others("customers")
Ask(s) ==
    \/ part = "egui" /\ Egui!Begin(s, "refresh") /\ Others("egui")
    \/ /\ part = "supplier"
       /\ \/ Supplier!CreateSupplierOrder
          \/ Supplier!Receive(s, Supplier!Everything)
       /\ Others("supplier")

DeskFairness == \A s \in Session : SF_desk(Serve(s)) /\ SF_desk(Ask(s))

DeskSpec == DeskInit /\ [][DeskNext]_desk /\ DeskFairness
-----------------------------------------------------------------------------
(* Properties: those of Approval, and of the others under their names here. *)

DeskTypeOK ==
    /\ part \in Part
    /\ Egui!TypeOK /\ Supplier!TypeOK /\ Clients!TypeOK
    /\ Sales!TypeOK

\* Asking often enough gets there: refreshing ends at an answer of the FIA, or at
\* giving up, and an acknowledged submission has its reference, whatever
\* overwrites whatever; a supplier order can be completed after any receipt, an
\* empty one too.
Settles ==
    /\ part = "egui" => Egui!Settles
    /\ []Egui!AcknowledgedWithReference
    /\ part = "supplier" => Supplier!Completes

\* What a supplier order says has been received is what the stock has gained.
DeliveriesAreBooked == Supplier!DeliveriesAreBooked

\* Who loses the race for a business number is shown the winner, not an error.
CreationIsAnswered == Clients!CreationIsAnswered

\* Refreshes of a closed month end at what was sold, whatever they overwrite.
MonthSettles == Sales!MonthSettles

\* Every request of every part ends.
EveryRequestEnds ==
    /\ EveryoneIsAnswered
    /\ Egui!Answered
    /\ Supplier!Answered
    /\ Clients!Answered
=============================================================================

----------------------------- MODULE SmokeClient -----------------------------
(***************************************************************************)
(* The smoke check of the repository as a customer of the checkout workflow: *)
(* check_async_workflow.py orders, waits for the invoice, pays and waits for *)
(* completion; then it orders again, has a payment fail and pays once more.  *)
(* It acts on what its last GET showed it, not on what the run is by then.   *)
(*                                                                           *)
(* Every step of CheckoutSaga is a step here; only the script asks for       *)
(* checkouts and payments.  A script whose wait times out, or whose request  *)
(* is refused, stops; so does one that takes no further step.                *)
(***************************************************************************)
EXTENDS CheckoutSaga

CONSTANTS First, Second     \* its two checkouts

ASSUME SmokeClientAssumption ==
  /\ Runs = {First, Second} /\ First # Second
  /\ PayRequests = {3, 7, 9}     \* the lines of Main that pay
  /\ {"success", "insufficient_funds"} \subseteq Scenarios     \* what it pays with

VARIABLE line               \* the step of Main that comes next

\* What main() does, in order.
Main ==
  << [run |-> First,  does |-> "order"],
     [run |-> First,  does |-> "waitInvoice"],
     [run |-> First,  does |-> "pay", scenario |-> "success"],
     [run |-> First,  does |-> "waitCompleted"],
     [run |-> Second, does |-> "order"],
     [run |-> Second, does |-> "waitInvoice"],
     [run |-> Second, does |-> "pay", scenario |-> "insufficient_funds"],
     [run |-> Second, does |-> "waitFailure"],
     [run |-> Second, does |-> "pay", scenario |-> "success"],
     [run |-> Second, does |-> "waitCompleted"] >>

Doing(i, labels) == line = i /\ i \in DOMAIN Main /\ Main[i].does \in labels
RunAt(i) == runs[Main[i].run]

\* The predicate each wait_for polls the run with; only those of the first checkout
\* look at the documents and the notification.
WaitIsOver(i) ==
  CASE Main[i].does = "waitInvoice"   -> RunAt(i).status = "awaiting_payment" /\ RunAt(i).order # NoOrder
                                         /\ (Main[i].run = First => RunAt(i).invoice)
    [] Main[i].does = "waitCompleted" -> RunAt(i).status = "completed"
                                         /\ (Main[i].run = First =>
                                               RunAt(i).receipt /\ RunAt(i).notification)
    [] Main[i].does = "waitFailure"   -> RunAt(i).failure = "INSUFFICIENT_FUNDS"

\* POST /api/orders, one attempt with a key of its own.
PlaceOrder(i) ==
  /\ Doing(i, {"order"})
  /\ \E a \in Attempts : FindRun(Main[i].run, a)
  /\ line' = i + 1

\* Mutant: the script does not wait for the failure.
SeeAnything(i) ==
  /\ Doing(i, {"waitInvoice", "waitCompleted", "waitFailure"})
  /\ \E a \in Attempts : intake[<<Main[i].run, a>>] = "done"
  /\ WaitIsOver(i) \/ Main[i].does = "waitFailure"
  /\ line' = i + 1
  /\ UNCHANGED vars

\* The GET that ends a wait; workflow_id came with the answer of the POST.
See(i) ==
  /\ Doing(i, {"waitInvoice", "waitCompleted", "waitFailure"})
  /\ \E a \in Attempts : intake[<<Main[i].run, a>>] = "done"
  /\ WaitIsOver(i)
  /\ line' = i + 1
  /\ UNCHANGED vars

\* POST /api/orders/{id}/payments, with a key of its own at each line.
Pay(i) ==
  /\ Doing(i, {"pay"})
  /\ CheckPayment(i, Main[i].run, Main[i].scenario)
  /\ line' = i + 1

SmokeInit == Init /\ line = 1

SmokeNext ==
  \/ Steps /\ UNCHANGED line
  \/ \E i \in DOMAIN Main : PlaceOrder(i) \/ See(i) \/ Pay(i)

SmokeSpec == SmokeInit /\ [][SmokeNext]_<<vars, line>>
-----------------------------------------------------------------------------
Passed(i) == line > i
HistoryOf(o) == {trail[o][k] : k \in DOMAIN trail[o]}

\* What the script demands of the system holds whenever it gets there, although
\* two workers may be at it and some of their calls fail or come late: a payment
\* it posts is accepted (202), the invoice it downloads is there, a failed payment
\* left no receipt, and a completed run has its receipt and the whole history.  The
\* script looks for invoice, receipt and history at its first checkout only; they are
\* demanded of the second as well.
SmokeExpectations ==
  /\ \A i \in DOMAIN Main : Doing(i, {"pay"}) =>
       RunAt(i).status = "awaiting_payment" /\ <<RunAt(i).order, "invoice">> \in docs
  /\ Doing(9, {"pay"}) =>
       ~ RunAt(9).receipt /\ <<RunAt(9).order, "receipt">> \notin docs
  /\ \A i \in {4, 10} : Passed(i) =>
       /\ <<RunAt(i).order, "receipt">> \in docs
       /\ {"created", "invoice_generated", "payment_completed",
           "receipt_generated", "notification_sent"} \subseteq HistoryOf(RunAt(i).order)
=============================================================================

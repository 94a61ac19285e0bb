------------------------------ MODULE Dashboard ------------------------------
(***************************************************************************)
(* frontend-dashboard as a customer of the checkout workflow: one tab that   *)
(* orders, polls the run while its status is an active one, and offers to    *)
(* pay when the status it shows is awaiting_payment.                         *)
(*                                                                           *)
(* A GET is two steps, the row as workflow-service reads it and the answer   *)
(* as the tab shows it; the run, and the tab's other GET, may overtake it.   *)
(* The refresh button is no step: with an order selected it reads the        *)
(* history again and keeps the run it has.  Every step of CheckoutSaga is a  *)
(* step here.                                                                *)
(***************************************************************************)
EXTENDS CheckoutSaga

VARIABLES
  shown,             \* the status the tab displays
  poll,              \* its polling loop
  click              \* its pay button, with the payment request of the click

tabVars == <<shown, poll, click>>

activeStatuses == {"accepted", "order_creating", "invoice_generating", "payment_requested",
                   "payment_processing", "receipt_generating", "notification_sending"}

\* PaymentSimulationPanel; a run whose current_step is payment_failed is
\* awaiting_payment as well.
canPay == shown = "awaiting_payment" /\ click.at = "free"

DashboardInit ==
  /\ Init
  /\ shown = "none"
  /\ poll = [at |-> "off", saw |-> "none"]
  /\ click = [at |-> "free", saw |-> "none", request |-> CHOOSE p \in PayRequests : TRUE]
-----------------------------------------------------------------------------
\* createOrder: the POST, and its answer, which starts the polling.
CreateOrder(r, a) ==
  /\ FindRun(r, a)
  /\ UNCHANGED tabVars

FollowRun(r, a) ==
  /\ intake[r, a] = "done"
  /\ shown = "none" /\ poll.at = "off"
  /\ poll' = [poll EXCEPT !.at = "ask"]
  /\ UNCHANGED <<vars, shown, click>>

PollReads(r) ==
  /\ poll.at = "ask"
  /\ poll' = [at |-> "read", saw |-> runs[r].status]
  /\ UNCHANGED <<vars, shown, click>>

\* The answer: the loop goes on while the status it shows is active.
PollShows ==
  /\ poll.at = "read"
  /\ shown' = poll.saw
  /\ poll' = [poll EXCEPT !.at = IF poll.saw \in activeStatuses THEN "ask" ELSE "off"]
  /\ UNCHANGED <<vars, click>>

\* A GET that fails shows a message and ends the loop.
PollFails ==
  /\ UpstreamFaults
  /\ poll.at \in {"ask", "read"}
  /\ poll' = [poll EXCEPT !.at = "off"]
  /\ UNCHANGED <<vars, shown, click>>

\* requestPayment: each click has an idempotency key of its own.
ClickPay(p, r, s) ==
  /\ canPay
  /\ CheckPayment(p, r, s)
  /\ click' = [at |-> "posting", saw |-> "none", request |-> p]
  /\ UNCHANGED <<shown, poll>>

\* The 202: polling starts anew, next to a GET of its own.
PayAccepted ==
  /\ click.at = "posting"
  /\ pay[click.request].at = "done"
  /\ click' = [click EXCEPT !.at = "ask"]
  /\ poll' = [poll EXCEPT !.at = "ask"]
  /\ UNCHANGED <<vars, shown>>

PayReads(r) ==
  /\ click.at = "ask"
  /\ click' = [click EXCEPT !.at = "read", !.saw = runs[r].status]
  /\ UNCHANGED <<vars, shown, poll>>

\* The button is free again.
PayShows ==
  /\ click.at = "read"
  /\ shown' = click.saw
  /\ click' = [click EXCEPT !.at = "free"]
  /\ UNCHANGED <<vars, poll>>

Tab ==
  \/ \E r \in Runs, a \in Attempts : CreateOrder(r, a) \/ FollowRun(r, a)
  \/ \E r \in Runs : PollReads(r) \/ PayReads(r)
  \/ PollShows \/ PollFails \/ PayAccepted \/ PayShows
  \/ \E p \in PayRequests, r \in Runs, s \in Scenarios : ClickPay(p, r, s)

DashboardNext == (Steps /\ UNCHANGED tabVars) \/ Tab

DashboardSpec == DashboardInit /\ [][DashboardNext]_<<vars, tabVars>>
=============================================================================

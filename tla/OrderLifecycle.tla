--------------------------- MODULE OrderLifecycle ---------------------------
(***************************************************************************)
(* What order-service promises of an order: it is created once, and from    *)
(* then on its status moves, one indivisible step at a time, along          *)
(* ALLOWED_ORDER_TRANSITIONS, every move leaving one entry in its history.  *)
(*                                                                          *)
(* OrderService implements this specification with row locks, transactions  *)
(* and lost replies; CheckoutSaga takes its two actions as the whole effect *)
(* of a call to the service.                                                *)
(***************************************************************************)
EXTENDS Naturals, Sequences

CONSTANT Orders    \* order ids (uuid4, fresh for each INSERT)

VARIABLES
  status,          \* orders.status, Absent while there is no row
  trail            \* the statuses of order_status_history, in commit order

lifecycleVars == <<status, trail>>

Absent == "absent"

OrderStatuses == {"created", "invoice_generated", "payment_completed",
                  "payment_failed", "receipt_generated", "notification_sent"}

ALLOWED_ORDER_TRANSITIONS ==
  { <<"created", "invoice_generated">>,
    <<"invoice_generated", "payment_completed">>,
    <<"invoice_generated", "payment_failed">>,
    <<"payment_failed", "payment_completed">>,
    <<"payment_failed", "payment_failed">>,
    <<"payment_completed", "receipt_generated">>,
    <<"receipt_generated", "notification_sent">> }

\* A transition is allowed from the status the row holds.
Allowed(from, to) == <<from, to>> \in ALLOWED_ORDER_TRANSITIONS

Init ==
  /\ status = [o \in Orders |-> Absent]
  /\ trail = [o \in Orders |-> <<>>]

\* POST /orders: the row and its first history entry, in one commit.
CreateOrder(o) ==
  /\ status[o] = Absent
  /\ status' = [status EXCEPT ![o] = "created"]
  /\ trail' = [trail EXCEPT ![o] = Append(@, "created")]

\* POST /orders/{id}/transitions that answers 200.
Transition(o, to) ==
  /\ Allowed(status[o], to)
  /\ status' = [status EXCEPT ![o] = to]
  /\ trail' = [trail EXCEPT ![o] = Append(@, to)]

Next ==
  \/ \E o \in Orders : CreateOrder(o)
  \/ \E o \in Orders, to \in OrderStatuses : Transition(o, to)

Spec == Init /\ [][Next]_lifecycleVars

=============================================================================

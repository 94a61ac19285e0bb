----------------------------- MODULE LegacyRoutes -----------------------------
(***************************************************************************)
(* The legacy/manual routes of api-gateway, which a person uses to make the  *)
(* invoice or the receipt of an order or to send its mail, next to the       *)
(* checkout workflow of CheckoutSaga that does the same by itself.           *)
(*                                                                           *)
(* A route loads the order, checks its status, calls document-service or     *)
(* notification-service and then moves the order: three calls, with other    *)
(* routes and the worker in between.  The idempotency layer around a route   *)
(* decides whether it runs (GatewayIdempotency); here it is one run.         *)
(***************************************************************************)
EXTENDS CheckoutSaga

CONSTANT Manuals     \* requests to the manual routes

VARIABLES
  manual,            \* the order of each request and the calls it has left
  notices            \* orders a payment_failed mail was sent for

legacyVars == <<manual, notices>>

\* The status ensure_order_status asks for, by document or mail template.
Needs == [invoice |-> "created", receipt |-> "payment_completed",
          workflow_completed |-> "receipt_generated", payment_failed |-> "payment_failed"]

\* Mutant: the order is moved before its receipt is made.
RouteScriptMovesFirst ==
  [invoice            |-> <<"postInvoice", "moveInvoiced">>,
   receipt            |-> <<"moveReceipted", "postReceipt">>,
   workflow_completed |-> <<"postNotification", "moveNotified">>,
   payment_failed     |-> <<"postNotice">>]

\* The calls of a route once the order's status was found right.
RouteScript ==
  [invoice            |-> <<"postInvoice", "moveInvoiced">>,
   receipt            |-> <<"postReceipt", "moveReceipted">>,
   workflow_completed |-> <<"postNotification", "moveNotified">>,
   payment_failed     |-> <<"postNotice">>]

NextCall(m) == Head(manual[m].todo)
AtCall(m, labels) == manual[m].todo # <<>> /\ NextCall(m) \in labels

\* A call of a route, as the service sees it.
ManualCall(m) == [does |-> NextCall(m), run |-> owner[manual[m].order],
                  order |-> manual[m].order, scenario |-> "success"]

Proceed(m) == manual' = [manual EXCEPT ![m].todo = Tail(@)]
EndRoute(m) == manual' = [manual EXCEPT ![m].todo = <<>>]

LegacyInit ==
  /\ Init
  /\ manual = [m \in Manuals |-> [order |-> NoOrder, todo |-> <<>>]]
  /\ notices = {}
-----------------------------------------------------------------------------
\* Mutant: the status of the order is not looked at.
LoadOrderUnchecked(m, o, route) ==
  /\ manual[m].order = NoOrder
  /\ orderStatus[o] # OL!Absent
  /\ manual' = [manual EXCEPT ![m] = [order |-> o, todo |-> RouteScript[route]]]
  /\ UNCHANGED <<vars, notices>>

\* load_owned_order and ensure_order_status: another status is answered 409.
LoadOrder(m, o, route) ==
  /\ manual[m].order = NoOrder
  /\ orderStatus[o] = Needs[route]
  /\ manual' = [manual EXCEPT ![m] = [order |-> o, todo |-> RouteScript[route]]]
  /\ UNCHANGED <<vars, notices>>

\* The document is made, or the mail sent; a mail that was not sent is answered
\* 201 all the same, and the order stays where it is.
MakeOrSend(m) ==
  /\ AtCall(m, {"postInvoice", "postReceipt", "postNotification"})
  /\ \E sent \in MailOutcomes :
       /\ HttpEffect(ManualCall(m), sent)
       /\ IF NextCall(m) = "postNotification" /\ ~ sent THEN EndRoute(m) ELSE Proceed(m)
  /\ UNCHANGED <<swVars, commands, late, handlerVars, requestVars, notices>>

SendNotice(m) ==
  /\ AtCall(m, {"postNotice"})
  /\ \E sent \in MailOutcomes :
       notices' = IF sent THEN notices \cup {manual[m].order} ELSE notices
  /\ Proceed(m)
  /\ UNCHANGED vars

\* transition_order: 409 when somebody else moved the order meanwhile.
MoveOrder(m) ==
  /\ AtCall(m, DOMAIN MoveTo)
  /\ IF OL!Allowed(orderStatus[manual[m].order], MoveTo[NextCall(m)])
     THEN MovesOrder(ManualCall(m))
     ELSE UNCHANGED dataVars
  /\ Proceed(m)
  /\ UNCHANGED <<swVars, commands, late, handlerVars, requestVars, notices>>

\* A call fails or times out: 502 or 504, and the service may carry on with it.
RouteFails(m) ==
  /\ UpstreamFaults
  /\ manual[m].todo # <<>>
  /\ EndRoute(m)
  /\ \/ UNCHANGED <<late, notices>>
     \/ /\ AtCall(m, {"postNotice"})
        /\ notices' = notices \cup {manual[m].order}
        /\ UNCHANGED late
     \/ /\ ~ AtCall(m, {"postNotice"})
        /\ Cardinality(late) < MaxLate
        /\ late' = late \cup {ManualCall(m)}
        /\ UNCHANGED notices
  /\ UNCHANGED <<swVars, commands, dataVars, handlerVars, requestVars>>

Manual(m) ==
  \/ \E o \in Orders, route \in DOMAIN RouteScript : LoadOrder(m, o, route)
  \/ MakeOrSend(m) \/ SendNotice(m) \/ MoveOrder(m) \/ RouteFails(m)

LegacyNext ==
  \/ Next /\ UNCHANGED legacyVars
  \/ \E m \in Manuals : Manual(m)

LegacySpec == LegacyInit /\ [][LegacyNext]_<<vars, legacyVars>>
-----------------------------------------------------------------------------
Invoiced == OL!OrderStatuses \ {"created"}
Receipted == {"receipt_generated", "notification_sent"}

\* Whoever moved an order, the worker or a person, and whatever failed or came
\* late: a status past the invoice has an invoice behind it, a paid one a charge,
\* one past the receipt a receipt, and the last one a mail.
StatusIsBacked ==
  \A o \in Orders :
    /\ orderStatus[o] \in Invoiced => <<o, "invoice">> \in docs
    /\ orderStatus[o] \in Paid => charges[o] > 0
    /\ orderStatus[o] \in Receipted => <<o, "receipt">> \in docs
    /\ orderStatus[o] = "notification_sent" => o \in mails

\* A person is told of a failed payment only if a payment of the order failed,
\* although it may have been paid between the check and the mail.
NoticesAreTrue ==
  \A o \in notices : \E i \in 1..Len(trail[o]) : trail[o][i] = "payment_failed"
=============================================================================

------------------------- MODULE LegacyRoutesProofs -------------------------
(***************************************************************************)
(* The manual routes next to the workflow, for any number of either: what a *)
(* person and the worker do to the same order, in any order, with calls     *)
(* that fail, are abandoned or come late.                                   *)
(*                                                                          *)
(* A step of the workflow keeps SagaInv as CheckoutSagaProofs shows it.  The *)
(* routes add data and take none back (DataKept), so what a handler or a     *)
(* route learned stays true while the other one acts.                       *)
(***************************************************************************)
EXTENDS LegacyRoutes, CheckoutSagaProofs

\* What may be left of a route.
RouteParts ==
  {<<>>, <<"postInvoice", "moveInvoiced">>, <<"moveInvoiced">>, <<"postReceipt", "moveReceipted">>,
   <<"moveReceipted">>, <<"postNotification", "moveNotified">>, <<"moveNotified">>, <<"postNotice">>}

\* The calls of a route that the saga's handlers make too.
RouteCalls == {"postInvoice", "postReceipt", "postNotification", "moveInvoiced", "moveReceipted", "moveNotified"}

\* A route that moves an order has made what it moves it for; one that makes a receipt
\* found the order paid, and one that tells of a failed payment found it failed.
RouteKnows(m) ==
  LET o == manual[m].order  left == manual[m].todo IN
  /\ left \in RouteParts
  /\ left # <<>> => o \in Orders
  /\ left = <<"moveInvoiced">> => <<o, "invoice">> \in docs
  /\ left = <<"postReceipt", "moveReceipted">> => orderStatus[o] \in Paid
  /\ left = <<"moveReceipted">> => <<o, "receipt">> \in docs
  /\ left = <<"moveNotified">> => o \in mails
  /\ left = <<"postNotice">> => "payment_failed" \in Seen(o)

RoutesKnow ==
  /\ manual \in [Manuals -> [order : Orders \cup {NoOrder}, todo : RouteParts]]
  /\ \A m \in Manuals : RouteKnows(m)

\* So has a call that was left behind.
CallKnows(c) ==
  /\ c.does = "moveInvoiced" => <<c.order, "invoice">> \in docs
  /\ c.does = "moveReceipted" => <<c.order, "receipt">> \in docs
  /\ c.does = "moveNotified" => c.order \in mails

LateKnowMoves == \A c \in late : CallKnows(c)

NoticesKnown == notices \subseteq Orders /\ \A o \in notices : "payment_failed" \in Seen(o)

\* What the workflow's own steps are shown to keep.
SagaInv == Sound /\ PaidInv /\ DeliveryInv /\ HandlersOnScript /\ HistoryShows

\* The inductive invariant.
LegacyInv == SagaInv /\ StatusIsBacked /\ LateKnowMoves /\ RoutesKnow /\ NoticesKnown
-----------------------------------------------------------------------------
\* What the calls of handlers and routes do.

\* A call by a caller that knows backs what it moves.
LEMMA CallBacks ==
  ASSUME Sound, StatusIsBacked, NEW c, c.does # "postOrder" => c.order \in Orders \/ c.does = "getOrder",
         c.does = "movePaid" => charges[c.order] > 0, CallKnows(c),
         NEW sent, HttpEffect(c, sent)
  PROVE  StatusIsBacked'
  <1> USE DEF Invoiced, Receipted, Paid, OL!OrderStatuses
  <1>1. /\ orderStatus \in [Orders -> OL!OrderStatuses \cup {OL!Absent}] /\ charges \in [Orders -> Nat]
    BY TypeParts DEF Sound, DataTypes
  <1>2. CASE CreatesOrder(c)
    BY <1>1, <1>2 DEF CreatesOrder, OL!CreateOrder, OL!Absent, StatusIsBacked
  <1>3. CASE MovesOrder(c)
    <2>1. /\ c.order \in Orders /\ OL!Allowed(orderStatus[c.order], MoveTo[c.does])
          /\ orderStatus' = [orderStatus EXCEPT ![c.order] = MoveTo[c.does]]
          /\ UNCHANGED <<charges, docs, mails>>
      BY <1>3 DEF MovesOrder, OL!Transition, MoveTo
    <2>2. orderStatus'[c.order] = MoveTo[c.does] /\ \A o \in Orders \ {c.order} : orderStatus'[o] = orderStatus[o]
      BY <1>1, <2>1
    <2>3. /\ MoveTo[c.does] = "invoice_generated" => c.does = "moveInvoiced"
          /\ MoveTo[c.does] = "payment_completed" => c.does = "movePaid"
          /\ MoveTo[c.does] = "receipt_generated" => c.does = "moveReceipted"
          /\ MoveTo[c.does] = "notification_sent" => c.does = "moveNotified"
      BY <1>3 DEF MovesOrder, MoveTo
    <2>4. /\ MoveTo[c.does] # "created"
          /\ MoveTo[c.does] # "invoice_generated" => orderStatus[c.order] \in Invoiced
          /\ MoveTo[c.does] \in {"receipt_generated", "notification_sent"} => orderStatus[c.order] \in Paid
          /\ MoveTo[c.does] = "notification_sent" => orderStatus[c.order] = "receipt_generated"
      BY <2>1 DEF OL!Allowed, OL!ALLOWED_ORDER_TRANSITIONS
    <2>5. /\ MoveTo[c.does] \in Invoiced => <<c.order, "invoice">> \in docs
          /\ MoveTo[c.does] \in Paid => charges[c.order] > 0
          /\ MoveTo[c.does] \in Receipted => <<c.order, "receipt">> \in docs
          /\ MoveTo[c.does] = "notification_sent" => c.order \in mails
      BY <2>1, <2>3, <2>4 DEF StatusIsBacked, CallKnows
    <2>6. ASSUME NEW o \in Orders
          PROVE  /\ orderStatus'[o] \in Invoiced => <<o, "invoice">> \in docs'
                 /\ orderStatus'[o] \in Paid => charges'[o] > 0
                 /\ orderStatus'[o] \in Receipted => <<o, "receipt">> \in docs'
                 /\ orderStatus'[o] = "notification_sent" => o \in mails'
      <3>1. CASE o = c.order
        BY <2>1, <2>2, <2>5, <3>1
      <3>2. CASE o # c.order
        BY <2>1, <2>2, <3>2 DEF StatusIsBacked
      <3>3. QED
        BY <3>1, <3>2
    <2>7. QED
      BY <2>6 DEF StatusIsBacked
  <1>4. CASE MakesDocument(c)
    BY <1>4 DEF MakesDocument, StatusIsBacked
  <1>5. CASE ChargesOrder(c)
    <2>1. \A o \in Orders : charges[o] > 0 => charges'[o] > 0
      BY <1>1, <1>5 DEF ChargesOrder
    <2>2. UNCHANGED <<orderStatus, docs, mails>>
      BY <1>5 DEF ChargesOrder
    <2>3. QED
      BY <2>1, <2>2 DEF StatusIsBacked
  <1>6. CASE SendsMail(c, sent)
    BY <1>6 DEF SendsMail, StatusIsBacked
  <1>7. CASE UNCHANGED dataVars
    BY <1>7 DEF dataVars, StatusIsBacked
  <1>8. QED
    BY <1>2, <1>3, <1>4, <1>5, <1>6, <1>7 DEF HttpEffect

\* A part of a script that starts with a move.
LEMMA MoveParts ==
  ASSUME NEW type \in DOMAIN Script, NEW s \in Parts[type], s # <<>>
  PROVE  /\ Head(s) = "moveInvoiced" => s = <<"moveInvoiced", "setAwaiting", "tell">>
         /\ Head(s) = "moveReceipted" => s = <<"moveReceipted", "setSending", "sendNotify">>
         /\ Head(s) = "moveNotified" => s = SentScript
  <1>1. ASSUME type = "order_create"
        PROVE  Head(s) \notin {"moveInvoiced", "moveReceipted", "moveNotified"}
    BY <1>1, ShortTails DEF Parts, OrderCreateScript
  <1>2. ASSUME type = "generate_invoice"
        PROVE  /\ Head(s) \notin {"moveReceipted", "moveNotified"}
               /\ Head(s) = "moveInvoiced" => s = <<"moveInvoiced", "setAwaiting", "tell">>
    BY <1>2, ShortTails DEF Parts, InvoiceScript
  <1>3. ASSUME type = "payment_requested"
        PROVE  Head(s) \notin {"moveInvoiced", "moveReceipted", "moveNotified"}
    BY <1>3, ShortTails DEF Parts, PaymentRequestedScript
  <1>4. ASSUME type = "payment_process"
        PROVE  Head(s) \notin {"moveInvoiced", "moveReceipted", "moveNotified"}
    BY <1>4, ShortTails DEF Parts, PaymentProcessScript, PaidScript, RetryScript, RejectedScript
  <1>5. ASSUME type = "generate_receipt"
        PROVE  /\ Head(s) \notin {"moveInvoiced", "moveNotified"}
               /\ Head(s) = "moveReceipted" => s = <<"moveReceipted", "setSending", "sendNotify">>
    BY <1>5, ShortTails DEF Parts, ReceiptScript
  <1>6. ASSUME type = "notification_send"
        PROVE  /\ Head(s) \notin {"moveInvoiced", "moveReceipted"}
               /\ Head(s) = "moveNotified" => s = SentScript
    BY <1>6, ShortTails DEF Parts, NotificationScript, SentScript, UnsentScript
  <1>7. QED
    BY <1>1, <1>2, <1>3, <1>4, <1>5, <1>6 DEF Script

\* A handler that moves an order has made what it moves it for.
LEMMA HandlerCallKnows ==
  ASSUME SagaInv, NEW w \in Workers, AtAwait(w, HttpAwaits), NEW c, c = Call(w)
  PROVE  /\ CallKnows(c)
         /\ c.does = "movePaid" => charges[c.order] > 0
         /\ c.does # "postOrder" => c.order \in Orders
  <1>1. /\ c.does = Await(w) /\ c.order = loc[w] /\ (Await(w) # "postOrder" => loc[w] \in Orders)
        /\ pc[w] = "handle" /\ todo[w] # <<>> /\ Await(w) = Head(todo[w])
    BY CallKnown DEF SagaInv, AtAwait, Handling, Await
  <1>2. todo[w] \in Parts[Command(w).type] /\ Command(w).type \in DOMAIN Script
    BY <1>1, CommandTyped DEF SagaInv, HandlersOnScript, OnScript, CommandsTyped
  <1>3. KnowsDone(w) /\ KnowsPaid(w) /\ Await(w) \in Ahead(w)
    BY <1>1, AwaitIsAhead DEF SagaInv, DeliveryInv, HandlersKnowDone, PaidInv, HandlersKnowPaid
  <1>4. ASSUME Await(w) = "moveInvoiced" PROVE <<loc[w], "invoice">> \in docs
    <2>1. todo[w] = <<"moveInvoiced", "setAwaiting", "tell">>
      BY <1>1, <1>2, <1>4, MoveParts
    <2>2. "setAwaiting" \in Ahead(w)
      BY <2>1 DEF Ahead, Awaits
    <2>3. todo[w] # InvoiceScript /\ todo[w] # Tail(InvoiceScript)
      BY <2>1 DEF InvoiceScript
    <2>4. QED
      BY <1>3, <2>2, <2>3 DEF KnowsDone
  <1>5. ASSUME Await(w) = "moveReceipted" PROVE <<loc[w], "receipt">> \in docs
    <2>1. todo[w] = <<"moveReceipted", "setSending", "sendNotify">>
      BY <1>1, <1>2, <1>5, MoveParts
    <2>2. "setSending" \in Ahead(w)
      BY <2>1 DEF Ahead, Awaits
    <2>3. todo[w] # ReceiptScript
      BY <2>1 DEF ReceiptScript
    <2>4. QED
      BY <1>3, <2>2, <2>3 DEF KnowsDone
  <1>6. ASSUME Await(w) = "moveNotified" PROVE loc[w] \in mails
    <2>1. todo[w] = <<"moveNotified", "setCompleted", "tell">>
      BY <1>1, <1>2, <1>6, MoveParts DEF SentScript
    <2>2. "setCompleted" \in Ahead(w)
      BY <2>1 DEF Ahead, Awaits
    <2>3. QED
      BY <1>3, <2>2 DEF KnowsDone
  <1>7. Await(w) = "movePaid" => charges[loc[w]] > 0
    BY <1>3 DEF KnowsPaid
  <1>8. QED
    BY <1>1, <1>4, <1>5, <1>6, <1>7 DEF CallKnows

-----------------------------------------------------------------------------
\* The steps of the workflow.

\* What documents and mails a caller knows of stays.
LEMMA CallKnowsStays ==
  ASSUME DeliveriesStay, NEW c, CallKnows(c)
  PROVE  CallKnows(c)'
  BY DEF DeliveriesStay, CallKnows

\* What a route knows stays, whoever else takes a step.
LEMMA RouteKnowsStays ==
  ASSUME DeliveriesStay, PaidStays, HistoryGrows, NEW m \in Manuals, RouteKnows(m), manual'[m] = manual[m]
  PROVE  RouteKnows(m)'
  <1> DEFINE o == manual[m].order
             left == manual[m].todo
  <1>1. manual'[m].order = o /\ manual'[m].todo = left
    OBVIOUS
  <1>2. /\ left \in RouteParts
        /\ left # <<>> => o \in Orders
        /\ left = <<"moveInvoiced">> => <<o, "invoice">> \in docs
        /\ left = <<"postReceipt", "moveReceipted">> => orderStatus[o] \in Paid
        /\ left = <<"moveReceipted">> => <<o, "receipt">> \in docs
        /\ left = <<"moveNotified">> => o \in mails
        /\ left = <<"postNotice">> => "payment_failed" \in Seen(o)
    BY DEF RouteKnows
  <1> HIDE DEF o, left
  <1>3. ASSUME NEW q, q = o PROVE "payment_failed" \in Seen(q) /\ q \in Orders => "payment_failed" \in Seen(q)'
    BY DEF HistoryGrows
  <1>4. \A q : q = o /\ left = <<"postNotice">> => "payment_failed" \in Seen(q)'
    BY <1>2, <1>3
  <1>5. ASSUME NEW q, q = o, NEW rest, rest = left
        PROVE /\ rest \in RouteParts
              /\ rest # <<>> => q \in Orders
              /\ rest = <<"moveInvoiced">> => <<q, "invoice">> \in docs'
              /\ rest = <<"postReceipt", "moveReceipted">> => orderStatus'[q] \in Paid
              /\ rest = <<"moveReceipted">> => <<q, "receipt">> \in docs'
              /\ rest = <<"moveNotified">> => q \in mails'
              /\ rest = <<"postNotice">> => "payment_failed" \in Seen(q)'
    BY <1>2, <1>4, <1>5 DEF DeliveriesStay, PaidStays
  <1>6. QED
    BY <1>1, <1>5 DEF RouteKnows, Paid, RouteParts

\* So do the notices.
LEMMA NoticesStay ==
  ASSUME HistoryGrows, NoticesKnown, UNCHANGED notices
  PROVE  NoticesKnown'
  BY DEF HistoryGrows, NoticesKnown

\* A step of the workflow leaves the routes what they know.
LEMMA SagaKeepsRoutes ==
  ASSUME DeliveriesStay, PaidStays, HistoryGrows, RoutesKnow, NoticesKnown, UNCHANGED legacyVars
  PROVE  RoutesKnow' /\ NoticesKnown'
  <1>1. UNCHANGED <<manual, notices>>
    BY DEF legacyVars
  <1>2. \A m \in Manuals : RouteKnows(m)'
    BY <1>1, RouteKnowsStays DEF RoutesKnow
  <1>3. QED
    BY <1>1, <1>2, NoticesStay DEF RoutesKnow

\* The calls the workflow leaves behind know what their handlers knew.
LEMMA LateKnowMovesStep ==
  ASSUME SagaInv, LateKnowMoves, SagaMove
  PROVE  LateKnowMoves'
  <1>1. Sound /\ DeliveriesStay
    BY DeliveriesStep DEF SagaInv
  <1>2. ASSUME NEW c \in late' PROVE CallKnows(c)'
    <2>1. CallKnows(c)
      BY <1>1, LateStep, HandlerCallKnows DEF LateKnowMoves
    <2>2. QED
      BY <1>1, <2>1, CallKnowsStays
  <1>3. QED
    BY <1>2 DEF LateKnowMoves

\* The workflow backs what it moves.
LEMMA BackedStep ==
  ASSUME SagaInv, StatusIsBacked, LateKnowMoves, SagaMove
  PROVE  StatusIsBacked'
  <1> USE DEF SagaInv
  <1>1. ASSUME UNCHANGED <<orderStatus, charges, docs, mails>> PROVE StatusIsBacked'
    BY <1>1 DEF StatusIsBacked
  <1>2. ASSUME NEW w \in Workers, Handles(w) PROVE StatusIsBacked'
    <2>1. CASE HttpStep(w)
      <3>1. PICK sent \in MailOutcomes : HttpEffect(Call(w), sent)
        BY <2>1 DEF HttpStep
      <3>2. PICK c : c = Call(w)
        OBVIOUS
      <3>3. CallKnows(c) /\ (c.does = "movePaid" => charges[c.order] > 0) /\ (c.does # "postOrder" => c.order \in Orders)
        BY <2>1, <3>2, HandlerCallKnows DEF HttpStep
      <3>4. HttpEffect(c, sent)
        BY <3>1, <3>2
      <3>5. QED
        BY <3>3, <3>4, CallBacks
    <2>2. CASE DbStep(w) \/ SendStep(w) \/ TellStep(w)
      BY <1>1, <2>2 DEF DbStep, DbEffect, SendStep, TellStep, dataVars
    <2>3. QED
      BY <1>2, <2>1, <2>2 DEF Handles
  <1>3. ASSUME NEW w \in Workers, Leaves(w) PROVE StatusIsBacked'
    BY <1>1, <1>3 DEF Leaves, LeavesUndone, DbEffect, MarkRunFailed, dataVars
  <1>4. ASSUME NEW c \in late, LateCall(c) PROVE StatusIsBacked'
    <2>1. CASE UNCHANGED dataVars
      BY <1>1, <2>1 DEF dataVars
    <2>2. ASSUME NEW sent \in MailOutcomes, HttpEffect(c, sent) PROVE StatusIsBacked'
      BY <2>2, CallBacks DEF Sound, LateKnow, LateKnowMoves, PaidInv, LateKnowPaid
    <2>3. QED
      BY <1>4, <2>1, <2>2 DEF LateCall
  <1>5. CASE Asks
    BY <1>1, <1>5 DEF Asks, FindRun, CreateRun, PublishRun, IntakeDies, CheckPayment, PublishPayment, dataVars
  <1>6. QED
    BY <1>2, <1>3, <1>4, <1>5 DEF SagaMove

\* What the workflow keeps by itself.
LEMMA SagaInvStep ==
  ASSUME SagaInv, [Next]_vars
  PROVE  SagaInv' /\ HistoryGrows
  <1> USE DEF SagaInv
  <1>1. SWP!StreamInv'
    BY SagaStepsStream, SWP!StepInv, Assumed DEF Sound
  <1>2. Sound' /\ PaidInv' /\ DeliveryInv' /\ HandlersOnScript'
    BY <1>1, SoundStep, PaidStep, DeliveryStep, OnScriptStep
  <1>3. [OL!Next]_(OL!lifecycleVars)
    BY StepIsSagaMove, OrderMoves DEF Sound, vars, dataVars, OL!lifecycleVars
  <1>4. orderStatus \in [Orders -> OL!OrderStatuses \cup {OL!Absent}]
    BY TypeParts DEF Sound, DataTypes
  <1>5. QED
    BY <1>2, <1>3, <1>4, HistoryStep

\* A step of the workflow keeps all of it.
LEMMA SagaKeepsLegacy ==
  ASSUME LegacyInv, [Next]_vars, UNCHANGED legacyVars
  PROVE  LegacyInv'
  <1>1. SagaInv' /\ HistoryGrows
    BY SagaInvStep DEF LegacyInv
  <1>2. CASE SagaMove
    <2>1. DeliveriesStay /\ PaidStays
      BY <1>2, DeliveriesStep, PaidDataStep DEF LegacyInv, SagaInv
    <2>2. QED
      BY <1>1, <1>2, <2>1, SagaKeepsRoutes, LateKnowMovesStep, BackedStep DEF LegacyInv
  <1>3. CASE UNCHANGED vars
    <2>1. UNCHANGED <<orderStatus, charges, docs, mails, late>>
      BY <1>3 DEF vars, dataVars
    <2>2. DeliveriesStay /\ PaidStays
      BY <2>1 DEF DeliveriesStay, PaidStays
    <2>3. StatusIsBacked'
      BY <2>1 DEF LegacyInv, StatusIsBacked
    <2>4. LateKnowMoves'
      BY <2>1, <2>2, CallKnowsStays DEF LegacyInv, LateKnowMoves
    <2>5. QED
      BY <1>1, <2>2, <2>3, <2>4, SagaKeepsRoutes DEF LegacyInv
  <1>4. QED
    BY <1>2, <1>3, StepIsSagaMove DEF LegacyInv, SagaInv, Sound

-----------------------------------------------------------------------------
\* The steps of a person.

\* What a route leaves of its calls.
LEMMA RouteTails ==
  /\ \A left \in RouteParts : left # <<>> => Tail(left) \in RouteParts
  /\ \A left \in RouteParts : left # <<>> /\ Head(left) \in RouteCalls \cup {"postNotice"} =>
       /\ Tail(left) = <<"moveInvoiced">> => Head(left) = "postInvoice"
       /\ Tail(left) = <<"moveReceipted">> => Head(left) = "postReceipt"
       /\ Tail(left) = <<"moveNotified">> => Head(left) = "postNotification"
       /\ Tail(left) \in {<<>>, <<"moveInvoiced">>, <<"moveReceipted">>, <<"moveNotified">>}
  /\ \A left \in RouteParts : left # <<>> =>
       /\ Head(left) \in RouteCalls \cup {"postNotice"}
       /\ Head(left) = "postNotice" => left = <<"postNotice">>
       /\ Head(left) = "moveInvoiced" => left = <<"moveInvoiced">>
       /\ Head(left) = "postReceipt" => left = <<"postReceipt", "moveReceipted">>
       /\ Head(left) = "moveReceipted" => left = <<"moveReceipted">>
       /\ Head(left) = "moveNotified" => left = <<"moveNotified">>
  BY ShortTails DEF RouteParts, RouteCalls

\* A route that calls a service the workflow calls too knows as much as a handler.
LEMMA ManualCallKnows ==
  ASSUME Sound, RoutesKnow, NEW m \in Manuals, AtCall(m, RouteCalls), NEW c, c = ManualCall(m)
  PROVE  /\ c \in CallRows /\ c.order \in Orders /\ c.order = manual[m].order
         /\ c.does \in RouteCalls /\ c.does = NextCall(m)
         /\ CallKnows(c)
         /\ c.does = "postReceipt" => orderStatus[c.order] \in Paid
  <1>1. /\ manual[m].todo \in RouteParts /\ manual[m].todo # <<>> /\ manual[m].order \in Orders
        /\ NextCall(m) \in RouteCalls /\ NextCall(m) = Head(manual[m].todo)
    BY DEF RoutesKnow, RouteKnows, AtCall, NextCall
  <1>2. /\ c.does = NextCall(m) /\ c.order = manual[m].order /\ c.run = owner[manual[m].order]
        /\ c.scenario = "success"
        /\ c = [does |-> NextCall(m), run |-> owner[manual[m].order], order |-> manual[m].order, scenario |-> "success"]
    BY DEF ManualCall
  <1>3. owner[manual[m].order] \in Runs
    BY <1>1, TypeParts DEF Sound, DataTypes
  <1>4. c \in CallRows
    BY <1>1, <1>2, <1>3 DEF CallRows, RouteCalls, HttpAwaits, Outcome
  <1>5. /\ NextCall(m) = "moveInvoiced" => <<manual[m].order, "invoice">> \in docs
        /\ NextCall(m) = "postReceipt" => orderStatus[manual[m].order] \in Paid
        /\ NextCall(m) = "moveReceipted" => <<manual[m].order, "receipt">> \in docs
        /\ NextCall(m) = "moveNotified" => manual[m].order \in mails
    BY <1>1, RouteTails DEF RoutesKnow, RouteKnows
  <1>6. QED
    BY <1>1, <1>2, <1>4, <1>5 DEF CallKnows

\* A step of a route makes its next call, leaves it behind, or does neither.
LEMMA ManualMove ==
  ASSUME RoutesKnow, NEW m \in Manuals, Manual(m)
  PROVE  /\ UNCHANGED <<swVars, commands, handlerVars, requestVars>>
         /\ \/ UNCHANGED dataVars
            \/ UNCHANGED late /\ AtCall(m, RouteCalls) /\ \E sent : HttpEffect(ManualCall(m), sent)
         /\ \/ UNCHANGED late
            \/ AtCall(m, RouteCalls) /\ late' = late \cup {ManualCall(m)}
         /\ \A l \in Manuals \ {m} : manual'[l] = manual[l]
  <1>1. manual \in [Manuals -> [order : Orders \cup {NoOrder}, todo : RouteParts]]
    BY DEF RoutesKnow
  <1>2. CASE \E o \in Orders, route \in DOMAIN RouteScript : LoadOrder(m, o, route)
    BY <1>1, <1>2 DEF LoadOrder, vars
  <1>3. CASE MakeOrSend(m)
    <2>1. AtCall(m, RouteCalls)
      BY <1>3 DEF MakeOrSend, AtCall, RouteCalls
    <2>2. \A l \in Manuals \ {m} : manual'[l] = manual[l]
      BY <1>1, <1>3 DEF MakeOrSend, EndRoute, Proceed
    <2>3. QED
      BY <1>3, <2>1, <2>2 DEF MakeOrSend
  <1>4. CASE SendNotice(m)
    BY <1>1, <1>4 DEF SendNotice, Proceed, vars
  <1>5. CASE MoveOrder(m)
    <2>1. AtCall(m, RouteCalls)
      <3>1. manual[m].todo # <<>> /\ NextCall(m) \in DOMAIN MoveTo /\ manual[m].todo \in RouteParts
        BY <1>1, <1>5 DEF MoveOrder, AtCall
      <3>2. NextCall(m) \in RouteCalls \cup {"postNotice"}
        BY <3>1, RouteTails DEF NextCall
      <3>3. "postNotice" \notin DOMAIN MoveTo
        BY DEF MoveTo
      <3>4. QED
        BY <3>1, <3>2, <3>3 DEF AtCall
    <2>2. \A l \in Manuals \ {m} : manual'[l] = manual[l]
      BY <1>1, <1>5 DEF MoveOrder, Proceed
    <2>3. UNCHANGED dataVars \/ HttpEffect(ManualCall(m), TRUE)
      BY <1>5 DEF MoveOrder, HttpEffect
    <2>4. QED
      BY <1>5, <2>1, <2>2, <2>3 DEF MoveOrder
  <1>6. CASE RouteFails(m)
    <2>1. \A l \in Manuals \ {m} : manual'[l] = manual[l]
      BY <1>1, <1>6 DEF RouteFails, EndRoute
    <2>2. ~ AtCall(m, {"postNotice"}) => AtCall(m, RouteCalls)
      BY <1>1, <1>6, RouteTails DEF RouteFails, AtCall, NextCall
    <2>3. QED
      BY <1>6, <2>1, <2>2 DEF RouteFails
  <1>7. QED
    BY <1>2, <1>3, <1>4, <1>5, <1>6 DEF Manual

\* What a route does to the documents, mails, charges and orders.
DataKept ==
  /\ UNCHANGED <<runs, owner>> /\ DataTypes'
  /\ DeliveriesStay /\ PaidStays /\ MakesNone
  /\ PaidIsCharged' /\ ReceiptMeansPaid' /\ StatusIsBacked'
  /\ HistoryShows' /\ HistoryGrows

\* It keeps them as the workflow does.
LEMMA ManualData ==
  ASSUME LegacyInv, NEW m \in Manuals, Manual(m)
  PROVE  DataKept
  <1> USE DEF LegacyInv, SagaInv
  <1>1. DataTypes /\ TypeOK
    BY TypeParts DEF Sound
  <1>2. orderStatus \in [Orders -> OL!OrderStatuses \cup {OL!Absent}]
    BY <1>1 DEF DataTypes
  <1>3. CASE UNCHANGED dataVars
    <2>1. UNCHANGED <<runs, orderStatus, trail, owner, docs, charges, mails>>
      BY <1>3 DEF dataVars
    <2>2. DataTypes'
      BY <1>1, <2>1 DEF DataTypes
    <2>3. DeliveriesStay /\ PaidStays /\ MakesNone
      BY <2>1 DEF DeliveriesStay, PaidStays, MakesNone
    <2>4. PaidIsCharged' /\ ReceiptMeansPaid' /\ StatusIsBacked'
      BY <2>1 DEF PaidInv, PaidIsCharged, ReceiptMeansPaid, StatusIsBacked
    <2>5. HistoryShows' /\ HistoryGrows
      BY <1>2, <2>1, HistoryStep DEF OL!lifecycleVars
    <2>6. QED
      BY <2>1, <2>2, <2>3, <2>4, <2>5 DEF DataKept
  <1>4. ASSUME AtCall(m, RouteCalls), NEW sent, HttpEffect(ManualCall(m), sent) PROVE DataKept
    <2>1. PICK c : c = ManualCall(m)
      OBVIOUS
    <2>2. /\ c \in CallRows /\ c.order \in Orders /\ c.does \in RouteCalls /\ CallKnows(c)
          /\ c.does = "postReceipt" => orderStatus[c.order] \in Paid
          /\ HttpEffect(c, sent)
      BY <1>4, <2>1, ManualCallKnows
    <2>3. c.does \notin {"postOrder", "movePaid", "getOrder"}
      BY <2>2 DEF RouteCalls
    <2>4. DataTypes' /\ UNCHANGED runs
      BY <1>1, <2>2, EffectTypes DEF CallRows, DataTypes
    <2>5. PaidStays /\ PaidIsCharged' /\ ReceiptMeansPaid'
      BY <2>2, <2>3, CallPaid DEF PaidInv
    <2>6. DeliveriesStay
      BY <2>2, CallDelivers
    <2>7. MakesNone
      BY <2>2, <2>3, CallOrders
    <2>8. StatusIsBacked'
      BY <2>2, <2>3, CallBacks
    <2>9. [OL!Next]_(OL!lifecycleVars)
      BY <2>2, CallMoves
    <2>10. HistoryShows' /\ HistoryGrows
      BY <1>2, <2>9, HistoryStep
    <2>11. QED
      BY <2>4, <2>5, <2>6, <2>7, <2>8, <2>10 DEF DataKept, MakesNone
  <1>5. QED
    BY <1>3, <1>4, ManualMove

\* The calls a route leaves behind are known to the services, and make no order.
LEMMA ManualLate ==
  ASSUME LegacyInv, NEW m \in Manuals, Manual(m)
  PROVE  /\ late' \subseteq CallRows
         /\ late \subseteq late'
         /\ \A c \in late' : c \in late \/ (c.does \notin {"postOrder", "movePaid"} /\ c.order \in Orders)
         /\ LateKnow' /\ LateKnowMoves' /\ LateKnowPaid'
  <1> USE DEF LegacyInv, SagaInv
  <1>1. DeliveriesStay /\ PaidStays
    BY ManualData DEF DataKept
  <1>2. late \subseteq CallRows
    BY TypeParts DEF Sound
  <1>3. ASSUME NEW c \in late'
        PROVE  /\ c \in CallRows
               /\ c \in late \/ (c.does \notin {"postOrder", "movePaid"} /\ c.order \in Orders)
               /\ CallKnows(c)
               /\ c.does = "postReceipt" => orderStatus[c.order] \in Paid /\ c.order \in Orders
               /\ c.does = "movePaid" => charges[c.order] > 0 /\ c.order \in Orders
    <2>1. CASE c \in late
      BY <1>2, <2>1 DEF LateKnowMoves, PaidInv, LateKnowPaid, Sound, LateKnow
    <2>2. CASE c \notin late
      <3>1. AtCall(m, RouteCalls) /\ c = ManualCall(m)
        BY <1>3, <2>2, ManualMove
      <3>2. c \in CallRows /\ c.does \in RouteCalls /\ c.order \in Orders /\ CallKnows(c)
            /\ (c.does = "postReceipt" => orderStatus[c.order] \in Paid)
        BY <3>1, ManualCallKnows
      <3>3. QED
        BY <3>2 DEF RouteCalls
    <2>3. QED
      BY <2>1, <2>2
  <1>4. late \subseteq late'
    BY ManualMove
  <1>5. LateKnow'
    BY <1>3 DEF Sound, LateKnow
  <1>6. LateKnowMoves'
    BY <1>1, <1>3, CallKnowsStays DEF LateKnowMoves
  <1>7. LateKnowPaid'
    BY <1>1, <1>3 DEF LateKnowPaid, PaidStays
  <1>8. QED
    BY <1>3, <1>4, <1>5, <1>6, <1>7

\* A route leaves the workers, the stream and the requests alone.
LEMMA ManualFrame ==
  ASSUME RoutesKnow, NEW m \in Manuals, Manual(m)
  PROVE  UNCHANGED <<appended, delivered, deadLetters, pc, on, cur, hi, commands, todo, loc, intake, pay>>
  BY ManualMove DEF swVars, handlerVars, requestVars

\* Nor does it touch what handlers are at.
LEMMA ManualSound ==
  ASSUME LegacyInv, NEW m \in Manuals, Manual(m)
  PROVE  Sound' /\ HandlersOnScript'
  <1> USE DEF LegacyInv, SagaInv, Sound
  <1>1. UNCHANGED <<appended, delivered, deadLetters, pc, on, cur, hi, commands, todo, loc, intake, pay>>
    BY ManualFrame
  <1>2. SWP!StreamInv'
    <2>1. UNCHANGED SWP!streamVars
      BY ManualMove DEF swVars, SWP!streamVars, SWP!redisVars, SWP!workerVars
    <2>2. QED
      BY <2>1, SWP!StepInv, Assumed
  <1>3. DataTypes' /\ late' \subseteq CallRows /\ LateKnow'
    BY ManualData, ManualLate DEF DataKept
  <1>4. RequestTypes' /\ CommandTypes' /\ HandlerTypesOK'
    BY <1>1, TypeParts DEF RequestTypes, CommandTypes, HandlerTypesOK
  <1>5. TypeOK'
    BY <1>2, <1>3, <1>4, TypeParts DEF SWP!StreamInv
  <1>6. AtRest' /\ HandlersKnow'
    BY <1>1 DEF AtRest, HandlersKnow, Ahead, Awaits, Command
  <1>7. HandlersOnScript'
    BY <1>1 DEF HandlersOnScript, OnScript, Command
  <1>8. QED
    BY <1>2, <1>3, <1>5, <1>6, <1>7

\* What the workflow knows of payments, a route does not shake.
LEMMA ManualPaid ==
  ASSUME LegacyInv, NEW m \in Manuals, Manual(m)
  PROVE  PaidInv'
  <1> USE DEF LegacyInv, SagaInv
  <1>1. UNCHANGED <<delivered, pc, on, cur, hi, commands, todo, loc, intake, pay>>
    BY ManualFrame
  <1>2. /\ UNCHANGED <<runs, owner>> /\ PaidStays /\ MakesNone
        /\ PaidIsCharged' /\ ReceiptMeansPaid'
    BY ManualData DEF DataKept
  <1>3. /\ LateKnowPaid' /\ late \subseteq late'
        /\ \A c \in late' : c \in late \/ c.does # "postOrder"
    BY ManualLate
  <1>4. \A r : /\ OrderMade(r)' <=> OrderMade(r)
               /\ OrderLate(r)' <=> OrderLate(r)
    BY <1>2, <1>3 DEF OrderMade, OrderLate, MakesNone
  <1>5. \A i, r : Creates(i, r)' <=> Creates(i, r)
    BY <1>1 DEF Creates
  <1>6. \A i : /\ Spent(i, BeforeOrder)' <=> Spent(i, BeforeOrder)
               /\ Spent(i, BeforeRow)' <=> Spent(i, BeforeRow)
    BY <1>1 DEF Spent, SWP!Holds, Ahead, Awaits
  <1>7. OneIntake'
    BY <1>1, <1>2, <1>5 DEF PaidInv, OneOrder, OneIntake, OneCommandPerRun, OneInserter, KnownRuns
  <1>8. CreatesInOrder'
    BY <1>1 DEF PaidInv, OneOrder, CreatesInOrder, Ahead, Awaits, Command, InOrder
  <1>9. OrdersAreSpent'
    BY <1>1, <1>3, <1>4, <1>5, <1>6 DEF PaidInv, OneOrder, OrdersAreSpent
  <1>10. OneOrderPerRun'
    BY <1>2 DEF PaidInv, OneOrder, OneOrderPerRun, MakesNone
  <1>11. NamesAreSpent'
    BY <1>1, <1>2, <1>5, <1>6 DEF PaidInv, NamesAreSpent
  <1>12. ReceiptCommandsKnowPaid'
    BY <1>1, <1>2 DEF PaidInv, ReceiptCommandsKnowPaid, PaidStays
  <1>13. ASSUME NEW w \in Workers PROVE KnowsPaid(w)'
    <2>1. /\ Ahead(w)' = Ahead(w) /\ Await(w)' = Await(w) /\ RunOf(w)' = RunOf(w) /\ loc'[w] = loc[w]
          /\ Command(w)' = Command(w)
      BY <1>1 DEF Ahead, Awaits, Await, RunOf, Command
    <2>2. KnowsPaid(w)
      BY DEF PaidInv, HandlersKnowPaid
    <2>3. Ahead(w) \cap OrderAwaits # {} => loc[w] \in Orders
      BY DEF Sound, HandlersKnow
    <2>4. Ahead(w) \cap {"movePaid", "setPaid", "sendReceipt"} # {} => loc[w] \in Orders
      BY <2>2 DEF KnowsPaid
    <2>5. "postReceipt" \in Ahead(w) => loc[w] \in Orders
      BY <2>3 DEF OrderAwaits, HttpAwaits
    <2>6. QED
      BY <1>2, <2>1, <2>2, <2>4, <2>5 DEF KnowsPaid, PaidStays
  <1>14. HandlersKnowPaid'
    BY <1>13 DEF HandlersKnowPaid
  <1>15. QED
    BY <1>2, <1>3, <1>7, <1>8, <1>9, <1>10, <1>11, <1>12, <1>14 DEF PaidInv, OneOrder

\* Nor what it knows of documents and mails.
LEMMA ManualDelivery ==
  ASSUME LegacyInv, NEW m \in Manuals, Manual(m)
  PROVE  DeliveryInv'
  <1> USE DEF LegacyInv, SagaInv
  <1>1. UNCHANGED <<cur, commands, todo, loc, pay>>
    BY ManualFrame
  <1>2. UNCHANGED runs /\ DeliveriesStay /\ PaidStays
    BY ManualData DEF DataKept
  <1>3. CommandsFollow' /\ PaymentsFollow'
    BY <1>1, <1>2 DEF DeliveryInv, CommandsFollow, PaymentsFollow
  <1>4. MarksAreBacked'
    BY <1>2 DEF DeliveryInv, MarksAreBacked, Backed, DeliveriesStay
  <1>5. CompletedMeansDelivered'
    <2>1. \A r \in Runs : runs[r].status = "completed" => runs[r].invoice /\ runs[r].order \in Orders
      BY DEF DeliveryInv, CompletedMeansDelivered, MarksAreBacked, Backed
    <2>2. QED
      BY <1>2, <2>1 DEF DeliveryInv, CompletedMeansDelivered, DeliveriesStay, PaidStays
  <1>6. ASSUME NEW w \in Workers PROVE KnowsDone(w)'
    <2>1. /\ Ahead(w)' = Ahead(w) /\ RunOf(w)' = RunOf(w) /\ loc'[w] = loc[w] /\ todo'[w] = todo[w]
          /\ Command(w)' = Command(w)
      BY <1>1 DEF Ahead, Awaits, RunOf, Command
    <2>2. KnowsDone(w)
      BY DEF DeliveryInv, HandlersKnowDone
    <2>3. "setCompleted" \in Ahead(w) => loc[w] \in Orders
      BY <2>2 DEF KnowsDone
    <2>4. QED
      BY <1>2, <2>1, <2>2, <2>3 DEF KnowsDone, DeliveriesStay
  <1>7. HandlersKnowDone'
    BY <1>6 DEF HandlersKnowDone
  <1>8. QED
    BY <1>3, <1>4, <1>5, <1>7 DEF DeliveryInv

\* The route that took a step knows what it did, or found.
LEMMA ManualKnows ==
  ASSUME LegacyInv, NEW m \in Manuals, Manual(m)
  PROVE  /\ manual' \in [Manuals -> [order : Orders \cup {NoOrder}, todo : RouteParts]]
         /\ RouteKnows(m)'
         /\ NoticesKnown'
  <1> USE DEF LegacyInv, SagaInv
  <1>1. /\ manual \in [Manuals -> [order : Orders \cup {NoOrder}, todo : RouteParts]] /\ RouteKnows(m)
        /\ manual[m].todo \in RouteParts
        /\ manual[m].todo # <<>> => manual[m].order \in Orders
    BY DEF RoutesKnow, RouteKnows
  <1>2. DeliveriesStay /\ PaidStays /\ HistoryGrows
    BY ManualData DEF DataKept
  <1>3. ASSUME EndRoute(m)
        PROVE  manual' \in [Manuals -> [order : Orders \cup {NoOrder}, todo : RouteParts]] /\ RouteKnows(m)'
    <2>1. manual'[m].todo = <<>>
      BY <1>1, <1>3 DEF EndRoute
    <2>2. <<>> \in RouteParts
      BY DEF RouteParts
    <2>3. QED
      BY <1>1, <1>3, <2>1, <2>2 DEF EndRoute, RouteKnows
  <1>4. ASSUME manual[m].todo # <<>>, Proceed(m),
               NextCall(m) = "postInvoice" => <<manual[m].order, "invoice">> \in docs',
               NextCall(m) = "postReceipt" => <<manual[m].order, "receipt">> \in docs',
               NextCall(m) = "postNotification" => manual[m].order \in mails'
        PROVE  manual' \in [Manuals -> [order : Orders \cup {NoOrder}, todo : RouteParts]] /\ RouteKnows(m)'
    <2>1. /\ Tail(manual[m].todo) \in RouteParts
          /\ Tail(manual[m].todo) = <<"moveInvoiced">> => NextCall(m) = "postInvoice"
          /\ Tail(manual[m].todo) = <<"moveReceipted">> => NextCall(m) = "postReceipt"
          /\ Tail(manual[m].todo) = <<"moveNotified">> => NextCall(m) = "postNotification"
          /\ Tail(manual[m].todo) \in {<<>>, <<"moveInvoiced">>, <<"moveReceipted">>, <<"moveNotified">>}
      BY <1>1, <1>4, RouteTails DEF NextCall
    <2>2. manual'[m].todo = Tail(manual[m].todo) /\ manual'[m].order = manual[m].order
      BY <1>1, <1>4 DEF Proceed
    <2>3. manual' \in [Manuals -> [order : Orders \cup {NoOrder}, todo : RouteParts]]
      BY <1>1, <1>4, <2>1 DEF Proceed
    <2>4. PICK o : o = manual[m].order
      OBVIOUS
    <2>5. manual'[m].order = o /\ o \in Orders
      BY <1>1, <1>4, <2>2, <2>4
    <2>6. /\ manual'[m].todo \notin {<<"postReceipt", "moveReceipted">>, <<"postNotice">>}
          /\ manual'[m].todo \in RouteParts
      <3>1. \A left \in {<<>>, <<"moveInvoiced">>, <<"moveReceipted">>, <<"moveNotified">>} :
              left \notin {<<"postReceipt", "moveReceipted">>, <<"postNotice">>}
        OBVIOUS
      <3>2. QED
        BY <2>1, <2>2, <3>1
    <2>7. /\ manual'[m].todo = <<"moveInvoiced">> => <<o, "invoice">> \in docs'
          /\ manual'[m].todo = <<"moveReceipted">> => <<o, "receipt">> \in docs'
          /\ manual'[m].todo = <<"moveNotified">> => o \in mails'
      BY <1>4, <2>1, <2>2, <2>4
    <2>8. RouteKnows(m)'
      BY <2>5, <2>6, <2>7 DEF RouteKnows
    <2>9. QED
      BY <2>3, <2>8
  <1>5. ASSUME UNCHANGED notices PROVE NoticesKnown'
    BY <1>2, <1>5, NoticesStay
  <1>6. ASSUME AtCall(m, {"postNotice"}), notices' \subseteq notices \cup {manual[m].order} PROVE NoticesKnown'
    <2>1. manual[m].order \in Orders /\ "payment_failed" \in Seen(manual[m].order)
      BY <1>1, <1>6, RouteTails DEF AtCall, NextCall, RouteKnows
    <2>2. \A o \in notices' : o \in Orders /\ "payment_failed" \in Seen(o)
      BY <1>6, <2>1 DEF NoticesKnown
    <2>3. QED
      BY <1>2, <2>2 DEF NoticesKnown, HistoryGrows
  <1>7. ASSUME NEW o \in Orders, NEW route \in DOMAIN RouteScript, LoadOrder(m, o, route)
        PROVE  manual' \in [Manuals -> [order : Orders \cup {NoOrder}, todo : RouteParts]] /\ RouteKnows(m)'
    <2>1. RouteScript[route] \in {<<"postInvoice", "moveInvoiced">>, <<"postReceipt", "moveReceipted">>,
                                  <<"postNotification", "moveNotified">>, <<"postNotice">>}
      BY DEF RouteScript
    <2>2. manual'[m].order = o /\ manual'[m].todo = RouteScript[route] /\ UNCHANGED <<docs, orderStatus, trail, mails>>
      BY <1>1, <1>7 DEF LoadOrder, vars, dataVars
    <2>3. manual' \in [Manuals -> [order : Orders \cup {NoOrder}, todo : RouteParts]]
      BY <1>1, <1>7, <2>1 DEF LoadOrder, RouteParts
    <2>4. RouteScript[route] = <<"postReceipt", "moveReceipted">> => orderStatus[o] \in Paid
      BY <1>7 DEF LoadOrder, RouteScript, Needs, Paid
    <2>5. RouteScript[route] = <<"postNotice">> => orderStatus[o] = "payment_failed"
      BY <1>7 DEF LoadOrder, RouteScript, Needs
    <2>6. orderStatus[o] = "payment_failed" => "payment_failed" \in Seen(o)'
      BY <2>2 DEF HistoryShows, OL!Absent, Seen
    <2>7. RouteScript[route] \notin {<<"moveInvoiced">>, <<"moveReceipted">>, <<"moveNotified">>}
      BY <2>1
    <2>8. RouteScript[route] \in RouteParts
      BY <2>1 DEF RouteParts
    <2>9. PICK left : left = RouteScript[route]
      OBVIOUS
    <2>10. manual'[m].todo = left /\ left \notin {<<"moveInvoiced">>, <<"moveReceipted">>, <<"moveNotified">>} /\ left \in RouteParts
      BY <2>2, <2>7, <2>8, <2>9
    <2>11. left = <<"postReceipt", "moveReceipted">> => orderStatus'[o] \in Paid
      BY <2>2, <2>4, <2>9
    <2>12. left = <<"postNotice">> => "payment_failed" \in Seen(o)'
      BY <2>5, <2>6, <2>9
    <2>13. RouteKnows(m)'
      BY <2>2, <2>10, <2>11, <2>12 DEF RouteKnows, Paid
    <2>14. QED
      BY <2>3, <2>13
  <1>8. CASE MakeOrSend(m)
    <2>1. PICK sent \in MailOutcomes :
            /\ HttpEffect(ManualCall(m), sent)
            /\ IF NextCall(m) = "postNotification" /\ ~ sent THEN EndRoute(m) ELSE Proceed(m)
      BY <1>8 DEF MakeOrSend
    <2>2. manual[m].todo # <<>> /\ AtCall(m, RouteCalls)
      BY <1>8 DEF MakeOrSend, AtCall, RouteCalls
    <2>3. PICK c : c = ManualCall(m)
      OBVIOUS
    <2>4. c.does = NextCall(m) /\ c.order = manual[m].order /\ c.order \in Orders /\ HttpEffect(c, sent)
      BY <2>1, <2>2, <2>3, ManualCallKnows
    <2>5. /\ NextCall(m) = "postInvoice" => <<manual[m].order, "invoice">> \in docs'
          /\ NextCall(m) = "postReceipt" => <<manual[m].order, "receipt">> \in docs'
          /\ NextCall(m) = "postNotification" /\ sent => manual[m].order \in mails'
      BY <2>4, CallDelivers
    <2>6. UNCHANGED notices
      BY <1>8 DEF MakeOrSend
    <2>7. QED
      BY <1>3, <1>4, <1>5, <2>1, <2>2, <2>5, <2>6
  <1>9. CASE SendNotice(m)
    <2>1. manual[m].todo # <<>> /\ NextCall(m) = "postNotice" /\ AtCall(m, {"postNotice"}) /\ Proceed(m)
      BY <1>9 DEF SendNotice, AtCall
    <2>2. notices' \subseteq notices \cup {manual[m].order}
      BY <1>9 DEF SendNotice
    <2>3. QED
      BY <1>4, <1>6, <2>1, <2>2
  <1>10. CASE MoveOrder(m)
    <2>1. manual[m].todo # <<>> /\ NextCall(m) \notin {"postInvoice", "postReceipt", "postNotification"}
      BY <1>10 DEF MoveOrder, AtCall, MoveTo
    <2>2. Proceed(m) /\ UNCHANGED notices
      BY <1>10 DEF MoveOrder
    <2>3. QED
      BY <1>4, <1>5, <2>1, <2>2
  <1>11. CASE RouteFails(m)
    BY <1>3, <1>5, <1>6, <1>11 DEF RouteFails
  <1>12. QED
    BY <1>5, <1>7, <1>8, <1>9, <1>10, <1>11 DEF Manual, LoadOrder

\* A step of a person keeps all of it.
LEMMA ManualKeepsLegacy ==
  ASSUME LegacyInv, NEW m \in Manuals, Manual(m)
  PROVE  LegacyInv'
  <1>1. DeliveriesStay /\ PaidStays /\ HistoryGrows /\ HistoryShows' /\ StatusIsBacked'
    BY ManualData DEF DataKept
  <1>2. \A l \in Manuals : RouteKnows(l)'
    BY <1>1, ManualMove, ManualKnows, RouteKnowsStays DEF LegacyInv, RoutesKnow
  <1>3. RoutesKnow' /\ NoticesKnown'
    BY <1>2, ManualKnows DEF RoutesKnow
  <1>4. QED
    BY <1>1, <1>3, ManualSound, ManualPaid, ManualDelivery, ManualLate DEF LegacyInv, SagaInv
-----------------------------------------------------------------------------
\* The invariant holds of every state.
LEMMA LegacyInitInv == LegacyInit => LegacyInv
  <1> SUFFICES ASSUME LegacyInit PROVE LegacyInv
    OBVIOUS
  <1>1. Init /\ OL!Init
    BY DEF LegacyInit, Init
  <1>2. SWP!StreamInv
    <2>1. SWP!Init
      BY <1>1, SameRest DEF Init
    <2>2. QED
      BY <2>1, SWP!InitInv, Assumed
  <1>3. SagaInv
    BY <1>1, <1>2, SoundInit, PaidInit, DeliveryInit, OnScriptInit, HistoryInit DEF SagaInv
  <1>4. StatusIsBacked
    BY <1>1 DEF OL!Init, OL!Absent, StatusIsBacked, Invoiced, Receipted, Paid, OL!OrderStatuses
  <1>5. LateKnowMoves
    BY <1>1 DEF Init, LateKnowMoves
  <1>6. RoutesKnow
    BY DEF LegacyInit, RoutesKnow, RouteKnows, RouteParts
  <1>7. NoticesKnown
    BY DEF LegacyInit, NoticesKnown
  <1>8. QED
    BY <1>3, <1>4, <1>5, <1>6, <1>7 DEF LegacyInv

\* It is kept by every step.
LEMMA LegacyStepInv == LegacyInv /\ [LegacyNext]_<<vars, legacyVars>> => LegacyInv'
  <1> SUFFICES ASSUME LegacyInv, [LegacyNext]_<<vars, legacyVars>> PROVE LegacyInv'
    OBVIOUS
  <1>1. CASE [Next]_vars /\ UNCHANGED legacyVars
    BY <1>1, SagaKeepsLegacy
  <1>2. CASE \E m \in Manuals : Manual(m)
    BY <1>2, ManualKeepsLegacy
  <1>3. QED
    BY <1>1, <1>2 DEF LegacyNext

\* So the invariant holds throughout.
LEMMA LegacyAlways == LegacySpec => []LegacyInv
  BY LegacyInitInv, LegacyStepInv, PTL DEF LegacySpec

\* Whoever moved an order, the worker or a person, and whatever failed or came late: a
\* status past the invoice has an invoice behind it, a paid one a charge, one past the
\* receipt a receipt, and the last one a mail.
THEOREM StatusBackedShown == LegacySpec => []StatusIsBacked
  <1>1. LegacyInv => StatusIsBacked
    BY DEF LegacyInv
  <1>2. QED
    BY <1>1, LegacyAlways, PTL

\* A person is told of a failed payment only if a payment of the order failed.
THEOREM NoticesShown == LegacySpec => []NoticesAreTrue
  <1>1. LegacyInv => NoticesAreTrue
    <2> SUFFICES ASSUME LegacyInv, NEW o \in notices
                 PROVE  \E i \in 1..Len(trail[o]) : trail[o][i] = "payment_failed"
      BY DEF NoticesAreTrue
    <2>1. QED
      BY DEF LegacyInv, NoticesKnown, Seen
  <1>2. QED
    BY <1>1, LegacyAlways, PTL

\* With people at the manual routes, too, a receipt is made only for an order that was
\* charged and knows it.
THEOREM LegacyReceiptShown == LegacySpec => []ReceiptMeansPaid
  <1>1. LegacyInv => ReceiptMeansPaid
    BY DEF LegacyInv, SagaInv, PaidInv
  <1>2. QED
    BY <1>1, LegacyAlways, PTL

\* With people at the manual routes, too, a completed run has all its parts.
THEOREM LegacyCompletedShown == LegacySpec => []CompletedMeansDelivered
  <1>1. LegacyInv => CompletedMeansDelivered
    BY DEF LegacyInv, SagaInv, DeliveryInv
  <1>2. QED
    BY <1>1, LegacyAlways, PTL

\* Between them, the routes and the workflow use order-service by what it promises.
THEOREM LegacyUsesLifecycle == LegacySpec => OL!Spec
  <1>1. LegacyInit => OL!Init
    BY DEF LegacyInit, Init
  <1>2. LegacyInv /\ [LegacyNext]_<<vars, legacyVars>> => [OL!Next]_(OL!lifecycleVars)
    <2> SUFFICES ASSUME LegacyInv, [LegacyNext]_<<vars, legacyVars>> PROVE [OL!Next]_(OL!lifecycleVars)
      OBVIOUS
    <2>1. CASE [Next]_vars
      BY <2>1, StepIsSagaMove, OrderMoves DEF LegacyInv, SagaInv, Sound, vars, dataVars, OL!lifecycleVars
    <2>2. ASSUME NEW m \in Manuals, Manual(m) PROVE [OL!Next]_(OL!lifecycleVars)
      <3>1. CASE UNCHANGED dataVars
        BY <3>1 DEF dataVars, OL!lifecycleVars
      <3>2. ASSUME AtCall(m, RouteCalls), NEW sent, HttpEffect(ManualCall(m), sent) PROVE [OL!Next]_(OL!lifecycleVars)
        <4>1. PICK c : c = ManualCall(m)
          OBVIOUS
        <4>2. c.order \in Orders /\ HttpEffect(c, sent)
          BY <3>2, <4>1, ManualCallKnows DEF LegacyInv, SagaInv
        <4>3. QED
          BY <4>2, CallMoves
      <3>3. QED
        BY <2>2, <3>1, <3>2, ManualMove DEF LegacyInv
    <2>3. QED
      BY <2>1, <2>2 DEF LegacyNext
  <1>3. QED
    BY <1>1, <1>2, LegacyAlways, PTL DEF LegacySpec, OL!Spec
=============================================================================

---------------------------- MODULE CheckoutSaga ----------------------------
(***************************************************************************)
(* The order checkout workflow: the HTTP intake of workflow-service, its     *)
(* command handlers, and the services they call.  Commands travel over the   *)
(* command stream of StreamWorker (SW); orders live by OrderLifecycle (OL),  *)
(* which OrderService implements.                                            *)
(*                                                                          *)
(* A handler is the list of awaits it still has to make (todo).  Each await  *)
(* is one step: a statement on workflow_runs (db), a call of another service *)
(* (http) or an XADD (redis).  An await that fails, or is cut short by a     *)
(* shutdown or a crash, took effect or did not; a call may also outlive its  *)
(* caller and take effect later (late).  Two XADDs in a row are one await;   *)
(* so are two calls the first of which only reads.  The event stream feeds   *)
(* no decision (its handler logs), so an event XADD has no effect here, but  *)
(* it can still fail.                                                        *)
(***************************************************************************)
EXTENDS Integers, Sequences, FiniteSets, TLC

CONSTANTS
  Runs,             \* checkouts, one per (user, idempotency key)
  Attempts,         \* POST requests made with that key
  Orders,           \* order ids, 1..n; 0 is NULL
  PayRequests,      \* POST .../payments requests
  Scenarios,        \* payment scenarios they ask for, see Outcome
  UpstreamFaults,   \* whether a call of another service may fail or time out
  MaxLate,          \* bound: calls that outlive their caller
  MaxAbandoned,     \* bound: pending entries nobody holds, beyond which no fault happens
  EarlyIntake,      \* whether requests may come before the first worker's group
  Workers, BatchSize, MaxLen, Faults      \* see StreamWorker

NStreams == 1

ASSUME CheckoutAssumption ==
  /\ Runs # {}
  /\ Orders \subseteq Nat \ {0}
  /\ Scenarios \subseteq {"success", "insufficient_funds", "suspected_fraud"}
  /\ UpstreamFaults \in BOOLEAN
  /\ BatchSize \in Nat \ {0}
  /\ MaxLen \in Nat
  /\ Faults \subseteq {"redis", "reply", "db", "stop", "crash"}

VARIABLES
  appended, grouped, start, delivered, pel, deadLetters, records,
  pc, link, on, cur, hi, verdict, after,  \* see StreamWorker
  orderStatus, trail,                     \* see OrderLifecycle
  commands,      \* the entries of the command stream
  runs,          \* workflow_runs
  intake,        \* each start request: idle | absent | inserted | done
  pay,           \* each payment request, between its check and its XADD
  owner,         \* the run whose command created each order
  docs,          \* document_metadata: <<order, type>>
  charges,       \* payments with status completed, per order
  mails,         \* orders a mail was sent for
  late,          \* calls still running in a service, their caller gone
  todo,          \* the awaits the handler of a worker has left to make
  loc            \* workflow.order_id as the handler read it

SW == INSTANCE StreamWorker
OL == INSTANCE OrderLifecycle WITH status <- orderStatus

swVars == <<appended, grouped, start, delivered, pel, deadLetters, records,
            pc, link, on, cur, hi, verdict, after>>
dataVars == <<runs, orderStatus, trail, owner, docs, charges, mails>>
handlerVars == <<todo, loc>>
requestVars == <<intake, pay>>
vars == <<swVars, commands, dataVars, late, handlerVars, requestVars>>

Commands == 1
NoOrder == 0

\* What the payment provider answers for a scenario; the two retryable failures
\* differ in their code only.
Outcome == [success |-> "completed", insufficient_funds |-> "INSUFFICIENT_FUNDS",
            suspected_fraud |-> "SUSPECTED_FRAUD"]

PAYMENT_FAILURE_RETRYABLE == {"INSUFFICIENT_FUNDS", "PROVIDER_UNAVAILABLE"}

NoRun == [status |-> "none", order |-> NoOrder, invoice |-> FALSE, receipt |-> FALSE,
          payment |-> FALSE, notification |-> FALSE, failure |-> "none", finished |-> FALSE]

\* The awaits of each handler, after _require_workflow.
OrderCreateScript == <<"setCreating", "postOrder", "setOrder", "sendInvoice">>

InvoiceScript == <<"setInvoicing", "postInvoice", "moveInvoiced", "setAwaiting", "tell">>

PaymentRequestedScript == <<"setRequested", "sendProcess">>

PaymentProcessScript == <<"getOrder", "setProcessing", "postPayment">>

ReceiptScript == <<"postReceipt", "moveReceipted", "setSending", "sendNotify">>

NotificationScript == <<"postNotification">>

\* _handle_command; nobody sends workflow.mark_failed.
Script ==
  [ order_create |-> OrderCreateScript,  generate_invoice |-> InvoiceScript,
    payment_requested |-> PaymentRequestedScript,  payment_process |-> PaymentProcessScript,
    generate_receipt |-> ReceiptScript,  notification_send |-> NotificationScript ]

\* Mutants: awaits in the wrong order; the last one missing.
PaidScriptSendsFirst == <<"setPaid", "sendReceipt", "movePaid">>

PaidScriptWithoutReceipt == <<"movePaid", "setPaid">>

SentScriptCompletesFirst == <<"setCompleted", "moveNotified", "tell">>

\* How payment.process ends: _handle_payment_completed, _handle_payment_failed
\* with a retryable code and with another (_mark_failed).
PaidScript == <<"movePaid", "setPaid", "sendReceipt">>

RetryScript == <<"moveUnpaid", "tell", "setRetryable">>

RejectedScript == <<"moveUnpaid", "tell", "setRejected", "tell">>

\* How notification.send ends, the mail sent or not.
SentScript == <<"moveNotified", "setCompleted", "tell">>

UnsentScript == <<"setUnsent", "tell">>

DbAwaits == {"require", "setCreating", "setOrder", "setInvoicing", "setAwaiting", "setRequested",
             "setProcessing", "setPaid", "setRetryable", "setRejected", "setSending",
             "setCompleted", "setUnsent"}
HttpAwaits == {"postOrder", "postInvoice", "moveInvoiced", "getOrder", "postPayment", "movePaid",
               "moveUnpaid", "postReceipt", "moveReceipted", "postNotification", "moveNotified"}
RedisAwaits == {"sendInvoice", "sendProcess", "sendReceipt", "sendNotify", "tell"}

\* The transition of the order a move asks order-service for.
MoveTo == [moveInvoiced |-> "invoice_generated", movePaid |-> "payment_completed",
           moveUnpaid |-> "payment_failed", moveReceipted |-> "receipt_generated",
           moveNotified |-> "notification_sent"]

\* Mutant: an event type where a command type belongs.
SendsAnEvent == [sendInvoice |-> "generate_invoice", sendProcess |-> "payment_process",
                 sendReceipt |-> "payment_completed", sendNotify |-> "notification_send"]

\* The command an XADD sends.
Sends == [sendInvoice |-> "generate_invoice", sendProcess |-> "payment_process",
          sendReceipt |-> "generate_receipt", sendNotify |-> "notification_send"]
-----------------------------------------------------------------------------
Command(w) == commands[cur[w]]
RunOf(w) == Command(w).run
Handling(w) == pc[w] = "handle"
Await(w) == Head(todo[w])
AtAwait(w, labels) == Handling(w) /\ todo[w] # <<>> /\ Await(w) \in labels

\* Ids are uuid4: the next order is one nobody has.
FreshOrder == 1 + Cardinality({o \in Orders : orderStatus[o] # OL!Absent})

\* The columns each update_workflow of a handler sets.
Patch(w) ==
  [ setCreating   |-> [status |-> "order_creating"],
    setOrder      |-> [status |-> "invoice_generating", order |-> loc[w]],
    setInvoicing  |-> [status |-> "invoice_generating"],
    setAwaiting   |-> [status |-> "awaiting_payment", invoice |-> TRUE, failure |-> "none"],
    setRequested  |-> [status |-> "payment_requested", failure |-> "none"],
    setProcessing |-> [status |-> "payment_processing"],
    setPaid       |-> [status |-> "receipt_generating", payment |-> TRUE, failure |-> "none"],
    setRetryable  |-> [status |-> "awaiting_payment", payment |-> TRUE,
                       failure |-> Outcome[Command(w).scenario]],
    setRejected   |-> [status |-> "failed", finished |-> TRUE,
                       failure |-> Outcome[Command(w).scenario]],
    setSending    |-> [status |-> "notification_sending", receipt |-> TRUE],
    setCompleted  |-> [status |-> "completed", notification |-> TRUE, finished |-> TRUE],
    setUnsent     |-> [status |-> "notification_failed", notification |-> TRUE,
                       failure |-> "NOTIFICATION_FAILED"] ][Await(w)]

\* UPDATE workflow_runs SET ... WHERE id: no condition on the status it finds.
UpdateRun(r, patch) ==
  runs' = [runs EXCEPT ![r] = [column \in DOMAIN NoRun |->
             IF column \in DOMAIN patch THEN patch[column] ELSE @[column]]]

\* Mutant: an error of the worker is taken for a payment that may be retried.
MarkRunRetryable(w) ==
  /\ UpdateRun(RunOf(w), [status |-> "awaiting_payment", failure |-> "WORKFLOW_WORKER_ERROR"])
  /\ UNCHANGED <<orderStatus, trail, owner, docs, charges, mails>>

\* _mark_failed, from the except block of _process_message.
MarkRunFailed(w) ==
  /\ UpdateRun(RunOf(w), [status |-> "failed", failure |-> "WORKFLOW_WORKER_ERROR", finished |-> TRUE])
  /\ UNCHANGED <<orderStatus, trail, owner, docs, charges, mails>>

\* What a statement of a handler does.
DbEffect(w) ==
  /\ IF Await(w) = "require" THEN UNCHANGED runs ELSE UpdateRun(RunOf(w), Patch(w))
  /\ UNCHANGED <<orderStatus, trail, owner, docs, charges, mails>>

\* A call of another service, as the handler of w makes it.
Call(w) == [does |-> Await(w), run |-> RunOf(w), order |-> loc[w], scenario |-> Command(w).scenario]

CreatesOrder(c) ==
  /\ c.does = "postOrder"
  /\ FreshOrder \in Orders
  /\ OL!CreateOrder(FreshOrder)
  /\ owner' = [owner EXCEPT ![FreshOrder] = c.run]
  /\ UNCHANGED <<runs, docs, charges, mails>>

MovesOrder(c) ==
  /\ c.does \in DOMAIN MoveTo
  /\ OL!Transition(c.order, MoveTo[c.does])
  /\ UNCHANGED <<runs, owner, docs, charges, mails>>

MakesDocument(c) ==
  /\ c.does \in {"postInvoice", "postReceipt"}
  /\ docs' = docs \cup {<<c.order, IF c.does = "postInvoice" THEN "invoice" ELSE "receipt">>}
  /\ UNCHANGED <<runs, orderStatus, trail, owner, charges, mails>>

\* POST /payments asks nobody whether the order is paid already.
ChargesOrder(c) ==
  /\ c.does = "postPayment"
  /\ charges' = [charges EXCEPT ![c.order] = @ + (IF Outcome[c.scenario] = "completed" THEN 1 ELSE 0)]
  /\ UNCHANGED <<runs, orderStatus, trail, owner, docs, mails>>

\* A mail the SMTP server took may be answered as unsent: any exception of the
\* session counts, also one after the message was accepted.
SendsMail(c, sent) ==
  /\ c.does = "postNotification"
  /\ \/ mails' = mails \cup {c.order}
     \/ ~ sent /\ UNCHANGED mails
  /\ UNCHANGED <<runs, orderStatus, trail, owner, docs, charges>>

\* The mail provider's failure is an answer, not an error.
MailOutcomes == IF UpstreamFaults THEN BOOLEAN ELSE {TRUE}

HttpEffect(c, sent) ==
  \/ CreatesOrder(c) \/ MovesOrder(c) \/ MakesDocument(c) \/ ChargesOrder(c) \/ SendsMail(c, sent)
  \/ c.does = "getOrder" /\ UNCHANGED dataVars

\* The caller is gone; the service may carry on with its call.
LeaveCall(w) ==
  \/ UNCHANGED late
  \/ /\ AtAwait(w, HttpAwaits \ {"getOrder"})
     /\ Cardinality(late) < MaxLate
     /\ late' = late \cup {Call(w)}

\* The entry an XADD adds.
NewCommand(w) ==
  [type |-> Sends[Await(w)], run |-> RunOf(w), scenario |-> Command(w).scenario]

\* Where the handler goes when the await answers.
Continue(w, sent) ==
  LET rest == Tail(todo[w])
      outcome == Outcome[Command(w).scenario]
  IN todo' = [todo EXCEPT ![w] =
       CASE Await(w) = "require" -> Script[Command(w).type]
         [] Await(w) = "postPayment" ->
              IF outcome = "completed" THEN PaidScript
              ELSE IF outcome \in PAYMENT_FAILURE_RETRYABLE THEN RetryScript ELSE RejectedScript
         [] Await(w) = "postNotification" -> IF sent THEN SentScript ELSE UnsentScript
         [] OTHER -> rest]

\* The handler is over, or never goes on.
Forget(w) ==
  /\ todo' = [todo EXCEPT ![w] = <<"require">>]
  /\ loc' = [loc EXCEPT ![w] = NoOrder]
-----------------------------------------------------------------------------
\* The steps of a handler.

\* A handler must give up by itself: the run has no order yet (ValueError), or
\* order-service answers 409 (RuntimeError).
MustRefuse(w) ==
  IF Await(w) = "require"
  THEN Command(w).type \notin {"order_create", "payment_requested"} /\ runs[RunOf(w)].order = NoOrder
  ELSE Await(w) \in DOMAIN MoveTo /\ ~ OL!Allowed(orderStatus[loc[w]], MoveTo[Await(w)])

DbStep(w) ==
  /\ AtAwait(w, DbAwaits)
  /\ ~ MustRefuse(w)
  /\ DbEffect(w)
  /\ Continue(w, TRUE)
  /\ loc' = [loc EXCEPT ![w] = IF Await(w) = "require" THEN runs[RunOf(w)].order ELSE @]
  /\ UNCHANGED <<late, swVars, commands, requestVars>>

HttpStep(w) ==
  /\ AtAwait(w, HttpAwaits)
  /\ \E sent \in MailOutcomes : HttpEffect(Call(w), sent) /\ Continue(w, sent)
  /\ loc' = [loc EXCEPT ![w] = IF Await(w) = "postOrder" THEN FreshOrder ELSE @]
  /\ UNCHANGED <<late, swVars, commands, requestVars>>

\* XADD of a command.
SendStep(w) ==
  /\ AtAwait(w, DOMAIN Sends)
  /\ SW!Publish(Commands)
  /\ commands' = Append(commands, NewCommand(w))
  /\ Continue(w, TRUE)
  /\ UNCHANGED <<late, dataVars, loc, requestVars>>

\* XADD of events.
TellStep(w) ==
  /\ AtAwait(w, {"tell"})
  /\ Continue(w, TRUE)
  /\ UNCHANGED <<late, swVars, commands, dataVars, loc, requestVars>>

HandlerReturns(w) ==
  /\ todo[w] = <<>>
  /\ SW!HandlerReturns(w)
  /\ Forget(w)
  /\ UNCHANGED <<late, commands, dataVars, requestVars>>

HandlerRefuses(w) ==
  /\ AtAwait(w, {"require"} \cup DOMAIN MoveTo)
  /\ MustRefuse(w)
  /\ SW!HandlerRaises(w)
  /\ Forget(w)
  /\ UNCHANGED <<late, commands, dataVars, requestVars>>

\* Mutant: a call that times out is made again.
UpstreamRetried(w) ==
  /\ UpstreamFaults
  /\ AtAwait(w, HttpAwaits)
  /\ \E sent \in MailOutcomes : HttpEffect(Call(w), sent)
  /\ UNCHANGED <<swVars, commands, late, handlerVars, requestVars>>

\* A call times out, or another service answers an error.
UpstreamFails(w) ==
  /\ UpstreamFaults
  /\ AtAwait(w, HttpAwaits)
  /\ LeaveCall(w)
  /\ SW!HandlerRaises(w)
  /\ Forget(w)
  /\ UNCHANGED <<commands, dataVars, requestVars>>

\* A statement fails; its commit may have been made.
HandlerDbFails(w) ==
  /\ "db" \in Faults
  /\ AtAwait(w, DbAwaits)
  /\ UNCHANGED dataVars \/ DbEffect(w)
  /\ SW!HandlerRaises(w)
  /\ Forget(w)
  /\ UNCHANGED <<late, commands, requestVars>>
-----------------------------------------------------------------------------
\* The steps of the loop around the handlers (StreamWorker).

\* The except block: the UPDATE, then the event.
MarkFailed(w) ==
  /\ SW!MarkFailed(w)
  /\ MarkRunFailed(w)
  /\ UNCHANGED <<late, commands, handlerVars, requestVars>>

\* An await was cut short: what it did to the run, the services and the stream.
Cut(w) ==
  \/ UNCHANGED <<appended, dataVars, commands>>
  \/ /\ AtAwait(w, DOMAIN Sends)
     /\ appended' # appended
     /\ commands' = Append(commands, NewCommand(w))
     /\ UNCHANGED dataVars
  \/ /\ UNCHANGED <<appended, commands>>
     /\ \/ AtAwait(w, DbAwaits) /\ DbEffect(w)
        \/ pc[w] = "markFailed" /\ MarkRunFailed(w)

\* The connection is lost.  In _mark_failed only the XADD, after the UPDATE, can
\* fail this way.
RedisFails(w) ==
  /\ SW!RedisFails(w)
  /\ Handling(w) => AtAwait(w, RedisAwaits)
  /\ IF pc[w] = "markFailed" THEN MarkRunFailed(w) /\ UNCHANGED commands ELSE Cut(w)
  /\ IF Handling(w) THEN Forget(w) ELSE UNCHANGED handlerVars
  /\ UNCHANGED <<late, requestVars>>

\* Redis answers an error: nothing was appended, and the connection is still good
\* for the dead letter, the event of _mark_failed and the acknowledgement.
RedisRefuses(w) ==
  /\ SW!RedisRefuses(w)
  /\ Handling(w) => AtAwait(w, RedisAwaits)
  /\ IF pc[w] = "markFailed" THEN MarkRunFailed(w) ELSE UNCHANGED dataVars
  /\ IF Handling(w) THEN Forget(w) ELSE UNCHANGED handlerVars
  /\ UNCHANGED <<late, commands, requestVars>>

DbFails(w) ==
  /\ SW!DbFails(w)
  /\ Cut(w)
  /\ UNCHANGED <<late, handlerVars, requestVars>>

Stop(w) ==
  /\ SW!Stop(w)
  /\ Cut(w)
  /\ LeaveCall(w)
  /\ Forget(w)
  /\ UNCHANGED requestVars

Crash(w) ==
  /\ SW!Crash(w)
  /\ Cut(w)
  /\ LeaveCall(w)
  /\ Forget(w)
  /\ UNCHANGED requestVars

\* A call outlived its caller; its answer goes to nobody.
LateCall(c) ==
  /\ late' = late \ {c}
  /\ UNCHANGED dataVars \/ \E sent \in MailOutcomes : HttpEffect(c, sent)
  /\ UNCHANGED <<swVars, commands, handlerVars, requestVars>>

\* Reading, the dead letter, the record and the acknowledgement.
Deliver(w) ==
  /\ \/ SW!EnsureGroup(w) \/ SW!Read(w) \/ SW!ReadNothing(w) \/ SW!DeadLetter(w)
     \/ SW!Record(w) \/ SW!Ack(w) \/ SW!LoopError(w)
  /\ UNCHANGED <<late, commands, dataVars, handlerVars, requestVars>>

StartWorker(w) ==
  /\ SW!Start(w)
  /\ UNCHANGED <<late, commands, dataVars, handlerVars, requestVars>>

LoopErrorEndsTask(w) ==
  /\ SW!LoopErrorEndsTask(w)
  /\ UNCHANGED <<late, commands, dataVars, handlerVars, requestVars>>
-----------------------------------------------------------------------------
\* The HTTP intake of workflow-service.

IntakeOpen == EarlyIntake \/ grouped[Commands]

SetIntake(r, a, at) == intake' = [intake EXCEPT ![<<r, a>>] = at]

\* start_order_checkout_workflow: find_by_idempotency_key.
FindRun(r, a) ==
  /\ IntakeOpen
  /\ intake[<<r, a>>] = "idle"
  /\ SetIntake(r, a, IF runs[r].status = "none" THEN "absent" ELSE "done")
  /\ UNCHANGED <<late, swVars, commands, dataVars, handlerVars, pay>>

\* Mutants: an upsert in place of the unique constraint; the command forgotten.
CreateRunAgain(r, a) ==
  /\ intake[<<r, a>>] = "absent"
  /\ UpdateRun(r, [status |-> "accepted"])
  /\ SetIntake(r, a, "inserted")
  /\ UNCHANGED <<late, swVars, commands, orderStatus, trail, owner, docs, charges, mails,
                 handlerVars, pay>>

CreateRunOnly(r, a) ==
  /\ intake[<<r, a>>] = "absent"
  /\ UpdateRun(r, [status |-> "accepted"])
  /\ SetIntake(r, a, "done")
  /\ UNCHANGED <<late, swVars, commands, orderStatus, trail, owner, docs, charges, mails,
                 handlerVars, pay>>

\* create_workflow_run: UNIQUE (user_id, idempotency_key) refuses a second row.
CreateRun(r, a) ==
  /\ intake[<<r, a>>] = "absent"
  /\ IF runs[r].status = "none"
     THEN /\ UpdateRun(r, [status |-> "accepted"])
          /\ SetIntake(r, a, "inserted")
     ELSE /\ UNCHANGED runs
          /\ SetIntake(r, a, "done")
  /\ UNCHANGED <<late, swVars, commands, orderStatus, trail, owner, docs, charges, mails,
                 handlerVars, pay>>

\* publish_command(order.create), by the request that made the row.
PublishRun(r, a) ==
  /\ intake[<<r, a>>] = "inserted"
  /\ SW!Publish(Commands)
  /\ commands' = Append(commands, [type |-> "order_create", run |-> r, scenario |-> "success"])
  /\ SetIntake(r, a, "done")
  /\ UNCHANGED <<late, dataVars, handlerVars, pay>>

\* The request dies between the row and the command; its retry finds the row.
IntakeDies(r, a) ==
  /\ Faults \cap {"crash", "redis", "reply"} # {}
  /\ intake[<<r, a>>] \in {"absent", "inserted"}
  /\ SetIntake(r, a, "done")
  /\ UNCHANGED <<late, swVars, commands, dataVars, handlerVars, pay>>

\* request_order_payment: the row is found by its order and must be
\* awaiting_payment; every other status is answered 409.
CheckPayment(p, r, s) ==
  /\ pay[p].at = "idle"
  /\ runs[r].order # NoOrder
  /\ runs[r].status = "awaiting_payment"
  /\ pay' = [pay EXCEPT ![p] = [at |-> "checked", run |-> r, scenario |-> s]]
  /\ UNCHANGED <<late, swVars, commands, dataVars, handlerVars, intake>>

\* publish_command(payment.requested), after the check, on nothing but the check.
PublishPayment(p) ==
  /\ pay[p].at = "checked"
  /\ SW!Publish(Commands)
  /\ commands' = Append(commands, [type |-> "payment_requested", run |-> pay[p].run,
                                   scenario |-> pay[p].scenario])
  /\ pay' = [pay EXCEPT ![p] = [at |-> "done", run |-> @.run, scenario |-> @.scenario]]
  /\ UNCHANGED <<late, dataVars, handlerVars, intake>>
-----------------------------------------------------------------------------
Init ==
  /\ SW!Init
  /\ OL!Init
  /\ commands = <<>>
  /\ runs = [r \in Runs |-> NoRun]
  /\ intake = [ra \in Runs \X Attempts |-> "idle"]
  /\ pay = [p \in PayRequests |-> [at |-> "idle", run |-> CHOOSE r \in Runs : TRUE, scenario |-> "success"]]
  /\ owner = [o \in Orders |-> CHOOSE r \in Runs : TRUE]
  /\ docs = {}
  /\ charges = [o \in Orders |-> 0]
  /\ mails = {}
  /\ late = {}
  /\ todo = [w \in Workers |-> <<"require">>]
  /\ loc = [w \in Workers |-> NoOrder]

Handler(w) == DbStep(w) \/ HttpStep(w) \/ SendStep(w) \/ TellStep(w) \/ HandlerReturns(w)

\* What a worker task does by itself.
Work(w) == Handler(w) \/ HandlerRefuses(w) \/ MarkFailed(w) \/ Deliver(w)

Trouble(w) ==
  UpstreamFails(w) \/ HandlerDbFails(w) \/ RedisFails(w) \/ RedisRefuses(w)
  \/ DbFails(w) \/ LoopErrorEndsTask(w) \/ Stop(w) \/ Crash(w)

Abandoned == pel \ UNION {SW!Batch(w) : w \in Workers}

Intake ==
  \/ \E r \in Runs, a \in Attempts : CreateRun(r, a) \/ PublishRun(r, a) \/ IntakeDies(r, a)
  \/ \E p \in PayRequests : PublishPayment(p)

\* What the system does with what it was asked; customers ask when they like.
AskForCheckout == \E r \in Runs, a \in Attempts : FindRun(r, a)

AskForPayment == \E p \in PayRequests, r \in Runs, s \in Scenarios : CheckPayment(p, r, s)

Steps ==
  \/ Intake
  \/ \E c \in late : LateCall(c)
  \/ \E w \in Workers : StartWorker(w) \/ Work(w)
  \/ \E w \in Workers : Trouble(w) /\ Cardinality(Abandoned') <= MaxAbandoned

Next == Steps \/ AskForCheckout \/ AskForPayment

Spec == Init /\ [][Next]_vars

\* For TLC.
WorkerSymmetry == SW!WorkerSymmetry

\* A pod is started, its task runs on, and a request that made its row goes on.
Fairness ==
  /\ \A w \in Workers : WF_vars(StartWorker(w)) /\ WF_vars(Work(w))
  /\ \A r \in Runs, a \in Attempts : WF_vars(CreateRun(r, a)) /\ WF_vars(PublishRun(r, a))

FairSpec == Spec /\ Fairness
-----------------------------------------------------------------------------
RunStatuses == {"none", "accepted", "order_creating", "invoice_generating", "awaiting_payment",
                "payment_requested", "payment_processing", "receipt_generating",
                "notification_sending", "completed", "notification_failed", "failed"}

CommandRecords ==
  [type : DOMAIN Script, run : Runs, scenario : DOMAIN Outcome]

\* The values the variables range over.
TypeOK ==
  /\ SW!TypeOK
  /\ commands \in Seq(CommandRecords) /\ Len(commands) = appended[Commands]
  /\ runs \in [Runs -> [status : RunStatuses, order : Orders \cup {NoOrder}, invoice : BOOLEAN,
                       receipt : BOOLEAN, payment : BOOLEAN, notification : BOOLEAN,
                       failure : {"none", "WORKFLOW_WORKER_ERROR", "NOTIFICATION_FAILED",
                                  "INSUFFICIENT_FUNDS", "SUSPECTED_FRAUD"},
                       finished : BOOLEAN]]
  /\ intake \in [Runs \X Attempts -> {"idle", "absent", "inserted", "done"}]
  /\ pay \in [PayRequests -> [at : {"idle", "checked", "done"}, run : Runs, scenario : Scenarios \cup {"success"}]]
  /\ owner \in [Orders -> Runs]
  /\ docs \subseteq Orders \X {"invoice", "receipt"}
  /\ charges \in [Orders -> Nat]
  /\ mails \subseteq Orders
  /\ late \subseteq [does : HttpAwaits, run : Runs, order : Orders \cup {NoOrder},
                      scenario : DOMAIN Outcome]
  /\ loc \in [Workers -> Orders \cup {NoOrder}]
  /\ todo \in [Workers -> Seq(DbAwaits \cup HttpAwaits \cup RedisAwaits)]
  /\ orderStatus \in [Orders -> OL!OrderStatuses \cup {OL!Absent}]

\* A checkout makes one order at most, however often its POST is repeated and
\* whatever fails or crashes between the order and the row that should name it.
OneOrderPerRun ==
  \A o, q \in Orders :
    /\ orderStatus[o] # OL!Absent /\ orderStatus[q] # OL!Absent
    /\ owner[o] = owner[q]
    => o = q

\* A completed run names its invoice, payment, receipt and notification, and its
\* order was charged, got both documents and its mail, and is notification_sent.
CompletedMeansDelivered ==
  \A r \in Runs :
    LET run == runs[r]  o == run.order IN
    run.status = "completed" =>
      /\ run.invoice /\ run.payment /\ run.receipt /\ run.notification /\ run.finished
      /\ o \in mails /\ charges[o] > 0 /\ orderStatus[o] = "notification_sent"
      /\ {<<o, "invoice">>, <<o, "receipt">>} \subseteq docs

\* The statuses of an order that was paid.
Paid == {"payment_completed", "receipt_generated", "notification_sent"}

\* A receipt is made only for an order that was charged and knows it.
ReceiptMeansPaid ==
  \A o \in Orders : <<o, "receipt">> \in docs => charges[o] > 0 /\ orderStatus[o] \in Paid

Accepted(o) == {i \in 1..Len(commands) : commands[i].type = "payment_requested"
                                         /\ commands[i].run = owner[o]
                                         /\ commands[i].scenario = "success"}

\* No order is charged more often than payments were accepted for it: neither a
\* timeout, nor a restart, nor a second worker repeats a charge.
ChargesWereAsked == \A o \in Orders : charges[o] <= Cardinality(Accepted(o))

\* A run that waits for a payment names an order that was never charged, is unpaid
\* and has no receipt, so the payment it invites is not a second one.  Holds while
\* payments are asked for one at a time, also of the two workers of a rolling update.
AwaitingMeansUnpaid ==
  \A r \in Runs :
    runs[r].status = "awaiting_payment" =>
      /\ runs[r].order # NoOrder
      /\ charges[runs[r].order] = 0
      /\ orderStatus[runs[r].order] \in {"invoice_generated", "payment_failed"}
      /\ <<runs[r].order, "receipt">> \notin docs

\* A run failed by the worker has a command in the dead letter stream to show for
\* it, also when Redis breaks while the failure is handled.
WorkerErrorIsDeadLettered ==
  \A r \in Runs :
    runs[r].failure = "WORKFLOW_WORKER_ERROR" =>
      \E i \in 1..Len(commands) : commands[i].run = r /\ <<Commands, i>> \in deadLetters

Resting == {"none", "awaiting_payment", "completed", "notification_failed", "failed"}

\* While only other services fail: a run that is not at rest has a command that is
\* not read yet, or being handled, or about to be sent by the request that made it.
BusyRunHasWork ==
  \A r \in Runs :
    runs[r].status \notin Resting =>
      \/ \E i \in (delivered[Commands] + 1)..Len(commands) : commands[i].run = r
      \/ \E w \in Workers : \E e \in SW!Batch(w) : commands[e[2]].run = r
      \/ \E a \in Attempts : intake[<<r, a>>] = "inserted"

\* Every checkout comes to rest: it waits for a payment, or it is over.
EveryCheckoutRests == \A r \in Runs : runs[r].status = "accepted" ~> runs[r].status \in Resting

\* A payment accepted from a run at rest lets it come to rest again.
EveryPaymentRests ==
  \A r \in Runs : runs[r].status = "payment_requested" ~> runs[r].status \in Resting

\* Every command sent after the group was made is acknowledged and on record in the
\* end, whether its handler returned or raised.
EveryCommandSettles == SW!EveryEntrySettles

\* "Workflow is already terminal": a run that completed or failed stays so.
TerminalIsFinal ==
  [][\A r \in Runs : runs[r].status \in {"completed", "failed"} => runs'[r].status = runs[r].status]_vars

\* "Workflow is not awaiting payment": once one payment was taken no other is.
ChargedAtMostOnce == \A o \in Orders : charges[o] <= 1
=============================================================================

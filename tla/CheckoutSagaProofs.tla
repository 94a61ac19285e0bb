------------------------- MODULE CheckoutSagaProofs -------------------------
(***************************************************************************)
(* What holds of the checkout workflow for any number of runs, requests,    *)
(* orders and workers, and under every fault but where a theorem says so.   *)
(* The argument has these parts:                                            *)
(*                                                                          *)
(*   - every step is one of few moves (SagaMove), and each is a step of     *)
(*     StreamWorker or leaves the stream alone (SagaUsesStream), so what    *)
(*     StreamWorkerProofs shows of batches holds here;                      *)
(*   - Sound, the types and what a handler read before it goes on;          *)
(*   - OneOrder: a command is spent (Spent) once its handler is past        *)
(*     POST /orders, and a run has one such command;                        *)
(*   - PaidInv: who is on the way to a receipt knows the order was charged, *)
(*     and nothing takes that back;                                         *)
(*   - DeliveryInv: what a run says was delivered was, for its own order,   *)
(*     by whatever handler, in whatever order;                              *)
(*   - ChargeInv: every charge was spent by a payment.requested command of  *)
(*     the run that owns the order;                                         *)
(*   - OnScript: what is left of a handler is a tail of its own script;     *)
(*   - HistoryShows: the history of an order holds its status, and every    *)
(*     move of an order is one OrderLifecycle allows;                       *)
(*   - BusyInv, while only other services fail: whoever ends a command has  *)
(*     sent the next one, or left its run at rest.                          *)
(***************************************************************************)
EXTENDS CheckoutSaga, SequenceTheorems, FiniteSetTheorems, TLAPS

\* The stream as StreamWorkerProofs knows it: the definitions of SW once more, with
\* the lemmas about them.
SWP == INSTANCE StreamWorkerProofs

\* The awaits the handler of w has left.
Awaits(script) == {script[k] : k \in DOMAIN script}
Ahead(w) == Awaits(todo[w])

\* The calls that name an order.
OrderAwaits == HttpAwaits \ {"postOrder"}

\* Outside of a handler nothing is begun.
AtRest ==
  \A w \in Workers :
    /\ cur[w] >= 1
    /\ pc[w] # "handle" => todo[w] = <<"require">> /\ loc[w] = NoOrder

\* A handler on its way to a call that names an order has read one from the row, and
\* one on its way to report a failure has a scenario that fails.
HandlersKnow ==
  \A w \in Workers :
    /\ Ahead(w) \cap OrderAwaits # {} => loc[w] \in Orders
    /\ Ahead(w) \cap {"setRetryable", "setRejected"} # {} => Command(w).scenario # "success"

\* A call left behind names an order, but for the one that creates it.
LateKnow == \A c \in late : c.does # "postOrder" => c.order \in Orders

\* _mark_failed is reached with the command in the dead letter stream.
MarkedIsDead == \A w \in Workers : pc[w] = "markFailed" => <<Commands, cur[w]>> \in deadLetters
-----------------------------------------------------------------------------
\* Entry i is the order.create of run r.
Creates(i, r) ==
  i \in 1..Len(commands) /\ commands[i].type = "order_create" /\ commands[i].run = r

\* The awaits up to POST /orders, and up to the row that names the order.
BeforeOrder == {"require", "setCreating", "postOrder"}
BeforeRow == BeforeOrder \cup {"setOrder"}

\* No handler, now or later, has an await of early to make for entry i: it was
\* delivered, and whoever still holds it is past them.
Spent(i, early) ==
  /\ i <= delivered[Commands]
  /\ \A w \in Workers : SWP!Holds(w, Commands, i) =>
       cur[w] = i /\ (pc[w] = "handle" => Ahead(w) \cap early = {})

\* A run has one order.create at most.
OneCommandPerRun ==
  \A r \in Runs : \A i, j \in 1..Len(commands) : Creates(i, r) /\ Creates(j, r) => i = j

\* One request made the row, and has still to append the command.
OneInserter ==
  \A r \in Runs, a \in Attempts :
    intake[<<r, a>>] = "inserted" =>
      /\ runs[r].status # "none"
      /\ \A i \in 1..Len(commands) : ~ Creates(i, r)
      /\ \A b \in Attempts : intake[<<r, b>>] = "inserted" => b = a

\* Commands are about runs that exist.
KnownRuns ==
  /\ \A i \in 1..Len(commands) : runs[commands[i].run].status # "none"
  /\ \A p \in PayRequests : pay[p].at = "checked" => runs[pay[p].run].status # "none"

\* Nothing comes back to the order, or to the row that names it, once it is past it.
InOrder(script) ==
  \A k, l \in DOMAIN script : k < l =>
    /\ script[k] = "postOrder" => script[l] \notin BeforeOrder
    /\ script[k] = "setOrder" => script[l] \notin BeforeRow

\* Only the handler of order.create makes an order, and names it, once.
CreatesInOrder ==
  \A w \in Workers :
    /\ Ahead(w) \cap {"postOrder", "setOrder"} # {} => Command(w).type = "order_create"
    /\ InOrder(todo[w])

\* Run r has an order; a call that would make it one was left behind.
OrderMade(r) == \E o \in Orders : orderStatus[o] # OL!Absent /\ owner[o] = r
OrderLate(r) == \E c \in late : c.does = "postOrder" /\ c.run = r

\* An order, or a call that may make it yet, is the trace of an order.create nobody
\* can make another one for.
OrdersAreSpent ==
  \A r \in Runs :
    /\ OrderMade(r) \/ OrderLate(r) => \E i \in 1..Len(commands) : Creates(i, r) /\ Spent(i, BeforeOrder)
    /\ ~ (OrderMade(r) /\ OrderLate(r))
    /\ \A c, d \in late : c.does = "postOrder" /\ d.does = "postOrder" /\ c.run = r /\ d.run = r => c = d

\* The same of the row that names the order.
NamesAreSpent ==
  \A r \in Runs :
    runs[r].order # NoOrder => \E i \in 1..Len(commands) : Creates(i, r) /\ Spent(i, BeforeRow)
-----------------------------------------------------------------------------
\* An order that counts as paid was charged.
PaidIsCharged == \A o \in Orders : orderStatus[o] \in Paid => charges[o] > 0

\* A handler past its payment charged the order its run names, and moved it before it
\* went on; one on its way to a receipt has a paid order.
KnowsPaid(w) ==
  /\ Ahead(w) \cap {"movePaid", "setPaid", "sendReceipt"} # {} =>
       charges[loc[w]] > 0 /\ (Await(w) = "movePaid" \/ orderStatus[loc[w]] \in Paid)
  /\ Ahead(w) \cap {"postPayment", "movePaid", "setPaid", "sendReceipt"} # {} =>
       /\ Command(w).type = "payment_process"
       /\ loc[w] \in Orders /\ runs[RunOf(w)].order = loc[w]
  /\ "postReceipt" \in Ahead(w) => Command(w).type = "generate_receipt" /\ orderStatus[loc[w]] \in Paid

HandlersKnowPaid == \A w \in Workers : KnowsPaid(w)

\* So do the calls left behind.
LateKnowPaid ==
  \A c \in late :
    /\ c.does = "movePaid" => charges[c.order] > 0
    /\ c.does = "postReceipt" => orderStatus[c.order] \in Paid

\* generate_receipt is sent for paid orders only.
ReceiptCommandsKnowPaid ==
  \A i \in 1..Len(commands) :
    commands[i].type = "generate_receipt" =>
      LET o == runs[commands[i].run].order IN o \in Orders /\ orderStatus[o] \in Paid
-----------------------------------------------------------------------------
\* What every step keeps, whatever it is about.
Sound == SWP!StreamInv /\ TypeOK /\ AtRest /\ HandlersKnow /\ LateKnow

\* The assumptions of StreamWorker.
LEMMA Assumed ==
  /\ NStreams \in Nat \ {0} /\ BatchSize \in Nat \ {0} /\ MaxLen \in Nat
  /\ Faults \subseteq SWP!AllFaults
  BY CheckoutAssumption DEF NStreams, SWP!AllFaults

\* Every step StreamWorker lets a worker take.
Acts(w) ==
  \/ SW!Start(w) \/ SW!Work(w) \/ SW!HandlerRaises(w)
  \/ SW!RedisFails(w) \/ SW!RedisRefuses(w) \/ SW!DbFails(w) \/ SW!LoopErrorEndsTask(w)
  \/ SW!Stop(w) \/ SW!Crash(w)

\* SW and SWP define the same steps, states and types.
LEMMA SameActs ==
  ASSUME NEW w \in Workers
  PROVE  Acts(w) <=> SWP!Acts(w)
  BY DEF Acts, SWP!Acts, SW!Work, SWP!Work, SW!Streams, SWP!Streams, SW!redisVars, SWP!redisVars, SW!workerVars, SWP!workerVars,
         SW!Entry, SWP!Entry, SW!Recorded, SWP!Recorded, SW!NoEffect, SWP!NoEffect,
         SW!AppendEntry, SWP!AppendEntry, SW!CreateGroup, SWP!CreateGroup, SW!LastRead,
         SWP!LastRead, SW!DeliverBatch, SWP!DeliverBatch, SW!PublishDeadLetter,
         SWP!PublishDeadLetter, SW!RecordProcessed, SWP!RecordProcessed, SW!Acknowledge,
         SWP!Acknowledge, SW!Interrupted, SWP!Interrupted, SW!Goto, SWP!Goto, SW!DropBatch,
         SWP!DropBatch, SW!Escape, SWP!Escape, SW!NextStream, SWP!NextStream, SW!NextMessage,
         SWP!NextMessage, SW!LeaveFinally, SWP!LeaveFinally, SW!Publish, SWP!Publish, SW!Start,
         SWP!Start, SW!EnsureGroup, SWP!EnsureGroup, SW!Read, SWP!Read, SW!ReadNothing,
         SWP!ReadNothing, SW!HandlerReturns, SWP!HandlerReturns, SW!HandlerRaises,
         SWP!HandlerRaises, SW!DeadLetter, SWP!DeadLetter, SW!MarkFailed, SWP!MarkFailed,
         SW!Record, SWP!Record, SW!Ack, SWP!Ack, SW!Raise, SWP!Raise, SW!RedisFails,
         SWP!RedisFails, SW!RedisRefuses, SWP!RedisRefuses, SW!DbFails, SWP!DbFails, SW!LoopError, SWP!LoopError,
         SW!LoopErrorEndsTask, SWP!LoopErrorEndsTask, SW!Stop, SWP!Stop, SW!Crash, SWP!Crash

\* So are their first states, their types and what appends an entry.
LEMMA SameRest ==
  /\ SW!Init <=> SWP!Init
  /\ SW!TypeOK <=> SWP!TypeOK
  /\ \A s : SW!Publish(s) <=> SWP!Publish(s)
  BY DEF SW!Init, SWP!Init, SW!TypeOK, SWP!TypeOK, SW!PCs, SWP!PCs, SW!Streams, SWP!Streams,
         SW!Publish, SWP!Publish, SW!AppendEntry, SWP!AppendEntry, SW!workerVars, SWP!workerVars

\* So are all their steps.
LEMMA SameNext == [SW!Next]_(SW!streamVars) <=> [SWP!Next]_(SWP!streamVars)
  <1>1. SW!Next <=> SWP!Next
    BY SameActs, SameRest DEF Acts, SW!Next, SWP!Next, SWP!Acts, SW!Streams, SWP!Streams
  <1>2. QED
    BY <1>1 DEF SW!streamVars, SWP!streamVars, SW!redisVars, SWP!redisVars, SW!workerVars, SWP!workerVars

\* So are the types after a step.
LEMMA SameTypePrime == SW!TypeOK' <=> SWP!TypeOK'
  BY DEF SW!TypeOK, SWP!TypeOK, SW!PCs, SWP!PCs, SW!Streams, SWP!Streams

\* Every step of the saga is a step of StreamWorker, or none.
LEMMA SagaStepsStream ==
  ASSUME [Next]_vars
  PROVE  [SWP!Next]_(SWP!streamVars)
  <1>1. Commands \in SWP!Streams
    BY DEF Commands, SWP!Streams, NStreams
  <1>2. ASSUME SW!Publish(Commands) PROVE SWP!Next
    BY <1>1, <1>2, SameRest DEF SWP!Next
  <1>3. ASSUME NEW w \in Workers, Acts(w) PROVE SWP!Next
    BY <1>3, SameActs DEF SWP!Next, SWP!Acts
  <1>4. ASSUME UNCHANGED swVars PROVE UNCHANGED SWP!streamVars
    BY <1>4 DEF swVars, SWP!streamVars, SWP!redisVars, SWP!workerVars
  <1>5. CASE Intake
    BY <1>2, <1>4, <1>5 DEF Intake, CreateRun, PublishRun, IntakeDies, PublishPayment
  <1>6. CASE AskForCheckout \/ AskForPayment
    BY <1>4, <1>6 DEF AskForCheckout, AskForPayment, FindRun, CheckPayment
  <1>7. ASSUME NEW c \in late, LateCall(c) PROVE UNCHANGED SWP!streamVars
    BY <1>4, <1>7 DEF LateCall
  <1>8. ASSUME NEW w \in Workers, StartWorker(w) \/ Work(w) \/ Trouble(w)
        PROVE  [SWP!Next]_(SWP!streamVars)
    <2>1. CASE Handler(w) /\ ~ HandlerReturns(w)
      BY <1>2, <1>4, <2>1 DEF Handler, DbStep, HttpStep, SendStep, TellStep
    <2>2. CASE HandlerReturns(w) \/ ~ Handler(w)
      <3>1. Acts(w)
        BY <1>8, <2>2
           DEF Acts, Work, Trouble, Handler, StartWorker, HandlerReturns, HandlerRefuses, MarkFailed, Deliver,
               UpstreamFails, HandlerDbFails, RedisFails, RedisRefuses, DbFails,
               LoopErrorEndsTask, Stop, Crash, SW!Work
      <3>2. QED
        BY <1>3, <3>1
    <2>3. QED
      BY <2>1, <2>2
  <1>9. CASE UNCHANGED vars
    BY <1>4, <1>9 DEF vars
  <1>10. QED
    BY <1>5, <1>6, <1>7, <1>8, <1>9 DEF Next, Steps

\* The saga uses the stream as StreamWorker describes it: every handler, request and
\* fault is a step of the worker loop, or leaves the stream alone.
THEOREM SagaUsesStream == Spec => SW!Spec
  <1>1. Init => SW!Init
    BY DEF Init
  <1>2. [Next]_vars => [SW!Next]_(SW!streamVars)
    BY SagaStepsStream, SameNext
  <1>3. QED
    BY <1>1, <1>2, PTL DEF Spec, SW!Spec

\* The inductive invariant of StreamWorkerProofs holds of the saga.
LEMMA StreamAlways == Spec => []SWP!StreamInv
  <1>1. SWP!Spec => []SWP!StreamInv
    BY SWP!AlwaysInv, Assumed
  <1>2. SW!Init => SWP!Init
    BY SameRest
  <1>3. [SW!Next]_(SW!streamVars) => [SWP!Next]_(SWP!streamVars)
    BY SameNext
  <1>4. QED
    BY <1>1, <1>2, <1>3, SagaUsesStream, PTL DEF SW!Spec, SWP!Spec
-----------------------------------------------------------------------------
\* A step inside a handler.
Handles(w) == DbStep(w) \/ HttpStep(w) \/ SendStep(w) \/ TellStep(w)

\* What a step that leaves the handler, or happens outside of it, does.
LeavesUndone(w) ==
  \/ UNCHANGED <<appended, commands, dataVars>>
  \/ AtAwait(w, DbAwaits) /\ DbEffect(w) /\ UNCHANGED <<appended, commands>>
  \/ pc[w] = "markFailed" /\ MarkRunFailed(w) /\ UNCHANGED <<appended, commands>>
  \/ /\ AtAwait(w, DOMAIN Sends)
     /\ appended'[Commands] = appended[Commands] + 1
     /\ commands' = Append(commands, NewCommand(w))
     /\ UNCHANGED dataVars

\* A step of the loop, and the end of a handler, however it ends.
Leaves(w) ==
  /\ SWP!WorkerMove(w)
  /\ LeavesUndone(w)
  /\ LeaveCall(w)
  /\ Forget(w)
  /\ UNCHANGED requestVars

\* A request of the HTTP API.
Asks ==
  \/ \E r \in Runs, a \in Attempts :
       FindRun(r, a) \/ CreateRun(r, a) \/ PublishRun(r, a) \/ IntakeDies(r, a)
  \/ \E p \in PayRequests :
       PublishPayment(p) \/ \E r \in Runs, s \in Scenarios : CheckPayment(p, r, s)

\* Every step, sorted by what it does to handlers.
SagaMove ==
  \/ \E w \in Workers : Handles(w) \/ Leaves(w)
  \/ \E c \in late : LateCall(c)
  \/ Asks

\* A step of StreamWorker is one of the moves StreamWorkerProofs sorts them into.
LEMMA SameMove ==
  ASSUME SWP!StreamInv, NEW w \in Workers, Acts(w)
  PROVE  SWP!WorkerMove(w)
  BY SWP!ActIsMove, SameActs, Assumed DEF SWP!StreamInv

\* Outside of a handler, forgetting it changes nothing.
LEMMA NothingToForget ==
  ASSUME TypeOK, AtRest, NEW w \in Workers, UNCHANGED handlerVars, pc[w] # "handle"
  PROVE  Forget(w)
  BY DEF AtRest, TypeOK, handlerVars, Forget

\* A move that appends, appends one command.
LEMMA MoveAppends ==
  ASSUME SWP!StreamInv, NEW w \in Workers, SWP!WorkerMove(w), appended' # appended
  PROVE  appended'[Commands] = appended[Commands] + 1
  <1>1. PICK s \in SWP!Streams : SWP!AppendEntry(s)
    BY DEF SWP!WorkerMove, SWP!HoldsNothing, SWP!GoesOn, SWP!Buries, SWP!Records, SWP!Advances, SWP!Takes,
           SWP!Effect, SWP!NoEffect, SWP!redisVars, SWP!CreateGroup, SWP!DeliverBatch,
           SWP!PublishDeadLetter, SWP!RecordProcessed, SWP!Acknowledge
  <1>2. s = Commands
    BY <1>1 DEF SWP!Streams, NStreams, Commands
  <1>3. QED
    BY <1>1, <1>2 DEF SWP!AppendEntry, SWP!StreamInv, SWP!TypeOK

\* Every step is a move, or changes nothing.
LEMMA StepIsSagaMove ==
  ASSUME SWP!StreamInv, TypeOK, AtRest, [Next]_vars
  PROVE  SagaMove \/ UNCHANGED vars
  <1> SUFFICES ASSUME Next PROVE SagaMove
    OBVIOUS
  <1> USE DEF SagaMove
  <1>1. CASE Intake \/ AskForCheckout \/ AskForPayment
    BY <1>1 DEF Intake, AskForCheckout, AskForPayment, Asks
  <1>2. ASSUME NEW w \in Workers, StartWorker(w) \/ LoopErrorEndsTask(w) \/ Deliver(w) \/ HandlerReturns(w)
        PROVE  Leaves(w)
    <2>1. SWP!WorkerMove(w)
      BY <1>2, SameMove DEF StartWorker, LoopErrorEndsTask, Deliver, HandlerReturns, Acts, SW!Work
    <2>2. Forget(w)
      BY <1>2, NothingToForget
         DEF StartWorker, LoopErrorEndsTask, Deliver, HandlerReturns, SW!Start, SW!LoopErrorEndsTask,
             SW!EnsureGroup, SW!Read, SW!ReadNothing, SW!DeadLetter, SW!Record, SW!Ack, SW!LoopError
    <2>3. UNCHANGED <<appended, commands, dataVars, late, requestVars>>
      BY <1>2
         DEF StartWorker, LoopErrorEndsTask, Deliver, HandlerReturns, SW!Start, SW!LoopErrorEndsTask,
             SW!EnsureGroup, SW!Read, SW!ReadNothing, SW!DeadLetter, SW!Record, SW!Ack, SW!LoopError,
             SW!HandlerReturns, SW!NoEffect, SW!redisVars, SW!CreateGroup, SW!DeliverBatch,
             SW!PublishDeadLetter, SW!RecordProcessed, SW!Acknowledge
    <2>4. QED
      BY <2>1, <2>2, <2>3 DEF Leaves, LeavesUndone, LeaveCall
  <1>3. ASSUME NEW w \in Workers, HandlerRefuses(w) \/ UpstreamFails(w) \/ HandlerDbFails(w) \/ MarkFailed(w)
        PROVE  Leaves(w)
    <2>1. SWP!WorkerMove(w)
      BY <1>3, SameMove DEF HandlerRefuses, UpstreamFails, HandlerDbFails, MarkFailed, Acts, SW!Work
    <2>2. Forget(w)
      BY <1>3, NothingToForget DEF HandlerRefuses, UpstreamFails, HandlerDbFails, MarkFailed, SW!MarkFailed
    <2>3. UNCHANGED <<appended, commands, requestVars>>
      BY <1>3 DEF HandlerRefuses, UpstreamFails, HandlerDbFails, MarkFailed, SW!HandlerRaises, SW!MarkFailed,
                  SW!NoEffect, SW!redisVars
    <2>4. LeavesUndone(w)
      BY <1>3, <2>3 DEF HandlerRefuses, UpstreamFails, HandlerDbFails, MarkFailed, SW!MarkFailed, LeavesUndone
    <2>5. LeaveCall(w)
      BY <1>3 DEF HandlerRefuses, UpstreamFails, HandlerDbFails, MarkFailed, LeaveCall
    <2>6. QED
      BY <2>1, <2>2, <2>3, <2>4, <2>5 DEF Leaves
  <1>4. ASSUME NEW w \in Workers, RedisFails(w) \/ RedisRefuses(w) \/ DbFails(w) \/ Stop(w) \/ Crash(w)
        PROVE  Leaves(w)
    <2>1. SWP!WorkerMove(w)
      BY <1>4, SameMove DEF RedisFails, RedisRefuses, DbFails, Stop, Crash, Acts
    <2>2. Forget(w)
      BY <1>4, NothingToForget DEF RedisFails, RedisRefuses, DbFails, Stop, Crash, SW!DbFails, Handling
    <2>3. Cut(w) => LeavesUndone(w)
      BY <2>1, MoveAppends DEF Cut, LeavesUndone
    <2>4. RedisFails(w) /\ pc[w] = "markFailed" => LeavesUndone(w)
      BY DEF RedisFails, SW!RedisFails, SW!Interrupted, SW!NoEffect, SW!redisVars, LeavesUndone
    <2>5. RedisRefuses(w) => LeavesUndone(w)
      BY DEF RedisRefuses, SW!RedisRefuses, SW!NoEffect, SW!redisVars, LeavesUndone
    <2>6. LeavesUndone(w)
      BY <1>4, <2>3, <2>4, <2>5 DEF RedisFails, RedisRefuses, DbFails, Stop, Crash
    <2>7. LeaveCall(w) /\ UNCHANGED requestVars
      BY <1>4 DEF RedisFails, RedisRefuses, DbFails, Stop, Crash, LeaveCall
    <2>8. QED
      BY <2>1, <2>2, <2>6, <2>7 DEF Leaves
  <1>5. QED
    BY <1>1, <1>2, <1>3, <1>4 DEF Next, Steps, Work, Handler, Handles, Trouble
-----------------------------------------------------------------------------
\* The parts of TypeOK, and the names of their values.
RunRows == [status : RunStatuses, order : Orders \cup {NoOrder}, invoice : BOOLEAN,
            receipt : BOOLEAN, payment : BOOLEAN, notification : BOOLEAN,
            failure : {"none", "WORKFLOW_WORKER_ERROR", "NOTIFICATION_FAILED",
                       "INSUFFICIENT_FUNDS", "SUSPECTED_FRAUD"},
            finished : BOOLEAN]

AwaitLabels == DbAwaits \cup HttpAwaits \cup RedisAwaits

\* A worker that handles has an entry of the command stream.
LEMMA CommandKnown ==
  ASSUME SWP!StreamInv, TypeOK, AtRest, NEW w \in Workers, pc[w] \in SWP!Busy
  PROVE  /\ cur[w] \in 1..Len(commands)
         /\ on[w] = Commands
         /\ SWP!Holds(w, Commands, cur[w])
         /\ Command(w) \in CommandRecords
  <1>1. on[w] = Commands
    BY DEF SWP!StreamInv, SWP!TypeOK, SWP!Streams, NStreams, Commands
  <1>2. SWP!Holds(w, Commands, cur[w])
    BY <1>1, SWP!HoldsItsEntry, Assumed DEF SWP!StreamInv
  <1>3. cur[w] <= delivered[Commands] /\ delivered[Commands] <= appended[Commands] /\ cur[w] \in Nat
    BY <1>1, <1>2 DEF SWP!StreamInv, SWP!HeldIsPending, SWP!Delivered, SWP!TypeOK, SWP!Streams, NStreams, Commands
  <1>4. cur[w] \in 1..Len(commands)
    BY <1>3 DEF AtRest, TypeOK, SWP!StreamInv, SWP!TypeOK, SWP!Streams, NStreams, Commands
  <1>5. QED
    BY <1>1, <1>2, <1>4 DEF TypeOK, Command

Failures == {"none", "WORKFLOW_WORKER_ERROR", "NOTIFICATION_FAILED", "INSUFFICIENT_FUNDS", "SUSPECTED_FRAUD"}

\* What a patch sets has the types of the columns.
Fits(patch) ==
  /\ "status" \in DOMAIN patch => patch["status"] \in RunStatuses
  /\ "order" \in DOMAIN patch => patch["order"] \in Orders \cup {NoOrder}
  /\ "failure" \in DOMAIN patch => patch["failure"] \in Failures
  /\ "invoice" \in DOMAIN patch => patch["invoice"] \in BOOLEAN
  /\ "receipt" \in DOMAIN patch => patch["receipt"] \in BOOLEAN
  /\ "payment" \in DOMAIN patch => patch["payment"] \in BOOLEAN
  /\ "notification" \in DOMAIN patch => patch["notification"] \in BOOLEAN
  /\ "finished" \in DOMAIN patch => patch["finished"] \in BOOLEAN

\* A row stays a row.
LEMMA PatchedRow ==
  ASSUME NEW row \in RunRows, NEW patch, Fits(patch)
  PROVE  [column \in DOMAIN NoRun |-> IF column \in DOMAIN patch THEN patch[column] ELSE row[column]] \in RunRows
  BY DEF RunRows, NoRun, Fits, Failures

\* What a handler's patch never does: unmake a run, blame the worker, or name an
\* order other than the one it created.
Keeps(w) ==
  /\ "status" \in DOMAIN Patch(w) => Patch(w)["status"] # "none"
  /\ "failure" \in DOMAIN Patch(w) => Patch(w)["failure"] # "WORKFLOW_WORKER_ERROR"
  /\ "order" \in DOMAIN Patch(w) => Await(w) = "setOrder" /\ Patch(w)["order"] = loc[w]

\* A patch of a handler fits, and keeps what it must.
LEMMA PatchFacts ==
  ASSUME SWP!StreamInv, TypeOK, AtRest, HandlersKnow, NEW w \in Workers,
         AtAwait(w, DbAwaits), Await(w) # "require"
  PROVE  Fits(Patch(w)) /\ Keeps(w)
  <1>1. loc[w] \in Orders \cup {NoOrder}
    BY DEF TypeOK
  <1>2. Await(w) \in {"setRetryable", "setRejected"} =>
           Outcome[Command(w).scenario] \in {"INSUFFICIENT_FUNDS", "SUSPECTED_FRAUD"}
    <2>1. Command(w).scenario \in DOMAIN Outcome
      BY CommandKnown DEF AtAwait, Handling, SWP!Busy, CommandRecords
    <2>2. Await(w) \in Ahead(w)
      BY DEF AtAwait, Await, Ahead, Awaits, TypeOK
    <2>3. QED
      BY <2>1, <2>2 DEF HandlersKnow, Outcome
  <1>3. CASE Await(w) \in {"setCreating", "setOrder", "setInvoicing", "setProcessing"}
    BY <1>1, <1>3 DEF Patch, Fits, RunStatuses, Keeps
  <1>4. CASE Await(w) = "setAwaiting"
    <2>1. Patch(w) = [status |-> "awaiting_payment", invoice |-> TRUE, failure |-> "none"]
      BY <1>4 DEF Patch
    <2>2. QED
      BY <2>1 DEF Fits, RunStatuses, Failures, Keeps
  <1>5. CASE Await(w) = "setRequested"
    <2>1. Patch(w) = [status |-> "payment_requested", failure |-> "none"]
      BY <1>5 DEF Patch
    <2>2. QED
      BY <2>1 DEF Fits, RunStatuses, Failures, Keeps
  <1>6. CASE Await(w) = "setPaid"
    <2>1. Patch(w) = [status |-> "receipt_generating", payment |-> TRUE, failure |-> "none"]
      BY <1>6 DEF Patch
    <2>2. QED
      BY <2>1 DEF Fits, RunStatuses, Failures, Keeps
  <1>7. CASE Await(w) = "setRetryable"
    <2>1. Patch(w) = [status |-> "awaiting_payment", payment |-> TRUE,
                        failure |-> Outcome[Command(w).scenario]]
      BY <1>7 DEF Patch
    <2>2. QED
      BY <1>2, <1>7, <2>1 DEF Fits, RunStatuses, Failures, Keeps
  <1>8. CASE Await(w) = "setRejected"
    <2>1. Patch(w) = [status |-> "failed", finished |-> TRUE, failure |-> Outcome[Command(w).scenario]]
      BY <1>8 DEF Patch
    <2>2. QED
      BY <1>2, <1>8, <2>1 DEF Fits, RunStatuses, Failures, Keeps
  <1>9. CASE Await(w) = "setSending"
    <2>1. Patch(w) = [status |-> "notification_sending", receipt |-> TRUE]
      BY <1>9 DEF Patch
    <2>2. QED
      BY <2>1 DEF Fits, RunStatuses, Failures, Keeps
  <1>10. CASE Await(w) = "setCompleted"
    <2>1. Patch(w) = [status |-> "completed", notification |-> TRUE, finished |-> TRUE]
      BY <1>10 DEF Patch
    <2>2. QED
      BY <2>1 DEF Fits, RunStatuses, Failures, Keeps
  <1>11. CASE Await(w) = "setUnsent"
    <2>1. Patch(w) = [status |-> "notification_failed", notification |-> TRUE,
                        failure |-> "NOTIFICATION_FAILED"]
      BY <1>11 DEF Patch
    <2>2. QED
      BY <2>1 DEF Fits, RunStatuses, Failures, Keeps
  <1>12. QED
    BY <1>3, <1>4, <1>5, <1>6, <1>7, <1>8, <1>9, <1>10, <1>11 DEF AtAwait, DbAwaits

\* A statement of a handler keeps the rows.
LEMMA DbRuns ==
  ASSUME SWP!StreamInv, TypeOK, AtRest, HandlersKnow, NEW w \in Workers, AtAwait(w, DbAwaits), DbEffect(w)
  PROVE  runs' \in [Runs -> RunRows]
  <1>1. runs \in [Runs -> RunRows] /\ RunOf(w) \in Runs /\ runs[RunOf(w)] \in RunRows
    BY CommandKnown DEF TypeOK, RunRows, AtAwait, Handling, SWP!Busy, RunOf, CommandRecords
  <1>2. CASE Await(w) = "require"
    BY <1>1, <1>2 DEF DbEffect
  <1>3. CASE Await(w) # "require"
    <2>1. [column \in DOMAIN NoRun |->
             IF column \in DOMAIN Patch(w) THEN Patch(w)[column] ELSE runs[RunOf(w)][column]] \in RunRows
      BY <1>1, <1>3, PatchFacts, PatchedRow
    <2>2. QED
      BY <1>1, <1>3, <2>1 DEF DbEffect, UpdateRun
  <1>4. QED
    BY <1>2, <1>3

-----------------------------------------------------------------------------
\* What the handler of w has ahead of it after one of its steps.

\* It looked its run up.
Begins(w) ==
  /\ Await(w) = "require"
  /\ ~ MustRefuse(w)
  /\ todo'[w] = Script[Command(w).type]
  /\ loc'[w] = runs[RunOf(w)].order
  /\ UNCHANGED <<commands, dataVars, late>>

\* It learned how the payment, or the mail, ended.
Branches(w) ==
  /\ \/ /\ Await(w) = "postPayment"
        /\ IF Outcome[Command(w).scenario] = "completed" THEN todo'[w] = PaidScript
           ELSE todo'[w] \in {RetryScript, RejectedScript}
     \/ /\ Await(w) = "postNotification"
        /\ todo'[w] \in {SentScript, UnsentScript}
  /\ loc'[w] = loc[w]

\* It has one await less.
Proceeds(w) ==
  /\ Await(w) \notin {"require", "postPayment", "postNotification"}
  /\ todo'[w] = Tail(todo[w])
  /\ IF Await(w) = "postOrder" THEN loc'[w] = FreshOrder /\ FreshOrder \in Orders
                               ELSE loc'[w] = loc[w]

\* The other handlers stay where they are.
OthersWait(w) ==
  \A u \in Workers \ {w} : todo'[u] = todo[u] /\ loc'[u] = loc[u]

\* A step inside a handler leaves the loop where it is.
LEMMA HandlesFrame ==
  ASSUME NEW w \in Workers, Handles(w)
  PROVE  /\ UNCHANGED <<pc, on, cur, hi, verdict, after, link, delivered, late, intake, pay>>
         /\ pc[w] = "handle" /\ todo[w] # <<>> /\ Await(w) = Head(todo[w])
  BY DEF Handles, DbStep, HttpStep, SendStep, TellStep, swVars, requestVars, SW!Publish, SW!AppendEntry,
         SW!workerVars, AtAwait, Handling, Await

\* A step inside a handler goes one of the three ways.
LEMMA HandlesStep ==
  ASSUME SWP!StreamInv, TypeOK, AtRest, NEW w \in Workers, Handles(w)
  PROVE  OthersWait(w) /\ (Begins(w) \/ Branches(w) \/ Proceeds(w))
  <1>1. todo \in [Workers -> Seq(AwaitLabels)] /\ loc \in [Workers -> Orders \cup {NoOrder}]
    BY DEF TypeOK, AwaitLabels
  <1>2. CASE DbStep(w)
    <2>1. CASE Await(w) = "require"
      BY <1>1, <1>2, <2>1 DEF DbStep, DbEffect, Continue, OthersWait, Begins, dataVars
    <2>2. CASE Await(w) # "require"
      BY <1>1, <1>2, <2>2 DEF DbStep, DbAwaits, AtAwait, Continue, OthersWait, Proceeds
    <2>3. QED
      BY <2>1, <2>2
  <1>3. CASE HttpStep(w)
    <2>1. PICK sent \in MailOutcomes : HttpEffect(Call(w), sent) /\ Continue(w, sent)
      BY <1>3 DEF HttpStep
    <2>2. CASE Await(w) = "postPayment"
      BY <1>1, <1>3, <2>1, <2>2 DEF HttpStep, Continue, OthersWait, Branches
    <2>3. CASE Await(w) = "postNotification"
      BY <1>1, <1>3, <2>1, <2>3 DEF HttpStep, Continue, OthersWait, Branches
    <2>4. Await(w) = "postOrder" => FreshOrder \in Orders
      BY <2>1 DEF HttpEffect, CreatesOrder, MovesOrder, MakesDocument, ChargesOrder, SendsMail, Call, MoveTo
    <2>5. CASE Await(w) \notin {"postPayment", "postNotification"}
      BY <1>1, <1>3, <2>1, <2>4, <2>5 DEF HttpStep, HttpAwaits, AtAwait, Continue, OthersWait, Proceeds
    <2>6. QED
      BY <2>2, <2>3, <2>5
  <1>4. CASE SendStep(w)
    BY <1>1, <1>4 DEF SendStep, AtAwait, Sends, Continue, OthersWait, Proceeds
  <1>5. CASE TellStep(w)
    BY <1>1, <1>5 DEF TellStep, AtAwait, Continue, OthersWait, Proceeds
  <1>6. QED
    BY <1>2, <1>3, <1>4, <1>5 DEF Handles

\* The awaits of each script.
LEMMA ScriptAwaits ==
  /\ Awaits(<<"require">>) = {"require"}
  /\ Awaits(OrderCreateScript) = {"setCreating", "postOrder", "setOrder", "sendInvoice"}
  /\ Awaits(InvoiceScript) = {"setInvoicing", "postInvoice", "moveInvoiced", "setAwaiting", "tell"}
  /\ Awaits(PaymentRequestedScript) = {"setRequested", "sendProcess"}
  /\ Awaits(PaymentProcessScript) = {"getOrder", "setProcessing", "postPayment"}
  /\ Awaits(ReceiptScript) = {"postReceipt", "moveReceipted", "setSending", "sendNotify"}
  /\ Awaits(NotificationScript) = {"postNotification"}
  /\ Awaits(PaidScript) = {"movePaid", "setPaid", "sendReceipt"}
  /\ Awaits(RetryScript) = {"moveUnpaid", "tell", "setRetryable"}
  /\ Awaits(RejectedScript) = {"moveUnpaid", "tell", "setRejected"}
  /\ Awaits(SentScript) = {"moveNotified", "setCompleted", "tell"}
  /\ Awaits(UnsentScript) = {"setUnsent", "tell"}
  <1>1. Awaits(<<"require">>) = {"require"}
    BY DEF Awaits
  <1>2. Awaits(OrderCreateScript) = {"setCreating", "postOrder", "setOrder", "sendInvoice"}
    BY DEF Awaits, OrderCreateScript
  <1>3. Awaits(InvoiceScript) = {"setInvoicing", "postInvoice", "moveInvoiced", "setAwaiting", "tell"}
    BY DEF Awaits, InvoiceScript
  <1>4. Awaits(PaymentRequestedScript) = {"setRequested", "sendProcess"}
    BY DEF Awaits, PaymentRequestedScript
  <1>5. Awaits(PaymentProcessScript) = {"getOrder", "setProcessing", "postPayment"}
    BY DEF Awaits, PaymentProcessScript
  <1>6. Awaits(ReceiptScript) = {"postReceipt", "moveReceipted", "setSending", "sendNotify"}
    BY DEF Awaits, ReceiptScript
  <1>7. Awaits(NotificationScript) = {"postNotification"}
    BY DEF Awaits, NotificationScript
  <1>8. Awaits(PaidScript) = {"movePaid", "setPaid", "sendReceipt"}
    BY DEF Awaits, PaidScript
  <1>9. Awaits(RetryScript) = {"moveUnpaid", "tell", "setRetryable"}
    BY DEF Awaits, RetryScript
  <1>10. Awaits(RejectedScript) = {"moveUnpaid", "tell", "setRejected"}
    BY DEF Awaits, RejectedScript
  <1>11. Awaits(SentScript) = {"moveNotified", "setCompleted", "tell"}
    BY DEF Awaits, SentScript
  <1>12. Awaits(UnsentScript) = {"setUnsent", "tell"}
    BY DEF Awaits, UnsentScript
  <1>13. QED
    BY <1>1, <1>2, <1>3, <1>4, <1>5, <1>6, <1>7, <1>8, <1>9, <1>10, <1>11, <1>12

\* The scripts are lists of awaits.
LEMMA ScriptTypes ==
  /\ <<"require">> \in Seq(AwaitLabels)
  /\ \A type \in DOMAIN Script : Script[type] \in Seq(AwaitLabels)
  /\ {PaidScript, RetryScript, RejectedScript, SentScript, UnsentScript} \subseteq Seq(AwaitLabels)
  <1> USE DEF AwaitLabels, DbAwaits, HttpAwaits, RedisAwaits
  <1>1. OrderCreateScript \in Seq(AwaitLabels)
    BY DEF OrderCreateScript
  <1>2. InvoiceScript \in Seq(AwaitLabels)
    BY DEF InvoiceScript
  <1>3. PaymentRequestedScript \in Seq(AwaitLabels)
    BY DEF PaymentRequestedScript
  <1>4. PaymentProcessScript \in Seq(AwaitLabels)
    BY DEF PaymentProcessScript
  <1>5. ReceiptScript \in Seq(AwaitLabels)
    BY DEF ReceiptScript
  <1>6. NotificationScript \in Seq(AwaitLabels)
    BY DEF NotificationScript
  <1>7. PaidScript \in Seq(AwaitLabels)
    BY DEF PaidScript
  <1>8. RetryScript \in Seq(AwaitLabels)
    BY DEF RetryScript
  <1>9. RejectedScript \in Seq(AwaitLabels)
    BY DEF RejectedScript
  <1>10. SentScript \in Seq(AwaitLabels)
    BY DEF SentScript
  <1>11. UnsentScript \in Seq(AwaitLabels)
    BY DEF UnsentScript
  <1> HIDE DEF AwaitLabels
  <1>12. \A type \in DOMAIN Script : Script[type] \in Seq(AwaitLabels)
    BY <1>1, <1>2, <1>3, <1>4, <1>5, <1>6 DEF Script
  <1>13. <<"require">> \in Seq(AwaitLabels)
    BY DEF AwaitLabels
  <1>14. QED
    BY <1>7, <1>8, <1>9, <1>10, <1>11, <1>12, <1>13

\* What is left after an await is part of what was left before.
LEMMA TailAwaits ==
  ASSUME NEW script \in Seq(AwaitLabels), script # <<>>
  PROVE  /\ Tail(script) \in Seq(AwaitLabels)
         /\ Head(script) \in Awaits(script)
         /\ Awaits(Tail(script)) \subseteq Awaits(script)
         /\ \A label \in Awaits(script) : label = Head(script) \/ label \in Awaits(Tail(script))
         /\ \A k \in DOMAIN Tail(script) : k + 1 \in DOMAIN script /\ Tail(script)[k] = script[k + 1]
  <1>1. /\ Len(script) \in Nat /\ Len(script) > 0
        /\ DOMAIN script = 1..Len(script) /\ Head(script) = script[1]
    OBVIOUS
  <1>2. /\ Tail(script) \in Seq(AwaitLabels)
        /\ DOMAIN Tail(script) = 1..(Len(script) - 1)
        /\ \A k \in 1..(Len(script) - 1) : Tail(script)[k] = script[k + 1]
    BY HeadTailProperties
  <1>3. \A k \in DOMAIN Tail(script) : k + 1 \in DOMAIN script /\ Tail(script)[k] = script[k + 1]
    BY <1>1, <1>2
  <1>4. Awaits(Tail(script)) \subseteq Awaits(script)
    BY <1>3 DEF Awaits
  <1>5. ASSUME NEW k \in DOMAIN script
        PROVE  script[k] = Head(script) \/ script[k] \in Awaits(Tail(script))
    <2>1. CASE k = 1
      BY <1>1, <2>1
    <2>2. CASE k # 1
      <3>1. k - 1 \in DOMAIN Tail(script) /\ Tail(script)[k - 1] = script[k]
        BY <1>1, <1>2, <2>2
      <3>2. QED
        BY <3>1 DEF Awaits
    <2>3. QED
      BY <2>1, <2>2
  <1>6. ASSUME NEW label \in Awaits(script)
        PROVE  label = Head(script) \/ label \in Awaits(Tail(script))
    <2>1. PICK k \in DOMAIN script : label = script[k]
      BY DEF Awaits
    <2>2. QED
      BY <1>5, <2>1
  <1>7. Head(script) \in Awaits(script)
    BY <1>1 DEF Awaits
  <1>8. QED
    BY <1>2, <1>3, <1>4, <1>6, <1>7
-----------------------------------------------------------------------------
\* Every move keeps the types.

\* What forgetting a handler leaves.
LEMMA ForgetFacts ==
  ASSUME TypeOK, NEW w \in Workers, Forget(w)
  PROVE  /\ OthersWait(w)
         /\ todo'[w] = <<"require">> /\ loc'[w] = NoOrder
         /\ todo' \in [Workers -> Seq(AwaitLabels)] /\ loc' \in [Workers -> Orders \cup {NoOrder}]
  BY ScriptTypes DEF TypeOK, AwaitLabels, Forget, OthersWait

\* The handlers' own variables, in every kind of move.
LEMMA HandlerTypes ==
  ASSUME SWP!StreamInv, TypeOK, AtRest, NEW w \in Workers, Handles(w)
  PROVE  todo' \in [Workers -> Seq(AwaitLabels)] /\ loc' \in [Workers -> Orders \cup {NoOrder}]
  <1>1. todo \in [Workers -> Seq(AwaitLabels)] /\ loc \in [Workers -> Orders \cup {NoOrder}]
    BY DEF TypeOK, AwaitLabels
  <1>2. OthersWait(w) /\ (Begins(w) \/ Branches(w) \/ Proceeds(w))
    BY HandlesStep
  <1>3. todo'[w] \in Seq(AwaitLabels) /\ loc'[w] \in Orders \cup {NoOrder}
    <2>1. CASE Begins(w)
      <3>1. Command(w).type \in DOMAIN Script /\ RunOf(w) \in Runs
        BY CommandKnown, HandlesFrame DEF SWP!Busy, CommandRecords, RunOf
      <3>2. QED
        BY <2>1, <3>1, ScriptTypes DEF Begins, TypeOK
    <2>2. CASE Branches(w)
      BY <1>1, <2>2, ScriptTypes DEF Branches
    <2>3. CASE Proceeds(w)
      BY <1>1, <2>3, TailAwaits, HandlesFrame DEF Proceeds
    <2>4. QED
      BY <1>2, <2>1, <2>2, <2>3
  <1>4. (\E f : todo' = [todo EXCEPT ![w] = f]) /\ (\E f : loc' = [loc EXCEPT ![w] = f])
    <2>1. CASE DbStep(w)
      BY <2>1 DEF DbStep, Continue
    <2>2. CASE HttpStep(w)
      BY <2>2 DEF HttpStep, Continue
    <2>3. CASE SendStep(w) \/ TellStep(w)
      BY <1>1, <2>3 DEF SendStep, TellStep, Continue
    <2>4. QED
      BY <2>1, <2>2, <2>3 DEF Handles
  <1>5. QED
    BY <1>1, <1>3, <1>4

\* What a service may be asked for.
LEMMA EffectTypes ==
  ASSUME TypeOK, NEW c, c.order \in Orders \cup {NoOrder}, c.run \in Runs,
         c.does # "postOrder" => c.order \in Orders \/ c.does = "getOrder",
         NEW sent, HttpEffect(c, sent)
  PROVE  /\ UNCHANGED runs
         /\ orderStatus' \in [Orders -> OL!OrderStatuses \cup {OL!Absent}]
         /\ owner' \in [Orders -> Runs]
         /\ docs' \subseteq Orders \X {"invoice", "receipt"}
         /\ charges' \in [Orders -> Nat]
         /\ mails' \subseteq Orders
  <1> USE DEF TypeOK
  <1>1. CASE CreatesOrder(c)
    BY <1>1 DEF CreatesOrder, OL!CreateOrder, OL!OrderStatuses
  <1>2. CASE MovesOrder(c)
    BY <1>2 DEF MovesOrder, OL!Transition, OL!OrderStatuses, MoveTo
  <1>3. CASE MakesDocument(c)
    BY <1>3 DEF MakesDocument
  <1>4. CASE ChargesOrder(c)
    BY <1>4 DEF ChargesOrder
  <1>5. CASE SendsMail(c, sent)
    BY <1>5 DEF SendsMail
  <1>6. CASE UNCHANGED dataVars
    BY <1>6 DEF dataVars
  <1>7. QED
    BY <1>1, <1>2, <1>3, <1>4, <1>5, <1>6 DEF HttpEffect

DataTypes ==
  /\ runs \in [Runs -> RunRows]
  /\ orderStatus \in [Orders -> OL!OrderStatuses \cup {OL!Absent}]
  /\ owner \in [Orders -> Runs]
  /\ docs \subseteq Orders \X {"invoice", "receipt"}
  /\ charges \in [Orders -> Nat]
  /\ mails \subseteq Orders

CallRows == [does : HttpAwaits, run : Runs, order : Orders \cup {NoOrder}, scenario : DOMAIN Outcome]

RequestTypes ==
  /\ intake \in [Runs \X Attempts -> {"idle", "absent", "inserted", "done"}]
  /\ pay \in [PayRequests -> [at : {"idle", "checked", "done"}, run : Runs, scenario : Scenarios \cup {"success"}]]

CommandTypes == commands \in Seq(CommandRecords) /\ Len(commands) = appended[Commands]

HandlerTypesOK == todo \in [Workers -> Seq(AwaitLabels)] /\ loc \in [Workers -> Orders \cup {NoOrder}]

\* TypeOK in parts.
LEMMA TypeParts ==
  /\ TypeOK => SWP!TypeOK /\ DataTypes /\ late \subseteq CallRows /\ RequestTypes /\ CommandTypes /\ HandlerTypesOK
  /\ SWP!TypeOK' /\ DataTypes' /\ late' \subseteq CallRows /\ RequestTypes' /\ CommandTypes' /\ HandlerTypesOK'
     => TypeOK'
  <1>1. TypeOK => SWP!TypeOK /\ DataTypes /\ late \subseteq CallRows /\ RequestTypes /\ CommandTypes /\ HandlerTypesOK
    BY SameRest DEF TypeOK, DataTypes, RunRows, CallRows, RequestTypes, CommandTypes, HandlerTypesOK, AwaitLabels
  <1>2. ASSUME SWP!TypeOK', DataTypes', late' \subseteq CallRows, RequestTypes', CommandTypes', HandlerTypesOK'
        PROVE TypeOK'
    BY <1>2, SameTypePrime DEF TypeOK, DataTypes, RunRows, CallRows, RequestTypes, CommandTypes, HandlerTypesOK, AwaitLabels
  <1>3. QED
    BY <1>1, <1>2

\* What a handler asks of a service.
LEMMA CallKnown ==
  ASSUME Sound, NEW w \in Workers, AtAwait(w, HttpAwaits)
  PROVE  /\ Call(w) \in CallRows
         /\ Call(w).does = Await(w) /\ Call(w).order = loc[w] /\ Call(w).run = RunOf(w)
         /\ Await(w) # "postOrder" => loc[w] \in Orders
  <1>1. Command(w) \in CommandRecords /\ Await(w) \in HttpAwaits
    BY CommandKnown DEF Sound, AtAwait, Handling, SWP!Busy
  <1>2. loc[w] \in Orders \cup {NoOrder} /\ todo[w] \in Seq(AwaitLabels) /\ todo[w] # <<>>
    BY TypeParts DEF Sound, HandlerTypesOK, AtAwait
  <1>3. Await(w) \in Ahead(w)
    BY <1>2, TailAwaits DEF Await, Ahead
  <1>4. Await(w) # "postOrder" => loc[w] \in Orders
    BY <1>1, <1>3 DEF Sound, HandlersKnow, OrderAwaits
  <1>5. QED
    BY <1>1, <1>2, <1>4 DEF Call, CallRows, CommandRecords, RunOf

\* What the services keep.
LEMMA DataTypesStep ==
  ASSUME Sound, SagaMove
  PROVE  DataTypes'
  <1> USE DEF Sound
  <1>1. DataTypes
    BY TypeParts
  <1>2. CASE UNCHANGED dataVars
    BY <1>1, <1>2 DEF dataVars, DataTypes
  <1>3. ASSUME NEW w \in Workers, AtAwait(w, DbAwaits), DbEffect(w) PROVE DataTypes'
    BY <1>1, <1>3, DbRuns DEF DataTypes, DbEffect
  <1>4. ASSUME NEW r \in Runs, NEW patch, Fits(patch), UpdateRun(r, patch),
               UNCHANGED <<orderStatus, trail, owner, docs, charges, mails>>
        PROVE DataTypes'
    <2>1. runs' \in [Runs -> RunRows]
      <3>1. [column \in DOMAIN NoRun |-> IF column \in DOMAIN patch THEN patch[column] ELSE runs[r][column]] \in RunRows
        BY <1>1, <1>4, PatchedRow DEF DataTypes
      <3>2. QED
        BY <1>1, <1>4, <3>1 DEF DataTypes, UpdateRun
    <2>2. QED
      BY <1>1, <1>4, <2>1 DEF DataTypes
  <1>5. ASSUME NEW w \in Workers, pc[w] = "markFailed", MarkRunFailed(w) PROVE DataTypes'
    <2> DEFINE patch == [status |-> "failed", failure |-> "WORKFLOW_WORKER_ERROR", finished |-> TRUE]
    <2>1. Fits(patch)
      BY DEF Fits, RunStatuses, Failures
    <2>2. RunOf(w) \in Runs
      BY <1>5, CommandKnown DEF SWP!Busy, RunOf, CommandRecords
    <2> HIDE DEF patch
    <2>3. UpdateRun(RunOf(w), patch)
      BY <1>5 DEF MarkRunFailed, patch
    <2>4. QED
      BY <1>4, <1>5, <2>1, <2>2, <2>3 DEF MarkRunFailed
  <1>6. ASSUME NEW r \in Runs, NEW a \in Attempts, CreateRun(r, a) PROVE DataTypes'
    <2>1. Fits([status |-> "accepted"])
      BY DEF Fits, RunStatuses
    <2>2. CASE runs[r].status = "none"
      BY <1>4, <1>6, <2>1, <2>2 DEF CreateRun
    <2>3. CASE runs[r].status # "none"
      BY <1>2, <1>6, <2>3 DEF CreateRun, dataVars
    <2>4. QED
      BY <2>2, <2>3
  <1>7. ASSUME NEW c \in CallRows, c.does # "postOrder" => c.order \in Orders, NEW sent, HttpEffect(c, sent)
        PROVE DataTypes'
    BY <1>1, <1>7, EffectTypes DEF CallRows, DataTypes
  <1>8. ASSUME NEW w \in Workers, Handles(w) PROVE DataTypes'
    <2>1. CASE DbStep(w)
      BY <1>3, <2>1 DEF DbStep
    <2>2. CASE HttpStep(w)
      <3>1. PICK sent \in MailOutcomes : HttpEffect(Call(w), sent)
        BY <2>2 DEF HttpStep
      <3>2. QED
        BY <1>7, <2>2, <3>1, CallKnown DEF HttpStep
    <2>3. CASE SendStep(w) \/ TellStep(w)
      BY <1>2, <2>3 DEF SendStep, TellStep
    <2>4. QED
      BY <1>8, <2>1, <2>2, <2>3 DEF Handles
  <1>9. ASSUME NEW w \in Workers, Leaves(w) PROVE DataTypes'
    BY <1>2, <1>3, <1>5, <1>9 DEF Leaves, LeavesUndone
  <1>10. ASSUME NEW c \in late, LateCall(c) PROVE DataTypes'
    BY <1>2, <1>7, <1>10, TypeParts DEF LateCall, LateKnow
  <1>11. CASE Asks
    BY <1>2, <1>6, <1>11 DEF Asks, FindRun, PublishRun, IntakeDies, CheckPayment, PublishPayment
  <1>12. QED
    BY <1>8, <1>9, <1>10, <1>11 DEF SagaMove

\* Every move leaves the stream as it is or appends one entry.
Appends(entry) ==
  /\ commands' = Append(commands, entry)
  /\ appended'[Commands] = appended[Commands] + 1

\* Who appends which command.
LEMMA CommandsStep ==
  ASSUME Sound, SagaMove
  PROVE  \/ UNCHANGED <<commands, appended>>
         \/ \E w \in Workers :
              /\ AtAwait(w, DOMAIN Sends) /\ Appends(NewCommand(w)) /\ UNCHANGED <<dataVars, late, requestVars>>
              /\ Handles(w) \/ Leaves(w)
         \/ \E r \in Runs, a \in Attempts : PublishRun(r, a) /\ Appends([type |-> "order_create", run |-> r, scenario |-> "success"])
         \/ \E p \in PayRequests :
              /\ PublishPayment(p)
              /\ Appends([type |-> "payment_requested", run |-> pay[p].run, scenario |-> pay[p].scenario])
  <1>1. Commands \in SW!Streams /\ appended \in [SW!Streams -> Nat]
    BY DEF Sound, TypeOK, SW!TypeOK, SW!Streams, NStreams, Commands
  <1>2. SW!Publish(Commands) => appended'[Commands] = appended[Commands] + 1
    BY <1>1 DEF SW!Publish, SW!AppendEntry
  <1>3. ASSUME NEW w \in Workers, Handles(w)
        PROVE  \/ UNCHANGED <<commands, appended>>
               \/ /\ AtAwait(w, DOMAIN Sends) /\ Appends(NewCommand(w))
                  /\ UNCHANGED <<dataVars, late, requestVars>>
    <2>1. CASE SendStep(w)
      BY <1>2, <2>1 DEF SendStep, Appends, AtAwait, Handling
    <2>2. CASE DbStep(w) \/ HttpStep(w) \/ TellStep(w)
      BY <2>2 DEF DbStep, HttpStep, TellStep, swVars
    <2>3. QED
      BY <1>3, <2>1, <2>2 DEF Handles
  <1>4. ASSUME NEW w \in Workers, Leaves(w)
        PROVE  \/ UNCHANGED <<commands, appended>>
               \/ /\ AtAwait(w, DOMAIN Sends) /\ Appends(NewCommand(w))
                  /\ UNCHANGED <<dataVars, late, requestVars>>
    <2>1. AtAwait(w, DOMAIN Sends) => UNCHANGED late
      BY <1>4 DEF AtAwait, Sends, HttpAwaits, Leaves, LeaveCall
    <2>2. CASE UNCHANGED <<commands, appended>>
      BY <2>2
    <2>3. CASE /\ AtAwait(w, DOMAIN Sends) /\ UNCHANGED dataVars
               /\ appended'[Commands] = appended[Commands] + 1
               /\ commands' = Append(commands, NewCommand(w))
      BY <1>4, <2>1, <2>3 DEF Leaves, Appends
    <2>4. QED
      BY <1>4, <2>2, <2>3 DEF Leaves, LeavesUndone
  <1>5. ASSUME NEW c \in late, LateCall(c) PROVE UNCHANGED <<commands, appended>>
    BY <1>5 DEF LateCall, swVars
  <1>6. CASE Asks
    BY <1>2, <1>6 DEF Asks, FindRun, CreateRun, IntakeDies, CheckPayment, PublishRun, PublishPayment, Appends, swVars
  <1>7. QED
    BY <1>3, <1>4, <1>5, <1>6 DEF SagaMove

\* What the command stream keeps.
LEMMA CommandTypesStep ==
  ASSUME Sound, SagaMove
  PROVE  /\ CommandTypes'
         /\ UNCHANGED <<commands, appended>> \/ \E entry \in CommandRecords : Appends(entry)
  <1> USE DEF Sound
  <1>1. CommandTypes /\ appended[Commands] \in Nat
    BY TypeParts DEF SWP!TypeOK, SWP!Streams, NStreams, Commands
  <1>2. ASSUME NEW entry \in CommandRecords, Appends(entry) PROVE CommandTypes'
    BY <1>1, <1>2 DEF CommandTypes, Appends
  <1>3. ASSUME NEW w \in Workers, AtAwait(w, DOMAIN Sends) PROVE NewCommand(w) \in CommandRecords
    <2>1. Command(w) \in CommandRecords
      BY <1>3, CommandKnown DEF AtAwait, Handling, SWP!Busy
    <2>2. Sends[Await(w)] \in DOMAIN Script
      BY <1>3 DEF AtAwait, Sends, Script
    <2>3. QED
      BY <2>1, <2>2 DEF NewCommand, RunOf, CommandRecords
  <1>4. ASSUME NEW r \in Runs PROVE [type |-> "order_create", run |-> r, scenario |-> "success"] \in CommandRecords
    BY DEF CommandRecords, Script, Outcome
  <1>5. ASSUME NEW p \in PayRequests
        PROVE [type |-> "payment_requested", run |-> pay[p].run, scenario |-> pay[p].scenario] \in CommandRecords
    BY TypeParts, CheckoutAssumption DEF RequestTypes, CommandRecords, Script, Outcome
  <1>6. CASE UNCHANGED <<commands, appended>>
    BY <1>1, <1>6 DEF CommandTypes
  <1>7. QED
    BY <1>2, <1>3, <1>4, <1>5, <1>6, CommandsStep

\* A call is left behind by the handler that made it.
LEMMA LateStep ==
  ASSUME Sound, SagaMove
  PROVE  /\ late' \subseteq CallRows
         /\ LateKnow'
         /\ \A c \in late' : c \in late \/ \E w \in Workers : Leaves(w) /\ AtAwait(w, HttpAwaits) /\ c = Call(w)
  <1>1. late \subseteq CallRows
    BY TypeParts DEF Sound
  <1>2. late' \subseteq late \/
        \E w \in Workers : Leaves(w) /\ AtAwait(w, HttpAwaits) /\ late' = late \cup {Call(w)}
    BY DEF SagaMove, Handles, DbStep, HttpStep, SendStep, TellStep, Leaves, LeaveCall, AtAwait, LateCall,
           Asks, FindRun, CreateRun, IntakeDies, CheckPayment, PublishRun, PublishPayment
  <1>3. \A c \in late' : c \in late \/ \E w \in Workers : Leaves(w) /\ AtAwait(w, HttpAwaits) /\ c = Call(w)
    BY <1>2
  <1>4. ASSUME NEW c \in late' PROVE c \in CallRows /\ (c.does # "postOrder" => c.order \in Orders)
    BY <1>1, <1>3, CallKnown DEF Sound, LateKnow
  <1>5. QED
    BY <1>3, <1>4 DEF LateKnow

\* What the handlers keep.
LEMMA HandlerStepTypes ==
  ASSUME Sound, SagaMove
  PROVE  HandlerTypesOK'
  <1>1. ASSUME NEW w \in Workers, Handles(w) PROVE HandlerTypesOK'
    BY <1>1, HandlerTypes DEF Sound, HandlerTypesOK
  <1>2. ASSUME NEW w \in Workers, Leaves(w) PROVE HandlerTypesOK'
    BY <1>2, ForgetFacts DEF Sound, Leaves, HandlerTypesOK
  <1>3. ASSUME UNCHANGED handlerVars PROVE HandlerTypesOK'
    BY <1>3, TypeParts DEF Sound, handlerVars, HandlerTypesOK
  <1>4. QED
    BY <1>1, <1>2, <1>3
       DEF SagaMove, LateCall, Asks, FindRun, CreateRun, IntakeDies, CheckPayment, PublishRun, PublishPayment

\* What the requests keep.
LEMMA RequestTypesStep ==
  ASSUME Sound, SagaMove
  PROVE  RequestTypes'
  <1>1. RequestTypes
    BY TypeParts DEF Sound
  <1>2. CASE UNCHANGED requestVars
    BY <1>1, <1>2 DEF RequestTypes, requestVars
  <1>3. ASSUME NEW r \in Runs, NEW a \in Attempts,
               FindRun(r, a) \/ CreateRun(r, a) \/ PublishRun(r, a) \/ IntakeDies(r, a)
        PROVE RequestTypes'
    <2>1. UNCHANGED pay /\ \E at \in {"idle", "absent", "inserted", "done"} : SetIntake(r, a, at)
      BY <1>3 DEF FindRun, CreateRun, PublishRun, IntakeDies
    <2>2. QED
      BY <1>1, <2>1 DEF RequestTypes, SetIntake
  <1>4. ASSUME NEW p \in PayRequests, NEW r \in Runs, NEW s \in Scenarios, CheckPayment(p, r, s)
        PROVE RequestTypes'
    BY <1>1, <1>4 DEF RequestTypes, CheckPayment
  <1>5. ASSUME NEW p \in PayRequests, PublishPayment(p) PROVE RequestTypes'
    BY <1>1, <1>5 DEF RequestTypes, PublishPayment
  <1>6. QED
    BY <1>2, <1>3, <1>4, <1>5
       DEF SagaMove, Handles, DbStep, HttpStep, SendStep, TellStep, Leaves, LateCall, Asks
-----------------------------------------------------------------------------
\* What moves do to control.

\* A call that comes late, or a request, leaves the workers where they are.
LEMMA RequestFrame ==
  ASSUME Asks \/ \E c \in late : LateCall(c)
  PROVE  UNCHANGED <<pc, link, on, cur, hi, verdict, delivered, deadLetters, todo, loc>>
  BY DEF Asks, FindRun, CreateRun, IntakeDies, CheckPayment, PublishRun, PublishPayment, LateCall,
         swVars, handlerVars, SW!Publish, SW!AppendEntry, SW!workerVars

\* Dead letters are never removed.
LEMMA DeadLettersKept ==
  ASSUME SagaMove
  PROVE  deadLetters \subseteq deadLetters'
  <1>1. ASSUME NEW w \in Workers, Leaves(w) PROVE deadLetters \subseteq deadLetters'
    BY <1>1 DEF Leaves, SWP!WorkerMove, SWP!HoldsNothing, SWP!GoesOn, SWP!Buries, SWP!Records, SWP!Advances,
           SWP!Takes, SWP!Effect, SWP!NoEffect, SWP!redisVars, SWP!AppendEntry, SWP!CreateGroup,
           SWP!DeliverBatch, SWP!PublishDeadLetter, SWP!RecordProcessed, SWP!Acknowledge
  <1>2. ASSUME NEW w \in Workers, Handles(w) PROVE UNCHANGED deadLetters
    BY <1>2 DEF Handles, DbStep, HttpStep, SendStep, TellStep, swVars, SW!Publish, SW!AppendEntry
  <1>3. QED
    BY <1>1, <1>2, RequestFrame DEF SagaMove

\* A worker that leaves a handler, or moves outside of one, comes to a handler only
\* with an entry it did not hold yet.
LEMMA LeavesControl ==
  ASSUME Sound, NEW w \in Workers, Leaves(w)
  PROVE  /\ SWP!OthersKeep(w)
         /\ cur'[w] >= 1
         /\ \A i \in Nat :
              i = cur[w] /\ i <= delivered[Commands] /\ SWP!Holds(w, Commands, i)' =>
                cur'[w] = i /\ pc'[w] # "handle"
         /\ pc'[w] = "markFailed" => <<Commands, cur'[w]>> \in deadLetters'
  <1> USE DEF Sound
  <1>1. cur[w] \in Nat /\ cur[w] >= 1 /\ on[w] = Commands /\ delivered[Commands] \in Nat
    BY DEF SWP!StreamInv, SWP!TypeOK, SWP!Streams, NStreams, Commands, AtRest
  <1>2. CASE SWP!HoldsNothing(w)
    BY <1>1, <1>2 DEF SWP!HoldsNothing, SWP!Holds, SWP!Busy
  <1>3. CASE SWP!GoesOn(w) \/ SWP!Records(w)
    BY <1>1, <1>3 DEF SWP!GoesOn, SWP!Records, SWP!KeepsBatch
  <1>4. CASE SWP!Buries(w)
    BY <1>1, <1>4 DEF SWP!Buries, SWP!KeepsBatch, SWP!PublishDeadLetter, SWP!Entry
  <1>5. CASE SWP!Advances(w)
    BY <1>1, <1>5 DEF SWP!Advances, SWP!Holds
  <1>6. CASE SWP!Takes(w)
    BY <1>1, <1>6 DEF SWP!Takes, SWP!Holds
  <1>7. QED
    BY <1>2, <1>3, <1>4, <1>5, <1>6 DEF Leaves, SWP!WorkerMove

\* A handler begins at its first await.
LEMMA AtRestStep ==
  ASSUME Sound, SagaMove
  PROVE  AtRest'
  <1>1. ASSUME NEW w \in Workers, Handles(w) PROVE AtRest'
    BY <1>1, HandlesFrame, HandlesStep DEF Sound, AtRest, OthersWait
  <1>2. ASSUME NEW w \in Workers, Leaves(w) PROVE AtRest'
    <2>1. OthersWait(w) /\ todo'[w] = <<"require">> /\ loc'[w] = NoOrder
      BY <1>2, ForgetFacts DEF Sound, Leaves
    <2>2. SWP!OthersKeep(w) /\ cur'[w] >= 1
      BY <1>2, LeavesControl
    <2>3. QED
      BY <2>1, <2>2 DEF Sound, AtRest, OthersWait, SWP!OthersKeep
  <1>3. CASE Asks \/ \E c \in late : LateCall(c)
    BY <1>3, RequestFrame DEF Sound, AtRest
  <1>4. QED
    BY <1>1, <1>2, <1>3 DEF SagaMove

\* What a handler has ahead stays within the commands it was given.
LEMMA CommandsKept ==
  ASSUME Sound, SagaMove
  PROVE  /\ Len(commands) <= Len(commands')
         /\ \A i \in 1..Len(commands) : i \in 1..Len(commands') /\ commands'[i] = commands[i]
  <1>1. commands \in Seq(CommandRecords)
    BY TypeParts DEF Sound, CommandTypes
  <1>2. ASSUME NEW entry \in CommandRecords, Appends(entry)
        PROVE  /\ Len(commands) <= Len(commands')
               /\ \A i \in 1..Len(commands) : i \in 1..Len(commands') /\ commands'[i] = commands[i]
    BY <1>1, <1>2 DEF Appends
  <1>3. QED
    BY <1>1, <1>2, CommandTypesStep

\* A worker that is not moving keeps its command.
LEMMA OthersCommand ==
  ASSUME Sound, SagaMove, NEW u \in Workers, pc[u] \in SWP!Busy, cur'[u] = cur[u]
  PROVE  Command(u)' = Command(u)
  BY CommandKnown, CommandsKept DEF Sound, Command

\* What a handler looks at while others move.
LEMMA AheadFrame ==
  ASSUME NEW u \in Workers, todo'[u] = todo[u]
  PROVE  Ahead(u)' = Ahead(u)
  BY DEF Ahead, Awaits

\* The await a handler is at is ahead of it.
LEMMA AwaitIsAhead ==
  ASSUME Sound, NEW w \in Workers, pc[w] = "handle", todo[w] # <<>>
  PROVE  Await(w) \in Ahead(w)
  BY TypeParts, TailAwaits DEF Sound, HandlerTypesOK, Ahead, Await

\* What a handler has ahead after its own step.
LEMMA AheadAfter ==
  ASSUME Sound, NEW w \in Workers, Handles(w)
  PROVE  \/ Begins(w) /\ Ahead(w)' = Awaits(Script[Command(w).type])
         \/ /\ Branches(w) /\ Await(w) = "postPayment"
            /\ \/ Outcome[Command(w).scenario] = "completed" /\ Ahead(w)' = {"movePaid", "setPaid", "sendReceipt"}
               \/ Outcome[Command(w).scenario] # "completed" /\ Ahead(w)' = {"moveUnpaid", "tell", "setRetryable"}
               \/ Outcome[Command(w).scenario] # "completed" /\ Ahead(w)' = {"moveUnpaid", "tell", "setRejected"}
         \/ /\ Branches(w) /\ Await(w) = "postNotification"
            /\ Ahead(w)' \in {{"moveNotified", "setCompleted", "tell"}, {"setUnsent", "tell"}}
         \/ /\ Proceeds(w) /\ Ahead(w)' \subseteq Ahead(w)
            /\ \A label \in Ahead(w) : label = Await(w) \/ label \in Ahead(w)'
  <1>1. Ahead(w)' = Awaits(todo'[w])
    BY DEF Ahead, Awaits
  <1>2. CASE Begins(w)
    BY <1>1, <1>2 DEF Begins
  <1>3. CASE Branches(w)
    <2>1. todo'[w] = PaidScript => Ahead(w)' = {"movePaid", "setPaid", "sendReceipt"}
      BY <1>1, ScriptAwaits
    <2>2. todo'[w] = RetryScript => Ahead(w)' = {"moveUnpaid", "tell", "setRetryable"}
      BY <1>1, ScriptAwaits
    <2>3. todo'[w] = RejectedScript => Ahead(w)' = {"moveUnpaid", "tell", "setRejected"}
      BY <1>1, ScriptAwaits
    <2>4. todo'[w] = SentScript => Ahead(w)' = {"moveNotified", "setCompleted", "tell"}
      BY <1>1, ScriptAwaits
    <2>5. todo'[w] = UnsentScript => Ahead(w)' = {"setUnsent", "tell"}
      BY <1>1, ScriptAwaits
    <2>6. QED
      BY <1>3, <2>1, <2>2, <2>3, <2>4, <2>5 DEF Branches
  <1>4. CASE Proceeds(w)
    <2>1. todo[w] \in Seq(AwaitLabels) /\ todo[w] # <<>> /\ Await(w) = Head(todo[w])
      BY TypeParts, HandlesFrame DEF Sound, HandlerTypesOK
    <2>2. QED
      BY <1>1, <1>4, <2>1, TailAwaits DEF Proceeds, Ahead
  <1>5. QED
    BY <1>2, <1>3, <1>4, HandlesStep DEF Sound

\* What a handler read from its row stays with it.
LEMMA HandlersKnowStep ==
  ASSUME Sound, SagaMove
  PROVE  HandlersKnow'
  <1> USE DEF Sound
  <1>1. ASSUME NEW u \in Workers, pc[u] \in SWP!Busy => cur'[u] = cur[u],
               todo'[u] = todo[u], loc'[u] = loc[u]
        PROVE  /\ Ahead(u)' \cap OrderAwaits # {} => loc'[u] \in Orders
               /\ Ahead(u)' \cap {"setRetryable", "setRejected"} # {} => Command(u)'.scenario # "success"
    <2>1. CASE pc[u] = "handle"
      BY <1>1, <2>1, AheadFrame, OthersCommand DEF HandlersKnow, SWP!Busy
    <2>2. CASE pc[u] # "handle"
      <3>1. Ahead(u)' = {"require"}
        BY <1>1, <2>2, AheadFrame, ScriptAwaits DEF AtRest, Ahead
      <3>2. QED
        BY <3>1 DEF OrderAwaits, HttpAwaits
    <2>3. QED
      BY <2>1, <2>2
  <1>2. ASSUME NEW w \in Workers, Handles(w)
        PROVE  /\ Ahead(w)' \cap OrderAwaits # {} => loc'[w] \in Orders
               /\ Ahead(w)' \cap {"setRetryable", "setRejected"} # {} => Command(w)'.scenario # "success"
    <2>1. Command(w)' = Command(w) /\ Command(w) \in CommandRecords /\ RunOf(w) \in Runs
      BY <1>2, HandlesFrame, OthersCommand, CommandKnown DEF SWP!Busy, RunOf, CommandRecords, SagaMove
    <2>2. Await(w) \in Ahead(w) /\ loc[w] \in Orders \cup {NoOrder}
      BY <1>2, HandlesFrame, TypeParts, TailAwaits DEF HandlerTypesOK, Ahead
    <2>3. CASE Begins(w) /\ Ahead(w)' = Awaits(Script[Command(w).type])
      <3>1. runs[RunOf(w)].order \in Orders \cup {NoOrder}
        BY <2>1, TypeParts DEF DataTypes, RunRows
      <3>2. Command(w).type \notin {"order_create", "payment_requested"} => loc'[w] \in Orders
        BY <2>3, <3>1 DEF Begins, MustRefuse
      <3>3. CASE Command(w).type = "order_create"
        BY <2>3, <3>3, ScriptAwaits DEF Script, OrderAwaits, HttpAwaits
      <3>4. CASE Command(w).type = "payment_requested"
        BY <2>3, <3>4, ScriptAwaits DEF Script, OrderAwaits, HttpAwaits
      <3>5. CASE Command(w).type \in {"generate_invoice", "payment_process", "generate_receipt", "notification_send"}
        BY <2>3, <3>2, <3>5, ScriptAwaits DEF Script
      <3>6. QED
        BY <2>1, <3>3, <3>4, <3>5 DEF CommandRecords, Script
    <2>4. CASE Branches(w) /\ Await(w) = "postPayment"
      BY <1>2, <2>1, <2>2, <2>4, AheadAfter DEF HandlersKnow, OrderAwaits, HttpAwaits, Branches, Begins, Proceeds, Outcome, CommandRecords
    <2>5. CASE Branches(w) /\ Await(w) = "postNotification"
      BY <1>2, <2>1, <2>2, <2>5, AheadAfter DEF HandlersKnow, OrderAwaits, HttpAwaits, Branches, Begins, Proceeds
    <2>6. CASE Proceeds(w) /\ Ahead(w)' \subseteq Ahead(w)
      BY <2>1, <2>6 DEF HandlersKnow, Proceeds
    <2>7. QED
      BY <1>2, <2>3, <2>4, <2>5, <2>6, AheadAfter
  <1>3. ASSUME NEW w \in Workers, Handles(w) PROVE HandlersKnow'
    <2>1. \A u \in Workers \ {w} : cur'[u] = cur[u] /\ todo'[u] = todo[u] /\ loc'[u] = loc[u]
      BY <1>3, HandlesFrame, HandlesStep DEF OthersWait
    <2>2. QED
      BY <1>1, <1>2, <1>3, <2>1 DEF HandlersKnow
  <1>4. ASSUME NEW w \in Workers, Leaves(w) PROVE HandlersKnow'
    <2>1. \A u \in Workers \ {w} : cur'[u] = cur[u] /\ todo'[u] = todo[u] /\ loc'[u] = loc[u]
      BY <1>4, LeavesControl, ForgetFacts DEF OthersWait, SWP!OthersKeep, Leaves
    <2>2. Ahead(w)' = {"require"}
      BY <1>4, ForgetFacts, ScriptAwaits DEF Leaves, Ahead
    <2>3. QED
      BY <1>1, <2>1, <2>2 DEF HandlersKnow, OrderAwaits, HttpAwaits
  <1>5. CASE Asks \/ \E c \in late : LateCall(c)
    BY <1>1, <1>5, RequestFrame DEF HandlersKnow
  <1>6. QED
    BY <1>3, <1>4, <1>5 DEF SagaMove

\* Sound is inductive.
LEMMA SoundInit == Init /\ SWP!StreamInv => Sound
  <1> SUFFICES ASSUME Init, SWP!StreamInv PROVE Sound
    OBVIOUS
  <1>1. AtRest
    BY DEF Init, SW!Init, AtRest
  <1>2. HandlersKnow
    <2>1. \A w \in Workers : Ahead(w) = {"require"}
      BY ScriptAwaits DEF Init, Ahead
    <2>2. QED
      BY <2>1 DEF HandlersKnow, OrderAwaits, HttpAwaits
  <1>3. LateKnow /\ late \subseteq CallRows
    BY DEF Init, LateKnow
  <1>4. NoRun \in RunRows
    BY DEF NoRun, RunRows, RunStatuses
  <1>5. (CHOOSE r \in Runs : TRUE) \in Runs
    BY CheckoutAssumption
  <1>6. DataTypes
    BY <1>4, <1>5 DEF Init, OL!Init, DataTypes
  <1>7. RequestTypes
    BY <1>5 DEF Init, RequestTypes
  <1>8. CommandTypes
    BY DEF Init, SW!Init, CommandTypes, SW!Streams, NStreams, Commands
  <1>9. HandlerTypesOK
    BY ScriptTypes DEF Init, HandlerTypesOK
  <1>10. TypeOK
    <2>1. SWP!TypeOK
      BY DEF SWP!StreamInv
    <2>2. QED
      BY <1>3, <1>6, <1>7, <1>8, <1>9, <2>1, SameRest
         DEF TypeOK, DataTypes, RunRows, CallRows, RequestTypes, CommandTypes, HandlerTypesOK, AwaitLabels
  <1>11. QED
    BY <1>1, <1>2, <1>3, <1>10 DEF Sound

\* Sound is kept by every step.
LEMMA SoundStep ==
  ASSUME Sound, [Next]_vars, SWP!StreamInv'
  PROVE  Sound'
  <1>1. CASE UNCHANGED vars
    <2>1. UNCHANGED <<runs, orderStatus, owner, docs, charges, mails, late, intake, pay, commands, appended,
                      todo, loc, cur, pc>>
      BY <1>1 DEF vars, swVars, dataVars, handlerVars, requestVars
    <2>2. DataTypes' /\ late' \subseteq CallRows /\ RequestTypes' /\ CommandTypes' /\ HandlerTypesOK'
      BY <2>1, TypeParts DEF Sound, DataTypes, RequestTypes, CommandTypes, HandlerTypesOK
    <2>3. TypeOK'
      BY <2>2, TypeParts DEF SWP!StreamInv
    <2>4. AtRest' /\ HandlersKnow' /\ LateKnow'
      BY <2>1 DEF Sound, AtRest, HandlersKnow, LateKnow, Ahead, Awaits, Command
    <2>5. QED
      BY <2>3, <2>4 DEF Sound
  <1>2. CASE SagaMove
    <2>1. SWP!TypeOK'
      BY DEF SWP!StreamInv
    <2>2. TypeOK'
      BY <1>2, <2>1, DataTypesStep, LateStep, RequestTypesStep, CommandTypesStep, HandlerStepTypes, TypeParts
    <2>3. QED
      BY <1>2, <2>2, AtRestStep, HandlersKnowStep, LateStep DEF Sound
  <1>3. QED
    BY <1>1, <1>2, StepIsSagaMove DEF Sound

\* Sound holds of every state the saga can be in.
LEMMA AlwaysSound == Spec => []Sound
  <1>1. Init /\ SWP!StreamInv => Sound
    BY SoundInit
  <1>2. Sound /\ [Next]_vars /\ SWP!StreamInv' => Sound'
    BY SoundStep
  <1>3. QED
    BY <1>1, <1>2, StreamAlways, PTL DEF Spec

\* Every table, request, command, call and handler of the workflow keeps its shape.
THEOREM SagaTypes == Spec => []TypeOK
  <1>1. Sound => TypeOK
    BY DEF Sound
  <1>2. QED
    BY <1>1, AlwaysSound, PTL
-----------------------------------------------------------------------------
\* What a move does to workflow_runs.
LEMMA RunsStep ==
  ASSUME Sound, SagaMove
  PROVE  \/ UNCHANGED runs
         \/ \E w \in Workers :
              /\ AtAwait(w, DbAwaits) /\ Await(w) # "require"
              /\ Handles(w) \/ Leaves(w)
              /\ UpdateRun(RunOf(w), Patch(w))
              /\ UNCHANGED <<orderStatus, trail, owner, docs, charges, mails, commands>>
         \/ \E w \in Workers : pc[w] = "markFailed" /\ Leaves(w) /\ MarkRunFailed(w) /\ UNCHANGED commands
         \/ \E r \in Runs, a \in Attempts :
              CreateRun(r, a) /\ runs[r].status = "none" /\ UpdateRun(r, [status |-> "accepted"])
  <1>1. ASSUME NEW c, NEW sent, HttpEffect(c, sent) PROVE UNCHANGED runs
    BY <1>1 DEF HttpEffect, CreatesOrder, MovesOrder, MakesDocument, ChargesOrder, SendsMail, dataVars
  <1>2. ASSUME NEW w \in Workers, DbStep(w) PROVE UNCHANGED runs \/
          /\ AtAwait(w, DbAwaits) /\ Await(w) # "require" /\ UpdateRun(RunOf(w), Patch(w))
          /\ UNCHANGED <<orderStatus, trail, owner, docs, charges, mails, commands>>
    BY <1>2 DEF DbStep, DbEffect
  <1>3. ASSUME NEW w \in Workers, HttpStep(w) \/ SendStep(w) \/ TellStep(w) PROVE UNCHANGED runs
    BY <1>1, <1>3 DEF HttpStep, SendStep, TellStep, dataVars
  <1>4. ASSUME NEW w \in Workers, Leaves(w)
        PROVE  \/ UNCHANGED runs
               \/ /\ AtAwait(w, DbAwaits) /\ Await(w) # "require" /\ UpdateRun(RunOf(w), Patch(w))
                  /\ UNCHANGED <<orderStatus, trail, owner, docs, charges, mails, commands>>
               \/ pc[w] = "markFailed" /\ MarkRunFailed(w) /\ UNCHANGED commands
    BY <1>4 DEF Leaves, LeavesUndone, DbEffect, dataVars
  <1>5. ASSUME NEW c \in late, LateCall(c) PROVE UNCHANGED runs
    BY <1>1, <1>5 DEF LateCall, dataVars
  <1>6. CASE Asks
    BY <1>6 DEF Asks, FindRun, CreateRun, IntakeDies, CheckPayment, PublishRun, PublishPayment, dataVars
  <1>7. QED
    BY <1>2, <1>3, <1>4, <1>5, <1>6 DEF SagaMove, Handles

\* Each column of each run after an UPDATE.
LEMMA RunColumn ==
  ASSUME Sound, NEW q \in Runs, NEW patch, UpdateRun(q, patch), NEW r \in Runs, NEW column \in DOMAIN NoRun
  PROVE  runs'[r][column] = IF r = q /\ column \in DOMAIN patch THEN patch[column] ELSE runs[r][column]
  <1>1. runs \in [Runs -> RunRows]
    BY TypeParts DEF Sound, DataTypes
  <1>2. QED
    BY <1>1 DEF UpdateRun

\* The dead letter is written before _mark_failed.
LEMMA MarkedIsDeadStep ==
  ASSUME Sound, SagaMove, MarkedIsDead
  PROVE  MarkedIsDead'
  <1>1. deadLetters \subseteq deadLetters'
    BY DeadLettersKept
  <1>2. ASSUME NEW w \in Workers, Handles(w) PROVE MarkedIsDead'
    BY <1>1, <1>2, HandlesFrame DEF MarkedIsDead
  <1>3. ASSUME NEW w \in Workers, Leaves(w) PROVE MarkedIsDead'
    BY <1>1, <1>3, LeavesControl DEF MarkedIsDead, SWP!OthersKeep
  <1>4. CASE Asks \/ \E c \in late : LateCall(c)
    BY <1>1, <1>4, RequestFrame DEF MarkedIsDead
  <1>5. QED
    BY <1>2, <1>3, <1>4 DEF SagaMove

\* Only _mark_failed writes the error.
LEMMA WorkerErrorStep ==
  ASSUME Sound, SagaMove, MarkedIsDead, WorkerErrorIsDeadLettered
  PROVE  WorkerErrorIsDeadLettered'
  <1> SUFFICES ASSUME NEW r \in Runs, runs'[r].failure = "WORKFLOW_WORKER_ERROR"
               PROVE  \E i \in 1..Len(commands') : commands'[i].run = r /\ <<Commands, i>> \in deadLetters'
    BY DEF WorkerErrorIsDeadLettered
  <1> DEFINE Shown(i) == i \in 1..Len(commands) /\ commands[i].run = r /\ <<Commands, i>> \in deadLetters
  <1>1. SUFFICES \E i : Shown(i)
    BY CommandsKept, DeadLettersKept
  <1>2. ASSUME runs[r].failure = "WORKFLOW_WORKER_ERROR" PROVE \E i : Shown(i)
    BY <1>2 DEF WorkerErrorIsDeadLettered
  <1>3. "failure" \in DOMAIN NoRun
    BY DEF NoRun
  <1>4. ASSUME NEW w \in Workers, AtAwait(w, DbAwaits), Await(w) # "require", UpdateRun(RunOf(w), Patch(w))
        PROVE  \E i : Shown(i)
    <2>1. Fits(Patch(w)) /\ Keeps(w) /\ RunOf(w) \in Runs
      BY <1>4, PatchFacts, CommandKnown DEF Sound, AtAwait, Handling, SWP!Busy, RunOf, CommandRecords
    <2>2. runs[r].failure = "WORKFLOW_WORKER_ERROR"
      BY <1>3, <1>4, <2>1, RunColumn DEF Keeps
    <2>3. QED
      BY <1>2, <2>2
  <1>5. ASSUME NEW w \in Workers, pc[w] = "markFailed", MarkRunFailed(w) PROVE \E i : Shown(i)
    <2>1. cur[w] \in 1..Len(commands) /\ RunOf(w) \in Runs /\ RunOf(w) = commands[cur[w]].run
      BY <1>5, CommandKnown DEF Sound, SWP!Busy, RunOf, CommandRecords, Command
    <2>2. CASE r = RunOf(w)
      <3>1. Shown(cur[w])
        BY <1>5, <2>1, <2>2 DEF MarkedIsDead
      <3>2. QED
        BY <3>1
    <2>3. CASE r # RunOf(w)
      BY <1>2, <1>3, <1>5, <2>1, <2>3, RunColumn DEF MarkRunFailed
    <2>4. QED
      BY <2>2, <2>3
  <1>6. ASSUME NEW q \in Runs, UpdateRun(q, [status |-> "accepted"]) PROVE \E i : Shown(i)
    BY <1>2, <1>3, <1>6, RunColumn
  <1>7. QED
    BY <1>2, <1>4, <1>5, <1>6, RunsStep

\* A run the worker failed has a command in the dead letter stream to show for it.
THEOREM WorkerErrorShown == Spec => []WorkerErrorIsDeadLettered
  <1>1. Init => MarkedIsDead /\ WorkerErrorIsDeadLettered
    BY DEF Init, SW!Init, MarkedIsDead, WorkerErrorIsDeadLettered, NoRun
  <1>2. Sound /\ MarkedIsDead /\ WorkerErrorIsDeadLettered /\ [Next]_vars
        => (MarkedIsDead /\ WorkerErrorIsDeadLettered)'
    <2>1. ASSUME MarkedIsDead, WorkerErrorIsDeadLettered, UNCHANGED vars
          PROVE  MarkedIsDead' /\ WorkerErrorIsDeadLettered'
      BY <2>1 DEF MarkedIsDead, WorkerErrorIsDeadLettered, vars, swVars, dataVars
    <2>2. QED
      BY <2>1, MarkedIsDeadStep, WorkerErrorStep, StepIsSagaMove DEF Sound
  <1>3. QED
    BY <1>1, <1>2, AlwaysSound, PTL DEF Spec
-----------------------------------------------------------------------------
\* One order per run.

\* A run that exists is never unmade.
LEMMA StatusKept ==
  ASSUME Sound, SagaMove, NEW r \in Runs, runs[r].status # "none"
  PROVE  runs'[r].status # "none"
  <1>1. "status" \in DOMAIN NoRun
    BY DEF NoRun
  <1>2. ASSUME NEW w \in Workers, AtAwait(w, DbAwaits), Await(w) # "require", UpdateRun(RunOf(w), Patch(w))
        PROVE  runs'[r].status # "none"
    <2>1. Keeps(w) /\ RunOf(w) \in Runs
      BY <1>2, PatchFacts, CommandKnown DEF Sound, AtAwait, Handling, SWP!Busy, RunOf, CommandRecords
    <2>2. QED
      BY <1>1, <1>2, <2>1, RunColumn DEF Keeps
  <1>3. ASSUME NEW w \in Workers, pc[w] = "markFailed", MarkRunFailed(w) PROVE runs'[r].status # "none"
    <2>1. RunOf(w) \in Runs
      BY <1>3, CommandKnown DEF Sound, SWP!Busy, RunOf, CommandRecords
    <2>2. QED
      BY <1>1, <1>3, <2>1, RunColumn DEF MarkRunFailed
  <1>4. ASSUME NEW q \in Runs, UpdateRun(q, [status |-> "accepted"]) PROVE runs'[r].status # "none"
    BY <1>1, <1>4, RunColumn
  <1>5. QED
    BY <1>2, <1>3, <1>4, RunsStep

\* What a request for a new run does to the requests.
LEMMA IntakeStep ==
  ASSUME Sound, SagaMove
  PROVE  \/ UNCHANGED intake
         \/ \E r \in Runs, a \in Attempts, at \in {"absent", "done"} :
              SetIntake(r, a, at) /\ (UNCHANGED commands \/ PublishRun(r, a))
         \/ \E r \in Runs, a \in Attempts :
              /\ SetIntake(r, a, "inserted") /\ UNCHANGED commands
              /\ runs[r].status = "none" /\ UpdateRun(r, [status |-> "accepted"])
  <1>1. ASSUME NEW r \in Runs, NEW a \in Attempts, CreateRun(r, a)
        PROVE  \/ SetIntake(r, a, "done") /\ UNCHANGED commands
               \/ /\ SetIntake(r, a, "inserted") /\ UNCHANGED commands
                  /\ runs[r].status = "none" /\ UpdateRun(r, [status |-> "accepted"])
    BY <1>1 DEF CreateRun
  <1>2. ASSUME NEW r \in Runs, NEW a \in Attempts, FindRun(r, a) \/ PublishRun(r, a) \/ IntakeDies(r, a)
        PROVE  \E at \in {"absent", "done"} : SetIntake(r, a, at) /\ (UNCHANGED commands \/ PublishRun(r, a))
    BY <1>2 DEF FindRun, PublishRun, IntakeDies
  <1>3. QED
    BY <1>1, <1>2 DEF SagaMove, Handles, DbStep, HttpStep, SendStep, TellStep, Leaves, LateCall, Asks,
                      CheckPayment, PublishPayment, requestVars

\* The new entry, if there is one, is for a run that exists; it creates an order only
\* when the request that made the run appends it.
LEMMA NewEntry ==
  ASSUME Sound, SagaMove, KnownRuns, NEW i \in 1..Len(commands'), i \notin 1..Len(commands)
  PROVE  /\ i = Len(commands) + 1
         /\ commands'[i].run \in Runs
         /\ runs[commands'[i].run].status # "none" \/ \E a \in Attempts : PublishRun(commands'[i].run, a)
         /\ commands'[i].type = "order_create" => \E a \in Attempts : PublishRun(commands'[i].run, a)
  <1>1. commands \in Seq(CommandRecords) /\ commands' \in Seq(CommandRecords)
    <2>1. commands \in Seq(CommandRecords)
      BY TypeParts DEF Sound, CommandTypes
    <2>2. commands' \in Seq(CommandRecords)
      BY CommandTypesStep DEF CommandTypes
    <2>3. QED
      BY <2>1, <2>2
  <1>2. commands'[i].run \in Runs
    <2>1. commands'[i] \in CommandRecords
      BY <1>1
    <2>2. QED
      BY <2>1 DEF CommandRecords
  <1>3. ASSUME NEW entry \in CommandRecords, Appends(entry)
        PROVE  i = Len(commands) + 1 /\ commands'[i] = entry
    BY <1>1, <1>3 DEF Appends
  <1>4. ASSUME NEW w \in Workers, AtAwait(w, DOMAIN Sends), Appends(NewCommand(w))
        PROVE  /\ i = Len(commands) + 1 /\ runs[commands'[i].run].status # "none"
               /\ commands'[i].type # "order_create"
    <2>1. cur[w] \in 1..Len(commands) /\ Command(w) = commands[cur[w]] /\ Command(w) \in CommandRecords
      BY <1>4, CommandKnown DEF Sound, AtAwait, Handling, SWP!Busy, Command
    <2>2. Sends[Await(w)] \in DOMAIN Script \ {"order_create"}
      BY <1>4 DEF AtAwait, Sends, Script
    <2>3. NewCommand(w) \in CommandRecords /\ NewCommand(w).run = RunOf(w) /\ NewCommand(w).type # "order_create"
      BY <2>1, <2>2 DEF NewCommand, RunOf, CommandRecords
    <2>4. QED
      BY <1>3, <1>4, <2>1, <2>3 DEF KnownRuns, RunOf
  <1>5. ASSUME NEW r \in Runs, NEW a \in Attempts, PublishRun(r, a),
               Appends([type |-> "order_create", run |-> r, scenario |-> "success"])
        PROVE  i = Len(commands) + 1 /\ commands'[i].run = r
    <2>1. [type |-> "order_create", run |-> r, scenario |-> "success"] \in CommandRecords
      BY DEF CommandRecords, Script, Outcome
    <2>2. QED
      BY <1>3, <1>5, <2>1
  <1>6. ASSUME NEW p \in PayRequests, PublishPayment(p),
               Appends([type |-> "payment_requested", run |-> pay[p].run, scenario |-> pay[p].scenario])
        PROVE  /\ i = Len(commands) + 1 /\ runs[commands'[i].run].status # "none"
               /\ commands'[i].type # "order_create"
    <2>1. [type |-> "payment_requested", run |-> pay[p].run, scenario |-> pay[p].scenario] \in CommandRecords
      BY TypeParts, CheckoutAssumption DEF Sound, RequestTypes, CommandRecords, Script, Outcome
    <2>2. QED
      BY <1>3, <1>6, <2>1 DEF KnownRuns, PublishPayment
  <1>7. CASE UNCHANGED commands
    BY <1>7
  <1>8. QED
    BY <1>2, <1>4, <1>5, <1>6, <1>7, CommandsStep

\* What the intake keeps, by the unique constraint.
OneIntake == OneCommandPerRun /\ OneInserter /\ KnownRuns

\* A command is appended by somebody who knows its run.
LEMMA KnownRunsStep ==
  ASSUME Sound, SagaMove, OneIntake
  PROVE  KnownRuns'
  <1> USE DEF OneIntake
  <1>1. commands \in Seq(CommandRecords) /\ pay \in [PayRequests -> [at : {"idle", "checked", "done"}, run : Runs, scenario : Scenarios \cup {"success"}]]
    BY TypeParts DEF Sound, CommandTypes, RequestTypes
  <1>2. ASSUME NEW i \in 1..Len(commands') PROVE runs'[commands'[i].run].status # "none"
    <2>1. CASE i \in 1..Len(commands)
      <3>1. commands'[i] = commands[i]
        BY <2>1, CommandsKept
      <3>2. commands[i].run \in Runs
        <4>1. commands[i] \in CommandRecords
          BY <1>1, <2>1
        <4>2. QED
          BY <4>1 DEF CommandRecords
      <3>3. runs[commands[i].run].status # "none"
        BY <2>1 DEF KnownRuns
      <3>4. QED
        BY <3>1, <3>2, <3>3, StatusKept
    <2>2. CASE i \notin 1..Len(commands)
      <3>1. /\ commands'[i].run \in Runs
            /\ runs[commands'[i].run].status # "none" \/ \E a \in Attempts : PublishRun(commands'[i].run, a)
        BY <2>2, NewEntry
      <3>2. runs[commands'[i].run].status # "none"
        BY <3>1 DEF PublishRun, OneInserter
      <3>3. QED
        BY <3>1, <3>2, StatusKept
    <2>3. QED
      BY <2>1, <2>2
  <1>3. ASSUME NEW p \in PayRequests, pay'[p].at = "checked" PROVE runs'[pay'[p].run].status # "none"
    <2>1. CASE pay'[p] = pay[p]
      BY <1>1, <1>3, <2>1, StatusKept DEF KnownRuns
    <2>2. ASSUME NEW r \in Runs, NEW s \in Scenarios, NEW q \in PayRequests, CheckPayment(q, r, s)
          PROVE  runs'[pay'[p].run].status # "none"
      <3>1. CASE p = q
        BY <1>1, <2>2, <3>1, StatusKept DEF CheckPayment
      <3>2. CASE p # q
        BY <1>1, <1>3, <2>2, <3>2, <2>1 DEF CheckPayment
      <3>3. QED
        BY <3>1, <3>2
    <2>3. ASSUME NEW q \in PayRequests, PublishPayment(q) PROVE pay'[p] = pay[p]
      BY <1>1, <1>3, <2>3 DEF PublishPayment
    <2>4. QED
      BY <2>1, <2>2, <2>3 DEF SagaMove, Handles, DbStep, HttpStep, SendStep, TellStep, Leaves, LateCall, Asks,
             FindRun, CreateRun, PublishRun, IntakeDies, requestVars
  <1>4. QED
    BY <1>2, <1>3 DEF KnownRuns

\* A run gets its command from the one request that made it.
LEMMA OneCommandStep ==
  ASSUME Sound, SagaMove, OneIntake
  PROVE  OneCommandPerRun'
  <1> USE DEF OneIntake
  <1> SUFFICES ASSUME NEW r \in Runs, NEW i \in 1..Len(commands'), NEW j \in 1..Len(commands'),
                      Creates(i, r)', Creates(j, r)'
               PROVE  i = j
    BY DEF OneCommandPerRun
  <1>1. ASSUME NEW k \in 1..Len(commands'), Creates(k, r)'
        PROVE  \/ k \in 1..Len(commands) /\ Creates(k, r)
               \/ k = Len(commands) + 1 /\ \A l \in 1..Len(commands) : ~ Creates(l, r)
    <2>1. CASE k \in 1..Len(commands)
      BY <1>1, <2>1, CommandsKept DEF Creates
    <2>2. CASE k \notin 1..Len(commands)
      <3>1. k = Len(commands) + 1 /\ \E a \in Attempts : PublishRun(r, a)
        BY <1>1, <2>2, NewEntry DEF Creates
      <3>2. QED
        BY <3>1 DEF PublishRun, OneInserter
    <2>3. QED
      BY <2>1, <2>2
  <1>2. QED
    BY <1>1 DEF OneCommandPerRun

\* The unique constraint lets one request make the row.
LEMMA OneInserterStep ==
  ASSUME Sound, SagaMove, OneIntake
  PROVE  OneInserter'
  <1> USE DEF OneIntake
  <1>1. intake \in [Runs \X Attempts -> {"idle", "absent", "inserted", "done"}]
    BY TypeParts DEF Sound, RequestTypes
  <1> SUFFICES ASSUME NEW r \in Runs, NEW a \in Attempts, intake'[<<r, a>>] = "inserted"
               PROVE  /\ runs'[r].status # "none"
                      /\ \A i \in 1..Len(commands') : ~ Creates(i, r)'
                      /\ \A b \in Attempts : intake'[<<r, b>>] = "inserted" => b = a
    BY DEF OneInserter
  <1>2. CASE intake[<<r, a>>] = "inserted"
    <2>1. runs'[r].status # "none"
      BY <1>2, StatusKept DEF OneInserter
    <2>2. ASSUME NEW b \in Attempts, intake'[<<r, b>>] = "inserted" PROVE intake[<<r, b>>] = "inserted"
      <3>1. ASSUME NEW q \in Runs, NEW c \in Attempts, NEW at \in {"absent", "done"}, SetIntake(q, c, at)
            PROVE  intake[<<r, b>>] = "inserted"
        BY <1>1, <2>2, <3>1 DEF SetIntake
      <3>2. ASSUME NEW q \in Runs, NEW c \in Attempts, SetIntake(q, c, "inserted"), runs[q].status = "none"
            PROVE  intake[<<r, b>>] = "inserted"
        <4>1. q # r
          BY <1>2, <3>2 DEF OneInserter
        <4>2. QED
          BY <1>1, <2>2, <3>2, <4>1 DEF SetIntake
      <3>3. QED
        BY <2>2, <3>1, <3>2, IntakeStep
    <2>3. ASSUME NEW i \in 1..Len(commands'), Creates(i, r)' PROVE FALSE
      <3>1. CASE i \in 1..Len(commands)
        BY <1>2, <2>3, <3>1, CommandsKept DEF Creates, OneInserter
      <3>2. CASE i \notin 1..Len(commands)
        <4>1. PICK c \in Attempts : PublishRun(r, c)
          BY <2>3, <3>2, NewEntry DEF Creates
        <4>2. c = a
          BY <1>2, <4>1 DEF PublishRun, OneInserter
        <4>3. intake'[<<r, a>>] = "done"
          BY <1>1, <4>1, <4>2 DEF PublishRun, SetIntake
        <4>4. QED
          BY <4>3
      <3>3. QED
        BY <3>1, <3>2
    <2>4. QED
      BY <1>2, <2>1, <2>2, <2>3 DEF OneInserter
  <1>3. CASE intake[<<r, a>>] # "inserted"
    <2>1. PICK q \in Runs, c \in Attempts :
            /\ SetIntake(q, c, "inserted") /\ UNCHANGED commands
            /\ runs[q].status = "none" /\ UpdateRun(q, [status |-> "accepted"])
      BY <1>1, <1>3, IntakeStep DEF SetIntake
    <2>2. q = r /\ c = a
      BY <1>1, <1>3, <2>1 DEF SetIntake
    <2>3. runs'[r]["status"] = "accepted"
      BY <2>1, <2>2, RunColumn DEF NoRun
    <2>4. \A i \in 1..Len(commands) : ~ Creates(i, r)
      BY <2>1, <2>2 DEF KnownRuns, Creates
    <2>5. \A b \in Attempts : intake[<<r, b>>] # "inserted"
      BY <2>1, <2>2 DEF OneInserter
    <2>6. \A b \in Attempts : intake'[<<r, b>>] = "inserted" => b = a
      BY <1>1, <2>1, <2>2, <2>5 DEF SetIntake
    <2>7. QED
      BY <2>1, <2>3, <2>4, <2>6 DEF Creates
  <1>4. QED
    BY <1>2, <1>3

\* The scripts are in order.
LEMMA ScriptsInOrder ==
  /\ InOrder(<<"require">>)
  /\ \A type \in DOMAIN Script : InOrder(Script[type])
  /\ \A script \in {PaidScript, RetryScript, RejectedScript, SentScript, UnsentScript} : InOrder(script)
  <1>1. ASSUME NEW script, Awaits(script) \cap {"postOrder", "setOrder"} = {} PROVE InOrder(script)
    BY <1>1 DEF InOrder, Awaits
  <1>2. InOrder(OrderCreateScript)
    BY DEF InOrder, OrderCreateScript, BeforeOrder, BeforeRow
  <1>3. ASSUME NEW type \in DOMAIN Script, type # "order_create" PROVE InOrder(Script[type])
    <2>1. Awaits(Script[type]) \cap {"postOrder", "setOrder"} = {}
      BY <1>3, ScriptAwaits DEF Script
    <2>2. QED
      BY <1>1, <2>1
  <1>4. InOrder(Script["order_create"])
    BY <1>2 DEF Script
  <1>5. ASSUME NEW script \in {<<"require">>, PaidScript, RetryScript, RejectedScript, SentScript, UnsentScript}
        PROVE  InOrder(script)
    <2>1. Awaits(script) \cap {"postOrder", "setOrder"} = {}
      BY <1>5, ScriptAwaits
    <2>2. QED
      BY <1>1, <2>1
  <1>6. QED
    BY <1>3, <1>4, <1>5

\* A handler works its script off from the front.
LEMMA CreatesInOrderStep ==
  ASSUME Sound, SagaMove, CreatesInOrder
  PROVE  CreatesInOrder'
  <1> USE DEF Sound
  <1> DEFINE Good(w) == /\ Ahead(w) \cap {"postOrder", "setOrder"} # {} => Command(w).type = "order_create"
                        /\ InOrder(todo[w])
  <1>1. ASSUME NEW u \in Workers, pc[u] \in SWP!Busy => cur'[u] = cur[u], todo'[u] = todo[u]
        PROVE  Good(u)'
    <2>1. InOrder(todo'[u])
      BY <1>1 DEF CreatesInOrder
    <2>2. CASE pc[u] = "handle"
      BY <1>1, <2>1, <2>2, AheadFrame, OthersCommand DEF CreatesInOrder, SWP!Busy, InOrder
    <2>3. CASE pc[u] # "handle"
      <3>1. Ahead(u)' = {"require"}
        BY <1>1, <2>3, AheadFrame, ScriptAwaits DEF AtRest, Ahead
      <3>2. QED
        BY <2>1, <3>1 DEF InOrder
    <2>4. QED
      BY <2>2, <2>3
  <1>2. ASSUME NEW w \in Workers, Handles(w) PROVE Good(w)'
    <2>1. Command(w)' = Command(w) /\ Command(w) \in CommandRecords
      BY <1>2, HandlesFrame, OthersCommand, CommandKnown DEF SWP!Busy, SagaMove
    <2>2. todo[w] \in Seq(AwaitLabels) /\ todo[w] # <<>>
      BY <1>2, TypeParts, HandlesFrame DEF HandlerTypesOK
    <2>3. CASE Begins(w)
      <3>1. Command(w).type \in DOMAIN Script
        BY <2>1 DEF CommandRecords
      <3>2. InOrder(todo'[w])
        BY <2>3, <3>1, ScriptsInOrder DEF Begins
      <3>3. Ahead(w)' = Awaits(Script[Command(w).type])
        BY <2>3 DEF Begins, Ahead, Awaits
      <3>4. Ahead(w)' \cap {"postOrder", "setOrder"} # {} => Command(w).type = "order_create"
        BY <3>1, <3>3, ScriptAwaits DEF Script
      <3>5. QED
        BY <2>1, <3>2, <3>4 DEF InOrder
    <2>4. CASE Branches(w)
      <3>1. todo'[w] \in {PaidScript, RetryScript, RejectedScript, SentScript, UnsentScript}
        BY <2>4 DEF Branches
      <3>2. InOrder(todo'[w]) /\ Ahead(w)' = Awaits(todo'[w])
        BY <3>1, ScriptsInOrder DEF Ahead, Awaits
      <3>3. Ahead(w)' \cap {"postOrder", "setOrder"} = {}
        BY <3>1, <3>2, ScriptAwaits
      <3>4. QED
        BY <3>2, <3>3 DEF InOrder
    <2>5. CASE Proceeds(w)
      <3>1. todo'[w] = Tail(todo[w]) /\ InOrder(todo[w])
        BY <2>5 DEF Proceeds, CreatesInOrder
      <3>2. \A k \in DOMAIN todo'[w] : k \in Nat /\ k + 1 \in DOMAIN todo[w] /\ todo'[w][k] = todo[w][k + 1]
        BY <2>2, <3>1, TailAwaits
      <3>3. InOrder(todo'[w])
        BY <3>1, <3>2 DEF InOrder
      <3>4. Ahead(w)' \subseteq Ahead(w)
        BY <2>2, <3>1, TailAwaits DEF Ahead, Awaits
      <3>5. QED
        BY <2>1, <3>3, <3>4 DEF CreatesInOrder, InOrder
    <2>6. QED
      BY <1>2, <2>3, <2>4, <2>5, HandlesStep
  <1>3. ASSUME NEW w \in Workers, Handles(w) PROVE CreatesInOrder'
    <2>1. \A u \in Workers \ {w} : cur'[u] = cur[u] /\ todo'[u] = todo[u]
      BY <1>3, HandlesFrame, HandlesStep DEF OthersWait
    <2>2. QED
      BY <1>1, <1>2, <1>3, <2>1 DEF CreatesInOrder
  <1>4. ASSUME NEW w \in Workers, Leaves(w) PROVE CreatesInOrder'
    <2>1. \A u \in Workers \ {w} : cur'[u] = cur[u] /\ todo'[u] = todo[u]
      BY <1>4, LeavesControl, ForgetFacts DEF OthersWait, SWP!OthersKeep, Leaves
    <2>2. todo'[w] = <<"require">>
      BY <1>4, ForgetFacts DEF Leaves
    <2>3. Ahead(w)' = {"require"} /\ InOrder(todo'[w])
      BY <2>2, ScriptAwaits, ScriptsInOrder DEF Ahead
    <2>4. QED
      BY <1>1, <2>1, <2>3 DEF CreatesInOrder, InOrder
  <1>5. CASE Asks \/ \E c \in late : LateCall(c)
    BY <1>1, <1>5, RequestFrame DEF CreatesInOrder
  <1>6. QED
    BY <1>3, <1>4, <1>5 DEF SagaMove

\* The group never goes back.
LEMMA DeliveredKept ==
  ASSUME Sound, SagaMove
  PROVE  delivered[Commands] \in Nat /\ delivered'[Commands] \in Nat /\ delivered[Commands] <= delivered'[Commands]
  <1>1. Commands \in SWP!Streams /\ SWP!TypeOK /\ SWP!Delivered
    BY DEF Sound, SWP!StreamInv, SWP!Streams, NStreams, Commands
  <1>2. /\ delivered[Commands] \in Nat /\ appended[Commands] \in Nat
        /\ delivered[Commands] <= appended[Commands]
    BY <1>1 DEF SWP!TypeOK, SWP!Delivered
  <1>3. SWP!LastRead(Commands) \in Nat /\ delivered[Commands] <= SWP!LastRead(Commands)
    BY <1>1, SWP!LastReadRange, Assumed
  <1>4. ASSUME NEW w \in Workers, Leaves(w)
        PROVE  delivered'[Commands] \in {delivered[Commands], appended[Commands], SWP!LastRead(Commands)}
    <2>1. SWP!Effect(w) /\ on[w] = Commands
      BY <1>1, <1>4, SWP!WorkerMoveEffect, Assumed DEF Leaves, SWP!TypeOK, SWP!Streams, NStreams, Commands
    <2>2. QED
      BY <1>1, <2>1 DEF SWP!Effect, SWP!NoEffect, SWP!redisVars, SWP!AppendEntry, SWP!CreateGroup, SWP!DeliverBatch,
             SWP!PublishDeadLetter, SWP!RecordProcessed, SWP!Acknowledge, SWP!TypeOK
  <1>5. ASSUME NEW w \in Workers, Handles(w) PROVE UNCHANGED delivered
    BY <1>5, HandlesFrame
  <1>6. QED
    BY <1>2, <1>3, <1>4, <1>5, RequestFrame DEF SagaMove

\* A worker holds after a move what it held before, or what was not delivered before.
LEMMA HeldOrNew ==
  ASSUME Sound, NEW w \in Workers, Leaves(w), NEW u \in Workers, NEW i \in Nat, SWP!Holds(u, Commands, i)'
  PROVE  SWP!Holds(u, Commands, i) \/ (u = w /\ delivered[Commands] < i)
  <1>1. Commands \in SWP!Streams /\ SWP!TypeOK
    BY DEF Sound, SWP!StreamInv, SWP!Streams, NStreams, Commands
  <1>2. QED
    BY <1>1, SWP!HeldBefore, Assumed DEF Leaves

\* The awaits after a branch, which no handler begins with.
BranchAwaits == {"movePaid", "setPaid", "sendReceipt", "moveUnpaid", "tell", "setRetryable", "setRejected",
                 "moveNotified", "setCompleted", "setUnsent"}

\* The awaits a handler goes through from its first one on, and not again.
IsEarly(early) == "require" \in early /\ early \cap BranchAwaits = {}

\* What is done with is done with for good.
LEMMA SpentStep ==
  ASSUME Sound, SagaMove, NEW i \in Nat, NEW early, IsEarly(early), Spent(i, early)
  PROVE  Spent(i, early)'
  <1>1. i <= delivered'[Commands] /\ i <= delivered[Commands] /\ delivered[Commands] \in Nat
    BY DeliveredKept DEF Spent
  <1>2. ASSUME NEW w \in Workers, Handles(w), NEW u \in Workers, SWP!Holds(u, Commands, i)'
        PROVE  cur'[u] = i /\ (pc'[u] = "handle" => Ahead(u)' \cap early = {})
    <2>1. SWP!Holds(u, Commands, i) /\ cur'[u] = cur[u] /\ pc'[u] = pc[u]
      BY <1>2, HandlesFrame DEF SWP!Holds
    <2>2. CASE u # w
      <3>1. todo'[u] = todo[u]
        BY <1>2, <2>2, HandlesStep DEF Sound, OthersWait
      <3>2. QED
        BY <2>1, <3>1, AheadFrame DEF Spent
    <2>3. CASE u = w
      <3>1. Ahead(w) \cap early = {} /\ cur[w] = i
        BY <1>2, <2>1, <2>3, HandlesFrame DEF Spent
      <3>2. Await(w) \in Ahead(w)
        BY <1>2, HandlesFrame, TypeParts, TailAwaits DEF Sound, HandlerTypesOK, Ahead
      <3>3. Await(w) # "require"
        BY <3>1, <3>2 DEF IsEarly
      <3>4. Ahead(w)' \cap early = {}
        BY <1>2, <3>1, <3>3, AheadAfter DEF Begins, IsEarly, BranchAwaits
      <3>5. QED
        BY <2>1, <2>3, <3>1, <3>4
    <2>4. QED
      BY <2>2, <2>3
  <1>3. ASSUME NEW w \in Workers, Leaves(w), NEW u \in Workers, SWP!Holds(u, Commands, i)'
        PROVE  cur'[u] = i /\ (pc'[u] = "handle" => Ahead(u)' \cap early = {})
    <2>1. SWP!Holds(u, Commands, i)
      BY <1>1, <1>3, HeldOrNew
    <2>2. CASE u # w
      <3>1. todo'[u] = todo[u] /\ cur'[u] = cur[u] /\ pc'[u] = pc[u]
        BY <1>3, <2>2, ForgetFacts, LeavesControl DEF Sound, Leaves, OthersWait, SWP!OthersKeep
      <3>2. QED
        BY <2>1, <3>1, AheadFrame DEF Spent
    <2>3. CASE u = w
      <3>1. cur[w] = i
        BY <2>1, <2>3 DEF Spent
      <3>2. QED
        BY <1>1, <1>3, <2>3, <3>1, LeavesControl
    <2>4. QED
      BY <2>2, <2>3
  <1>4. ASSUME Asks \/ \E c \in late : LateCall(c), NEW u \in Workers, SWP!Holds(u, Commands, i)'
        PROVE  cur'[u] = i /\ (pc'[u] = "handle" => Ahead(u)' \cap early = {})
    <2>1. /\ todo'[u] = todo[u] /\ cur'[u] = cur[u] /\ pc'[u] = pc[u]
          /\ SWP!Holds(u, Commands, i)
      BY <1>4, RequestFrame DEF SWP!Holds
    <2>2. QED
      BY <2>1, AheadFrame DEF Spent
  <1>5. QED
    BY <1>1, <1>2, <1>3, <1>4 DEF Spent, SagaMove

\* A command is spent when its handler goes on past the early awaits, or leaves.
LEMMA SpentByHandler ==
  ASSUME Sound, NEW w \in Workers, Handles(w) \/ Leaves(w), pc[w] = "handle",
         NEW early, Handles(w) => Ahead(w)' \cap early = {},
         NEW i \in Nat, i = cur[w]
  PROVE  Spent(i, early)'
  <1> USE DEF Sound
  <1>1. cur[w] \in Nat /\ SWP!Holds(w, Commands, cur[w]) /\ cur[w] <= delivered[Commands]
    <2>1. cur[w] \in 1..Len(commands) /\ SWP!Holds(w, Commands, cur[w])
      BY CommandKnown DEF SWP!Busy
    <2>2. cur[w] \in Nat /\ Commands \in SWP!Streams
      BY DEF SWP!StreamInv, SWP!TypeOK, SWP!Streams, NStreams, Commands
    <2>3. QED
      BY <2>1, <2>2 DEF SWP!StreamInv, SWP!HeldIsPending, SWP!Delivered
  <1>2. cur[w] <= delivered'[Commands]
    BY <1>1, DeliveredKept DEF SagaMove
  <1>3. \A u \in Workers : SWP!Holds(u, Commands, cur[w]) => u = w
    <2>1. Commands \in SWP!Streams
      BY DEF SWP!Streams, NStreams, Commands
    <2>2. QED
      BY <1>1, <2>1 DEF SWP!StreamInv, SWP!HeldIsPending
  <1>4. ASSUME Handles(w), NEW u \in Workers, SWP!Holds(u, Commands, i)'
        PROVE  cur'[u] = i /\ Ahead(u)' \cap early = {}
    <2>1. SWP!Holds(u, Commands, cur[w]) /\ cur'[u] = cur[u]
      BY <1>4, HandlesFrame DEF SWP!Holds
    <2>2. u = w
      BY <1>3, <2>1
    <2>3. QED
      BY <1>4, <2>1, <2>2
  <1>5. ASSUME Leaves(w), NEW u \in Workers, SWP!Holds(u, Commands, i)'
        PROVE  cur'[u] = i /\ pc'[u] # "handle"
    <2>1. SWP!Holds(u, Commands, i)
      BY <1>1, <1>5, HeldOrNew, DeliveredKept DEF SagaMove
    <2>2. u = w
      BY <1>3, <1>5, <2>1
    <2>3. QED
      BY <1>1, <1>5, <2>2, LeavesControl
  <1>6. QED
    BY <1>2, <1>4, <1>5 DEF Spent

\* Past the await that makes the order, or names it, its command is spent.
LEMMA SpentByStep ==
  ASSUME Sound, CreatesInOrder, NEW w \in Workers, Handles(w) \/ Leaves(w), pc[w] = "handle", todo[w] # <<>>,
         NEW early \in {BeforeOrder, BeforeRow},
         Await(w) = IF early = BeforeOrder THEN "postOrder" ELSE "setOrder",
         NEW i \in Nat, i = cur[w]
  PROVE  Spent(i, early)'
  <1>1. ASSUME Handles(w) PROVE Ahead(w)' \cap early = {}
    <2>1. Proceeds(w)
      BY <1>1, HandlesStep DEF Sound, Begins, Branches
    <2>2. todo[w] \in Seq(AwaitLabels) /\ todo[w][1] = Await(w)
      BY TypeParts DEF Sound, HandlerTypesOK, Await
    <2>3. \A k \in DOMAIN todo'[w] : k \in Nat \ {0} /\ k + 1 \in DOMAIN todo[w] /\ todo'[w][k] = todo[w][k + 1]
      BY <2>1, <2>2, TailAwaits, HeadTailProperties DEF Proceeds
    <2>4. ASSUME NEW k \in DOMAIN todo'[w] PROVE todo'[w][k] \notin early
      <3>1. k + 1 \in DOMAIN todo[w] /\ 1 \in DOMAIN todo[w] /\ 1 < k + 1
        BY <2>2, <2>3
      <3>2. InOrder(todo[w])
        BY DEF CreatesInOrder
      <3>3. todo[w][k + 1] \notin early
        BY <2>2, <3>1, <3>2 DEF InOrder
      <3>4. QED
        BY <2>3, <3>3
    <2>5. QED
      BY <2>4 DEF Ahead, Awaits
  <1>2. QED
    BY <1>1, SpentByHandler

\* POST /orders took effect for run r.
Makes(r) ==
  \E o \in Orders :
    /\ orderStatus[o] = OL!Absent
    /\ orderStatus' = [orderStatus EXCEPT ![o] = "created"]
    /\ owner' = [owner EXCEPT ![o] = r]

\* No order is made: those that exist keep the run they are for.
MakesNone ==
  /\ \A o \in Orders : orderStatus'[o] # OL!Absent <=> orderStatus[o] # OL!Absent
  /\ UNCHANGED owner

\* What a call does to the orders.
LEMMA CallOrders ==
  ASSUME Sound, NEW c, c.does # "postOrder" => c.order \in Orders \/ c.does = "getOrder",
         NEW sent, HttpEffect(c, sent)
  PROVE  IF c.does = "postOrder" THEN Makes(c.run) ELSE MakesNone
  <1> USE DEF Sound
  <1>1. orderStatus \in [Orders -> OL!OrderStatuses \cup {OL!Absent}]
    BY TypeParts DEF DataTypes
  <1>2. CASE CreatesOrder(c)
    BY <1>2 DEF CreatesOrder, OL!CreateOrder, Makes
  <1>3. CASE MovesOrder(c)
    BY <1>1, <1>3 DEF MovesOrder, OL!Transition, OL!Allowed, OL!ALLOWED_ORDER_TRANSITIONS, OL!Absent, MakesNone, MoveTo
  <1>4. CASE MakesDocument(c) \/ ChargesOrder(c) \/ SendsMail(c, sent)
    BY <1>4 DEF MakesDocument, ChargesOrder, SendsMail, MakesNone
  <1>5. CASE c.does = "getOrder" /\ UNCHANGED dataVars
    BY <1>5 DEF dataVars, MakesNone
  <1>6. QED
    BY <1>2, <1>3, <1>4, <1>5 DEF HttpEffect

\* What a move does to the orders, and to the calls that would make one.
LEMMA OrdersStep ==
  ASSUME Sound, SagaMove
  PROVE  \/ MakesNone /\ \A c \in late' : c.does = "postOrder" => c \in late
         \/ \E w \in Workers :
              AtAwait(w, {"postOrder"}) /\ Leaves(w) /\ MakesNone /\ late' = late \cup {Call(w)}
         \/ \E w \in Workers :
              AtAwait(w, {"postOrder"}) /\ Handles(w) /\ Makes(RunOf(w)) /\ UNCHANGED late
         \/ \E c \in late : c.does = "postOrder" /\ late' = late \ {c} /\ (Makes(c.run) \/ MakesNone)
  <1> USE DEF Sound
  <1>1. UNCHANGED dataVars => MakesNone
    BY DEF dataVars, MakesNone
  <1>2. ASSUME UNCHANGED <<orderStatus, owner>> PROVE MakesNone
    BY <1>2 DEF MakesNone
  <1>3. ASSUME NEW w \in Workers, HttpStep(w)
        PROVE  \/ MakesNone /\ UNCHANGED late
               \/ AtAwait(w, {"postOrder"}) /\ Handles(w) /\ Makes(RunOf(w)) /\ UNCHANGED late
    <2>1. PICK sent \in MailOutcomes : HttpEffect(Call(w), sent)
      BY <1>3 DEF HttpStep
    <2>2. /\ Call(w).does = Await(w) /\ Call(w).order = loc[w] /\ Call(w).run = RunOf(w)
          /\ Await(w) # "postOrder" => loc[w] \in Orders
      BY <1>3, CallKnown DEF HttpStep
    <2>3. IF Await(w) = "postOrder" THEN Makes(RunOf(w)) ELSE MakesNone
      BY <2>1, <2>2, CallOrders
    <2>4. QED
      BY <1>3, <2>3 DEF HttpStep, AtAwait, Handles
  <1>4. ASSUME NEW w \in Workers, DbStep(w) \/ SendStep(w) \/ TellStep(w) PROVE MakesNone /\ UNCHANGED late
    BY <1>1, <1>2, <1>4 DEF DbStep, DbEffect, SendStep, TellStep
  <1>5. ASSUME NEW w \in Workers, Leaves(w)
        PROVE  \/ MakesNone /\ \A c \in late' : c.does = "postOrder" => c \in late
               \/ AtAwait(w, {"postOrder"}) /\ Leaves(w) /\ MakesNone /\ late' = late \cup {Call(w)}
    <2>1. MakesNone
      BY <1>1, <1>2, <1>5 DEF Leaves, LeavesUndone, DbEffect, MarkRunFailed
    <2>2. CASE UNCHANGED late
      BY <2>1, <2>2
    <2>3. CASE AtAwait(w, HttpAwaits \ {"getOrder"}) /\ late' = late \cup {Call(w)}
      <3>1. Call(w).does = Await(w)
        BY DEF Call
      <3>2. QED
        BY <1>5, <2>1, <2>3, <3>1 DEF AtAwait
    <2>4. QED
      BY <1>5, <2>2, <2>3 DEF Leaves, LeaveCall
  <1>6. ASSUME NEW c \in late, LateCall(c)
        PROVE  \/ MakesNone /\ \A d \in late' : d.does = "postOrder" => d \in late
               \/ c.does = "postOrder" /\ late' = late \ {c} /\ (Makes(c.run) \/ MakesNone)
    <2>1. late' = late \ {c}
      BY <1>6 DEF LateCall
    <2>2. CASE UNCHANGED dataVars
      BY <1>1, <2>1, <2>2
    <2>3. ASSUME NEW sent \in MailOutcomes, HttpEffect(c, sent)
          PROVE  IF c.does = "postOrder" THEN Makes(c.run) ELSE MakesNone
      BY <2>3, CallOrders DEF LateKnow
    <2>4. QED
      BY <1>6, <2>1, <2>2, <2>3 DEF LateCall
  <1>7. CASE Asks
    BY <1>1, <1>2, <1>7
       DEF Asks, FindRun, CreateRun, PublishRun, IntakeDies, CheckPayment, PublishPayment
  <1>8. QED
    BY <1>3, <1>4, <1>5, <1>6, <1>7 DEF SagaMove, Handles

\* The inductive invariant of OneOrderShown.
OneOrder == OneIntake /\ CreatesInOrder /\ OrdersAreSpent /\ OneOrderPerRun

\* A worker that is about to make an order makes the first one of its run.
LEMMA FirstOrder ==
  ASSUME Sound, OneOrder, NEW w \in Workers, AtAwait(w, {"postOrder"})
  PROVE  ~ OrderMade(RunOf(w)) /\ ~ OrderLate(RunOf(w)) /\ Creates(cur[w], RunOf(w)) /\ RunOf(w) \in Runs
  <1> USE DEF Sound, OneOrder
  <1>1. pc[w] = "handle" /\ todo[w] # <<>> /\ Await(w) = "postOrder"
    BY DEF AtAwait, Handling
  <1>2. /\ cur[w] \in 1..Len(commands) /\ SWP!Holds(w, Commands, cur[w]) /\ Command(w) \in CommandRecords
        /\ "postOrder" \in Ahead(w)
    BY <1>1, CommandKnown, TypeParts, TailAwaits DEF SWP!Busy, HandlerTypesOK, Ahead, Await
  <1>3. Creates(cur[w], RunOf(w)) /\ RunOf(w) \in Runs
    BY <1>2 DEF CreatesInOrder, Creates, RunOf, Command, CommandRecords
  <1>4. ASSUME NEW i \in 1..Len(commands), Creates(i, RunOf(w)), Spent(i, BeforeOrder) PROVE FALSE
    <2>1. i = cur[w]
      BY <1>2, <1>3, <1>4 DEF OneIntake, OneCommandPerRun
    <2>2. QED
      BY <1>1, <1>2, <1>4, <2>1 DEF Spent, BeforeOrder
  <1>5. QED
    BY <1>3, <1>4 DEF OrdersAreSpent

\* An order made is the one order of its run.
LEMMA MadeIsOne ==
  ASSUME Sound, OneOrder, NEW r \in Runs, Makes(r), ~ OrderMade(r)
  PROVE  /\ OneOrderPerRun'
         /\ \A q \in Runs : OrderMade(q)' <=> q = r \/ OrderMade(q)
  <1>1. /\ orderStatus \in [Orders -> OL!OrderStatuses \cup {OL!Absent}] /\ owner \in [Orders -> Runs]
    BY TypeParts DEF Sound, DataTypes
  <1>2. PICK o \in Orders :
          /\ orderStatus[o] = OL!Absent
          /\ orderStatus' = [orderStatus EXCEPT ![o] = "created"]
          /\ owner' = [owner EXCEPT ![o] = r]
    BY DEF Makes
  <1>3. orderStatus'[o] # OL!Absent /\ owner'[o] = r
    BY <1>1, <1>2 DEF OL!Absent
  <1>4. \A p \in Orders \ {o} : orderStatus'[p] = orderStatus[p] /\ owner'[p] = owner[p]
    BY <1>1, <1>2
  <1>5. OneOrderPerRun'
    BY <1>2, <1>3, <1>4 DEF OneOrderPerRun, OneOrder, OrderMade
  <1>6. ASSUME NEW q \in Runs PROVE OrderMade(q)' <=> q = r \/ OrderMade(q)
    BY <1>2, <1>3, <1>4 DEF OrderMade
  <1>7. QED
    BY <1>5, <1>6

\* The run whose order was just made, or is left to be made, is done with making orders.
LEMMA MakerIsSpent ==
  ASSUME Sound, SagaMove, OneOrder, NEW w \in Workers, AtAwait(w, {"postOrder"}), Handles(w) \/ Leaves(w),
         NEW r \in Runs, r = RunOf(w)
  PROVE  \E i \in 1..Len(commands') : Creates(i, r)' /\ Spent(i, BeforeOrder)'
  <1>1. PICK i \in 1..Len(commands) : i = cur[w] /\ Creates(i, r)
    BY FirstOrder DEF Creates
  <1>2. Spent(i, BeforeOrder)'
    BY <1>1, SpentByStep DEF AtAwait, Handling, OneOrder
  <1>3. i \in 1..Len(commands') /\ Creates(i, r)'
    BY <1>1, CommandsKept DEF Creates
  <1>4. QED
    BY <1>2, <1>3

\* An order is made for a run that has none, by a command that is spent with it.
LEMMA OrdersAreSpentStep ==
  ASSUME Sound, SagaMove, OneOrder
  PROVE  OrdersAreSpent' /\ OneOrderPerRun'
  <1> DEFINE Done(r) == \E i \in 1..Len(commands) : Creates(i, r) /\ Spent(i, BeforeOrder)
             Calls(r) == {c \in late : c.does = "postOrder" /\ c.run = r}
  <1>1. ASSUME NEW r \in Runs, Done(r) PROVE Done(r)'
    <2>1. PICK i \in 1..Len(commands) : Creates(i, r) /\ Spent(i, BeforeOrder)
      BY <1>1
    <2>2. Spent(i, BeforeOrder)'
      BY <2>1, SpentStep DEF IsEarly, BeforeOrder, BranchAwaits
    <2>3. i \in 1..Len(commands') /\ Creates(i, r)'
      BY <2>1, CommandsKept DEF Creates
    <2>4. QED
      BY <2>2, <2>3
  <1>2. \A r \in Runs :
          /\ OrderMade(r) \/ Calls(r) # {} => Done(r)
          /\ ~ (OrderMade(r) /\ Calls(r) # {})
          /\ \A c, d \in Calls(r) : c = d
    BY DEF OneOrder, OrdersAreSpent, OrderLate
  <1>3. SUFFICES /\ \A r \in Runs :
                      /\ OrderMade(r)' \/ Calls(r)' # {} => Done(r)'
                      /\ ~ (OrderMade(r)' /\ Calls(r)' # {})
                      /\ \A c, d \in Calls(r)' : c = d
                 /\ OneOrderPerRun'
    BY DEF OrdersAreSpent, OrderLate
  <1>4. MakesNone => OneOrderPerRun' /\ \A r \in Runs : OrderMade(r)' <=> OrderMade(r)
    BY DEF MakesNone, OneOrder, OneOrderPerRun, OrderMade
  <1>5. CASE MakesNone /\ \A c \in late' : c.does = "postOrder" => c \in late
    <2>1. \A r \in Runs : Calls(r)' \subseteq Calls(r)
      BY <1>5
    <2>2. QED
      BY <1>1, <1>2, <1>4, <1>5, <2>1
  <1>6. ASSUME NEW w \in Workers, AtAwait(w, {"postOrder"}), Leaves(w), MakesNone, late' = late \cup {Call(w)}
        PROVE  /\ \A r \in Runs :
                    /\ OrderMade(r)' \/ Calls(r)' # {} => Done(r)'
                    /\ ~ (OrderMade(r)' /\ Calls(r)' # {})
                    /\ \A c, d \in Calls(r)' : c = d
               /\ OneOrderPerRun'
    <2>1. RunOf(w) \in Runs /\ ~ OrderMade(RunOf(w)) /\ Calls(RunOf(w)) = {}
      BY <1>6, FirstOrder DEF OrderLate
    <2>2. \A r \in Runs : r # RunOf(w) => Calls(r)' = Calls(r)
      BY <1>6 DEF Call
    <2>3. \A r \in Runs : r = RunOf(w) => Calls(r)' \subseteq {Call(w)}
      BY <1>6, <2>1
    <2>4. \A r \in Runs : r = RunOf(w) => Done(r)'
      BY <1>6, MakerIsSpent
    <2>5. QED
      BY <1>1, <1>2, <1>4, <1>6, <2>1, <2>2, <2>3, <2>4
  <1>7. ASSUME NEW w \in Workers, AtAwait(w, {"postOrder"}), Handles(w), Makes(RunOf(w)), UNCHANGED late
        PROVE  /\ \A r \in Runs :
                    /\ OrderMade(r)' \/ Calls(r)' # {} => Done(r)'
                    /\ ~ (OrderMade(r)' /\ Calls(r)' # {})
                    /\ \A c, d \in Calls(r)' : c = d
               /\ OneOrderPerRun'
    <2>1. RunOf(w) \in Runs /\ ~ OrderMade(RunOf(w)) /\ Calls(RunOf(w)) = {}
      BY <1>7, FirstOrder DEF OrderLate
    <2>2. OneOrderPerRun' /\ \A q \in Runs : OrderMade(q)' <=> q = RunOf(w) \/ OrderMade(q)
      BY <1>7, <2>1, MadeIsOne
    <2>3. \A r \in Runs : Calls(r)' = Calls(r)
      BY <1>7
    <2>4. \A r \in Runs : r = RunOf(w) => Done(r)'
      BY <1>7, MakerIsSpent
    <2>5. QED
      BY <1>1, <1>2, <2>1, <2>2, <2>3, <2>4
  <1>8. ASSUME NEW c \in late, c.does = "postOrder", late' = late \ {c}, Makes(c.run) \/ MakesNone
        PROVE  /\ \A r \in Runs :
                    /\ OrderMade(r)' \/ Calls(r)' # {} => Done(r)'
                    /\ ~ (OrderMade(r)' /\ Calls(r)' # {})
                    /\ \A a, b \in Calls(r)' : a = b
               /\ OneOrderPerRun'
    <2>1. c.run \in Runs /\ c \in Calls(c.run)
      BY <1>8, TypeParts DEF Sound, CallRows
    <2>2. ~ OrderMade(c.run) /\ Done(c.run)
      BY <1>2, <2>1
    <2>3. \A r \in Runs : Calls(r)' \subseteq Calls(r)
      BY <1>8
    <2>4. \A r \in Runs : r = c.run => Calls(r)' = {}
      BY <1>2, <1>8, <2>1
    <2>5. CASE MakesNone
      BY <1>1, <1>2, <1>4, <2>3, <2>5
    <2>6. CASE Makes(c.run)
      <3>1. OneOrderPerRun' /\ \A q \in Runs : OrderMade(q)' <=> q = c.run \/ OrderMade(q)
        BY <2>1, <2>2, <2>6, MadeIsOne
      <3>2. QED
        BY <1>1, <1>2, <2>2, <2>3, <2>4, <3>1
    <2>7. QED
      BY <1>8, <2>5, <2>6
  <1>9. QED
    BY <1>5, <1>6, <1>7, <1>8, OrdersStep

\* It holds at first.
LEMMA OneOrderInit == Init => OneOrder
  <1> SUFFICES ASSUME Init PROVE OneOrder
    OBVIOUS
  <1>1. commands = <<>> /\ late = {} /\ \A o \in Orders : orderStatus[o] = OL!Absent
    BY DEF Init, OL!Init
  <1>2. \A r \in Runs, a \in Attempts : intake[<<r, a>>] = "idle"
    BY DEF Init
  <1>3. \A p \in PayRequests : pay[p].at = "idle"
    BY DEF Init
  <1>4. \A w \in Workers : todo[w] = <<"require">> /\ Ahead(w) = {"require"} /\ InOrder(todo[w])
    BY ScriptAwaits, ScriptsInOrder DEF Init, Ahead
  <1>5. OneIntake
    BY <1>1, <1>2, <1>3 DEF OneIntake, OneCommandPerRun, OneInserter, KnownRuns
  <1>6. CreatesInOrder
    BY <1>4 DEF CreatesInOrder
  <1>7. OrdersAreSpent /\ OneOrderPerRun
    BY <1>1 DEF OrdersAreSpent, OrderMade, OrderLate, OneOrderPerRun
  <1>8. QED
    BY <1>5, <1>6, <1>7 DEF OneOrder

\* It is kept by every step.
LEMMA OneOrderStep == Sound /\ OneOrder /\ [Next]_vars => OneOrder'
  <1>1. ASSUME OneOrder, UNCHANGED vars PROVE OneOrder'
    <2>1. UNCHANGED <<runs, orderStatus, owner, late, intake, pay, commands, todo, cur, hi, on, pc, delivered>>
      BY <1>1 DEF vars, swVars, dataVars, handlerVars, requestVars
    <2>2. OneIntake'
      BY <1>1, <2>1 DEF OneOrder, OneIntake, OneCommandPerRun, OneInserter, KnownRuns, Creates
    <2>3. CreatesInOrder'
      BY <1>1, <2>1 DEF OneOrder, CreatesInOrder, Ahead, Awaits, Command, InOrder
    <2>4. \A i : Spent(i, BeforeOrder)' <=> Spent(i, BeforeOrder)
      BY <2>1 DEF Spent, SWP!Holds, Ahead, Awaits
    <2>5. \A r : /\ OrderMade(r)' <=> OrderMade(r)
                 /\ OrderLate(r)' <=> OrderLate(r)
                 /\ \A i : Creates(i, r)' <=> Creates(i, r)
      BY <2>1 DEF OrderMade, OrderLate, Creates
    <2>6. OrdersAreSpent'
      BY <1>1, <2>1, <2>4, <2>5 DEF OneOrder, OrdersAreSpent
    <2>7. OneOrderPerRun'
      BY <1>1, <2>1 DEF OneOrder, OneOrderPerRun
    <2>8. QED
      BY <2>2, <2>3, <2>6, <2>7 DEF OneOrder
  <1>2. ASSUME Sound, OneOrder, SagaMove PROVE OneOrder'
    <2>1. OneIntake'
      BY <1>2, KnownRunsStep, OneCommandStep, OneInserterStep DEF OneOrder, OneIntake
    <2>2. CreatesInOrder'
      BY <1>2, CreatesInOrderStep DEF OneOrder
    <2>3. QED
      BY <1>2, <2>1, <2>2, OrdersAreSpentStep DEF OneOrder
  <1>3. QED
    BY <1>1, <1>2, StepIsSagaMove DEF Sound

\* A checkout makes one order at most: requests repeated or dead, calls that outlive
\* their handler, crashes and restarts included.
THEOREM OneOrderShown == Spec => []OneOrderPerRun
  <1>1. OneOrder => OneOrderPerRun
    BY DEF OneOrder
  <1>2. QED
    BY <1>1, OneOrderInit, OneOrderStep, AlwaysSound, PTL DEF Spec
-----------------------------------------------------------------------------
\* A receipt means paid.

\* Only the handler that made an order names it in the row.
LEMMA OrderColumn ==
  ASSUME Sound, SagaMove, NEW r \in Runs
  PROVE  \/ runs'[r].order = runs[r].order
         \/ \E w \in Workers : AtAwait(w, {"setOrder"}) /\ (Handles(w) \/ Leaves(w)) /\ r = RunOf(w)
  <1>1. "order" \in DOMAIN NoRun
    BY DEF NoRun
  <1>2. ASSUME NEW w \in Workers, AtAwait(w, DbAwaits), Await(w) # "require", Handles(w) \/ Leaves(w),
               UpdateRun(RunOf(w), Patch(w))
        PROVE  \/ runs'[r]["order"] = runs[r]["order"]
               \/ AtAwait(w, {"setOrder"}) /\ r = RunOf(w)
    <2>1. Keeps(w) /\ RunOf(w) \in Runs
      BY <1>2, PatchFacts, CommandKnown DEF Sound, AtAwait, Handling, SWP!Busy, RunOf, CommandRecords
    <2>2. QED
      BY <1>1, <1>2, <2>1, RunColumn DEF Keeps, AtAwait
  <1>3. ASSUME NEW w \in Workers, pc[w] = "markFailed", MarkRunFailed(w) PROVE runs'[r]["order"] = runs[r]["order"]
    <2>1. RunOf(w) \in Runs
      BY <1>3, CommandKnown DEF Sound, SWP!Busy, RunOf, CommandRecords
    <2>2. QED
      BY <1>1, <1>3, <2>1, RunColumn DEF MarkRunFailed
  <1>4. ASSUME NEW q \in Runs, UpdateRun(q, [status |-> "accepted"]) PROVE runs'[r]["order"] = runs[r]["order"]
    BY <1>1, <1>4, RunColumn
  <1>5. QED
    BY <1>2, <1>3, <1>4, RunsStep

\* A handler that is about to name an order names the first one of its run.
LEMMA FirstName ==
  ASSUME Sound, OneOrder, NamesAreSpent, NEW w \in Workers, AtAwait(w, {"setOrder"})
  PROVE  runs[RunOf(w)].order = NoOrder /\ Creates(cur[w], RunOf(w))
  <1> USE DEF Sound, OneOrder
  <1>1. pc[w] = "handle" /\ todo[w] # <<>> /\ Await(w) = "setOrder"
    BY DEF AtAwait, Handling
  <1>2. /\ cur[w] \in 1..Len(commands) /\ SWP!Holds(w, Commands, cur[w]) /\ Command(w) \in CommandRecords
        /\ "setOrder" \in Ahead(w)
    BY <1>1, CommandKnown, TypeParts, TailAwaits DEF SWP!Busy, HandlerTypesOK, Ahead, Await
  <1>3. Creates(cur[w], RunOf(w)) /\ RunOf(w) \in Runs
    BY <1>2 DEF CreatesInOrder, Creates, RunOf, Command, CommandRecords
  <1>4. ASSUME NEW i \in 1..Len(commands), Creates(i, RunOf(w)), Spent(i, BeforeRow) PROVE FALSE
    <2>1. i = cur[w]
      BY <1>2, <1>3, <1>4 DEF OneIntake, OneCommandPerRun
    <2>2. QED
      BY <1>1, <1>2, <1>4, <2>1 DEF Spent, BeforeRow
  <1>5. QED
    BY <1>3, <1>4 DEF NamesAreSpent

\* The order a run names stays its order.
LEMMA NameKept ==
  ASSUME Sound, SagaMove, OneOrder, NamesAreSpent, NEW r \in Runs, runs[r].order # NoOrder
  PROVE  runs'[r].order = runs[r].order
  BY OrderColumn, FirstName

\* A row is named by a command that is spent with it.
LEMMA NamesAreSpentStep ==
  ASSUME Sound, SagaMove, OneOrder, NamesAreSpent
  PROVE  NamesAreSpent'
  <1> SUFFICES ASSUME NEW r \in Runs, runs'[r].order # NoOrder
               PROVE  \E i \in 1..Len(commands') : Creates(i, r)' /\ Spent(i, BeforeRow)'
    BY DEF NamesAreSpent
  <1>1. ASSUME NEW i \in 1..Len(commands), Creates(i, r), Spent(i, BeforeRow)'
        PROVE  \E k \in 1..Len(commands') : Creates(k, r)' /\ Spent(k, BeforeRow)'
    <2>1. i \in 1..Len(commands') /\ Creates(i, r)'
      BY <1>1, CommandsKept DEF Creates
    <2>2. QED
      BY <1>1, <2>1
  <1>2. CASE runs[r].order # NoOrder
    BY <1>1, <1>2, SpentStep DEF NamesAreSpent, IsEarly, BeforeOrder, BeforeRow, BranchAwaits
  <1>3. ASSUME NEW w \in Workers, AtAwait(w, {"setOrder"}), Handles(w) \/ Leaves(w), r = RunOf(w)
        PROVE  \E k \in 1..Len(commands') : Creates(k, r)' /\ Spent(k, BeforeRow)'
    <2>1. PICK i \in 1..Len(commands) : i = cur[w] /\ Creates(i, r)
      BY <1>3, FirstName DEF Creates
    <2>2. BeforeRow # BeforeOrder
      BY DEF BeforeRow, BeforeOrder
    <2>3. Spent(i, BeforeRow)'
      BY <1>3, <2>1, <2>2, SpentByStep DEF AtAwait, Handling, OneOrder
    <2>4. QED
      BY <1>1, <2>1, <2>3
  <1>4. QED
    BY <1>2, <1>3, OrderColumn

\* The inductive invariant of ReceiptShown.
PaidInv ==
  /\ OneOrder /\ NamesAreSpent
  /\ PaidIsCharged /\ HandlersKnowPaid /\ LateKnowPaid /\ ReceiptCommandsKnowPaid /\ ReceiptMeansPaid

\* What was charged, or paid, stays so.
PaidStays ==
  /\ \A o \in Orders : charges[o] > 0 => charges'[o] > 0
  /\ \A o \in Orders : orderStatus[o] \in Paid => orderStatus'[o] \in Paid

\* What a call does to what was paid, by a caller that knows.
LEMMA CallPaid ==
  ASSUME Sound, PaidIsCharged, ReceiptMeansPaid,
         NEW c, c.does # "postOrder" => c.order \in Orders,
         c.does = "movePaid" => charges[c.order] > 0,
         c.does = "postReceipt" => orderStatus[c.order] \in Paid,
         NEW sent, HttpEffect(c, sent)
  PROVE  /\ PaidStays /\ PaidIsCharged' /\ ReceiptMeansPaid'
         /\ c.does = "movePaid" => orderStatus'[c.order] \in Paid
         /\ c.does = "postPayment" /\ Outcome[c.scenario] = "completed" => charges'[c.order] > 0
  <1> USE DEF Sound, Paid
  <1>1. /\ orderStatus \in [Orders -> OL!OrderStatuses \cup {OL!Absent}] /\ charges \in [Orders -> Nat]
        /\ docs \subseteq Orders \X {"invoice", "receipt"}
    BY TypeParts DEF DataTypes
  <1>2. CASE CreatesOrder(c)
    BY <1>1, <1>2 DEF CreatesOrder, OL!CreateOrder, OL!Absent, PaidStays, PaidIsCharged, ReceiptMeansPaid
  <1>3. CASE MovesOrder(c)
    <2>1. /\ c.order \in Orders /\ OL!Allowed(orderStatus[c.order], MoveTo[c.does])
          /\ orderStatus' = [orderStatus EXCEPT ![c.order] = MoveTo[c.does]]
          /\ UNCHANGED <<charges, docs>>
      BY <1>3 DEF MovesOrder, OL!Transition, MoveTo
    <2>2. \/ c.does = "movePaid" /\ MoveTo[c.does] = "payment_completed"
          \/ c.does # "movePaid" /\ MoveTo[c.does] # "payment_completed"
      BY <1>3 DEF MovesOrder, MoveTo
    <2>3. MoveTo[c.does] \in {"receipt_generated", "notification_sent"} => orderStatus[c.order] \in Paid
      BY <2>1 DEF OL!Allowed, OL!ALLOWED_ORDER_TRANSITIONS
    <2>4. orderStatus[c.order] \in Paid => MoveTo[c.does] \in Paid
      BY <2>1 DEF OL!Allowed, OL!ALLOWED_ORDER_TRANSITIONS
    <2>5. MoveTo[c.does] \in Paid => charges[c.order] > 0
      BY <2>1, <2>2, <2>3 DEF PaidIsCharged
    <2>6. orderStatus'[c.order] = MoveTo[c.does] /\ \A o \in Orders \ {c.order} : orderStatus'[o] = orderStatus[o]
      BY <1>1, <2>1
    <2>7. PaidStays /\ PaidIsCharged'
      BY <2>1, <2>4, <2>5, <2>6 DEF PaidStays, PaidIsCharged
    <2>8. ReceiptMeansPaid'
      BY <2>1, <2>7 DEF PaidStays, ReceiptMeansPaid
    <2>9. c.does # "postPayment"
      BY <1>3 DEF MovesOrder, MoveTo
    <2>10. QED
      BY <2>2, <2>6, <2>7, <2>8, <2>9
  <1>4. CASE MakesDocument(c)
    <2>1. PaidStays /\ PaidIsCharged' /\ UNCHANGED <<orderStatus, charges>>
      BY <1>4 DEF MakesDocument, PaidStays, PaidIsCharged
    <2>2. ASSUME NEW o \in Orders, <<o, "receipt">> \in docs' PROVE orderStatus[o] \in Paid
      <3>1. CASE <<o, "receipt">> \in docs
        BY <3>1 DEF ReceiptMeansPaid
      <3>2. CASE <<o, "receipt">> \notin docs
        BY <1>4, <2>2, <3>2 DEF MakesDocument
      <3>3. QED
        BY <3>1, <3>2
    <2>3. ReceiptMeansPaid'
      BY <2>1, <2>2 DEF PaidIsCharged, ReceiptMeansPaid
    <2>4. QED
      BY <1>4, <2>1, <2>3 DEF MakesDocument
  <1>5. CASE ChargesOrder(c)
    BY <1>1, <1>5 DEF ChargesOrder, PaidStays, PaidIsCharged, ReceiptMeansPaid
  <1>6. CASE SendsMail(c, sent)
    BY <1>6 DEF SendsMail, PaidStays, PaidIsCharged, ReceiptMeansPaid
  <1>7. CASE c.does = "getOrder" /\ UNCHANGED dataVars
    BY <1>7 DEF dataVars, PaidStays, PaidIsCharged, ReceiptMeansPaid
  <1>8. QED
    BY <1>2, <1>3, <1>4, <1>5, <1>6, <1>7 DEF HttpEffect

\* A handler that calls a service knows.
LEMMA HandlerCallPaid ==
  ASSUME Sound, PaidInv, NEW w \in Workers, HttpStep(w)
  PROVE  /\ PaidStays /\ PaidIsCharged' /\ ReceiptMeansPaid'
         /\ Await(w) = "movePaid" => orderStatus'[loc[w]] \in Paid
         /\ Await(w) = "postPayment" /\ Outcome[Command(w).scenario] = "completed" => charges'[loc[w]] > 0
  <1>1. PICK sent \in MailOutcomes : HttpEffect(Call(w), sent)
    BY DEF HttpStep
  <1>2. /\ Call(w).does = Await(w) /\ Call(w).order = loc[w] /\ Call(w).scenario = Command(w).scenario
        /\ Await(w) # "postOrder" => loc[w] \in Orders
    BY CallKnown DEF HttpStep, Call
  <1>3. Await(w) \in Ahead(w)
    BY HandlesFrame, TypeParts, TailAwaits DEF Handles, Sound, HandlerTypesOK, Ahead
  <1>4. /\ Await(w) = "movePaid" => charges[loc[w]] > 0
        /\ Await(w) = "postReceipt" => orderStatus[loc[w]] \in Paid
    BY <1>3 DEF PaidInv, HandlersKnowPaid, KnowsPaid
  <1>5. QED
    BY <1>1, <1>2, <1>4, CallPaid DEF PaidInv

\* No step unpays an order, or makes a receipt for an unpaid one.
LEMMA PaidDataStep ==
  ASSUME Sound, SagaMove, PaidInv
  PROVE  PaidStays /\ PaidIsCharged' /\ ReceiptMeansPaid'
  <1>1. ASSUME UNCHANGED <<orderStatus, charges, docs>> PROVE PaidStays /\ PaidIsCharged' /\ ReceiptMeansPaid'
    BY <1>1 DEF PaidInv, PaidStays, PaidIsCharged, ReceiptMeansPaid
  <1>2. ASSUME NEW w \in Workers, Handles(w) PROVE PaidStays /\ PaidIsCharged' /\ ReceiptMeansPaid'
    <2>1. CASE HttpStep(w)
      BY <2>1, HandlerCallPaid
    <2>2. CASE DbStep(w) \/ SendStep(w) \/ TellStep(w)
      BY <1>1, <2>2 DEF DbStep, DbEffect, SendStep, TellStep, dataVars
    <2>3. QED
      BY <1>2, <2>1, <2>2 DEF Handles
  <1>3. ASSUME NEW w \in Workers, Leaves(w) PROVE PaidStays /\ PaidIsCharged' /\ ReceiptMeansPaid'
    BY <1>1, <1>3 DEF Leaves, LeavesUndone, DbEffect, MarkRunFailed, dataVars
  <1>4. ASSUME NEW c \in late, LateCall(c) PROVE PaidStays /\ PaidIsCharged' /\ ReceiptMeansPaid'
    <2>1. CASE UNCHANGED dataVars
      BY <1>1, <2>1 DEF dataVars
    <2>2. ASSUME NEW sent \in MailOutcomes, HttpEffect(c, sent) PROVE PaidStays /\ PaidIsCharged' /\ ReceiptMeansPaid'
      BY <2>2, CallPaid DEF PaidInv, LateKnowPaid, Sound, LateKnow
    <2>3. QED
      BY <1>4, <2>1, <2>2 DEF LateCall
  <1>5. CASE Asks
    BY <1>1, <1>5 DEF Asks, FindRun, CreateRun, PublishRun, IntakeDies, CheckPayment, PublishPayment, dataVars
  <1>6. QED
    BY <1>2, <1>3, <1>4, <1>5 DEF SagaMove

\* A call left behind knows what its handler knew.
LEMMA LateKnowPaidStep ==
  ASSUME Sound, SagaMove, PaidInv
  PROVE  LateKnowPaid'
  <1>1. PaidStays
    BY PaidDataStep
  <1>2. ASSUME NEW c \in late
        PROVE  /\ c.does = "movePaid" => charges'[c.order] > 0
               /\ c.does = "postReceipt" => orderStatus'[c.order] \in Paid
    BY <1>1 DEF PaidStays, PaidInv, LateKnowPaid, Sound, LateKnow
  <1>3. ASSUME NEW w \in Workers, AtAwait(w, HttpAwaits), NEW c, c = Call(w)
        PROVE  /\ c.does = "movePaid" => charges'[c.order] > 0
               /\ c.does = "postReceipt" => orderStatus'[c.order] \in Paid
    <2>1. c.does = Await(w) /\ c.order = loc[w] /\ (Await(w) # "postOrder" => loc[w] \in Orders)
      BY <1>3, CallKnown
    <2>2. Await(w) \in Ahead(w)
      BY <1>3, TypeParts, TailAwaits DEF Sound, HandlerTypesOK, Ahead, AtAwait, Await
    <2>3. QED
      BY <1>1, <2>1, <2>2 DEF PaidStays, PaidInv, HandlersKnowPaid, KnowsPaid
  <1>4. QED
    BY <1>2, <1>3, LateStep DEF LateKnowPaid, Paid

\* generate_receipt is sent after the order was moved to payment_completed.
LEMMA ReceiptCommandsStep ==
  ASSUME Sound, SagaMove, PaidInv
  PROVE  ReceiptCommandsKnowPaid'
  <1>1. PaidStays
    BY PaidDataStep
  <1>2. commands \in Seq(CommandRecords)
    BY TypeParts DEF Sound, CommandTypes
  <1> SUFFICES ASSUME NEW i \in 1..Len(commands'), commands'[i].type = "generate_receipt"
               PROVE  /\ runs'[commands'[i].run].order \in Orders
                      /\ orderStatus'[runs'[commands'[i].run].order] \in Paid
    BY DEF ReceiptCommandsKnowPaid, Paid
  <1>3. CASE i \in 1..Len(commands)
    <2>1. commands'[i] = commands[i]
      BY <1>3, CommandsKept
    <2>2. commands[i].run \in Runs
      <3>1. commands[i] \in CommandRecords
        BY <1>2, <1>3
      <3>2. QED
        BY <3>1 DEF CommandRecords
    <2>3. runs[commands[i].run].order \in Orders /\ orderStatus[runs[commands[i].run].order] \in Paid
      BY <1>3, <2>1 DEF PaidInv, ReceiptCommandsKnowPaid
    <2>4. runs'[commands[i].run].order = runs[commands[i].run].order
      BY <2>2, <2>3, NameKept, CheckoutAssumption DEF PaidInv, NoOrder
    <2>5. QED
      BY <1>1, <2>1, <2>3, <2>4 DEF PaidStays
  <1>4. CASE i \notin 1..Len(commands)
    <2>1. ASSUME NEW entry, Appends(entry) PROVE commands'[i] = entry
      BY <1>2, <1>4, <2>1 DEF Appends
    <2>2. ASSUME NEW w \in Workers, AtAwait(w, DOMAIN Sends), Appends(NewCommand(w)), UNCHANGED dataVars
          PROVE  /\ runs'[commands'[i].run].order \in Orders
                 /\ orderStatus'[runs'[commands'[i].run].order] \in Paid
      <3>1. commands'[i].type = Sends[Await(w)] /\ commands'[i].run = RunOf(w)
        BY <2>1, <2>2 DEF NewCommand
      <3>2. Await(w) = "sendReceipt"
        BY <2>2, <3>1 DEF Sends, AtAwait
      <3>3. "sendReceipt" \in Ahead(w)
        BY <2>2, <3>2, TypeParts, TailAwaits DEF Sound, HandlerTypesOK, Ahead, AtAwait, Await
      <3>4. loc[w] \in Orders /\ runs[RunOf(w)].order = loc[w] /\ orderStatus[loc[w]] \in Paid
        BY <3>2, <3>3 DEF PaidInv, HandlersKnowPaid, KnowsPaid
      <3>5. QED
        BY <2>2, <3>1, <3>4 DEF dataVars
    <2>3. ~ UNCHANGED <<commands, appended>>
      BY <1>4
    <2>4. ASSUME NEW r, NEW s, Appends([type |-> "order_create", run |-> r, scenario |-> s])
                               \/ Appends([type |-> "payment_requested", run |-> r, scenario |-> s])
          PROVE  FALSE
      BY <2>1, <2>4
    <2>5. QED
      BY <2>2, <2>3, <2>4, CommandsStep
  <1>5. QED
    BY <1>3, <1>4

\* A handler knows of its order what the call before told it.
LEMMA HandlersKnowPaidStep ==
  ASSUME Sound, SagaMove, PaidInv
  PROVE  HandlersKnowPaid'
  <1>1. PaidStays
    BY PaidDataStep
  <1>2. ASSUME NEW u \in Workers, pc[u] = "handle" => cur'[u] = cur[u], todo'[u] = todo[u], loc'[u] = loc[u]
        PROVE  KnowsPaid(u)'
    <2>1. Ahead(u)' = Ahead(u) /\ Await(u)' = Await(u)
      BY <1>2, AheadFrame DEF Await
    <2>2. CASE pc[u] = "handle"
      <3>1. Command(u)' = Command(u) /\ RunOf(u)' = RunOf(u) /\ RunOf(u) \in Runs
        BY <1>2, <2>2, OthersCommand, CommandKnown DEF SWP!Busy, RunOf, Sound, CommandRecords
      <3>2. KnowsPaid(u)
        BY DEF PaidInv, HandlersKnowPaid
      <3>3. ASSUME loc[u] \in Orders, runs[RunOf(u)].order = loc[u] PROVE runs'[RunOf(u)].order = loc[u]
        BY <3>1, <3>3, NameKept, CheckoutAssumption DEF PaidInv, NoOrder
      <3>4. "postReceipt" \in Ahead(u) => loc[u] \in Orders
        BY DEF Sound, HandlersKnow, OrderAwaits, HttpAwaits
      <3>5. QED
        BY <1>1, <1>2, <2>1, <3>1, <3>2, <3>3, <3>4 DEF KnowsPaid, PaidStays, Paid
    <2>3. CASE pc[u] # "handle"
      <3>1. Ahead(u)' = {"require"}
        BY <2>1, <2>3, ScriptAwaits DEF Sound, AtRest, Ahead
      <3>2. QED
        BY <3>1 DEF KnowsPaid
    <2>4. QED
      BY <2>2, <2>3
  <1>3. ASSUME NEW w \in Workers, Handles(w) PROVE KnowsPaid(w)'
    <2>1. /\ Command(w)' = Command(w) /\ RunOf(w)' = RunOf(w)
          /\ Command(w) \in CommandRecords /\ RunOf(w) \in Runs /\ cur[w] \in 1..Len(commands)
      BY <1>3, HandlesFrame, OthersCommand, CommandKnown DEF SWP!Busy, RunOf, Sound, CommandRecords
    <2>2. Await(w) \in Ahead(w) /\ loc[w] \in Orders \cup {NoOrder}
      BY <1>3, HandlesFrame, TypeParts, TailAwaits DEF Sound, HandlerTypesOK, Ahead
    <2>3. KnowsPaid(w)
      BY DEF PaidInv, HandlersKnowPaid
    <2>4. ASSUME NEW o \in Orders, runs[RunOf(w)].order = o PROVE runs'[RunOf(w)].order = o
      BY <2>1, <2>4, NameKept, CheckoutAssumption DEF PaidInv, NoOrder
    <2>5. CASE Begins(w) /\ Ahead(w)' = Awaits(Script[Command(w).type])
      <3>1. loc'[w] = runs[RunOf(w)].order /\ UNCHANGED <<runs, orderStatus>>
        BY <2>5 DEF Begins, dataVars
      <3>2. CASE Command(w).type = "payment_process"
        <4>1. Ahead(w)' = {"getOrder", "setProcessing", "postPayment"}
          BY <2>5, <3>2, ScriptAwaits DEF Script
        <4>2. loc'[w] \in Orders
          <5>1. runs[RunOf(w)].order \in Orders \cup {NoOrder}
            BY <2>1, TypeParts DEF Sound, DataTypes, RunRows
          <5>2. QED
            BY <2>5, <3>1, <3>2, <5>1 DEF Begins, MustRefuse
        <4>3. QED
          BY <2>1, <3>1, <3>2, <4>1, <4>2 DEF KnowsPaid
      <3>3. CASE Command(w).type = "generate_receipt"
        <4>1. Ahead(w)' = {"postReceipt", "moveReceipted", "setSending", "sendNotify"}
          BY <2>5, <3>3, ScriptAwaits DEF Script
        <4>2. orderStatus[runs[RunOf(w)].order] \in Paid
          BY <2>1, <3>3 DEF PaidInv, ReceiptCommandsKnowPaid, Command, RunOf
        <4>3. QED
          BY <2>1, <3>1, <3>3, <4>1, <4>2 DEF KnowsPaid, Paid
      <3>4. CASE Command(w).type \in {"order_create", "generate_invoice", "payment_requested", "notification_send"}
        <4>1. Ahead(w)' \cap {"postPayment", "movePaid", "setPaid", "sendReceipt", "postReceipt"} = {}
          BY <2>5, <3>4, ScriptAwaits DEF Script
        <4>2. QED
          BY <4>1 DEF KnowsPaid
      <3>5. QED
        BY <2>1, <3>2, <3>3, <3>4 DEF CommandRecords, Script
    <2>6. CASE Branches(w) /\ Await(w) = "postPayment"
      <3>1. HttpStep(w)
        BY <1>3, <2>6 DEF Handles, DbStep, SendStep, TellStep, AtAwait, DbAwaits, Sends
      <3>2. CASE Outcome[Command(w).scenario] = "completed"
        <4>1. charges'[loc[w]] > 0
          BY <2>6, <3>1, <3>2, HandlerCallPaid
        <4>2. todo'[w] = PaidScript /\ loc'[w] = loc[w]
          BY <2>6, <3>2 DEF Branches
        <4>3. Ahead(w)' = {"movePaid", "setPaid", "sendReceipt"} /\ Await(w)' = "movePaid"
          <5>1. Ahead(w)' = Awaits(PaidScript)
            BY <4>2 DEF Ahead, Awaits
          <5>2. Await(w)' = Head(PaidScript)
            BY <4>2 DEF Await
          <5>3. QED
            BY <5>1, <5>2, ScriptAwaits DEF PaidScript
        <4>4. /\ Command(w).type = "payment_process"
              /\ loc[w] \in Orders /\ runs[RunOf(w)].order = loc[w]
          BY <2>2, <2>3, <2>6 DEF KnowsPaid
        <4>5. runs'[RunOf(w)].order = loc[w]
          BY <2>4, <4>4
        <4>6. QED
          BY <2>1, <4>1, <4>2, <4>3, <4>4, <4>5 DEF KnowsPaid
      <3>3. CASE Outcome[Command(w).scenario] # "completed"
        <4>1. todo'[w] \in {RetryScript, RejectedScript}
          BY <2>6, <3>3 DEF Branches
        <4>2. Ahead(w)' = Awaits(todo'[w])
          BY DEF Ahead, Awaits
        <4>3. Ahead(w)' \cap {"postPayment", "movePaid", "setPaid", "sendReceipt", "postReceipt"} = {}
          BY <4>1, <4>2, ScriptAwaits
        <4>4. QED
          BY <4>3 DEF KnowsPaid
      <3>4. QED
        BY <3>2, <3>3
    <2>7. CASE Branches(w) /\ Await(w) = "postNotification"
      <3>1. todo'[w] \in {SentScript, UnsentScript}
        BY <2>7 DEF Branches
      <3>2. Ahead(w)' = Awaits(todo'[w])
        BY DEF Ahead, Awaits
      <3>3. Ahead(w)' \cap {"postPayment", "movePaid", "setPaid", "sendReceipt", "postReceipt"} = {}
        BY <3>1, <3>2, ScriptAwaits
      <3>4. QED
        BY <3>3 DEF KnowsPaid
    <2>8. CASE Proceeds(w) /\ Ahead(w)' \subseteq Ahead(w) /\ Await(w) = "postOrder"
      <3>1. Command(w).type = "order_create"
        BY <2>2, <2>8 DEF PaidInv, OneOrder, CreatesInOrder
      <3>2. QED
        BY <2>3, <2>8, <3>1 DEF KnowsPaid
    <2>9. CASE Proceeds(w) /\ Ahead(w)' \subseteq Ahead(w) /\ Await(w) # "postOrder"
      <3>1. loc'[w] = loc[w]
        BY <2>9 DEF Proceeds
      <3>2. Await(w) = "movePaid" => orderStatus'[loc[w]] \in Paid
        <4>1. ASSUME Await(w) = "movePaid" PROVE HttpStep(w)
          BY <1>3, <4>1 DEF Handles, DbStep, SendStep, TellStep, AtAwait, DbAwaits, Sends
        <4>2. QED
          BY <4>1, HandlerCallPaid
      <3>3. "postReceipt" \in Ahead(w) => loc[w] \in Orders
        BY DEF Sound, HandlersKnow, OrderAwaits, HttpAwaits
      <3>4. ASSUME Ahead(w) \cap {"movePaid", "setPaid", "sendReceipt"} # {}
            PROVE  charges'[loc[w]] > 0 /\ orderStatus'[loc[w]] \in Paid
        BY <1>1, <2>3, <3>2, <3>4 DEF KnowsPaid, PaidStays
      <3>5. ASSUME Ahead(w) \cap {"postPayment", "movePaid", "setPaid", "sendReceipt"} # {}
            PROVE  /\ Command(w).type = "payment_process"
                   /\ loc[w] \in Orders /\ runs'[RunOf(w)].order = loc[w]
        BY <2>3, <2>4, <3>5 DEF KnowsPaid
      <3>6. "postReceipt" \in Ahead(w) => Command(w).type = "generate_receipt" /\ orderStatus'[loc[w]] \in Paid
        BY <1>1, <2>3, <3>3 DEF KnowsPaid, PaidStays
      <3>7. QED
        BY <2>1, <2>9, <3>1, <3>4, <3>5, <3>6 DEF KnowsPaid, Paid
    <2>10. QED
      BY <1>3, <2>5, <2>6, <2>7, <2>8, <2>9, AheadAfter
  <1>4. ASSUME NEW w \in Workers, Handles(w) PROVE HandlersKnowPaid'
    <2>1. \A u \in Workers \ {w} : cur'[u] = cur[u] /\ todo'[u] = todo[u] /\ loc'[u] = loc[u]
      BY <1>4, HandlesFrame, HandlesStep DEF Sound, OthersWait
    <2>2. \A u \in Workers : KnowsPaid(u)'
      BY <1>2, <1>3, <1>4, <2>1
    <2>3. QED
      BY <2>2 DEF HandlersKnowPaid
  <1>5. ASSUME NEW w \in Workers, Leaves(w) PROVE HandlersKnowPaid'
    <2>1. \A u \in Workers \ {w} : cur'[u] = cur[u] /\ todo'[u] = todo[u] /\ loc'[u] = loc[u]
      BY <1>5, LeavesControl, ForgetFacts DEF Sound, OthersWait, SWP!OthersKeep, Leaves
    <2>2. Ahead(w)' = {"require"}
      BY <1>5, ForgetFacts, ScriptAwaits DEF Sound, Leaves, Ahead
    <2>3. KnowsPaid(w)'
      BY <2>2 DEF KnowsPaid
    <2>4. \A u \in Workers : KnowsPaid(u)'
      BY <1>2, <2>1, <2>3
    <2>5. QED
      BY <2>4 DEF HandlersKnowPaid
  <1>6. CASE Asks \/ \E c \in late : LateCall(c)
    <2>1. \A u \in Workers : KnowsPaid(u)'
      BY <1>2, <1>6, RequestFrame
    <2>2. QED
      BY <2>1 DEF HandlersKnowPaid
  <1>7. QED
    BY <1>4, <1>5, <1>6 DEF SagaMove

\* It holds at first.
LEMMA PaidInit == Init => PaidInv
  <1> SUFFICES ASSUME Init PROVE PaidInv
    OBVIOUS
  <1>1. NamesAreSpent
    BY DEF Init, NamesAreSpent, NoRun
  <1>2. PaidIsCharged /\ ReceiptMeansPaid
    BY DEF Init, OL!Init, OL!Absent, PaidIsCharged, ReceiptMeansPaid, Paid
  <1>3. \A w \in Workers : Ahead(w) = {"require"}
    BY ScriptAwaits DEF Init, Ahead
  <1>4. HandlersKnowPaid
    BY <1>3 DEF HandlersKnowPaid, KnowsPaid
  <1>5. LateKnowPaid /\ ReceiptCommandsKnowPaid
    BY DEF Init, LateKnowPaid, ReceiptCommandsKnowPaid
  <1>6. QED
    BY <1>1, <1>2, <1>4, <1>5, OneOrderInit DEF PaidInv

\* It is kept by every step.
LEMMA PaidStep == Sound /\ PaidInv /\ [Next]_vars => PaidInv'
  <1>1. ASSUME Sound, PaidInv, UNCHANGED vars PROVE PaidInv'
    <2>1. UNCHANGED <<runs, orderStatus, charges, docs, late, commands, todo, loc, cur, hi, on, pc, delivered>>
      BY <1>1 DEF vars, swVars, dataVars, handlerVars, requestVars
    <2>2. OneOrder'
      BY <1>1, OneOrderStep DEF PaidInv
    <2>3. \A i : Spent(i, BeforeRow)' <=> Spent(i, BeforeRow)
      BY <2>1 DEF Spent, SWP!Holds, Ahead, Awaits
    <2>4. NamesAreSpent'
      BY <1>1, <2>1, <2>3 DEF PaidInv, NamesAreSpent, Creates
    <2>5. PaidIsCharged' /\ ReceiptMeansPaid' /\ LateKnowPaid' /\ ReceiptCommandsKnowPaid'
      BY <1>1, <2>1 DEF PaidInv, PaidIsCharged, ReceiptMeansPaid, LateKnowPaid, ReceiptCommandsKnowPaid
    <2>6. \A w \in Workers : KnowsPaid(w)' <=> KnowsPaid(w)
      BY <2>1 DEF KnowsPaid, Ahead, Awaits, Await, RunOf, Command
    <2>7. HandlersKnowPaid'
      BY <1>1, <2>6 DEF PaidInv, HandlersKnowPaid
    <2>8. QED
      BY <2>2, <2>4, <2>5, <2>7 DEF PaidInv
  <1>2. ASSUME Sound, PaidInv, SagaMove, [Next]_vars PROVE PaidInv'
    <2>1. OneOrder' /\ NamesAreSpent'
      BY <1>2, OneOrderStep, NamesAreSpentStep DEF PaidInv
    <2>2. QED
      BY <1>2, <2>1, PaidDataStep, HandlersKnowPaidStep, LateKnowPaidStep, ReceiptCommandsStep DEF PaidInv
  <1>3. QED
    BY <1>1, <1>2, StepIsSagaMove DEF Sound

\* A receipt is made only for an order that was charged and knows it: one that failed
\* to be paid never gets one, whichever call comes late.
THEOREM ReceiptShown == Spec => []ReceiptMeansPaid
  <1>1. PaidInv => ReceiptMeansPaid
    BY DEF PaidInv
  <1>2. QED
    BY <1>1, PaidInit, PaidStep, AlwaysSound, PTL DEF Spec
-----------------------------------------------------------------------------
\* The handler an await belongs to.
HandlerOf ==
  [ setAwaiting |-> "generate_invoice",
    sendProcess |-> "payment_requested",
    postPayment |-> "payment_process",  setRetryable |-> "payment_process",
    sendReceipt |-> "payment_process",
    setSending |-> "generate_receipt",  sendNotify |-> "generate_receipt",
    postNotification |-> "notification_send",  setCompleted |-> "notification_send" ]

\* A handler that writes or mails on the strength of an earlier await has made it, for
\* the order its run names.
KnowsDone(w) ==
  /\ \A label \in Ahead(w) : label \in DOMAIN HandlerOf => Command(w).type = HandlerOf[label]
  /\ Ahead(w) \cap {"setAwaiting", "setSending", "postNotification", "setCompleted"} # {} =>
       loc[w] \in Orders /\ runs[RunOf(w)].order = loc[w]
  /\ "setAwaiting" \in Ahead(w) =>
       todo[w] \in {InvoiceScript, Tail(InvoiceScript)} \/ <<loc[w], "invoice">> \in docs
  /\ "setSending" \in Ahead(w) => todo[w] = ReceiptScript \/ <<loc[w], "receipt">> \in docs
  /\ "sendReceipt" \in Ahead(w) =>
       todo[w] \in {PaidScript, Tail(PaidScript)} \/ runs[RunOf(w)].payment
  /\ "sendNotify" \in Ahead(w) =>
       \/ todo[w] \in {ReceiptScript, Tail(ReceiptScript), Tail(Tail(ReceiptScript))}
       \/ runs[RunOf(w)].receipt
  /\ "setCompleted" \in Ahead(w) =>
       /\ loc[w] \in mails
       /\ todo[w] = SentScript \/ orderStatus[loc[w]] = "notification_sent"

HandlersKnowDone == \A w \in Workers : KnowsDone(w)

\* A command about a run comes after what the marks of its row say.
Follows(type, row) ==
  /\ type \in {"payment_requested", "payment_process", "generate_receipt", "notification_send"} =>
       row.invoice
  /\ type \in {"generate_receipt", "notification_send"} => row.payment
  /\ type = "notification_send" => row.receipt

CommandsFollow == \A i \in 1..Len(commands) : Follows(commands[i].type, runs[commands[i].run])

\* A payment is accepted for a run with an invoice.
PaymentsFollow == \A p \in PayRequests : pay[p].at = "checked" => runs[pay[p].run].invoice

\* A run's marks have their documents, and it waits for a payment with an invoice.
Backed(r) ==
  /\ runs[r].invoice => runs[r].order \in Orders /\ <<runs[r].order, "invoice">> \in docs
  /\ runs[r].receipt => runs[r].order \in Orders /\ <<runs[r].order, "receipt">> \in docs
  /\ runs[r].status = "awaiting_payment" => runs[r].invoice

MarksAreBacked == \A r \in Runs : Backed(r)

\* The inductive invariant of CompletedShown, next to PaidInv.
DeliveryInv ==
  /\ HandlersKnowDone /\ CommandsFollow /\ PaymentsFollow /\ MarksAreBacked
  /\ CompletedMeansDelivered
-----------------------------------------------------------------------------
\* What the statements of a handler write.

Marks == {"invoice", "receipt", "payment", "notification", "finished"}

\* A patch only ever sets a mark, and each mark and status has its statement.
SetsMarks(w, patch) ==
  /\ \A column \in Marks : column \in DOMAIN patch => patch[column] = TRUE
  /\ "invoice" \in DOMAIN patch <=> Await(w) = "setAwaiting"
  /\ "receipt" \in DOMAIN patch <=> Await(w) = "setSending"
  /\ Await(w) = "setPaid" => "payment" \in DOMAIN patch
  /\ "status" \in DOMAIN patch =>
       /\ patch["status"] = "awaiting_payment" => Await(w) \in {"setAwaiting", "setRetryable"}
       /\ patch["status"] = "completed" => Await(w) = "setCompleted"
  /\ Await(w) = "setCompleted" => "notification" \in DOMAIN patch /\ "finished" \in DOMAIN patch

\* Every statement of a handler is such a patch.
LEMMA PatchMarks ==
  ASSUME NEW w \in Workers, AtAwait(w, DbAwaits), Await(w) # "require"
  PROVE  SetsMarks(w, Patch(w))
  <1>1. CASE Await(w) = "setCreating"
    <2>1. Patch(w) = [status |-> "order_creating"]
      BY <1>1 DEF Patch
    <2>2. QED
      BY <1>1, <2>1 DEF Marks, SetsMarks
  <1>2. CASE Await(w) = "setOrder"
    <2>1. Patch(w) = [status |-> "invoice_generating", order |-> loc[w]]
      BY <1>2 DEF Patch
    <2>2. QED
      BY <1>2, <2>1 DEF Marks, SetsMarks
  <1>3. CASE Await(w) = "setInvoicing"
    <2>1. Patch(w) = [status |-> "invoice_generating"]
      BY <1>3 DEF Patch
    <2>2. QED
      BY <1>3, <2>1 DEF Marks, SetsMarks
  <1>4. CASE Await(w) = "setAwaiting"
    <2>1. Patch(w) = [status |-> "awaiting_payment", invoice |-> TRUE, failure |-> "none"]
      BY <1>4 DEF Patch
    <2>2. QED
      BY <1>4, <2>1 DEF Marks, SetsMarks
  <1>5. CASE Await(w) = "setRequested"
    <2>1. Patch(w) = [status |-> "payment_requested", failure |-> "none"]
      BY <1>5 DEF Patch
    <2>2. QED
      BY <1>5, <2>1 DEF Marks, SetsMarks
  <1>6. CASE Await(w) = "setProcessing"
    <2>1. Patch(w) = [status |-> "payment_processing"]
      BY <1>6 DEF Patch
    <2>2. QED
      BY <1>6, <2>1 DEF Marks, SetsMarks
  <1>7. CASE Await(w) = "setPaid"
    <2>1. Patch(w) = [status |-> "receipt_generating", payment |-> TRUE, failure |-> "none"]
      BY <1>7 DEF Patch
    <2>2. QED
      BY <1>7, <2>1 DEF Marks, SetsMarks
  <1>8. CASE Await(w) = "setRetryable"
    <2>1. Patch(w) = [status |-> "awaiting_payment", payment |-> TRUE, failure |-> Outcome[Command(w).scenario]]
      BY <1>8 DEF Patch
    <2>2. QED
      BY <1>8, <2>1 DEF Marks, SetsMarks
  <1>9. CASE Await(w) = "setRejected"
    <2>1. Patch(w) = [status |-> "failed", finished |-> TRUE, failure |-> Outcome[Command(w).scenario]]
      BY <1>9 DEF Patch
    <2>2. QED
      BY <1>9, <2>1 DEF Marks, SetsMarks
  <1>10. CASE Await(w) = "setSending"
    <2>1. Patch(w) = [status |-> "notification_sending", receipt |-> TRUE]
      BY <1>10 DEF Patch
    <2>2. QED
      BY <1>10, <2>1 DEF Marks, SetsMarks
  <1>11. CASE Await(w) = "setCompleted"
    <2>1. Patch(w) = [status |-> "completed", notification |-> TRUE, finished |-> TRUE]
      BY <1>11 DEF Patch
    <2>2. QED
      BY <1>11, <2>1 DEF Marks, SetsMarks
  <1>12. CASE Await(w) = "setUnsent"
    <2>1. Patch(w) = [status |-> "notification_failed", notification |-> TRUE, failure |-> "NOTIFICATION_FAILED"]
      BY <1>12 DEF Patch
    <2>2. QED
      BY <1>12, <2>1 DEF Marks, SetsMarks
  <1>13. QED
    BY <1>1, <1>2, <1>3, <1>4, <1>5, <1>6, <1>7, <1>8, <1>9, <1>10, <1>11, <1>12 DEF AtAwait, DbAwaits

\* The statement w is at is executed, for run r.
Writes(w, r) ==
  /\ AtAwait(w, DbAwaits) /\ Await(w) # "require" /\ r = RunOf(w)
  /\ Handles(w) \/ Leaves(w)
  /\ UpdateRun(r, Patch(w))
  /\ UNCHANGED <<orderStatus, docs, charges, mails>>

\* What a move does to the row of a run: marks stay, and who sets them.
LEMMA RowStep ==
  ASSUME Sound, SagaMove, NEW r \in Runs
  PROVE  /\ \A column \in Marks : runs[r][column] => runs'[r][column]
         /\ runs'[r].invoice => runs[r].invoice \/ \E w \in Workers : Writes(w, r) /\ Await(w) = "setAwaiting"
         /\ runs'[r].receipt => runs[r].receipt \/ \E w \in Workers : Writes(w, r) /\ Await(w) = "setSending"
         /\ runs'[r].status = "awaiting_payment" =>
              \/ runs[r].status = "awaiting_payment"
              \/ \E w \in Workers : Writes(w, r) /\ Await(w) \in {"setAwaiting", "setRetryable"}
         /\ runs'[r].status = "completed" =>
              \/ runs[r].status = "completed"
              \/ \E w \in Workers : Writes(w, r) /\ Await(w) = "setCompleted"
  <1>1. Marks \cup {"status"} \subseteq DOMAIN NoRun
    BY DEF NoRun, Marks
  <1>2. CASE UNCHANGED runs
    BY <1>2
  <1>3. ASSUME NEW w \in Workers, AtAwait(w, DbAwaits), Await(w) # "require", Handles(w) \/ Leaves(w),
               UpdateRun(RunOf(w), Patch(w)), UNCHANGED <<orderStatus, trail, owner, docs, charges, mails, commands>>
        PROVE  /\ \A column \in Marks \cup {"status"} :
                    \/ runs'[r][column] = runs[r][column]
                    \/ /\ Writes(w, r) /\ column \in DOMAIN Patch(w)
                       /\ runs'[r][column] = Patch(w)[column]
    <2>1. RunOf(w) \in Runs
      BY <1>3, CommandKnown DEF Sound, AtAwait, Handling, SWP!Busy, RunOf, CommandRecords
    <2>2. QED
      BY <1>1, <1>3, <2>1, RunColumn DEF Writes
  <1>4. ASSUME NEW q \in Runs, NEW patch, UpdateRun(q, patch), DOMAIN patch \subseteq {"status", "failure", "finished"},
               patch["status"] \in {"accepted", "failed"}, "finished" \in DOMAIN patch => patch["finished"] = TRUE
        PROVE  /\ \A column \in Marks : runs'[r][column] = runs[r][column] \/ (column = "finished" /\ runs'[r][column])
               /\ runs'[r]["status"] = runs[r]["status"] \/ runs'[r]["status"] \in {"accepted", "failed"}
    <2>1. ASSUME NEW column \in Marks \cup {"status"}
          PROVE  runs'[r][column] = IF r = q /\ column \in DOMAIN patch THEN patch[column] ELSE runs[r][column]
      BY <1>1, <1>4, RunColumn
    <2>2. runs'[r]["status"] = runs[r]["status"] \/ runs'[r]["status"] \in {"accepted", "failed"}
      BY <1>4, <2>1
    <2>3. ASSUME NEW column \in Marks
          PROVE  runs'[r][column] = runs[r][column] \/ (column = "finished" /\ runs'[r][column])
      <3>1. column \in DOMAIN patch => column = "finished"
        BY <1>4 DEF Marks
      <3>2. QED
        <4>1. CASE column \notin DOMAIN patch
          <5>1. runs'[r][column] = runs[r][column]
            BY <2>1, <4>1
          <5>2. QED
            BY <5>1
        <4>2. CASE column = "finished" /\ column \in DOMAIN patch
          <5>1. patch[column] = TRUE
            BY <1>4, <4>2
          <5>2. runs'[r][column] = TRUE \/ runs'[r][column] = runs[r][column]
            BY <2>1, <5>1
          <5>3. QED
            BY <4>2, <5>2, Zenon
        <4>3. QED
          BY <3>1, <4>1, <4>2
    <2>4. QED
      BY <2>2, <2>3
  <1>5. ASSUME NEW w \in Workers, pc[w] = "markFailed", MarkRunFailed(w)
        PROVE  /\ \A column \in Marks : runs'[r][column] = runs[r][column] \/ (column = "finished" /\ runs'[r][column])
               /\ runs'[r]["status"] = runs[r]["status"] \/ runs'[r]["status"] \in {"accepted", "failed"}
    <2>1. RunOf(w) \in Runs
      BY <1>5, CommandKnown DEF Sound, SWP!Busy, RunOf, CommandRecords
    <2>2. QED
      BY <1>4, <1>5, <2>1 DEF MarkRunFailed
  <1>6. ASSUME NEW q \in Runs, UpdateRun(q, [status |-> "accepted"])
        PROVE  /\ \A column \in Marks : runs'[r][column] = runs[r][column] \/ (column = "finished" /\ runs'[r][column])
               /\ runs'[r]["status"] = runs[r]["status"] \/ runs'[r]["status"] \in {"accepted", "failed"}
    BY <1>4, <1>6
  <1>7. CASE \E w \in Workers :
               /\ AtAwait(w, DbAwaits) /\ Await(w) # "require"
               /\ Handles(w) \/ Leaves(w)
               /\ UpdateRun(RunOf(w), Patch(w))
               /\ UNCHANGED <<orderStatus, trail, owner, docs, charges, mails, commands>>
    <2>1. PICK w \in Workers :
               /\ AtAwait(w, DbAwaits) /\ Await(w) # "require"
               /\ Handles(w) \/ Leaves(w)
               /\ UpdateRun(RunOf(w), Patch(w))
               /\ UNCHANGED <<orderStatus, trail, owner, docs, charges, mails, commands>>
      BY <1>7
    <2>2. \A column \in Marks : runs[r][column] => runs'[r][column]
      BY <1>3, <2>1, PatchMarks DEF SetsMarks
    <2>3. /\ runs'[r]["invoice"] => runs[r]["invoice"] \/ (Writes(w, r) /\ Await(w) = "setAwaiting")
          /\ runs'[r]["receipt"] => runs[r]["receipt"] \/ (Writes(w, r) /\ Await(w) = "setSending")
          /\ runs'[r]["status"] = "awaiting_payment" =>
               \/ runs[r]["status"] = "awaiting_payment"
               \/ Writes(w, r) /\ Await(w) \in {"setAwaiting", "setRetryable"}
          /\ runs'[r]["status"] = "completed" =>
               \/ runs[r]["status"] = "completed"
               \/ Writes(w, r) /\ Await(w) = "setCompleted"
      <3>1. ASSUME NEW column \in Marks \cup {"status"}
            PROVE  \/ runs'[r][column] = runs[r][column]
                   \/ Writes(w, r) /\ column \in DOMAIN Patch(w) /\ runs'[r][column] = Patch(w)[column]
        BY <1>3, <2>1
      <3>2. {"invoice", "receipt", "status"} \subseteq Marks \cup {"status"}
        BY DEF Marks
      <3>3. SetsMarks(w, Patch(w))
        BY <2>1, PatchMarks
      <3>4. runs'[r]["invoice"] => runs[r]["invoice"] \/ (Writes(w, r) /\ Await(w) = "setAwaiting")
        <4>1. runs'[r]["invoice"] = runs[r]["invoice"] \/ (Writes(w, r) /\ "invoice" \in DOMAIN Patch(w))
          BY <3>1, <3>2
        <4>2. "invoice" \in DOMAIN Patch(w) => Await(w) = "setAwaiting"
          BY <3>3 DEF SetsMarks
        <4>3. QED
          BY <4>1, <4>2, Zenon
      <3>5. runs'[r]["receipt"] => runs[r]["receipt"] \/ (Writes(w, r) /\ Await(w) = "setSending")
        <4>1. runs'[r]["receipt"] = runs[r]["receipt"] \/ (Writes(w, r) /\ "receipt" \in DOMAIN Patch(w))
          BY <3>1, <3>2
        <4>2. "receipt" \in DOMAIN Patch(w) => Await(w) = "setSending"
          BY <3>3 DEF SetsMarks
        <4>3. QED
          BY <4>1, <4>2, Zenon
      <3>6. QED
        BY <3>1, <3>2, <3>3, <3>4, <3>5 DEF SetsMarks
    <2>4. QED
      BY <2>2, <2>3
  <1>8. CASE /\ \A column \in Marks : runs'[r][column] = runs[r][column] \/ (column = "finished" /\ runs'[r][column])
             /\ runs'[r]["status"] = runs[r]["status"] \/ runs'[r]["status"] \in {"accepted", "failed"}
    BY <1>8 DEF Marks
  <1>9. QED
    BY <1>2, <1>5, <1>6, <1>7, <1>8, RunsStep

\* The marks a statement leaves.
LEMMA WrittenMarks ==
  ASSUME Sound, NEW w \in Workers, NEW r \in Runs, Writes(w, r)
  PROVE  /\ Await(w) = "setAwaiting" => runs'[r].invoice
         /\ Await(w) = "setPaid" => runs'[r].payment
         /\ Await(w) = "setSending" => runs'[r].receipt
         /\ Await(w) = "setCompleted" => runs'[r].notification /\ runs'[r].finished
  <1>1. Marks \subseteq DOMAIN NoRun
    BY DEF NoRun, Marks
  <1>2. \A column \in Marks : column \in DOMAIN Patch(w) => runs'[r][column] = TRUE
    BY <1>1, RunColumn, PatchMarks DEF Writes, SetsMarks
  <1>3. QED
    BY <1>2, PatchMarks DEF Marks, Writes, SetsMarks
-----------------------------------------------------------------------------
\* What the services do.

\* Documents, mails and the end of an order's life stay.
DeliveriesStay ==
  /\ docs \subseteq docs' /\ mails \subseteq mails'
  /\ \A o \in Orders : orderStatus[o] = "notification_sent" => orderStatus'[o] = "notification_sent"

\* What a call leaves behind.
LEMMA CallDelivers ==
  ASSUME Sound, NEW c, c.does # "postOrder" => c.order \in Orders, NEW sent, HttpEffect(c, sent)
  PROVE  /\ DeliveriesStay /\ UNCHANGED runs
         /\ c.does = "postInvoice" => <<c.order, "invoice">> \in docs'
         /\ c.does = "postReceipt" => <<c.order, "receipt">> \in docs'
         /\ c.does = "moveNotified" => orderStatus'[c.order] = "notification_sent"
         /\ c.does = "postNotification" /\ sent => c.order \in mails'
  <1> USE DEF Sound
  <1>1. orderStatus \in [Orders -> OL!OrderStatuses \cup {OL!Absent}]
    BY TypeParts DEF DataTypes
  <1>2. CASE CreatesOrder(c)
    BY <1>1, <1>2 DEF CreatesOrder, OL!CreateOrder, OL!Absent, DeliveriesStay
  <1>3. CASE MovesOrder(c)
    <2>1. /\ c.does \in DOMAIN MoveTo /\ c.order \in Orders
          /\ OL!Allowed(orderStatus[c.order], MoveTo[c.does])
          /\ orderStatus' = [orderStatus EXCEPT ![c.order] = MoveTo[c.does]]
          /\ UNCHANGED <<runs, docs, mails>>
      BY <1>3 DEF MovesOrder, OL!Transition, MoveTo
    <2>2. orderStatus[c.order] # "notification_sent"
      BY <2>1 DEF OL!Allowed, OL!ALLOWED_ORDER_TRANSITIONS
    <2>3. c.does = "moveNotified" => MoveTo[c.does] = "notification_sent"
      BY DEF MoveTo
    <2>4. c.does \notin {"postInvoice", "postReceipt", "postNotification"}
      BY <2>1 DEF MoveTo
    <2>5. QED
      BY <1>1, <2>1, <2>2, <2>3, <2>4 DEF DeliveriesStay
  <1>4. CASE MakesDocument(c)
    BY <1>4 DEF MakesDocument, DeliveriesStay
  <1>5. CASE ChargesOrder(c)
    BY <1>5 DEF ChargesOrder, DeliveriesStay
  <1>6. CASE SendsMail(c, sent)
    BY <1>6 DEF SendsMail, DeliveriesStay
  <1>7. CASE c.does = "getOrder" /\ UNCHANGED dataVars
    BY <1>7 DEF dataVars, DeliveriesStay
  <1>8. QED
    BY <1>2, <1>3, <1>4, <1>5, <1>6, <1>7 DEF HttpEffect

\* What the handler of w has when its call answers.
LEMMA HandlerCallDelivers ==
  ASSUME Sound, NEW w \in Workers, HttpStep(w)
  PROVE  /\ DeliveriesStay /\ UNCHANGED runs
         /\ Await(w) = "postInvoice" => <<loc[w], "invoice">> \in docs'
         /\ Await(w) = "postReceipt" => <<loc[w], "receipt">> \in docs'
         /\ Await(w) = "moveNotified" => orderStatus'[loc[w]] = "notification_sent"
         /\ Await(w) = "postNotification" /\ todo'[w] = SentScript => loc[w] \in mails'
  <1>1. PICK sent \in MailOutcomes : HttpEffect(Call(w), sent) /\ Continue(w, sent)
    BY DEF HttpStep
  <1>2. /\ Call(w).does = Await(w) /\ Call(w).order = loc[w]
        /\ Await(w) # "postOrder" => loc[w] \in Orders
    BY CallKnown DEF HttpStep
  <1>3. Await(w) = "postNotification" /\ todo'[w] = SentScript => sent
    <2> SUFFICES ASSUME Await(w) = "postNotification", todo'[w] = SentScript, ~ sent PROVE FALSE
      OBVIOUS
    <2>1. todo \in [Workers -> Seq(AwaitLabels)]
      BY TypeParts DEF Sound, HandlerTypesOK
    <2>2. todo'[w] = UnsentScript
      BY <1>1, <2>1 DEF Continue
    <2>3. QED
      BY <2>2 DEF SentScript, UnsentScript
  <1>4. QED
    BY <1>1, <1>2, <1>3, CallDelivers

\* No step takes back a document, a mail, or the end of an order's life.
LEMMA DeliveriesStep ==
  ASSUME Sound, SagaMove
  PROVE  DeliveriesStay
  <1>1. ASSUME UNCHANGED <<orderStatus, docs, mails>> PROVE DeliveriesStay
    BY <1>1 DEF DeliveriesStay
  <1>2. ASSUME NEW w \in Workers, Handles(w) PROVE DeliveriesStay
    <2>1. CASE HttpStep(w)
      BY <2>1, HandlerCallDelivers
    <2>2. CASE DbStep(w) \/ SendStep(w) \/ TellStep(w)
      BY <1>1, <2>2 DEF DbStep, DbEffect, SendStep, TellStep, dataVars
    <2>3. QED
      BY <1>2, <2>1, <2>2 DEF Handles
  <1>3. ASSUME NEW w \in Workers, Leaves(w) PROVE DeliveriesStay
    BY <1>1, <1>3 DEF Leaves, LeavesUndone, DbEffect, MarkRunFailed, dataVars
  <1>4. ASSUME NEW c \in late, LateCall(c) PROVE DeliveriesStay
    <2>1. CASE UNCHANGED dataVars
      BY <1>1, <2>1 DEF dataVars
    <2>2. ASSUME NEW sent \in MailOutcomes, HttpEffect(c, sent) PROVE DeliveriesStay
      BY <2>2, CallDelivers DEF Sound, LateKnow
    <2>3. QED
      BY <1>4, <2>1, <2>2 DEF LateCall
  <1>5. CASE Asks
    BY <1>1, <1>5 DEF Asks, FindRun, CreateRun, PublishRun, IntakeDies, CheckPayment, PublishPayment, dataVars
  <1>6. QED
    BY <1>2, <1>3, <1>4, <1>5 DEF SagaMove
-----------------------------------------------------------------------------
\* The marks of a run, and what is sent about it.

\* What follows on a run's marks goes on following.
LEMMA FollowsStays ==
  ASSUME Sound, SagaMove, NEW r \in Runs, NEW type, Follows(type, runs[r])
  PROVE  Follows(type, runs'[r])
  BY RowStep DEF Follows, Marks

\* A handler's command follows on the marks of its run.
LEMMA CommandFollows ==
  ASSUME Sound, CommandsFollow, NEW w \in Workers, pc[w] \in SWP!Busy
  PROVE  Follows(Command(w).type, runs[RunOf(w)]) /\ RunOf(w) \in Runs /\ Command(w) \in CommandRecords
  BY CommandKnown DEF Sound, CommandsFollow, Command, RunOf, CommandRecords

\* A mark is written by the handler that made what it marks, and what is made stays.
LEMMA MarksAreBackedStep ==
  ASSUME Sound, SagaMove, PaidInv, DeliveryInv
  PROVE  MarksAreBacked'
  <1> SUFFICES ASSUME NEW r \in Runs PROVE Backed(r)'
    BY DEF MarksAreBacked
  <1>1. Backed(r) /\ DeliveriesStay
    BY DeliveriesStep DEF DeliveryInv, MarksAreBacked
  <1>2. runs[r].order \in Orders => runs'[r].order = runs[r].order
    BY NameKept, CheckoutAssumption DEF PaidInv, NoOrder
  <1>3. ASSUME NEW w \in Workers, Writes(w, r)
        PROVE  /\ pc[w] = "handle" /\ todo[w] # <<>> /\ Await(w) = Head(todo[w]) /\ r = RunOf(w)
               /\ KnowsDone(w) /\ Await(w) \in Ahead(w) /\ docs' = docs
    <2>1. pc[w] = "handle" /\ todo[w] # <<>> /\ r = RunOf(w) /\ docs' = docs
      BY <1>3 DEF Writes, AtAwait, Handling
    <2>2. QED
      BY <2>1, AwaitIsAhead DEF DeliveryInv, HandlersKnowDone, Await
  <1>4. ASSUME runs'[r].invoice PROVE runs'[r].order \in Orders /\ <<runs'[r].order, "invoice">> \in docs'
    <2>1. CASE runs[r].invoice
      BY <1>1, <1>2, <2>1 DEF Backed, DeliveriesStay
    <2>2. ASSUME NEW w \in Workers, Writes(w, r), Await(w) = "setAwaiting"
          PROVE  runs'[r].order \in Orders /\ <<runs'[r].order, "invoice">> \in docs'
      <3>1. todo[w] \notin {InvoiceScript, Tail(InvoiceScript)}
        BY <1>3, <2>2 DEF InvoiceScript
      <3>2. loc[w] \in Orders /\ runs[r].order = loc[w] /\ <<loc[w], "invoice">> \in docs
        BY <1>3, <2>2, <3>1 DEF KnowsDone
      <3>3. QED
        BY <1>2, <1>3, <2>2, <3>2
    <2>3. QED
      BY <1>4, <2>1, <2>2, RowStep
  <1>5. ASSUME runs'[r].receipt PROVE runs'[r].order \in Orders /\ <<runs'[r].order, "receipt">> \in docs'
    <2>1. CASE runs[r].receipt
      BY <1>1, <1>2, <2>1 DEF Backed, DeliveriesStay
    <2>2. ASSUME NEW w \in Workers, Writes(w, r), Await(w) = "setSending"
          PROVE  runs'[r].order \in Orders /\ <<runs'[r].order, "receipt">> \in docs'
      <3>1. todo[w] # ReceiptScript
        BY <1>3, <2>2 DEF ReceiptScript
      <3>2. loc[w] \in Orders /\ runs[r].order = loc[w] /\ <<loc[w], "receipt">> \in docs
        BY <1>3, <2>2, <3>1 DEF KnowsDone
      <3>3. QED
        BY <1>2, <1>3, <2>2, <3>2
    <2>3. QED
      BY <1>5, <2>1, <2>2, RowStep
  <1>6. ASSUME runs'[r].status = "awaiting_payment" PROVE runs'[r].invoice
    <2>1. CASE runs[r].status = "awaiting_payment"
      BY <1>1, <2>1, RowStep DEF Backed, Marks
    <2>2. ASSUME NEW w \in Workers, Writes(w, r), Await(w) = "setAwaiting" PROVE runs'[r].invoice
      BY <2>2, WrittenMarks
    <2>3. ASSUME NEW w \in Workers, Writes(w, r), Await(w) = "setRetryable" PROVE runs'[r].invoice
      <3>1. Command(w).type = "payment_process"
        <4>1. "setRetryable" \in DOMAIN HandlerOf /\ HandlerOf["setRetryable"] = "payment_process"
          BY DEF HandlerOf
        <4>2. QED
          <5>1. KnowsDone(w) /\ "setRetryable" \in Ahead(w)
            BY <1>3, <2>3
          <5>2. QED
            BY <4>1, <5>1 DEF KnowsDone
      <3>2. runs[r].invoice
        BY <1>3, <2>3, <3>1, CommandFollows DEF DeliveryInv, Follows, SWP!Busy
      <3>3. QED
        BY <3>2, RowStep DEF Marks
    <2>4. QED
      BY <1>6, <2>1, <2>2, <2>3, RowStep
  <1>7. QED
    BY <1>4, <1>5, <1>6 DEF Backed

\* A payment is accepted when the row says awaiting_payment.
LEMMA PaymentsFollowStep ==
  ASSUME Sound, SagaMove, DeliveryInv
  PROVE  PaymentsFollow'
  <1>1. ASSUME NEW p \in PayRequests, pay'[p] = pay[p], pay[p].at = "checked"
        PROVE  runs'[pay'[p].run].invoice
    <2>1. pay[p].run \in Runs
      BY TypeParts DEF Sound, RequestTypes
    <2>2. QED
      BY <1>1, <2>1, RowStep DEF DeliveryInv, PaymentsFollow, Marks
  <1>2. CASE UNCHANGED pay
    BY <1>1, <1>2 DEF PaymentsFollow
  <1>3. ASSUME NEW q \in PayRequests, NEW r \in Runs, NEW s \in Scenarios, CheckPayment(q, r, s) PROVE PaymentsFollow'
    <2>1. /\ runs[r].invoice /\ UNCHANGED runs
          /\ pay' = [pay EXCEPT ![q] = [at |-> "checked", run |-> r, scenario |-> s]]
      BY <1>3 DEF CheckPayment, dataVars, DeliveryInv, MarksAreBacked, Backed
    <2>2. pay'[q].run = r /\ \A p \in PayRequests \ {q} : pay'[p] = pay[p]
      BY <2>1, TypeParts DEF Sound, RequestTypes
    <2>3. ASSUME NEW p \in PayRequests, pay'[p].at = "checked" PROVE runs'[pay'[p].run].invoice
      BY <1>1, <2>1, <2>2, <2>3
    <2>4. QED
      BY <2>3 DEF PaymentsFollow
  <1>4. ASSUME NEW q \in PayRequests, PublishPayment(q) PROVE PaymentsFollow'
    <2>1. pay'[q].at = "done" /\ \A p \in PayRequests \ {q} : pay'[p] = pay[p]
      BY <1>4, TypeParts DEF Sound, RequestTypes, PublishPayment
    <2>2. ASSUME NEW p \in PayRequests, pay'[p].at = "checked" PROVE runs'[pay'[p].run].invoice
      BY <1>1, <2>1, <2>2
    <2>3. QED
      BY <2>2 DEF PaymentsFollow
  <1>5. ASSUME NEW w \in Workers, Handles(w) \/ Leaves(w) PROVE UNCHANGED pay
    BY <1>5, HandlesFrame DEF Leaves, requestVars
  <1>6. QED
    BY <1>2, <1>3, <1>4, <1>5 DEF SagaMove, Asks, LateCall, FindRun, CreateRun, PublishRun, IntakeDies, requestVars

\* A command is sent when what it follows on has been done.
LEMMA CommandsFollowStep ==
  ASSUME Sound, SagaMove, DeliveryInv
  PROVE  CommandsFollow'
  <1>1. commands \in Seq(CommandRecords)
    BY TypeParts DEF Sound, CommandTypes
  <1> SUFFICES ASSUME NEW i \in 1..Len(commands') PROVE Follows(commands'[i].type, runs'[commands'[i].run])
    BY DEF CommandsFollow
  <1>2. CASE i \in 1..Len(commands)
    <2>1. commands'[i] = commands[i]
      BY <1>2, CommandsKept
    <2>2. commands[i] \in CommandRecords
      BY <1>1, <1>2
    <2>3. Follows(commands[i].type, runs[commands[i].run]) /\ commands[i].run \in Runs
      BY <1>2, <2>2 DEF DeliveryInv, CommandsFollow, CommandRecords
    <2>4. QED
      BY <2>1, <2>3, FollowsStays DEF Follows
  <1>3. CASE i \notin 1..Len(commands)
    <2>1. ASSUME NEW entry, Appends(entry) PROVE commands'[i] = entry
      BY <1>1, <1>3, <2>1 DEF Appends
    <2>2. ASSUME NEW w \in Workers, AtAwait(w, DOMAIN Sends), Appends(NewCommand(w)), UNCHANGED dataVars
          PROVE  Follows(commands'[i].type, runs'[commands'[i].run])
      <3>1. commands'[i].type = Sends[Await(w)] /\ commands'[i].run = RunOf(w)
        BY <2>1, <2>2 DEF NewCommand
      <3>2. pc[w] = "handle" /\ todo[w] # <<>> /\ Await(w) \in DOMAIN Sends /\ Await(w) = Head(todo[w])
        BY <2>2 DEF AtAwait, Handling, Await
      <3>3. KnowsDone(w) /\ Await(w) \in Ahead(w) /\ Follows(Command(w).type, runs[RunOf(w)])
        BY <3>2, AwaitIsAhead, CommandFollows DEF DeliveryInv, HandlersKnowDone, SWP!Busy
      <3>4. runs' = runs
        BY <2>2 DEF dataVars
      <3>5. CASE Await(w) = "sendInvoice"
        BY <3>1, <3>5 DEF Sends, Follows
      <3>6. CASE Await(w) = "sendProcess"
        BY <3>1, <3>3, <3>4, <3>6 DEF Sends, Follows, KnowsDone, HandlerOf
      <3>7. CASE Await(w) = "sendReceipt"
        <4>1. todo[w] \notin {PaidScript, Tail(PaidScript)}
          BY <3>2, <3>7 DEF PaidScript
        <4>2. QED
          BY <3>1, <3>3, <3>4, <3>7, <4>1 DEF Sends, Follows, KnowsDone, HandlerOf
      <3>8. CASE Await(w) = "sendNotify"
        <4>1. todo[w] \notin {ReceiptScript, Tail(ReceiptScript), Tail(Tail(ReceiptScript))}
          BY <3>2, <3>8 DEF ReceiptScript
        <4>2. QED
          BY <3>1, <3>3, <3>4, <3>8, <4>1 DEF Sends, Follows, KnowsDone, HandlerOf
      <3>9. QED
        BY <3>2, <3>5, <3>6, <3>7, <3>8 DEF Sends
    <2>3. ~ UNCHANGED <<commands, appended>>
      BY <1>3
    <2>4. ASSUME NEW r, Appends([type |-> "order_create", run |-> r, scenario |-> "success"])
          PROVE  Follows(commands'[i].type, runs'[commands'[i].run])
      BY <2>1, <2>4 DEF Follows
    <2>5. ASSUME NEW p \in PayRequests, PublishPayment(p),
                 Appends([type |-> "payment_requested", run |-> pay[p].run, scenario |-> pay[p].scenario])
          PROVE  Follows(commands'[i].type, runs'[commands'[i].run])
      BY <2>1, <2>5 DEF Follows, DeliveryInv, PaymentsFollow, PublishPayment, dataVars
    <2>6. QED
      BY <2>2, <2>3, <2>4, <2>5, CommandsStep
  <1>4. QED
    BY <1>2, <1>3

\* Only a run whose handler mailed and moved its order becomes completed.
LEMMA CompletedStep ==
  ASSUME Sound, SagaMove, PaidInv, DeliveryInv
  PROVE  CompletedMeansDelivered'
  <1>1. DeliveriesStay /\ PaidStays /\ PaidIsCharged
    BY DeliveriesStep, PaidDataStep DEF PaidInv
  <1>2. ASSUME NEW r \in Runs, runs[r].order \in Orders,
               runs[r].invoice, runs[r].receipt, runs[r].payment, runs'[r].notification, runs'[r].finished,
               runs[r].order \in mails, orderStatus[runs[r].order] = "notification_sent"
        PROVE  /\ runs'[r].invoice /\ runs'[r].payment /\ runs'[r].receipt /\ runs'[r].notification /\ runs'[r].finished
               /\ runs'[r].order \in mails' /\ charges'[runs'[r].order] > 0
               /\ orderStatus'[runs'[r].order] = "notification_sent"
               /\ {<<runs'[r].order, "invoice">>, <<runs'[r].order, "receipt">>} \subseteq docs'
    <2>1. runs'[r].order = runs[r].order
      BY <1>2, NameKept, CheckoutAssumption DEF PaidInv, NoOrder
    <2>2. runs'[r].invoice /\ runs'[r].payment /\ runs'[r].receipt
      BY <1>2, RowStep DEF Marks
    <2>3. {<<runs[r].order, "invoice">>, <<runs[r].order, "receipt">>} \subseteq docs
      BY <1>2 DEF DeliveryInv, MarksAreBacked, Backed
    <2>4. charges'[runs[r].order] > 0
      BY <1>1, <1>2 DEF PaidIsCharged, Paid, PaidStays
    <2>5. QED
      BY <1>1, <1>2, <2>1, <2>2, <2>3, <2>4 DEF DeliveriesStay
  <1> SUFFICES ASSUME NEW r \in Runs, runs'[r].status = "completed"
               PROVE  /\ runs'[r].invoice /\ runs'[r].payment /\ runs'[r].receipt /\ runs'[r].notification /\ runs'[r].finished
                      /\ runs'[r].order \in mails' /\ charges'[runs'[r].order] > 0
                      /\ orderStatus'[runs'[r].order] = "notification_sent"
                      /\ {<<runs'[r].order, "invoice">>, <<runs'[r].order, "receipt">>} \subseteq docs'
    BY DEF CompletedMeansDelivered
  <1>3. CASE runs[r].status = "completed"
    <2>1. /\ runs[r].invoice /\ runs[r].payment /\ runs[r].receipt /\ runs[r].notification /\ runs[r].finished
          /\ runs[r].order \in mails /\ orderStatus[runs[r].order] = "notification_sent"
      BY <1>3 DEF DeliveryInv, CompletedMeansDelivered
    <2>2. runs[r].order \in Orders
      BY <2>1 DEF DeliveryInv, MarksAreBacked, Backed
    <2>3. runs'[r].notification /\ runs'[r].finished
      BY <2>1, RowStep DEF Marks
    <2>4. QED
      BY <1>2, <2>1, <2>2, <2>3
  <1>4. ASSUME NEW w \in Workers, Writes(w, r), Await(w) = "setCompleted"
        PROVE  /\ runs[r].order \in Orders
               /\ runs[r].invoice /\ runs[r].receipt /\ runs[r].payment /\ runs'[r].notification /\ runs'[r].finished
               /\ runs[r].order \in mails /\ orderStatus[runs[r].order] = "notification_sent"
    <2>1. pc[w] = "handle" /\ todo[w] # <<>> /\ r = RunOf(w) /\ Await(w) = Head(todo[w])
      BY <1>4 DEF Writes, AtAwait, Handling, Await
    <2>2. KnowsDone(w) /\ Await(w) \in Ahead(w) /\ Follows(Command(w).type, runs[r])
      BY <2>1, AwaitIsAhead, CommandFollows DEF DeliveryInv, HandlersKnowDone, SWP!Busy
    <2>3. todo[w] # SentScript
      BY <1>4, <2>1 DEF SentScript
    <2>4. /\ loc[w] \in Orders /\ runs[r].order = loc[w] /\ loc[w] \in mails
          /\ orderStatus[loc[w]] = "notification_sent" /\ Command(w).type = "notification_send"
      BY <1>4, <2>1, <2>2, <2>3 DEF KnowsDone, HandlerOf
    <2>5. QED
      BY <1>4, <2>2, <2>4, WrittenMarks DEF Follows
  <1>5. QED
    BY <1>2, <1>3, <1>4, RowStep
-----------------------------------------------------------------------------
\* What a handler knows after a step.

\* The facts of KnowsDone that a step of another worker, or of the services, keeps.
LEMMA KnowsDoneStays ==
  ASSUME Sound, SagaMove, PaidInv, DeliveryInv, NEW u \in Workers,
         pc[u] = "handle" => cur'[u] = cur[u], todo'[u] = todo[u], loc'[u] = loc[u]
  PROVE  KnowsDone(u)'
  <1>1. Ahead(u)' = Ahead(u)
    BY AheadFrame
  <1>2. CASE pc[u] = "handle"
    <2>1. Command(u)' = Command(u) /\ RunOf(u)' = RunOf(u) /\ RunOf(u) \in Runs
      BY <1>2, OthersCommand, CommandKnown DEF SWP!Busy, RunOf, Sound, CommandRecords
    <2>2. KnowsDone(u) /\ DeliveriesStay
      BY DeliveriesStep DEF DeliveryInv, HandlersKnowDone
    <2>3. ASSUME loc[u] \in Orders, runs[RunOf(u)].order = loc[u] PROVE runs'[RunOf(u)].order = loc[u]
      BY <2>1, <2>3, NameKept, CheckoutAssumption DEF PaidInv, NoOrder
    <2>4. /\ runs[RunOf(u)].payment => runs'[RunOf(u)].payment
          /\ runs[RunOf(u)].receipt => runs'[RunOf(u)].receipt
      BY <2>1, RowStep DEF Marks
    <2>5. "setCompleted" \in Ahead(u) => loc[u] \in Orders
      BY <2>2 DEF KnowsDone
    <2>6. \A label \in Ahead(u) : label \in DOMAIN HandlerOf => Command(u).type = HandlerOf[label]
      BY <2>2 DEF KnowsDone
    <2>7. QED
      BY <1>1, <2>1, <2>2, <2>3, <2>4, <2>5, <2>6 DEF KnowsDone, DeliveriesStay
  <1>3. CASE pc[u] # "handle"
    <2>1. Ahead(u)' = {"require"}
      BY <1>1, <1>3, ScriptAwaits DEF Sound, AtRest, Ahead
    <2>2. "require" \notin DOMAIN HandlerOf
      BY DEF HandlerOf
    <2>3. QED
      BY <2>1, <2>2 DEF KnowsDone
  <1>4. QED
    BY <1>2, <1>3

\* A handler that begins has everything to do, for the order of its run.
LEMMA BeginsKnows ==
  ASSUME Sound, SagaMove, NEW w \in Workers, Handles(w), Begins(w), Ahead(w)' = Awaits(Script[Command(w).type])
  PROVE  KnowsDone(w)'
  <1>1. /\ Command(w)' = Command(w) /\ RunOf(w)' = RunOf(w)
        /\ Command(w) \in CommandRecords /\ RunOf(w) \in Runs
    BY HandlesFrame, OthersCommand, CommandKnown DEF SWP!Busy, RunOf, Sound, CommandRecords
  <1>2. loc'[w] = runs[RunOf(w)].order /\ UNCHANGED runs /\ todo'[w] = Script[Command(w).type]
    BY DEF Begins, dataVars
  <1>3. Command(w).type \notin {"order_create", "payment_requested"} => loc'[w] \in Orders
    <2>1. runs[RunOf(w)].order \in Orders \cup {NoOrder}
      BY <1>1, TypeParts DEF Sound, DataTypes, RunRows
    <2>2. QED
      BY <1>2, <2>1 DEF Begins, MustRefuse
  <1>4. ASSUME NEW type \in DOMAIN Script, NEW label \in Awaits(Script[type]), label \in DOMAIN HandlerOf
        PROVE  HandlerOf[label] = type
    <2>1. CASE type = "order_create"
      BY <1>4, <2>1, ScriptAwaits DEF Script, HandlerOf
    <2>2. CASE type = "generate_invoice"
      BY <1>4, <2>2, ScriptAwaits DEF Script, HandlerOf
    <2>3. CASE type = "payment_requested"
      BY <1>4, <2>3, ScriptAwaits DEF Script, HandlerOf
    <2>4. CASE type = "payment_process"
      BY <1>4, <2>4, ScriptAwaits DEF Script, HandlerOf
    <2>5. CASE type = "generate_receipt"
      BY <1>4, <2>5, ScriptAwaits DEF Script, HandlerOf
    <2>6. CASE type = "notification_send"
      BY <1>4, <2>6, ScriptAwaits DEF Script, HandlerOf
    <2>7. QED
      BY <2>1, <2>2, <2>3, <2>4, <2>5, <2>6 DEF Script
  <1>5. Command(w).type \in DOMAIN Script
    BY <1>1 DEF CommandRecords
  <1>6. \A label \in Ahead(w)' : label \in DOMAIN HandlerOf => Command(w).type = HandlerOf[label]
    BY <1>4, <1>5
  <1>7. /\ "setAwaiting" \in Ahead(w)' => Command(w).type = "generate_invoice"
        /\ "setSending" \in Ahead(w)' => Command(w).type = "generate_receipt"
        /\ "sendNotify" \in Ahead(w)' => Command(w).type = "generate_receipt"
        /\ "postNotification" \in Ahead(w)' => Command(w).type = "notification_send"
    BY <1>6 DEF HandlerOf
  <1>8. "setCompleted" \notin Ahead(w)' /\ "sendReceipt" \notin Ahead(w)'
    <2>1. \A type \in DOMAIN Script : {"setCompleted", "sendReceipt"} \cap Awaits(Script[type]) = {}
      BY ScriptAwaits DEF Script
    <2>2. QED
      BY <1>5, <2>1
  <1>9. Command(w).type = "generate_invoice" => todo'[w] = InvoiceScript
    BY <1>2 DEF Script
  <1>10. Command(w).type = "generate_receipt" => todo'[w] = ReceiptScript
    BY <1>2 DEF Script
  <1>11. Ahead(w)' \cap {"setAwaiting", "setSending", "postNotification", "setCompleted"} # {} =>
           loc'[w] \in Orders /\ runs'[RunOf(w)].order = loc'[w]
    BY <1>2, <1>3, <1>7, <1>8
  <1>12. QED
    BY <1>1, <1>6, <1>7, <1>8, <1>9, <1>10, <1>11 DEF KnowsDone

\* So does one that learned how its payment, or its mail, ended.
LEMMA BranchesKnow ==
  ASSUME Sound, SagaMove, PaidInv, DeliveryInv, NEW w \in Workers, Handles(w), Branches(w),
         \/ /\ Await(w) = "postPayment"
            /\ Ahead(w)' \in {{"movePaid", "setPaid", "sendReceipt"}, {"moveUnpaid", "tell", "setRetryable"},
                              {"moveUnpaid", "tell", "setRejected"}}
         \/ /\ Await(w) = "postNotification"
            /\ Ahead(w)' \in {{"moveNotified", "setCompleted", "tell"}, {"setUnsent", "tell"}}
  PROVE  KnowsDone(w)'
  <1>1. /\ Command(w)' = Command(w) /\ RunOf(w)' = RunOf(w) /\ RunOf(w) \in Runs
    BY HandlesFrame, OthersCommand, CommandKnown DEF SWP!Busy, RunOf, Sound, CommandRecords
  <1>2. loc'[w] = loc[w] /\ HttpStep(w)
    BY DEF Branches, Handles, DbStep, SendStep, TellStep, AtAwait, DbAwaits, Sends
  <1>3. KnowsDone(w) /\ Await(w) \in Ahead(w)
    BY HandlesFrame, AwaitIsAhead DEF DeliveryInv, HandlersKnowDone
  <1>4. CASE Await(w) = "postPayment"
    <2>1. "postPayment" \in DOMAIN HandlerOf /\ HandlerOf["postPayment"] = "payment_process"
      BY DEF HandlerOf
    <2>2. Command(w).type = "payment_process"
      BY <1>3, <1>4, <2>1 DEF KnowsDone
    <2>3. Ahead(w)' \in {{"movePaid", "setPaid", "sendReceipt"}, {"moveUnpaid", "tell", "setRetryable"},
                         {"moveUnpaid", "tell", "setRejected"}}
      BY <1>4
    <2>4. \A label \in Ahead(w)' : label \in DOMAIN HandlerOf => HandlerOf[label] = "payment_process"
      BY <2>3 DEF HandlerOf
    <2>5. "sendReceipt" \in Ahead(w)' => todo'[w] = PaidScript
      <3>1. todo'[w] \in {PaidScript, RetryScript, RejectedScript}
        BY <1>4 DEF Branches
      <3>2. Ahead(w)' = Awaits(todo'[w])
        BY DEF Ahead, Awaits
      <3>3. QED
        BY <3>1, <3>2, ScriptAwaits
    <2>6. Ahead(w)' \cap {"setAwaiting", "setSending", "sendNotify", "postNotification", "setCompleted"} = {}
      BY <2>3
    <2>7. QED
      BY <1>1, <2>2, <2>4, <2>5, <2>6 DEF KnowsDone
  <1>5. CASE Await(w) = "postNotification"
    <2>1. "postNotification" \in DOMAIN HandlerOf /\ HandlerOf["postNotification"] = "notification_send"
      BY DEF HandlerOf
    <2>2. Command(w).type = "notification_send" /\ loc[w] \in Orders /\ runs[RunOf(w)].order = loc[w]
      BY <1>3, <1>5, <2>1 DEF KnowsDone
    <2>3. Ahead(w)' \in {{"moveNotified", "setCompleted", "tell"}, {"setUnsent", "tell"}}
      BY <1>5
    <2>4. \A label \in Ahead(w)' : label \in DOMAIN HandlerOf => HandlerOf[label] = "notification_send"
      BY <2>3 DEF HandlerOf
    <2>5. "setCompleted" \in Ahead(w)' => todo'[w] = SentScript
      <3>1. todo'[w] \in {SentScript, UnsentScript}
        BY <1>5 DEF Branches
      <3>2. Ahead(w)' = Awaits(todo'[w])
        BY DEF Ahead, Awaits
      <3>3. QED
        BY <3>1, <3>2, ScriptAwaits
    <2>6. "setCompleted" \in Ahead(w)' => loc[w] \in mails'
      BY <1>2, <1>5, <2>5, HandlerCallDelivers
    <2>7. runs' = runs
      BY <1>2, HandlerCallDelivers
    <2>8. Ahead(w)' \cap {"setAwaiting", "setSending", "sendNotify", "sendReceipt", "postNotification"} = {}
      BY <2>3
    <2>9. QED
      BY <1>1, <1>2, <2>2, <2>4, <2>5, <2>6, <2>7, <2>8 DEF KnowsDone
  <1>6. QED
    BY <1>4, <1>5

\* And one that has an await less.
LEMMA ProceedsKnows ==
  ASSUME Sound, SagaMove, PaidInv, DeliveryInv, NEW w \in Workers, Handles(w), Proceeds(w),
         Ahead(w)' \subseteq Ahead(w)
  PROVE  KnowsDone(w)'
  <1>1. /\ Command(w)' = Command(w) /\ RunOf(w)' = RunOf(w) /\ RunOf(w) \in Runs
    BY HandlesFrame, OthersCommand, CommandKnown DEF SWP!Busy, RunOf, Sound, CommandRecords
  <1>2. KnowsDone(w) /\ Await(w) \in Ahead(w) /\ Await(w) = Head(todo[w]) /\ DeliveriesStay
    BY HandlesFrame, AwaitIsAhead, DeliveriesStep DEF DeliveryInv, HandlersKnowDone
  <1>3. todo'[w] = Tail(todo[w])
    BY DEF Proceeds
  <1>4. \A label \in Ahead(w)' : label \in DOMAIN HandlerOf => Command(w).type = HandlerOf[label]
    BY <1>2 DEF KnowsDone
  <1>5. CASE Await(w) = "postOrder"
    <2>1. Command(w).type = "order_create"
      BY <1>2, <1>5 DEF PaidInv, OneOrder, CreatesInOrder
    <2>2. \A label \in DOMAIN HandlerOf : HandlerOf[label] # "order_create"
      BY DEF HandlerOf
    <2>3. Ahead(w)' \cap DOMAIN HandlerOf = {}
      BY <1>4, <2>1, <2>2
    <2>4. {"setAwaiting", "setSending", "postNotification", "setCompleted", "sendReceipt", "sendNotify"}
            \subseteq DOMAIN HandlerOf
      BY DEF HandlerOf
    <2>5. Ahead(w)' \cap {"setAwaiting", "setSending", "postNotification", "setCompleted", "sendReceipt", "sendNotify"} = {}
      BY <2>3, <2>4
    <2>6. QED
      BY <1>1, <1>4, <2>5 DEF KnowsDone
  <1>6. CASE Await(w) # "postOrder"
    <2>1. loc'[w] = loc[w]
      BY <1>6 DEF Proceeds
    <2>2. ASSUME loc[w] \in Orders, runs[RunOf(w)].order = loc[w] PROVE runs'[RunOf(w)].order = loc[w]
      BY <1>1, <2>2, NameKept, CheckoutAssumption DEF PaidInv, NoOrder
    <2>3. /\ runs[RunOf(w)].payment => runs'[RunOf(w)].payment
          /\ runs[RunOf(w)].receipt => runs'[RunOf(w)].receipt
      BY <1>1, RowStep DEF Marks
    <2>4. Await(w) \in HttpAwaits => HttpStep(w)
      BY DEF Handles, DbStep, SendStep, TellStep, AtAwait, DbAwaits, HttpAwaits, Sends
    <2>5. Await(w) \in {"setPaid", "setSending"} => Writes(w, RunOf(w))
      BY DEF Handles, DbStep, DbEffect, HttpStep, SendStep, TellStep, AtAwait, DbAwaits, HttpAwaits, Sends, Writes
    <2>6. "setAwaiting" \in Ahead(w) => todo'[w] = Tail(InvoiceScript) \/ <<loc[w], "invoice">> \in docs'
      <3>1. todo[w] = Tail(InvoiceScript) => Await(w) = "postInvoice"
        BY <1>2 DEF InvoiceScript
      <3>2. Await(w) = "postInvoice" => <<loc[w], "invoice">> \in docs'
        BY <2>4, HandlerCallDelivers DEF HttpAwaits
      <3>3. QED
        BY <1>2, <1>3, <3>1, <3>2 DEF KnowsDone, DeliveriesStay
    <2>7. "setSending" \in Ahead(w) => <<loc[w], "receipt">> \in docs'
      <3>1. todo[w] = ReceiptScript => Await(w) = "postReceipt"
        BY <1>2 DEF ReceiptScript
      <3>2. Await(w) = "postReceipt" => <<loc[w], "receipt">> \in docs'
        BY <2>4, HandlerCallDelivers DEF HttpAwaits
      <3>3. QED
        BY <1>2, <3>1, <3>2 DEF KnowsDone, DeliveriesStay
    <2>8. "sendReceipt" \in Ahead(w) => todo'[w] = Tail(PaidScript) \/ runs'[RunOf(w)].payment
      <3>1. todo[w] = Tail(PaidScript) => Await(w) = "setPaid"
        BY <1>2 DEF PaidScript
      <3>2. Await(w) = "setPaid" => runs'[RunOf(w)].payment
        BY <1>1, <2>5, WrittenMarks
      <3>3. QED
        BY <1>2, <1>3, <2>3, <3>1, <3>2 DEF KnowsDone
    <2>9. "sendNotify" \in Ahead(w) =>
            todo'[w] \in {Tail(ReceiptScript), Tail(Tail(ReceiptScript))} \/ runs'[RunOf(w)].receipt
      <3>1. todo[w] = Tail(Tail(ReceiptScript)) => Await(w) = "setSending"
        BY <1>2 DEF ReceiptScript
      <3>2. Await(w) = "setSending" => runs'[RunOf(w)].receipt
        BY <1>1, <2>5, WrittenMarks
      <3>3. QED
        BY <1>2, <1>3, <2>3, <3>1, <3>2 DEF KnowsDone
    <2>10. "setCompleted" \in Ahead(w) =>
             loc[w] \in mails' /\ orderStatus'[loc[w]] = "notification_sent"
      <3>1. todo[w] = SentScript => Await(w) = "moveNotified"
        BY <1>2 DEF SentScript
      <3>2. Await(w) = "moveNotified" => orderStatus'[loc[w]] = "notification_sent"
        BY <2>4, HandlerCallDelivers DEF HttpAwaits
      <3>3. QED
        BY <1>2, <3>1, <3>2 DEF KnowsDone, DeliveriesStay
    <2>11. Ahead(w) \cap {"setAwaiting", "setSending", "postNotification", "setCompleted"} # {} =>
             loc[w] \in Orders /\ runs'[RunOf(w)].order = loc[w]
      BY <1>2, <2>2 DEF KnowsDone
    <2>12. QED
      BY <1>1, <1>4, <2>1, <2>6, <2>7, <2>8, <2>9, <2>10, <2>11 DEF KnowsDone
  <1>7. QED
    BY <1>5, <1>6

\* A handler goes on knowing, whoever takes a step.
LEMMA HandlersKnowDoneStep ==
  ASSUME Sound, SagaMove, PaidInv, DeliveryInv
  PROVE  HandlersKnowDone'
  <1>1. ASSUME NEW w \in Workers, Handles(w) PROVE KnowsDone(w)'
    BY <1>1, AheadAfter, BeginsKnows, BranchesKnow, ProceedsKnows
  <1>2. ASSUME NEW w \in Workers, Handles(w) PROVE HandlersKnowDone'
    <2>1. \A u \in Workers \ {w} : cur'[u] = cur[u] /\ todo'[u] = todo[u] /\ loc'[u] = loc[u]
      BY <1>2, HandlesFrame, HandlesStep DEF Sound, OthersWait
    <2>2. \A u \in Workers : KnowsDone(u)'
      BY <1>1, <1>2, <2>1, KnowsDoneStays
    <2>3. QED
      BY <2>2 DEF HandlersKnowDone
  <1>3. ASSUME NEW w \in Workers, Leaves(w) PROVE HandlersKnowDone'
    <2>1. \A u \in Workers \ {w} : cur'[u] = cur[u] /\ todo'[u] = todo[u] /\ loc'[u] = loc[u]
      BY <1>3, LeavesControl, ForgetFacts DEF Sound, OthersWait, SWP!OthersKeep, Leaves
    <2>2. Ahead(w)' = {"require"}
      BY <1>3, ForgetFacts, ScriptAwaits DEF Sound, Leaves, Ahead
    <2>3. KnowsDone(w)'
      BY <2>2 DEF KnowsDone, HandlerOf
    <2>4. \A u \in Workers : KnowsDone(u)'
      BY <2>1, <2>3, KnowsDoneStays
    <2>5. QED
      BY <2>4 DEF HandlersKnowDone
  <1>4. CASE Asks \/ \E c \in late : LateCall(c)
    <2>1. \A u \in Workers : KnowsDone(u)'
      BY <1>4, RequestFrame, KnowsDoneStays
    <2>2. QED
      BY <2>1 DEF HandlersKnowDone
  <1>5. QED
    BY <1>2, <1>3, <1>4 DEF SagaMove
-----------------------------------------------------------------------------
\* It holds at first.
LEMMA DeliveryInit == Init => DeliveryInv
  <1> SUFFICES ASSUME Init PROVE DeliveryInv
    OBVIOUS
  <1>1. \A w \in Workers : Ahead(w) = {"require"}
    BY ScriptAwaits DEF Init, Ahead
  <1>2. HandlersKnowDone
    BY <1>1 DEF HandlersKnowDone, KnowsDone, HandlerOf
  <1>3. CommandsFollow /\ PaymentsFollow
    BY DEF Init, CommandsFollow, PaymentsFollow
  <1>4. MarksAreBacked /\ CompletedMeansDelivered
    BY DEF Init, NoRun, MarksAreBacked, Backed, CompletedMeansDelivered
  <1>5. QED
    BY <1>2, <1>3, <1>4 DEF DeliveryInv

\* It is kept by every step.
LEMMA DeliveryStep == Sound /\ PaidInv /\ DeliveryInv /\ [Next]_vars => DeliveryInv'
  <1>1. ASSUME DeliveryInv, UNCHANGED vars PROVE DeliveryInv'
    <2>1. UNCHANGED <<runs, orderStatus, charges, docs, mails, pay, commands, todo, loc, cur>>
      BY <1>1 DEF vars, swVars, dataVars, handlerVars, requestVars
    <2>2. \A w \in Workers : KnowsDone(w)' <=> KnowsDone(w)
      BY <2>1 DEF KnowsDone, Ahead, Awaits, RunOf, Command
    <2>3. HandlersKnowDone'
      BY <1>1, <2>2 DEF DeliveryInv, HandlersKnowDone
    <2>4. CommandsFollow' /\ PaymentsFollow'
      BY <1>1, <2>1 DEF DeliveryInv, CommandsFollow, PaymentsFollow
    <2>5. MarksAreBacked' /\ CompletedMeansDelivered'
      BY <1>1, <2>1 DEF DeliveryInv, MarksAreBacked, Backed, CompletedMeansDelivered
    <2>6. QED
      BY <2>3, <2>4, <2>5 DEF DeliveryInv
  <1>2. ASSUME Sound, PaidInv, DeliveryInv, SagaMove PROVE DeliveryInv'
    BY <1>2, HandlersKnowDoneStep, CommandsFollowStep, PaymentsFollowStep, MarksAreBackedStep, CompletedStep
    DEF DeliveryInv
  <1>3. QED
    BY <1>1, <1>2, StepIsSagaMove DEF Sound

\* A completed run names its invoice, payment, receipt and notification, and its order
\* was charged, got both documents and its mail, and is notification_sent, whatever
\* failed, crashed or came late on the way.
THEOREM CompletedShown == Spec => []CompletedMeansDelivered
  <1>1. DeliveryInv => CompletedMeansDelivered
    BY DEF DeliveryInv
  <1>2. QED
    BY <1>1, DeliveryInit, DeliveryStep, PaidInit, PaidStep, AlwaysSound, PTL DEF Spec
-----------------------------------------------------------------------------
\* The commands of one type sent for run r to take a payment that will succeed.
Entries(r, type) ==
  {i \in 1..Len(commands) : commands[i].type = type /\ commands[i].run = r /\ commands[i].scenario = "success"}

\* The awaits up to the XADD of payment.process, and up to POST /payments.
BeforeProcess == {"require", "setRequested", "sendProcess"}
BeforeCharge == {"require", "getOrder", "setProcessing", "postPayment"}

\* The payments whose handler is past sending payment.process, and past charging.
Requested(r) == {i \in Entries(r, "payment_requested") : Spent(i, BeforeProcess)}
Charged(r) == {i \in Entries(r, "payment_process") : Spent(i, BeforeCharge)}

\* A charge that may come yet, its handler gone.
IsCharge(c, o) == c.does = "postPayment" /\ c.order = o /\ c.scenario = "success"
Coming(o) == IF \E c \in late : IsCharge(c, o) THEN 1 ELSE 0

\* The order o exists, and was made for run r.
Owned(o, r) == o \in Orders /\ orderStatus[o] # OL!Absent /\ owner[o] = r

\* The order a row names, or is about to, and the one a call left behind charges, are
\* their own run's.
RowsOwn == \A r \in Runs : runs[r].order # NoOrder => Owned(runs[r].order, r)
HandlersOwn == \A w \in Workers : "setOrder" \in Ahead(w) /\ loc[w] # NoOrder => Owned(loc[w], RunOf(w))
LateOwn == \A c \in late : c.does = "postPayment" => Owned(c.order, c.run)

\* payment.process is sent by payment.requested, in the end.
SendsOnce(w) ==
  "sendProcess" \in Ahead(w) =>
    Command(w).type = "payment_requested" /\ todo[w] \in {PaymentRequestedScript, <<"sendProcess">>}
HandlersSendOnce == \A w \in Workers : SendsOnce(w)

\* No run has more payment.process than requests that sent one.
ProcessesWereAsked ==
  \A r \in Runs : Cardinality(Entries(r, "payment_process")) <= Cardinality(Requested(r))

\* No order has more charges, made or coming, than its run has commands that made one.
ChargesWereProcessed ==
  \A o \in Orders, r \in Runs : owner[o] = r => charges[o] + Coming(o) <= Cardinality(Charged(r))

\* An order that does not exist is charged by nobody.
AbsentUncharged == \A o \in Orders : orderStatus[o] = OL!Absent => charges[o] = 0 /\ Coming(o) = 0

\* The inductive invariant of ChargesShown, next to PaidInv.
ChargeInv ==
  /\ RowsOwn /\ HandlersOwn /\ LateOwn /\ HandlersSendOnce
  /\ ProcessesWereAsked /\ ChargesWereProcessed /\ AbsentUncharged
-----------------------------------------------------------------------------
\* Counting.

\* A part of a finite set is counted, and has less than the whole when it lacks an element.
LEMMA PartCounts ==
  ASSUME NEW T, IsFiniteSet(T), NEW S \in SUBSET T
  PROVE  /\ IsFiniteSet(S)
         /\ Cardinality(S) \in Nat /\ Cardinality(T) \in Nat /\ Cardinality(S) <= Cardinality(T)
         /\ \A x \in T : x \notin S => Cardinality(S) + 1 <= Cardinality(T)
  <1>1. IsFiniteSet(S) /\ Cardinality(S) <= Cardinality(T)
    BY FS_Subset
  <1>2. Cardinality(S) \in Nat /\ Cardinality(T) \in Nat
    BY <1>1, FS_CardinalityType
  <1>3. ASSUME NEW x \in T, x \notin S PROVE Cardinality(S) + 1 <= Cardinality(T)
    <2>1. Cardinality(S \cup {x}) = Cardinality(S) + 1
      BY <1>1, <1>3, FS_AddElement
    <2>2. S \cup {x} \in SUBSET T
      BY <1>3
    <2>3. Cardinality(S \cup {x}) <= Cardinality(T)
      BY <2>2, FS_Subset
    <2>4. QED
      BY <2>1, <2>3
  <1>4. QED
    BY <1>1, <1>2, <1>3

\* The commands can be counted, before a step and after.
LEMMA EntriesCount ==
  ASSUME Sound, SagaMove, NEW r, NEW type
  PROVE  IsFiniteSet(Entries(r, type)) /\ IsFiniteSet(Entries(r, type)')
  <1>1. Len(commands) \in Nat /\ Len(commands') \in Nat
    <2>1. commands \in Seq(CommandRecords)
      BY TypeParts DEF Sound, CommandTypes
    <2>2. commands' \in Seq(CommandRecords)
      BY CommandTypesStep DEF CommandTypes
    <2>3. QED
      BY <2>1, <2>2
  <1>2. IsFiniteSet(1..Len(commands)) /\ IsFiniteSet(1..Len(commands'))
    BY <1>1, FS_Interval
  <1>3. Entries(r, type) \in SUBSET (1..Len(commands)) /\ Entries(r, type)' \in SUBSET (1..Len(commands'))
    BY DEF Entries
  <1>4. QED
    BY <1>2, <1>3, PartCounts

\* The sets of early awaits of a payment.
LEMMA PaymentEarly == IsEarly(BeforeProcess) /\ IsEarly(BeforeCharge)
  BY DEF IsEarly, BeforeProcess, BeforeCharge, BranchAwaits

\* What was sent, or is spent, stays so.
LEMMA EntriesStay ==
  ASSUME Sound, SagaMove, NEW r
  PROVE  /\ \A type : Entries(r, type) \subseteq Entries(r, type)'
         /\ Requested(r) \subseteq Requested(r)'
         /\ Charged(r) \subseteq Charged(r)'
  <1>1. ASSUME NEW type, NEW i \in Entries(r, type) PROVE i \in Entries(r, type)' /\ i \in Nat
    BY CommandsKept DEF Entries
  <1>2. ASSUME NEW i \in Nat, NEW early, IsEarly(early), Spent(i, early) PROVE Spent(i, early)'
    BY <1>2, SpentStep
  <1>3. Requested(r) \subseteq Requested(r)'
    BY <1>1, <1>2, PaymentEarly DEF Requested
  <1>4. Charged(r) \subseteq Charged(r)'
    BY <1>1, <1>2, PaymentEarly DEF Charged
  <1>5. QED
    BY <1>1, <1>3, <1>4
-----------------------------------------------------------------------------
\* Whose order it is.

\* An order stays its run's.
LEMMA OwnedStays ==
  ASSUME Sound, SagaMove, NEW o, NEW r, Owned(o, r)
  PROVE  Owned(o, r)'
  <1>1. orderStatus \in [Orders -> OL!OrderStatuses \cup {OL!Absent}] /\ owner \in [Orders -> Runs]
    BY TypeParts DEF Sound, DataTypes
  <1>2. ASSUME NEW q, Makes(q) PROVE Owned(o, r)'
    BY <1>1, <1>2 DEF Makes, Owned
  <1>3. CASE MakesNone
    BY <1>3 DEF MakesNone, Owned
  <1>4. QED
    BY <1>2, <1>3, OrdersStep

\* Where a row's order comes from.
LEMMA NamedOrder ==
  ASSUME Sound, SagaMove, NEW r \in Runs
  PROVE  \/ runs'[r].order = runs[r].order
         \/ \E w \in Workers : AtAwait(w, {"setOrder"}) /\ r = RunOf(w) /\ runs'[r].order = loc[w]
  <1>1. "order" \in DOMAIN NoRun
    BY DEF NoRun
  <1>2. ASSUME NEW w \in Workers, AtAwait(w, DbAwaits), Await(w) # "require", UpdateRun(RunOf(w), Patch(w))
        PROVE  \/ runs'[r]["order"] = runs[r]["order"]
               \/ AtAwait(w, {"setOrder"}) /\ r = RunOf(w) /\ runs'[r]["order"] = loc[w]
    <2>1. Keeps(w) /\ RunOf(w) \in Runs
      BY <1>2, PatchFacts, CommandKnown DEF Sound, AtAwait, Handling, SWP!Busy, RunOf, CommandRecords
    <2>2. QED
      BY <1>1, <1>2, <2>1, RunColumn DEF Keeps, AtAwait
  <1>3. ASSUME NEW w \in Workers, pc[w] = "markFailed", MarkRunFailed(w) PROVE runs'[r]["order"] = runs[r]["order"]
    <2>1. RunOf(w) \in Runs
      BY <1>3, CommandKnown DEF Sound, SWP!Busy, RunOf, CommandRecords
    <2>2. QED
      BY <1>1, <1>3, <2>1, RunColumn DEF MarkRunFailed
  <1>4. ASSUME NEW q \in Runs, UpdateRun(q, [status |-> "accepted"]) PROVE runs'[r]["order"] = runs[r]["order"]
    BY <1>1, <1>4, RunColumn
  <1>5. QED
    BY <1>2, <1>3, <1>4, RunsStep

\* A row names its own order: the one its handler made.
LEMMA RowsOwnStep ==
  ASSUME Sound, SagaMove, RowsOwn, HandlersOwn
  PROVE  RowsOwn'
  <1>0. ASSUME NEW r \in Runs, NEW o, o = runs'[r].order, o # NoOrder PROVE Owned(o, r)
    <2>1. CASE o = runs[r].order
      BY <1>0, <2>1 DEF RowsOwn
    <2>2. ASSUME NEW w \in Workers, AtAwait(w, {"setOrder"}), r = RunOf(w), o = loc[w] PROVE Owned(o, r)
      <3>1. "setOrder" \in Ahead(w)
        BY <2>2, AwaitIsAhead DEF AtAwait, Handling
      <3>2. QED
        BY <1>0, <2>2, <3>1 DEF HandlersOwn
    <2>3. QED
      BY <1>0, <2>1, <2>2, NamedOrder
  <1>1. ASSUME NEW r \in Runs, NEW o, o = runs'[r].order, o # NoOrder PROVE Owned(o, r)'
    BY <1>0, <1>1, OwnedStays
  <1>2. \A r \in Runs : runs'[r].order # NoOrder => /\ runs'[r].order \in Orders
                                                     /\ orderStatus'[runs'[r].order] # OL!Absent
                                                     /\ owner'[runs'[r].order] = r
    BY <1>1 DEF Owned
  <1>3. QED
    BY <1>2 DEF RowsOwn, Owned
-----------------------------------------------------------------------------
\* What handlers know.

\* A worker is in its handler, or begins with none, or waits.
LEMMA WorkerStep ==
  ASSUME Sound, SagaMove, NEW u \in Workers
  PROVE  \/ Handles(u)
         \/ Ahead(u)' = {"require"}
         \/ /\ todo'[u] = todo[u] /\ loc'[u] = loc[u] /\ Ahead(u)' = Ahead(u)
            /\ Command(u)' = Command(u) /\ RunOf(u)' = RunOf(u)
  <1>1. ASSUME pc[u] = "handle" => cur'[u] = cur[u], todo'[u] = todo[u], loc'[u] = loc[u]
        PROVE  \/ Ahead(u)' = {"require"}
               \/ /\ todo'[u] = todo[u] /\ loc'[u] = loc[u] /\ Ahead(u)' = Ahead(u)
                  /\ Command(u)' = Command(u) /\ RunOf(u)' = RunOf(u)
    <2>1. Ahead(u)' = Ahead(u)
      BY <1>1, AheadFrame
    <2>2. CASE pc[u] = "handle"
      BY <1>1, <2>1, <2>2, OthersCommand DEF SWP!Busy, RunOf
    <2>3. CASE pc[u] # "handle"
      BY <2>1, <2>3, ScriptAwaits DEF Sound, AtRest, Ahead
    <2>4. QED
      BY <2>2, <2>3
  <1>2. ASSUME NEW w \in Workers, w # u, Handles(w)
        PROVE  cur'[u] = cur[u] /\ todo'[u] = todo[u] /\ loc'[u] = loc[u]
    BY <1>2, HandlesFrame, HandlesStep DEF Sound, OthersWait
  <1>3. ASSUME NEW w \in Workers, w # u, Leaves(w)
        PROVE  cur'[u] = cur[u] /\ todo'[u] = todo[u] /\ loc'[u] = loc[u]
    <2>1. OthersWait(w)
      BY <1>3, ForgetFacts DEF Sound, Leaves
    <2>2. SWP!OthersKeep(w)
      BY <1>3, LeavesControl
    <2>3. QED
      BY <1>3, <2>1, <2>2 DEF OthersWait, SWP!OthersKeep
  <1>4. ASSUME Leaves(u) PROVE Ahead(u)' = {"require"}
    BY <1>4, ForgetFacts, ScriptAwaits DEF Sound, Leaves, Ahead
  <1>5. CASE Asks \/ \E c \in late : LateCall(c)
    BY <1>1, <1>5, RequestFrame
  <1>6. QED
    BY <1>1, <1>2, <1>3, <1>4, <1>5 DEF SagaMove

\* A handler has the order its row named, or the one it made.
LEMMA HandlersOwnStep ==
  ASSUME Sound, SagaMove, RowsOwn, HandlersOwn
  PROVE  HandlersOwn'
  <1> SUFFICES ASSUME NEW u \in Workers, "setOrder" \in Ahead(u)', loc'[u] # NoOrder
               PROVE  Owned(loc[u], RunOf(u))'
    BY DEF HandlersOwn
  <1>1. ASSUME NEW o, o = loc'[u], Owned(o, RunOf(u))', RunOf(u)' = RunOf(u) PROVE Owned(loc[u], RunOf(u))'
    BY <1>1 DEF Owned
  <1>2. ASSUME loc'[u] = loc[u], Ahead(u)' \subseteq Ahead(u), RunOf(u)' = RunOf(u)
        PROVE  Owned(loc[u], RunOf(u))'
    <2>1. Owned(loc[u], RunOf(u))
      BY <1>2 DEF HandlersOwn
    <2>2. PICK o, r : o = loc[u] /\ r = RunOf(u)
      OBVIOUS
    <2>3. Owned(o, r)'
      BY <2>1, <2>2, OwnedStays
    <2>4. QED
      BY <1>2, <2>2, <2>3 DEF Owned
  <1>3. CASE Handles(u)
    <2>1. /\ Command(u)' = Command(u) /\ RunOf(u)' = RunOf(u)
          /\ Command(u) \in CommandRecords /\ RunOf(u) \in Runs
      BY <1>3, HandlesFrame, OthersCommand, CommandKnown DEF SWP!Busy, RunOf, Sound, CommandRecords
    <2>2. CASE Begins(u)
      <3>1. loc'[u] = runs[RunOf(u)].order /\ UNCHANGED <<orderStatus, owner>>
        BY <2>2 DEF Begins, dataVars
      <3>2. Owned(runs[RunOf(u)].order, RunOf(u))
        BY <2>1, <3>1 DEF RowsOwn
      <3>3. QED
        BY <2>1, <3>1, <3>2 DEF Owned
    <2>3. CASE Branches(u)
      <3>1. "setOrder" \notin Ahead(u)'
        <4>1. Ahead(u)' = Awaits(todo'[u])
          BY DEF Ahead, Awaits
        <4>2. QED
          BY <2>3, <4>1, ScriptAwaits DEF Branches
      <3>2. QED
        BY <3>1
    <2>4. CASE Proceeds(u) /\ Await(u) = "postOrder"
      <3>1. HttpStep(u)
        BY <1>3, <2>4 DEF Handles, DbStep, SendStep, TellStep, AtAwait, DbAwaits, Sends
      <3>2. PICK sent \in MailOutcomes : HttpEffect(Call(u), sent)
        BY <3>1 DEF HttpStep
      <3>3. CreatesOrder(Call(u))
        BY <2>4, <3>2 DEF HttpEffect, MovesOrder, MakesDocument, ChargesOrder, SendsMail, Call, MoveTo
      <3>4. /\ FreshOrder \in Orders
            /\ orderStatus' = [orderStatus EXCEPT ![FreshOrder] = "created"]
            /\ owner' = [owner EXCEPT ![FreshOrder] = RunOf(u)]
        BY <3>3 DEF CreatesOrder, OL!CreateOrder, Call
      <3>5. orderStatus \in [Orders -> OL!OrderStatuses \cup {OL!Absent}] /\ owner \in [Orders -> Runs]
        BY TypeParts DEF Sound, DataTypes
      <3>6. loc'[u] = FreshOrder
        BY <2>4 DEF Proceeds
      <3>7. QED
        BY <2>1, <3>4, <3>5, <3>6 DEF Owned, OL!Absent
    <2>5. CASE Proceeds(u) /\ Await(u) # "postOrder"
      <3>1. loc'[u] = loc[u] /\ Ahead(u)' \subseteq Ahead(u)
        BY <1>3, <2>5, AheadAfter DEF Proceeds, Begins, Branches
      <3>2. QED
        BY <1>2, <2>1, <3>1
    <2>6. QED
      BY <1>3, <2>2, <2>3, <2>4, <2>5, HandlesStep DEF Sound
  <1>4. CASE Ahead(u)' = {"require"}
    BY <1>4
  <1>5. QED
    BY <1>2, <1>3, <1>4, WorkerStep

\* A handler at the payment has the order of its run, and a payment.process.
LEMMA ChargerOwns ==
  ASSUME Sound, PaidInv, RowsOwn, NEW w \in Workers, AtAwait(w, {"postPayment"})
  PROVE  /\ Owned(loc[w], RunOf(w)) /\ RunOf(w) \in Runs
         /\ Command(w).type = "payment_process" /\ "postPayment" \in Ahead(w)
         /\ cur[w] \in 1..Len(commands) /\ SWP!Holds(w, Commands, cur[w])
  <1>1. "postPayment" \in Ahead(w) /\ pc[w] = "handle"
    BY AwaitIsAhead DEF AtAwait, Handling
  <1>2. /\ cur[w] \in 1..Len(commands) /\ SWP!Holds(w, Commands, cur[w])
        /\ RunOf(w) \in Runs
    BY <1>1, CommandKnown DEF Sound, SWP!Busy, RunOf, CommandRecords
  <1>3. Command(w).type = "payment_process" /\ loc[w] \in Orders /\ runs[RunOf(w)].order = loc[w]
    BY <1>1 DEF PaidInv, HandlersKnowPaid, KnowsPaid
  <1>4. Owned(loc[w], RunOf(w))
    BY <1>2, <1>3, CheckoutAssumption DEF RowsOwn, NoOrder
  <1>5. QED
    BY <1>1, <1>2, <1>3, <1>4

\* A call left behind at the payment charges the order of its run.
LEMMA LateOwnStep ==
  ASSUME Sound, SagaMove, PaidInv, RowsOwn, LateOwn
  PROVE  LateOwn'
  <1>1. ASSUME NEW w \in Workers, AtAwait(w, {"postPayment"}) PROVE Owned(loc[w], RunOf(w))
    BY <1>1, ChargerOwns
  <1>2. ASSUME NEW c \in late', c.does = "postPayment" PROVE Owned(c.order, c.run)
    <2>1. CASE c \in late
      BY <1>2, <2>1 DEF LateOwn
    <2>2. ASSUME NEW w \in Workers, AtAwait(w, HttpAwaits), c = Call(w) PROVE Owned(c.order, c.run)
      BY <1>1, <1>2, <2>2 DEF Call, AtAwait
    <2>3. QED
      BY <2>1, <2>2, LateStep
  <1>3. QED
    BY <1>2, OwnedStays DEF LateOwn

\* payment.process is the last await of payment.requested.
LEMMA HandlersSendOnceStep ==
  ASSUME Sound, SagaMove, HandlersSendOnce
  PROVE  HandlersSendOnce'
  <1> SUFFICES ASSUME NEW u \in Workers PROVE SendsOnce(u)'
    BY DEF HandlersSendOnce
  <1>1. SendsOnce(u)
    BY DEF HandlersSendOnce
  <1>2. CASE Handles(u)
    <2>1. Command(u)' = Command(u) /\ Command(u) \in CommandRecords
      BY <1>2, HandlesFrame, OthersCommand, CommandKnown DEF SWP!Busy, Sound
    <2>2. CASE Begins(u) /\ Ahead(u)' = Awaits(Script[Command(u).type])
      <3>1. CASE Command(u).type = "payment_requested"
        BY <2>1, <2>2, <3>1 DEF Begins, Script, SendsOnce
      <3>2. CASE Command(u).type # "payment_requested"
        <4>1. "sendProcess" \notin Ahead(u)'
          BY <2>1, <2>2, <3>2, ScriptAwaits DEF Script, CommandRecords
        <4>2. QED
          BY <4>1 DEF SendsOnce
      <3>3. QED
        BY <3>1, <3>2
    <2>3. CASE Branches(u)
      <3>1. Ahead(u)' = Awaits(todo'[u])
        BY DEF Ahead, Awaits
      <3>2. "sendProcess" \notin Ahead(u)'
        BY <2>3, <3>1, ScriptAwaits DEF Branches
      <3>3. QED
        BY <3>2 DEF SendsOnce
    <2>4. CASE Proceeds(u) /\ Ahead(u)' \subseteq Ahead(u)
      <3>1. SUFFICES ASSUME "sendProcess" \in Ahead(u)' PROVE SendsOnce(u)'
        BY DEF SendsOnce
      <3>2. Command(u).type = "payment_requested" /\ todo[u] \in {PaymentRequestedScript, <<"sendProcess">>}
        BY <1>1, <2>4, <3>1 DEF SendsOnce
      <3>3. todo'[u] = Tail(todo[u]) /\ Ahead(u)' = Awaits(todo'[u])
        BY <2>4 DEF Proceeds, Ahead, Awaits
      <3>4. todo[u] # <<"sendProcess">>
        <4>1. Tail(<<"sendProcess">>) = <<>> /\ DOMAIN <<>> = {}
          OBVIOUS
        <4>2. QED
          BY <3>1, <3>3, <4>1 DEF Awaits
      <3>5. todo'[u] = <<"sendProcess">>
        <4>1. Tail(PaymentRequestedScript) = <<"sendProcess">>
          BY DEF PaymentRequestedScript
        <4>2. QED
          BY <3>2, <3>3, <3>4, <4>1
      <3>6. QED
        BY <2>1, <3>2, <3>5 DEF SendsOnce
    <2>5. QED
      BY <1>2, <2>2, <2>3, <2>4, AheadAfter
  <1>3. CASE Ahead(u)' = {"require"}
    BY <1>3 DEF SendsOnce
  <1>4. CASE todo'[u] = todo[u] /\ Ahead(u)' = Ahead(u) /\ Command(u)' = Command(u)
    BY <1>1, <1>4 DEF SendsOnce
  <1>5. QED
    BY <1>2, <1>3, <1>4, WorkerStep
-----------------------------------------------------------------------------
\* A payment.process for every one asked, at most.

\* The commands after one was appended.
LEMMA EntriesAfter ==
  ASSUME Sound, NEW entry \in CommandRecords, Appends(entry), NEW r, NEW type
  PROVE  Entries(r, type)' \subseteq
           Entries(r, type) \cup {k \in {Len(commands) + 1} :
                                    entry.type = type /\ entry.run = r /\ entry.scenario = "success"}
  <1>1. commands \in Seq(CommandRecords)
    BY TypeParts DEF Sound, CommandTypes
  <1>2. ASSUME NEW i \in 1..Len(commands')
        PROVE  \/ i \in 1..Len(commands) /\ commands'[i] = commands[i]
               \/ i = Len(commands) + 1 /\ commands'[i] = entry
    BY <1>1 DEF Appends
  <1>3. QED
    BY <1>2 DEF Entries

\* Only a payment.requested sends a payment.process, one.
LEMMA NewProcess ==
  ASSUME Sound, SagaMove, NEW r \in Runs
  PROVE  \/ Entries(r, "payment_process")' \subseteq Entries(r, "payment_process")
         \/ /\ Entries(r, "payment_process")' \subseteq Entries(r, "payment_process") \cup {Len(commands) + 1}
            /\ \E w \in Workers : /\ AtAwait(w, {"sendProcess"}) /\ (Handles(w) \/ Leaves(w))
                                  /\ RunOf(w) = r /\ Command(w).scenario = "success"
  <1>1. CASE UNCHANGED commands
    BY <1>1 DEF Entries
  <1>2. ASSUME NEW w \in Workers, AtAwait(w, DOMAIN Sends), Appends(NewCommand(w)), Handles(w) \/ Leaves(w)
        PROVE  \/ Entries(r, "payment_process")' \subseteq Entries(r, "payment_process")
               \/ /\ Entries(r, "payment_process")' \subseteq Entries(r, "payment_process") \cup {Len(commands) + 1}
                  /\ AtAwait(w, {"sendProcess"}) /\ RunOf(w) = r /\ Command(w).scenario = "success"
    <2>1. Command(w) \in CommandRecords
      BY <1>2, CommandKnown DEF Sound, AtAwait, Handling, SWP!Busy
    <2>2. Sends[Await(w)] \in DOMAIN Script /\ (Sends[Await(w)] = "payment_process" => Await(w) = "sendProcess")
      BY <1>2 DEF AtAwait, Sends, Script
    <2>3. NewCommand(w) \in CommandRecords /\ NewCommand(w).type = Sends[Await(w)]
          /\ NewCommand(w).run = RunOf(w) /\ NewCommand(w).scenario = Command(w).scenario
      BY <2>1, <2>2 DEF NewCommand, RunOf, CommandRecords
    <2>4. Entries(r, "payment_process")' \subseteq
            Entries(r, "payment_process") \cup
              {k \in {Len(commands) + 1} : /\ NewCommand(w).type = "payment_process" /\ NewCommand(w).run = r
                                           /\ NewCommand(w).scenario = "success"}
      BY <1>2, <2>3, EntriesAfter
    <2>5. QED
      BY <1>2, <2>2, <2>3, <2>4 DEF AtAwait
  <1>3. ASSUME NEW entry \in CommandRecords, Appends(entry), entry.type # "payment_process"
        PROVE  Entries(r, "payment_process")' \subseteq Entries(r, "payment_process")
    <2>1. Entries(r, "payment_process")' \subseteq
            Entries(r, "payment_process") \cup
              {k \in {Len(commands) + 1} : /\ entry.type = "payment_process" /\ entry.run = r
                                           /\ entry.scenario = "success"}
      BY <1>3, EntriesAfter
    <2>2. QED
      BY <1>3, <2>1
  <1>4. ASSUME NEW q \in Runs
        PROVE  [type |-> "order_create", run |-> q, scenario |-> "success"] \in CommandRecords
    BY DEF CommandRecords, Script, Outcome
  <1>5. ASSUME NEW p \in PayRequests
        PROVE  [type |-> "payment_requested", run |-> pay[p].run, scenario |-> pay[p].scenario] \in CommandRecords
    BY TypeParts, CheckoutAssumption DEF Sound, RequestTypes, CommandRecords, Script, Outcome
  <1>6. QED
    BY <1>1, <1>2, <1>3, <1>4, <1>5, CommandsStep

\* The command that sends it is spent with it, and was not before.
LEMMA SenderIsSpent ==
  ASSUME Sound, SagaMove, HandlersSendOnce, NEW w \in Workers, AtAwait(w, {"sendProcess"}), Handles(w) \/ Leaves(w),
         NEW r, RunOf(w) = r, Command(w).scenario = "success"
  PROVE  \E i \in Requested(r)' : i \notin Requested(r)
  <1>1. pc[w] = "handle" /\ todo[w] # <<>> /\ Await(w) = "sendProcess" /\ "sendProcess" \in Ahead(w)
    BY AwaitIsAhead DEF AtAwait, Handling
  <1>2. /\ cur[w] \in 1..Len(commands) /\ SWP!Holds(w, Commands, cur[w])
        /\ Command(w).type = "payment_requested" /\ todo[w] = <<"sendProcess">>
    <2>1. todo[w] # PaymentRequestedScript
      BY <1>1 DEF Await, PaymentRequestedScript
    <2>2. QED
      BY <1>1, <2>1, CommandKnown DEF Sound, SWP!Busy, HandlersSendOnce, SendsOnce
  <1>3. cur[w] \in Entries(r, "payment_requested")
    BY <1>2 DEF Entries, Command, RunOf
  <1>4. ~ Spent(cur[w], BeforeProcess)
    BY <1>1, <1>2 DEF Spent, BeforeProcess
  <1>5. ASSUME Handles(w) PROVE Ahead(w)' \cap BeforeProcess = {}
    <2>1. todo'[w] = Tail(todo[w])
      BY <1>1, <1>5, HandlesStep DEF Sound, Begins, Branches, Proceeds
    <2>2. Tail(<<"sendProcess">>) = <<>> /\ DOMAIN <<>> = {}
      OBVIOUS
    <2>3. QED
      BY <1>2, <2>1, <2>2 DEF Ahead, Awaits
  <1>6. ASSUME NEW i, i = cur[w] PROVE i \in Requested(r)' /\ i \notin Requested(r)
    <2>1. i \in Nat /\ Spent(i, BeforeProcess)'
      BY <1>1, <1>2, <1>5, <1>6, SpentByHandler
    <2>2. i \in Entries(r, "payment_requested")'
      BY <1>3, <1>6, EntriesStay
    <2>3. QED
      BY <1>4, <1>6, <2>1, <2>2 DEF Requested
  <1>7. QED
    BY <1>6

\* It counts no more payment.process than commands that sent one.
LEMMA ProcessesWereAskedStep ==
  ASSUME Sound, SagaMove, HandlersSendOnce, ProcessesWereAsked
  PROVE  ProcessesWereAsked'
  <1> SUFFICES ASSUME NEW r \in Runs
               PROVE  Cardinality(Entries(r, "payment_process")') <= Cardinality(Requested(r)')
    BY DEF ProcessesWereAsked
  <1> DEFINE Sent == Entries(r, "payment_process")
  <1>1. IsFiniteSet(Sent) /\ IsFiniteSet(Sent')
    BY EntriesCount
  <1>2. Cardinality(Sent) \in Nat /\ Cardinality(Sent') \in Nat
    BY <1>1, FS_CardinalityType
  <1>3. /\ Requested(r) \in SUBSET Requested(r)'
        /\ IsFiniteSet(Requested(r)')
    <2>1. IsFiniteSet(Entries(r, "payment_requested")')
      BY EntriesCount
    <2>2. Requested(r)' \in SUBSET Entries(r, "payment_requested")'
      BY DEF Requested
    <2>3. IsFiniteSet(Requested(r)')
      BY <2>1, <2>2, FS_Subset
    <2>4. QED
      BY <2>3, EntriesStay
  <1>4. /\ Cardinality(Requested(r)) \in Nat /\ Cardinality(Requested(r)') \in Nat
        /\ Cardinality(Requested(r)) <= Cardinality(Requested(r)')
        /\ \A i \in Requested(r)' : i \notin Requested(r) => Cardinality(Requested(r)) + 1 <= Cardinality(Requested(r)')
    BY <1>3, PartCounts
  <1>5. Cardinality(Sent) <= Cardinality(Requested(r))
    BY DEF ProcessesWereAsked
  <1>6. CASE Sent' \subseteq Sent
    <2>1. Cardinality(Sent') <= Cardinality(Sent)
      BY <1>1, <1>6, FS_Subset
    <2>2. QED
      BY <1>2, <1>4, <1>5, <2>1
  <1>7. ASSUME Sent' \subseteq Sent \cup {Len(commands) + 1},
               NEW w \in Workers, AtAwait(w, {"sendProcess"}), Handles(w) \/ Leaves(w),
               RunOf(w) = r, Command(w).scenario = "success"
        PROVE  Cardinality(Sent') <= Cardinality(Requested(r)')
    <2>1. Cardinality(Sent') <= Cardinality(Sent) + 1
      <3>1. /\ IsFiniteSet(Sent \cup {Len(commands) + 1})
            /\ Cardinality(Sent \cup {Len(commands) + 1}) \in {Cardinality(Sent), Cardinality(Sent) + 1}
        BY <1>1, FS_AddElement
      <3>2. Cardinality(Sent') <= Cardinality(Sent \cup {Len(commands) + 1})
        BY <1>7, <3>1, FS_Subset
      <3>3. QED
        BY <1>2, <3>1, <3>2
    <2>2. Cardinality(Requested(r)) + 1 <= Cardinality(Requested(r)')
      BY <1>4, <1>7, SenderIsSpent
    <2>3. QED
      BY <1>2, <1>4, <1>5, <2>1, <2>2
  <1>8. QED
    BY <1>6, <1>7, NewProcess
-----------------------------------------------------------------------------
\* A charge for every payment.process, at most.

\* The call charges the order it names, if the scenario lets it.
Adds(c) == charges' = [charges EXCEPT ![c.order] = @ + (IF Outcome[c.scenario] = "completed" THEN 1 ELSE 0)]

\* Only the payment service charges.
LEMMA CallCharges ==
  ASSUME NEW c, NEW sent, HttpEffect(c, sent)
  PROVE  IF c.does = "postPayment" THEN Adds(c) ELSE UNCHANGED charges
  BY DEF HttpEffect, CreatesOrder, MovesOrder, MakesDocument, ChargesOrder, SendsMail, dataVars, MoveTo, Adds

\* What a step does to charges, and to the calls that may charge later.
LEMMA ChargesStep ==
  ASSUME Sound, SagaMove
  PROVE  \/ UNCHANGED charges /\ \A c \in late' : c.does = "postPayment" => c \in late
         \/ \E w \in Workers :
              AtAwait(w, {"postPayment"}) /\ Leaves(w) /\ UNCHANGED charges /\ late' = late \cup {Call(w)}
         \/ \E w \in Workers :
              AtAwait(w, {"postPayment"}) /\ Handles(w) /\ Adds(Call(w)) /\ UNCHANGED late
         \/ \E c \in late : c.does = "postPayment" /\ late' = late \ {c} /\ Adds(c)
  <1> USE DEF Sound
  <1>1. UNCHANGED dataVars => UNCHANGED charges
    BY DEF dataVars
  <1>2. ASSUME NEW w \in Workers, HttpStep(w)
        PROVE  \/ UNCHANGED charges /\ UNCHANGED late
               \/ AtAwait(w, {"postPayment"}) /\ Handles(w) /\ Adds(Call(w)) /\ UNCHANGED late
    <2>1. PICK sent \in MailOutcomes : HttpEffect(Call(w), sent)
      BY <1>2 DEF HttpStep
    <2>2. Call(w).does = Await(w)
      BY DEF Call
    <2>3. IF Await(w) = "postPayment" THEN Adds(Call(w)) ELSE UNCHANGED charges
      BY <2>1, <2>2, CallCharges
    <2>4. QED
      BY <1>2, <2>3 DEF HttpStep, AtAwait, Handles
  <1>3. ASSUME NEW w \in Workers, DbStep(w) \/ SendStep(w) \/ TellStep(w) PROVE UNCHANGED charges /\ UNCHANGED late
    BY <1>1, <1>3 DEF DbStep, DbEffect, SendStep, TellStep
  <1>4. ASSUME NEW w \in Workers, Leaves(w)
        PROVE  \/ UNCHANGED charges /\ \A c \in late' : c.does = "postPayment" => c \in late
               \/ AtAwait(w, {"postPayment"}) /\ Leaves(w) /\ UNCHANGED charges /\ late' = late \cup {Call(w)}
    <2>1. UNCHANGED charges
      BY <1>1, <1>4 DEF Leaves, LeavesUndone, DbEffect, MarkRunFailed
    <2>2. CASE UNCHANGED late
      BY <2>1, <2>2
    <2>3. CASE AtAwait(w, HttpAwaits \ {"getOrder"}) /\ late' = late \cup {Call(w)}
      <3>1. Call(w).does = Await(w)
        BY DEF Call
      <3>2. QED
        BY <1>4, <2>1, <2>3, <3>1 DEF AtAwait
    <2>4. QED
      BY <1>4, <2>2, <2>3 DEF Leaves, LeaveCall
  <1>5. ASSUME NEW c \in late, LateCall(c)
        PROVE  \/ UNCHANGED charges /\ \A d \in late' : d.does = "postPayment" => d \in late
               \/ c.does = "postPayment" /\ late' = late \ {c} /\ Adds(c)
    <2>1. late' = late \ {c}
      BY <1>5 DEF LateCall
    <2>2. CASE UNCHANGED dataVars
      BY <1>1, <2>1, <2>2
    <2>3. ASSUME NEW sent \in MailOutcomes, HttpEffect(c, sent)
          PROVE  IF c.does = "postPayment" THEN Adds(c) ELSE UNCHANGED charges
      BY <2>3, CallCharges
    <2>4. QED
      BY <1>5, <2>1, <2>2, <2>3 DEF LateCall
  <1>6. CASE Asks
    <2>1. UNCHANGED charges /\ UNCHANGED late
      BY <1>1, <1>6 DEF Asks, FindRun, CreateRun, PublishRun, IntakeDies, PublishPayment, CheckPayment
    <2>2. QED
      BY <2>1
  <1>7. QED
    BY <1>2, <1>3, <1>4, <1>5, <1>6 DEF SagaMove, Handles

\* What was charged, and may be yet, is a number.
LEMMA ChargesCount ==
  ASSUME Sound, SagaMove, NEW o \in Orders
  PROVE  /\ charges[o] \in Nat /\ charges'[o] \in Nat
         /\ Coming(o) \in {0, 1} /\ Coming(o)' \in {0, 1}
  <1>1. charges \in [Orders -> Nat] /\ charges' \in [Orders -> Nat]
    BY TypeParts, DataTypesStep DEF Sound, DataTypes
  <1>2. QED
    BY <1>1 DEF Coming

\* An order is charged, or left to be, once more only by a handler at its payment.
LEMMA ChargerStep ==
  ASSUME Sound, SagaMove, LateOwn, NEW o \in Orders
  PROVE  \/ charges'[o] + Coming(o)' <= charges[o] + Coming(o)
         \/ /\ charges'[o] + Coming(o)' <= charges[o] + Coming(o) + 1
            /\ \E w \in Workers : /\ AtAwait(w, {"postPayment"}) /\ (Handles(w) \/ Leaves(w))
                                  /\ loc[w] = o /\ Command(w).scenario = "success"
  <1> DEFINE One(w) == /\ AtAwait(w, {"postPayment"}) /\ (Handles(w) \/ Leaves(w))
                       /\ loc[w] = o /\ Command(w).scenario = "success"
  <1>1. charges[o] \in Nat /\ charges'[o] \in Nat /\ Coming(o) \in {0, 1} /\ Coming(o)' \in {0, 1}
    BY ChargesCount
  <1>2. charges \in [Orders -> Nat] /\ late \subseteq CallRows
    BY TypeParts DEF Sound, DataTypes
  <1>3. ASSUME NEW c, c.scenario \in DOMAIN Outcome, Adds(c)
        PROVE  charges'[o] = charges[o] + (IF c.order = o /\ c.scenario = "success" THEN 1 ELSE 0)
    BY <1>1, <1>2, <1>3 DEF Adds, Outcome
  <1>4. CASE UNCHANGED charges /\ \A c \in late' : c.does = "postPayment" => c \in late
    <2>1. Coming(o)' <= Coming(o)
      BY <1>4 DEF Coming, IsCharge
    <2>2. QED
      BY <1>1, <1>4, <2>1
  <1>5. ASSUME NEW w \in Workers, AtAwait(w, {"postPayment"}), Leaves(w), UNCHANGED charges, late' = late \cup {Call(w)}
        PROVE  \/ charges'[o] + Coming(o)' <= charges[o] + Coming(o)
               \/ charges'[o] + Coming(o)' <= charges[o] + Coming(o) + 1 /\ One(w)
    <2>1. CASE IsCharge(Call(w), o)
      BY <1>1, <1>5, <2>1 DEF IsCharge, Call
    <2>2. CASE ~ IsCharge(Call(w), o)
      <3>1. Coming(o)' <= Coming(o)
        BY <1>5, <2>2 DEF Coming
      <3>2. QED
        BY <1>1, <1>5, <3>1
    <2>3. QED
      BY <2>1, <2>2
  <1>6. ASSUME NEW w \in Workers, AtAwait(w, {"postPayment"}), Handles(w), Adds(Call(w)), UNCHANGED late
        PROVE  \/ charges'[o] + Coming(o)' <= charges[o] + Coming(o)
               \/ charges'[o] + Coming(o)' <= charges[o] + Coming(o) + 1 /\ One(w)
    <2>1. Coming(o)' = Coming(o)
      BY <1>6 DEF Coming
    <2>2. Call(w).scenario \in DOMAIN Outcome /\ Call(w).order = loc[w] /\ Call(w).scenario = Command(w).scenario
      BY <1>6, CommandKnown DEF Sound, AtAwait, Handling, SWP!Busy, CommandRecords, Call
    <2>3. charges'[o] = charges[o] + (IF loc[w] = o /\ Command(w).scenario = "success" THEN 1 ELSE 0)
      BY <1>3, <1>6, <2>2
    <2>4. QED
      BY <1>1, <1>6, <2>1, <2>3
  <1>7. ASSUME NEW c \in late, c.does = "postPayment", late' = late \ {c}, Adds(c)
        PROVE  charges'[o] + Coming(o)' <= charges[o] + Coming(o)
    <2>1. c \in CallRows
      BY <1>2, <1>7
    <2>2. charges'[o] = charges[o] + (IF c.order = o /\ c.scenario = "success" THEN 1 ELSE 0)
      BY <1>3, <1>7, <2>1 DEF CallRows
    <2>3. Coming(o)' <= Coming(o)
      BY <1>7 DEF Coming
    <2>4. ASSUME IsCharge(c, o) PROVE Coming(o) = 1 /\ Coming(o)' = 0
      <3>1. ASSUME NEW d \in late, IsCharge(d, o) PROVE d = c
        <4>1. d.run = c.run
          BY <2>4, <3>1 DEF LateOwn, Owned, IsCharge
        <4>2. d \in CallRows
          BY <1>2
        <4>3. QED
          BY <2>1, <2>4, <3>1, <4>1, <4>2 DEF CallRows, IsCharge
      <3>2. QED
        BY <1>7, <2>4, <3>1 DEF Coming
    <2>5. QED
      BY <1>1, <1>7, <2>2, <2>3, <2>4 DEF IsCharge
  <1>8. QED
    BY <1>4, <1>5, <1>6, <1>7, ChargesStep

\* The command that charges is spent with it, and was not before.
LEMMA ChargerIsSpent ==
  ASSUME Sound, SagaMove, PaidInv, RowsOwn, NEW w \in Workers, AtAwait(w, {"postPayment"}), Handles(w) \/ Leaves(w),
         NEW r, RunOf(w) = r, Command(w).scenario = "success"
  PROVE  \E i \in Charged(r)' : i \notin Charged(r)
  <1>1. pc[w] = "handle" /\ Await(w) = "postPayment"
    BY DEF AtAwait, Handling
  <1>2. /\ cur[w] \in 1..Len(commands) /\ SWP!Holds(w, Commands, cur[w])
        /\ Command(w).type = "payment_process" /\ "postPayment" \in Ahead(w)
    BY ChargerOwns
  <1>3. cur[w] \in Entries(r, "payment_process")
    BY <1>2 DEF Entries, Command, RunOf
  <1>4. ~ Spent(cur[w], BeforeCharge)
    BY <1>1, <1>2 DEF Spent, BeforeCharge
  <1>5. ASSUME Handles(w) PROVE Ahead(w)' \cap BeforeCharge = {}
    BY <1>1, <1>5, AheadAfter DEF Begins, Proceeds, BeforeCharge
  <1>6. ASSUME NEW i, i = cur[w] PROVE i \in Charged(r)' /\ i \notin Charged(r)
    <2>1. i \in Nat /\ Spent(i, BeforeCharge)'
      <3>1. i \in Nat
        BY <1>2, <1>6
      <3>2. QED
        BY <1>1, <1>5, <1>6, <3>1, SpentByHandler
    <2>2. i \in Entries(r, "payment_process")'
      BY <1>3, <1>6, EntriesStay
    <2>3. QED
      BY <1>4, <1>6, <2>1, <2>2 DEF Charged
  <1>7. QED
    BY <1>6

\* What is charged of an order, and of one that does not exist.
LEMMA ChargesWereProcessedStep ==
  ASSUME Sound, SagaMove, PaidInv, RowsOwn, LateOwn, ChargesWereProcessed, AbsentUncharged
  PROVE  ChargesWereProcessed' /\ AbsentUncharged'
  <1>1. ASSUME NEW o \in Orders, orderStatus[o] = OL!Absent PROVE charges'[o] = 0 /\ Coming(o)' = 0
    <2>1. charges[o] = 0 /\ Coming(o) = 0
      BY <1>1 DEF AbsentUncharged
    <2>2. ASSUME NEW w \in Workers, AtAwait(w, {"postPayment"}), loc[w] = o PROVE FALSE
      <3>1. Owned(loc[w], RunOf(w))
        BY <2>2, ChargerOwns
      <3>2. QED
        BY <1>1, <2>2, <3>1 DEF Owned
    <2>3. charges'[o] + Coming(o)' <= charges[o] + Coming(o)
      BY <2>2, ChargerStep
    <2>4. QED
      BY <2>1, <2>3, ChargesCount
  <1>2. ASSUME NEW o \in Orders, orderStatus[o] # OL!Absent
        PROVE  /\ orderStatus'[o] # OL!Absent /\ owner'[o] = owner[o]
               /\ charges'[o] + Coming(o)' <= Cardinality(Charged(owner[o])')
    <2>1. ASSUME NEW r, r = owner[o]
          PROVE  /\ orderStatus'[o] # OL!Absent /\ owner'[o] = r
                 /\ charges'[o] + Coming(o)' <= Cardinality(Charged(r)')
      <3>1. /\ orderStatus'[o] # OL!Absent /\ owner'[o] = r
        BY <1>2, <2>1, OwnedStays DEF Owned
      <3>2. r \in Runs
        BY <2>1, TypeParts DEF Sound, DataTypes
      <3>3. charges[o] + Coming(o) <= Cardinality(Charged(r))
        BY <2>1, <3>2 DEF ChargesWereProcessed
      <3>4. /\ Charged(r) \in SUBSET Charged(r)'
            /\ IsFiniteSet(Charged(r)')
        <4>1. IsFiniteSet(Entries(r, "payment_process")')
          BY EntriesCount
        <4>2. Charged(r)' \in SUBSET Entries(r, "payment_process")'
          BY DEF Charged
        <4>3. IsFiniteSet(Charged(r)')
          BY <4>1, <4>2, FS_Subset
        <4>4. QED
          BY <4>3, EntriesStay
      <3>5. /\ Cardinality(Charged(r)) \in Nat /\ Cardinality(Charged(r)') \in Nat
            /\ Cardinality(Charged(r)) <= Cardinality(Charged(r)')
            /\ \A i \in Charged(r)' : i \notin Charged(r) => Cardinality(Charged(r)) + 1 <= Cardinality(Charged(r)')
        BY <3>4, PartCounts
      <3>6. /\ charges[o] \in Nat /\ charges'[o] \in Nat /\ Coming(o) \in Nat /\ Coming(o)' \in Nat
        BY ChargesCount
      <3>7. CASE charges'[o] + Coming(o)' <= charges[o] + Coming(o)
        BY <3>1, <3>3, <3>5, <3>6, <3>7
      <3>8. ASSUME charges'[o] + Coming(o)' <= charges[o] + Coming(o) + 1,
                   NEW w \in Workers, AtAwait(w, {"postPayment"}), Handles(w) \/ Leaves(w),
                   loc[w] = o, Command(w).scenario = "success"
            PROVE  charges'[o] + Coming(o)' <= Cardinality(Charged(r)')
        <4>1. RunOf(w) = r
          BY <2>1, <3>8, ChargerOwns DEF Owned
        <4>2. Cardinality(Charged(r)) + 1 <= Cardinality(Charged(r)')
          BY <3>5, <3>8, <4>1, ChargerIsSpent
        <4>3. QED
          BY <3>3, <3>5, <3>6, <3>8, <4>2
      <3>9. QED
        BY <3>1, <3>7, <3>8, ChargerStep
    <2>2. QED
      BY <2>1
  <1>3. AbsentUncharged'
    BY <1>1, <1>2 DEF AbsentUncharged
  <1>4. ASSUME NEW o \in Orders, NEW r \in Runs, owner'[o] = r
        PROVE  charges'[o] + Coming(o)' <= Cardinality(Charged(r)')
    <2>1. CASE orderStatus[o] = OL!Absent
      <3>1. Cardinality(Charged(r)') \in Nat
        <4>1. IsFiniteSet(Entries(r, "payment_process")')
          BY EntriesCount
        <4>2. Charged(r)' \in SUBSET Entries(r, "payment_process")'
          BY DEF Charged
        <4>3. QED
          BY <4>1, <4>2, PartCounts
      <3>2. QED
        BY <1>1, <2>1, <3>1
    <2>2. CASE orderStatus[o] # OL!Absent
      <3>1. r = owner[o]
        BY <1>2, <1>4, <2>2
      <3>2. QED
        BY <1>2, <2>2, <3>1
    <2>3. QED
      BY <2>1, <2>2
  <1>5. QED
    BY <1>3, <1>4 DEF ChargesWereProcessed
-----------------------------------------------------------------------------
\* It holds at first.
LEMMA ChargeInit == Init => ChargeInv
  <1> SUFFICES ASSUME Init PROVE ChargeInv
    OBVIOUS
  <1>1. RowsOwn /\ LateOwn
    BY DEF Init, RowsOwn, LateOwn, NoRun
  <1>2. HandlersOwn
    BY DEF Init, HandlersOwn
  <1>3. HandlersSendOnce
    <2>1. \A w \in Workers : Ahead(w) = {"require"}
      BY ScriptAwaits DEF Init, Ahead
    <2>2. QED
      BY <2>1 DEF HandlersSendOnce, SendsOnce
  <1>4. ASSUME NEW r, NEW type PROVE Entries(r, type) = {}
    BY DEF Init, Entries
  <1>5. Cardinality({}) = 0
    BY FS_EmptySet
  <1>6. ASSUME NEW r PROVE Requested(r) = {} /\ Charged(r) = {}
    BY <1>4 DEF Requested, Charged
  <1>7. ProcessesWereAsked
    BY <1>4, <1>5, <1>6 DEF ProcessesWereAsked
  <1>8. \A o \in Orders : charges[o] = 0 /\ Coming(o) = 0
    BY DEF Init, Coming
  <1>9. ChargesWereProcessed /\ AbsentUncharged
    BY <1>5, <1>6, <1>8 DEF ChargesWereProcessed, AbsentUncharged
  <1>10. QED
    BY <1>1, <1>2, <1>3, <1>7, <1>9 DEF ChargeInv

\* It is kept by every step.
LEMMA ChargeStep == Sound /\ PaidInv /\ ChargeInv /\ [Next]_vars => ChargeInv'
  <1>1. ASSUME ChargeInv, UNCHANGED vars PROVE ChargeInv'
    <2>1. UNCHANGED <<runs, orderStatus, owner, charges, late, commands, todo, loc, cur, hi, on, pc, delivered>>
      BY <1>1 DEF vars, swVars, dataVars, handlerVars, requestVars
    <2>2. \A i, early : Spent(i, early)' <=> Spent(i, early)
      BY <2>1 DEF Spent, SWP!Holds, Ahead, Awaits
    <2>3. \A r : Requested(r)' = Requested(r) /\ Charged(r)' = Charged(r)
      BY <2>1, <2>2 DEF Requested, Charged, Entries
    <2>4. \A r, type : Entries(r, type)' = Entries(r, type)
      BY <2>1 DEF Entries
    <2>5. RowsOwn' /\ LateOwn'
      BY <1>1, <2>1 DEF ChargeInv, RowsOwn, LateOwn, Owned
    <2>6. HandlersOwn' /\ HandlersSendOnce'
      BY <1>1, <2>1 DEF ChargeInv, HandlersOwn, HandlersSendOnce, SendsOnce, Owned, Ahead, Awaits, RunOf, Command
    <2>7. ProcessesWereAsked'
      BY <1>1, <2>3, <2>4 DEF ChargeInv, ProcessesWereAsked
    <2>8. ChargesWereProcessed' /\ AbsentUncharged'
      BY <1>1, <2>1, <2>3 DEF ChargeInv, ChargesWereProcessed, AbsentUncharged, Coming
    <2>9. QED
      BY <2>5, <2>6, <2>7, <2>8 DEF ChargeInv
  <1>2. ASSUME Sound, PaidInv, ChargeInv, SagaMove PROVE ChargeInv'
    BY <1>2, RowsOwnStep, HandlersOwnStep, LateOwnStep, HandlersSendOnceStep, ProcessesWereAskedStep,
       ChargesWereProcessedStep DEF ChargeInv
  <1>3. QED
    BY <1>1, <1>2, StepIsSagaMove DEF Sound

\* No order is charged more often than payments were accepted for it: a charge is made
\* by a payment.process, which one accepted payment.requested sent, and neither is
\* handled past its await twice, whatever times out, stops or crashes.
THEOREM ChargesShown == Spec => []ChargesWereAsked
  <1>1. ASSUME Sound, ChargeInv, NEW o \in Orders PROVE charges[o] <= Cardinality(Accepted(o))
    <2>1. PICK r \in Runs : r = owner[o]
      BY <1>1, TypeParts DEF Sound, DataTypes
    <2>2. \A type : IsFiniteSet(Entries(r, type))
      <3>1. commands \in Seq(CommandRecords)
        BY <1>1, TypeParts DEF Sound, CommandTypes
      <3>2. IsFiniteSet(1..Len(commands))
        BY <3>1, FS_Interval
      <3>3. QED
        BY <3>2, FS_Subset DEF Entries
    <2>3. /\ Cardinality(Charged(r)) \in Nat
          /\ Cardinality(Charged(r)) <= Cardinality(Entries(r, "payment_process"))
          /\ Cardinality(Entries(r, "payment_process")) \in Nat
      <3>1. Charged(r) \in SUBSET Entries(r, "payment_process")
        BY DEF Charged
      <3>2. QED
        BY <2>2, <3>1, PartCounts
    <2>4. /\ Cardinality(Requested(r)) \in Nat
          /\ Cardinality(Requested(r)) <= Cardinality(Entries(r, "payment_requested"))
          /\ Cardinality(Entries(r, "payment_requested")) \in Nat
      <3>1. Requested(r) \in SUBSET Entries(r, "payment_requested")
        BY DEF Requested
      <3>2. QED
        BY <2>2, <3>1, PartCounts
    <2>5. Entries(r, "payment_requested") = Accepted(o)
      BY <2>1 DEF Entries, Accepted
    <2>6. charges[o] + Coming(o) <= Cardinality(Charged(r))
      BY <1>1, <2>1 DEF ChargeInv, ChargesWereProcessed
    <2>7. Cardinality(Entries(r, "payment_process")) <= Cardinality(Requested(r))
      BY <1>1 DEF ChargeInv, ProcessesWereAsked
    <2>8. charges[o] \in Nat /\ Coming(o) \in {0, 1}
      BY <1>1, TypeParts DEF Sound, DataTypes, Coming
    <2>9. QED
      BY <2>3, <2>4, <2>5, <2>6, <2>7, <2>8
  <1>2. Sound /\ ChargeInv => ChargesWereAsked
    BY <1>1 DEF ChargesWereAsked
  <1>3. QED
    BY <1>2, ChargeInit, ChargeStep, PaidInit, PaidStep, AlwaysSound, PTL DEF Spec
-----------------------------------------------------------------------------
\* What may be left of a handler, and what it knows of its command by it.

\* What may be left of a handler, by its command.
Parts ==
  [ order_create |->
      {<<"require">>, OrderCreateScript, <<"postOrder", "setOrder", "sendInvoice">>,
       <<"setOrder", "sendInvoice">>, <<"sendInvoice">>, <<>>},
    generate_invoice |->
      {<<"require">>, InvoiceScript, <<"postInvoice", "moveInvoiced", "setAwaiting", "tell">>,
       <<"moveInvoiced", "setAwaiting", "tell">>, <<"setAwaiting", "tell">>, <<"tell">>, <<>>},
    payment_requested |->
      {<<"require">>, PaymentRequestedScript, <<"sendProcess">>, <<>>},
    payment_process |->
      {<<"require">>, PaymentProcessScript, <<"setProcessing", "postPayment">>, <<"postPayment">>,
       PaidScript, <<"setPaid", "sendReceipt">>, <<"sendReceipt">>,
       RetryScript, <<"tell", "setRetryable">>, <<"setRetryable">>,
       RejectedScript, <<"tell", "setRejected", "tell">>, <<"setRejected", "tell">>, <<"tell">>, <<>>},
    generate_receipt |->
      {<<"require">>, ReceiptScript, <<"moveReceipted", "setSending", "sendNotify">>,
       <<"setSending", "sendNotify">>, <<"sendNotify">>, <<>>},
    notification_send |->
      {<<"require">>, NotificationScript, SentScript, <<"setCompleted", "tell">>,
       UnsentScript, <<"tell">>, <<>>} ]

\* A handler is somewhere in the script of its command.
OnScript(w) == pc[w] = "handle" => todo[w] \in Parts[Command(w).type]

HandlersOnScript == \A w \in Workers : OnScript(w)

\* A handler that has nothing left but to tell of what it did.
Ended == {<<>>, <<"tell">>}

\* The awaits a handler ends with, but for telling.
LastAwaits == DOMAIN Sends \cup {"setAwaiting", "setRetryable", "setRejected", "setCompleted", "setUnsent"}

\* How what is left of a handler changes from one await to the next.
Flows(s, t) ==
  /\ s \in Ended => t \in Ended
  /\ s \notin Ended => (t \in Ended <=> Head(s) \in LastAwaits)
  /\ Head(s) \in DOMAIN Sends => t = <<>>
  /\ t = <<"moveInvoiced", "setAwaiting", "tell">> => Head(s) = "postInvoice"
  /\ t = <<"setAwaiting", "tell">> => Head(s) = "moveInvoiced"
  /\ t = <<"moveReceipted", "setSending", "sendNotify">> => Head(s) = "postReceipt"
  /\ t = <<"tell", "setRetryable">> => Head(s) = "moveUnpaid"
  /\ t = <<"setRetryable">> => s = <<"tell", "setRetryable">>
  /\ t # <<"require">> /\ t # PaymentRequestedScript

\* The awaits after which a handler goes on with the next one of its script.
Straight(s) == s # <<>> /\ Head(s) \notin {"require", "postPayment", "postNotification"}

\* The first await of a short list, and what comes after it.
LEMMA ShortTails ==
  /\ \A a : Tail(<<a>>) = <<>> /\ Head(<<a>>) = a
  /\ \A a, b : Tail(<<a, b>>) = <<b>> /\ Head(<<a, b>>) = a
  /\ \A a, b, c : Tail(<<a, b, c>>) = <<b, c>> /\ Head(<<a, b, c>>) = a
  /\ \A a, b, c, d : Tail(<<a, b, c, d>>) = <<b, c, d>> /\ Head(<<a, b, c, d>>) = a
  /\ \A a, b, c, d, e : Tail(<<a, b, c, d, e>>) = <<b, c, d, e>> /\ Head(<<a, b, c, d, e>>) = a
  <1>1. \A a : Tail(<<a>>) = <<>> /\ Head(<<a>>) = a
    OBVIOUS
  <1>2. \A a, b : Tail(<<a, b>>) = <<b>> /\ Head(<<a, b>>) = a
    OBVIOUS
  <1>3. \A a, b, c : Tail(<<a, b, c>>) = <<b, c>> /\ Head(<<a, b, c>>) = a
    OBVIOUS
  <1>4. \A a, b, c, d : Tail(<<a, b, c, d>>) = <<b, c, d>> /\ Head(<<a, b, c, d>>) = a
    OBVIOUS
  <1>5. \A a, b, c, d, e : Tail(<<a, b, c, d, e>>) = <<b, c, d, e>> /\ Head(<<a, b, c, d, e>>) = a
    OBVIOUS
  <1>6. QED
    BY <1>1, <1>2, <1>3, <1>4, <1>5

\* Every part of a script but the last is followed by another.
LEMMA PartsFlow ==
  ASSUME NEW type \in DOMAIN Script, NEW s \in Parts[type], Straight(s)
  PROVE  Tail(s) \in Parts[type] /\ Flows(s, Tail(s))
  <1>1. CASE type = "order_create"
    <2>1. CASE s = OrderCreateScript
      <3>1. Tail(s) = <<"postOrder", "setOrder", "sendInvoice">> /\ Head(s) = "setCreating"
        BY <2>1, ShortTails DEF OrderCreateScript
      <3>2. QED
        BY <1>1, <2>1, <3>1 DEF Parts, Flows, Ended, LastAwaits, Sends, PaymentRequestedScript, OrderCreateScript
    <2>2. CASE s = <<"postOrder", "setOrder", "sendInvoice">>
      <3>1. Tail(s) = <<"setOrder", "sendInvoice">> /\ Head(s) = "postOrder"
        BY <2>2, ShortTails
      <3>2. QED
        BY <1>1, <2>2, <3>1 DEF Parts, Flows, Ended, LastAwaits, Sends, PaymentRequestedScript
    <2>3. CASE s = <<"setOrder", "sendInvoice">>
      <3>1. Tail(s) = <<"sendInvoice">> /\ Head(s) = "setOrder"
        BY <2>3, ShortTails
      <3>2. QED
        BY <1>1, <2>3, <3>1 DEF Parts, Flows, Ended, LastAwaits, Sends, PaymentRequestedScript
    <2>4. CASE s = <<"sendInvoice">>
      <3>1. Tail(s) = <<>> /\ Head(s) = "sendInvoice"
        BY <2>4, ShortTails
      <3>2. QED
        BY <1>1, <2>4, <3>1 DEF Parts, Flows, Ended, LastAwaits, Sends, PaymentRequestedScript
    <2>5. QED
      <3>1. s \in {<<"require">>, OrderCreateScript, <<"postOrder", "setOrder", "sendInvoice">>, <<"setOrder", "sendInvoice">>, <<"sendInvoice">>, <<>>}
        BY <1>1 DEF Parts
      <3>2. s \notin {<<"require">>, <<>>}
        BY DEF Straight
      <3>3. QED
        BY <2>1, <2>2, <2>3, <2>4, <3>1, <3>2
  <1>2. CASE type = "generate_invoice"
    <2>1. CASE s = InvoiceScript
      <3>1. Tail(s) = <<"postInvoice", "moveInvoiced", "setAwaiting", "tell">> /\ Head(s) = "setInvoicing"
        BY <2>1, ShortTails DEF InvoiceScript
      <3>2. QED
        BY <1>2, <2>1, <3>1 DEF Parts, Flows, Ended, LastAwaits, Sends, PaymentRequestedScript, InvoiceScript
    <2>2. CASE s = <<"postInvoice", "moveInvoiced", "setAwaiting", "tell">>
      <3>1. Tail(s) = <<"moveInvoiced", "setAwaiting", "tell">> /\ Head(s) = "postInvoice"
        BY <2>2, ShortTails
      <3>2. QED
        BY <1>2, <2>2, <3>1 DEF Parts, Flows, Ended, LastAwaits, Sends, PaymentRequestedScript
    <2>3. CASE s = <<"moveInvoiced", "setAwaiting", "tell">>
      <3>1. Tail(s) = <<"setAwaiting", "tell">> /\ Head(s) = "moveInvoiced"
        BY <2>3, ShortTails
      <3>2. QED
        BY <1>2, <2>3, <3>1 DEF Parts, Flows, Ended, LastAwaits, Sends, PaymentRequestedScript
    <2>4. CASE s = <<"setAwaiting", "tell">>
      <3>1. Tail(s) = <<"tell">> /\ Head(s) = "setAwaiting"
        BY <2>4, ShortTails
      <3>2. QED
        BY <1>2, <2>4, <3>1 DEF Parts, Flows, Ended, LastAwaits, Sends, PaymentRequestedScript
    <2>5. CASE s = <<"tell">>
      <3>1. Tail(s) = <<>> /\ Head(s) = "tell"
        BY <2>5, ShortTails
      <3>2. QED
        BY <1>2, <2>5, <3>1 DEF Parts, Flows, Ended, LastAwaits, Sends, PaymentRequestedScript
    <2>6. QED
      <3>1. s \in {<<"require">>, InvoiceScript, <<"postInvoice", "moveInvoiced", "setAwaiting", "tell">>, <<"moveInvoiced", "setAwaiting", "tell">>, <<"setAwaiting", "tell">>, <<"tell">>, <<>>}
        BY <1>2 DEF Parts
      <3>2. s \notin {<<"require">>, <<>>}
        BY DEF Straight
      <3>3. QED
        BY <2>1, <2>2, <2>3, <2>4, <2>5, <3>1, <3>2
  <1>3. CASE type = "payment_requested"
    <2>1. CASE s = PaymentRequestedScript
      <3>1. Tail(s) = <<"sendProcess">> /\ Head(s) = "setRequested"
        BY <2>1, ShortTails DEF PaymentRequestedScript
      <3>2. QED
        BY <1>3, <2>1, <3>1 DEF Parts, Flows, Ended, LastAwaits, Sends, PaymentRequestedScript
    <2>2. CASE s = <<"sendProcess">>
      <3>1. Tail(s) = <<>> /\ Head(s) = "sendProcess"
        BY <2>2, ShortTails
      <3>2. QED
        BY <1>3, <2>2, <3>1 DEF Parts, Flows, Ended, LastAwaits, Sends, PaymentRequestedScript
    <2>3. QED
      <3>1. s \in {<<"require">>, PaymentRequestedScript, <<"sendProcess">>, <<>>}
        BY <1>3 DEF Parts
      <3>2. s \notin {<<"require">>, <<>>}
        BY DEF Straight
      <3>3. QED
        BY <2>1, <2>2, <3>1, <3>2
  <1>4. CASE type = "payment_process"
    <2>1. CASE s = PaymentProcessScript
      <3>1. Tail(s) = <<"setProcessing", "postPayment">> /\ Head(s) = "getOrder"
        BY <2>1, ShortTails DEF PaymentProcessScript
      <3>2. QED
        BY <1>4, <2>1, <3>1 DEF Parts, Flows, Ended, LastAwaits, Sends, PaymentRequestedScript, PaymentProcessScript
    <2>2. CASE s = <<"setProcessing", "postPayment">>
      <3>1. Tail(s) = <<"postPayment">> /\ Head(s) = "setProcessing"
        BY <2>2, ShortTails
      <3>2. QED
        BY <1>4, <2>2, <3>1 DEF Parts, Flows, Ended, LastAwaits, Sends, PaymentRequestedScript
    <2>3. CASE s = PaidScript
      <3>1. Tail(s) = <<"setPaid", "sendReceipt">> /\ Head(s) = "movePaid"
        BY <2>3, ShortTails DEF PaidScript
      <3>2. QED
        BY <1>4, <2>3, <3>1 DEF Parts, Flows, Ended, LastAwaits, Sends, PaymentRequestedScript, PaidScript
    <2>4. CASE s = <<"setPaid", "sendReceipt">>
      <3>1. Tail(s) = <<"sendReceipt">> /\ Head(s) = "setPaid"
        BY <2>4, ShortTails
      <3>2. QED
        BY <1>4, <2>4, <3>1 DEF Parts, Flows, Ended, LastAwaits, Sends, PaymentRequestedScript
    <2>5. CASE s = <<"sendReceipt">>
      <3>1. Tail(s) = <<>> /\ Head(s) = "sendReceipt"
        BY <2>5, ShortTails
      <3>2. QED
        BY <1>4, <2>5, <3>1 DEF Parts, Flows, Ended, LastAwaits, Sends, PaymentRequestedScript
    <2>6. CASE s = RetryScript
      <3>1. Tail(s) = <<"tell", "setRetryable">> /\ Head(s) = "moveUnpaid"
        BY <2>6, ShortTails DEF RetryScript
      <3>2. QED
        BY <1>4, <2>6, <3>1 DEF Parts, Flows, Ended, LastAwaits, Sends, PaymentRequestedScript, RetryScript
    <2>7. CASE s = <<"tell", "setRetryable">>
      <3>1. Tail(s) = <<"setRetryable">> /\ Head(s) = "tell"
        BY <2>7, ShortTails
      <3>2. QED
        BY <1>4, <2>7, <3>1 DEF Parts, Flows, Ended, LastAwaits, Sends, PaymentRequestedScript
    <2>8. CASE s = <<"setRetryable">>
      <3>1. Tail(s) = <<>> /\ Head(s) = "setRetryable"
        BY <2>8, ShortTails
      <3>2. QED
        BY <1>4, <2>8, <3>1 DEF Parts, Flows, Ended, LastAwaits, Sends, PaymentRequestedScript
    <2>9. CASE s = RejectedScript
      <3>1. Tail(s) = <<"tell", "setRejected", "tell">> /\ Head(s) = "moveUnpaid"
        BY <2>9, ShortTails DEF RejectedScript
      <3>2. QED
        BY <1>4, <2>9, <3>1 DEF Parts, Flows, Ended, LastAwaits, Sends, PaymentRequestedScript, RejectedScript
    <2>10. CASE s = <<"tell", "setRejected", "tell">>
      <3>1. Tail(s) = <<"setRejected", "tell">> /\ Head(s) = "tell"
        BY <2>10, ShortTails
      <3>2. QED
        BY <1>4, <2>10, <3>1 DEF Parts, Flows, Ended, LastAwaits, Sends, PaymentRequestedScript
    <2>11. CASE s = <<"setRejected", "tell">>
      <3>1. Tail(s) = <<"tell">> /\ Head(s) = "setRejected"
        BY <2>11, ShortTails
      <3>2. QED
        BY <1>4, <2>11, <3>1 DEF Parts, Flows, Ended, LastAwaits, Sends, PaymentRequestedScript
    <2>12. CASE s = <<"tell">>
      <3>1. Tail(s) = <<>> /\ Head(s) = "tell"
        BY <2>12, ShortTails
      <3>2. QED
        BY <1>4, <2>12, <3>1 DEF Parts, Flows, Ended, LastAwaits, Sends, PaymentRequestedScript
    <2>13. QED
      <3>1. s \in {<<"require">>, PaymentProcessScript, <<"setProcessing", "postPayment">>, <<"postPayment">>, PaidScript, <<"setPaid", "sendReceipt">>, <<"sendReceipt">>, RetryScript, <<"tell", "setRetryable">>, <<"setRetryable">>, RejectedScript, <<"tell", "setRejected", "tell">>, <<"setRejected", "tell">>, <<"tell">>, <<>>}
        BY <1>4 DEF Parts
      <3>2. s \notin {<<"require">>, <<"postPayment">>, <<>>}
        BY DEF Straight
      <3>3. QED
        BY <2>1, <2>2, <2>3, <2>4, <2>5, <2>6, <2>7, <2>8, <2>9, <2>10, <2>11, <2>12, <3>1, <3>2
  <1>5. CASE type = "generate_receipt"
    <2>1. CASE s = ReceiptScript
      <3>1. Tail(s) = <<"moveReceipted", "setSending", "sendNotify">> /\ Head(s) = "postReceipt"
        BY <2>1, ShortTails DEF ReceiptScript
      <3>2. QED
        BY <1>5, <2>1, <3>1 DEF Parts, Flows, Ended, LastAwaits, Sends, PaymentRequestedScript, ReceiptScript
    <2>2. CASE s = <<"moveReceipted", "setSending", "sendNotify">>
      <3>1. Tail(s) = <<"setSending", "sendNotify">> /\ Head(s) = "moveReceipted"
        BY <2>2, ShortTails
      <3>2. QED
        BY <1>5, <2>2, <3>1 DEF Parts, Flows, Ended, LastAwaits, Sends, PaymentRequestedScript
    <2>3. CASE s = <<"setSending", "sendNotify">>
      <3>1. Tail(s) = <<"sendNotify">> /\ Head(s) = "setSending"
        BY <2>3, ShortTails
      <3>2. QED
        BY <1>5, <2>3, <3>1 DEF Parts, Flows, Ended, LastAwaits, Sends, PaymentRequestedScript
    <2>4. CASE s = <<"sendNotify">>
      <3>1. Tail(s) = <<>> /\ Head(s) = "sendNotify"
        BY <2>4, ShortTails
      <3>2. QED
        BY <1>5, <2>4, <3>1 DEF Parts, Flows, Ended, LastAwaits, Sends, PaymentRequestedScript
    <2>5. QED
      <3>1. s \in {<<"require">>, ReceiptScript, <<"moveReceipted", "setSending", "sendNotify">>, <<"setSending", "sendNotify">>, <<"sendNotify">>, <<>>}
        BY <1>5 DEF Parts
      <3>2. s \notin {<<"require">>, <<>>}
        BY DEF Straight
      <3>3. QED
        BY <2>1, <2>2, <2>3, <2>4, <3>1, <3>2
  <1>6. CASE type = "notification_send"
    <2>1. CASE s = SentScript
      <3>1. Tail(s) = <<"setCompleted", "tell">> /\ Head(s) = "moveNotified"
        BY <2>1, ShortTails DEF SentScript
      <3>2. QED
        BY <1>6, <2>1, <3>1 DEF Parts, Flows, Ended, LastAwaits, Sends, PaymentRequestedScript, SentScript
    <2>2. CASE s = <<"setCompleted", "tell">>
      <3>1. Tail(s) = <<"tell">> /\ Head(s) = "setCompleted"
        BY <2>2, ShortTails
      <3>2. QED
        BY <1>6, <2>2, <3>1 DEF Parts, Flows, Ended, LastAwaits, Sends, PaymentRequestedScript
    <2>3. CASE s = <<"tell">>
      <3>1. Tail(s) = <<>> /\ Head(s) = "tell"
        BY <2>3, ShortTails
      <3>2. QED
        BY <1>6, <2>3, <3>1 DEF Parts, Flows, Ended, LastAwaits, Sends, PaymentRequestedScript
    <2>4. CASE s = UnsentScript
      <3>1. Tail(s) = <<"tell">> /\ Head(s) = "setUnsent"
        BY <2>4, ShortTails DEF UnsentScript
      <3>2. QED
        BY <1>6, <2>4, <3>1 DEF Parts, Flows, Ended, LastAwaits, Sends, PaymentRequestedScript, UnsentScript
    <2>5. QED
      <3>1. s \in {<<"require">>, NotificationScript, SentScript, <<"setCompleted", "tell">>, <<"tell">>, UnsentScript, <<>>}
        BY <1>6 DEF Parts
      <3>2. s \notin {<<"require">>, NotificationScript, <<>>}
        BY DEF Straight, NotificationScript
      <3>3. QED
        BY <2>1, <2>2, <2>3, <2>4, <3>1, <3>2
  <1>7. QED
    BY <1>1, <1>2, <1>3, <1>4, <1>5, <1>6 DEF Script

\* An await belongs to one command.
LEMMA PartHeads ==
  ASSUME NEW type \in DOMAIN Script, NEW s \in Parts[type], s # <<>>, Head(s) \in DOMAIN HandlerOf
  PROVE  type = HandlerOf[Head(s)]
  <1>1. ASSUME type = "order_create"
        PROVE  Head(s) \in {"require", "setCreating", "postOrder", "setOrder", "sendInvoice"}
    BY <1>1, ShortTails DEF Parts, OrderCreateScript
  <1>2. ASSUME type = "generate_invoice"
        PROVE  Head(s) \in {"require", "setInvoicing", "postInvoice", "moveInvoiced", "setAwaiting", "tell"}
    BY <1>2, ShortTails DEF Parts, InvoiceScript
  <1>3. ASSUME type = "payment_requested"
        PROVE  Head(s) \in {"require", "setRequested", "sendProcess"}
    BY <1>3, ShortTails DEF Parts, PaymentRequestedScript
  <1>4. ASSUME type = "payment_process"
        PROVE  Head(s) \in {"require", "getOrder", "setProcessing", "postPayment", "movePaid", "setPaid", "sendReceipt", "moveUnpaid", "tell", "setRetryable", "setRejected"}
    BY <1>4, ShortTails DEF Parts, PaymentProcessScript, PaidScript, RetryScript, RejectedScript
  <1>5. ASSUME type = "generate_receipt"
        PROVE  Head(s) \in {"require", "postReceipt", "moveReceipted", "setSending", "sendNotify"}
    BY <1>5, ShortTails DEF Parts, ReceiptScript
  <1>6. ASSUME type = "notification_send"
        PROVE  Head(s) \in {"require", "postNotification", "moveNotified", "setCompleted", "tell", "setUnsent"}
    BY <1>6, ShortTails DEF Parts, NotificationScript, SentScript, UnsentScript
  <1>7. QED
    BY <1>1, <1>2, <1>3, <1>4, <1>5, <1>6 DEF Script, HandlerOf

\* A handler goes on along the script of its command.
LEMMA HandlerFlow ==
  ASSUME Sound, NEW w \in Workers, OnScript(w), Handles(w)
  PROVE  /\ Command(w) \in CommandRecords /\ RunOf(w) \in Runs
         /\ Await(w) \in DOMAIN HandlerOf => Command(w).type = HandlerOf[Await(w)]
         /\ todo'[w] \in Parts[Command(w).type]
         /\ todo[w] \in Ended => todo'[w] \in Ended
         /\ todo[w] \notin Ended => (todo'[w] \in Ended <=> Await(w) \in LastAwaits)
         /\ \/ Begins(w)
            \/ Branches(w)
            \/ Proceeds(w) /\ Straight(todo[w]) /\ Flows(todo[w], todo'[w])
  <1>1. /\ Command(w) \in CommandRecords /\ RunOf(w) \in Runs /\ pc[w] = "handle" /\ todo[w] # <<>>
        /\ Await(w) = Head(todo[w])
    BY HandlesFrame, CommandKnown DEF Sound, SWP!Busy, CommandRecords, RunOf
  <1>2. Command(w).type \in DOMAIN Script /\ todo[w] \in Parts[Command(w).type]
    BY <1>1 DEF CommandRecords, OnScript
  <1>3. Await(w) \in DOMAIN HandlerOf => Command(w).type = HandlerOf[Await(w)]
    BY <1>1, <1>2, PartHeads
  <1>4. todo[w] \in Ended => Await(w) = "tell"
    BY <1>1, ShortTails DEF Ended
  <1>5. CASE Begins(w)
    <2>1. todo'[w] \in {OrderCreateScript, InvoiceScript, PaymentRequestedScript, PaymentProcessScript,
                        ReceiptScript, NotificationScript}
      BY <1>2, <1>5 DEF Begins, Script
    <2>2. todo'[w] \in Parts[Command(w).type]
      BY <1>2, <1>5 DEF Begins, Script, Parts
    <2>3. todo'[w] \notin Ended
      BY <2>1 DEF Ended, OrderCreateScript, InvoiceScript, PaymentRequestedScript, PaymentProcessScript,
                  ReceiptScript, NotificationScript
    <2>4. Await(w) \notin LastAwaits
      BY <1>5 DEF Begins, LastAwaits, Sends
    <2>5. QED
      BY <1>1, <1>3, <1>4, <1>5, <2>2, <2>3, <2>4 DEF Begins
  <1>6. CASE Branches(w)
    <2>1. \/ Await(w) = "postPayment" /\ todo'[w] \in {PaidScript, RetryScript, RejectedScript}
          \/ Await(w) = "postNotification" /\ todo'[w] \in {SentScript, UnsentScript}
      BY <1>6 DEF Branches
    <2>2. todo'[w] \in Parts[Command(w).type]
      BY <1>3, <2>1 DEF HandlerOf, Parts
    <2>3. todo'[w] \notin Ended
      BY <2>1 DEF Ended, PaidScript, RetryScript, RejectedScript, SentScript, UnsentScript
    <2>4. Await(w) \notin LastAwaits
      BY <2>1 DEF LastAwaits, Sends
    <2>5. QED
      BY <1>1, <1>3, <1>4, <1>6, <2>1, <2>2, <2>3, <2>4
  <1>7. CASE Proceeds(w)
    <2>1. Straight(todo[w]) /\ todo'[w] = Tail(todo[w])
      BY <1>1, <1>7 DEF Proceeds, Straight
    <2>2. todo'[w] \in Parts[Command(w).type] /\ Flows(todo[w], todo'[w])
      BY <1>2, <2>1, PartsFlow
    <2>3. QED
      BY <1>1, <1>3, <1>7, <2>1, <2>2 DEF Flows
  <1>8. QED
    BY <1>5, <1>6, <1>7, HandlesStep DEF Sound

\* A handler's command is one the scripts know.
CommandsTyped == \A w \in Workers : pc[w] = "handle" => Command(w).type \in DOMAIN Script

\* They are: a command is of a type once sent.
LEMMA CommandTyped == Sound => CommandsTyped
  BY CommandKnown DEF Sound, SWP!Busy, CommandRecords, CommandsTyped

\* After a step too.
LEMMA CommandTypedNext == Sound' => CommandsTyped'
  <1>1. Sound => CommandsTyped
    BY CommandTyped
  <1>2. QED
    BY <1>1, PTL

\* Handlers stay on their scripts.
LEMMA OnScriptStep ==
  ASSUME Sound, HandlersOnScript, [Next]_vars
  PROVE  HandlersOnScript'
  <1>1. CASE UNCHANGED vars
    BY <1>1 DEF vars, swVars, handlerVars, HandlersOnScript, OnScript, Command
  <1>2. ASSUME NEW u \in Workers, pc'[u] = pc[u], cur'[u] = cur[u], todo'[u] = todo[u], SagaMove PROVE OnScript(u)'
    BY <1>2, OthersCommand DEF HandlersOnScript, OnScript, SWP!Busy
  <1>3. ASSUME NEW w \in Workers, Handles(w) PROVE HandlersOnScript'
    <2>1. OnScript(w)'
      <3>1. Command(w)' = Command(w)
        BY <1>3, HandlesFrame, OthersCommand DEF SWP!Busy, SagaMove
      <3>2. todo'[w] \in Parts[Command(w).type]
        BY <1>3, HandlerFlow DEF HandlersOnScript
      <3>3. QED
        BY <3>1, <3>2 DEF OnScript
    <2>2. \A u \in Workers \ {w} : pc'[u] = pc[u] /\ cur'[u] = cur[u] /\ todo'[u] = todo[u]
      BY <1>3, HandlesFrame, HandlesStep DEF Sound, OthersWait
    <2>3. QED
      BY <1>2, <1>3, <2>1, <2>2 DEF HandlersOnScript, SagaMove
  <1>4. ASSUME NEW w \in Workers, Leaves(w) PROVE HandlersOnScript'
    <2>1. OnScript(w)'
      <3>1. SagaMove
        BY <1>4 DEF SagaMove
      <3>2. todo'[w] = <<"require">>
        BY <1>4, ForgetFacts DEF Sound, Leaves
      <3>3. SWP!StreamInv'
        BY SagaStepsStream, SWP!StepInv, Assumed DEF Sound
      <3>4. Sound'
        BY <3>3, SoundStep
      <3>5. ASSUME pc'[w] = "handle" PROVE Command(w)'.type \in DOMAIN Script
        BY <3>4, <3>5, CommandTypedNext DEF CommandsTyped
      <3>6. QED
        BY <3>2, <3>5 DEF OnScript, Script, Parts
    <2>2. \A u \in Workers \ {w} : pc'[u] = pc[u] /\ cur'[u] = cur[u] /\ todo'[u] = todo[u]
      BY <1>4, LeavesControl, ForgetFacts DEF Sound, Leaves, OthersWait, SWP!OthersKeep
    <2>3. QED
      BY <1>2, <1>4, <2>1, <2>2 DEF HandlersOnScript, SagaMove
  <1>5. CASE Asks \/ \E c \in late : LateCall(c)
    BY <1>2, <1>5, RequestFrame DEF HandlersOnScript, SagaMove
  <1>6. QED
    BY <1>1, <1>3, <1>4, <1>5, StepIsSagaMove DEF SagaMove, Sound

\* No handler has begun.
LEMMA OnScriptInit == Init => HandlersOnScript
  BY DEF Init, SW!Init, HandlersOnScript, OnScript
-----------------------------------------------------------------------------
\* What the history of an order shows of it.
Seen(o) == {trail[o][k] : k \in 1..Len(trail[o])}

HistoryShows ==
  /\ trail \in [Orders -> Seq(OL!OrderStatuses)]
  /\ \A o \in Orders : orderStatus[o] # OL!Absent =>
       /\ {"created", orderStatus[o]} \subseteq Seen(o)
       /\ orderStatus[o] # "created" => "invoice_generated" \in Seen(o)
       /\ orderStatus[o] \in Paid => "payment_completed" \in Seen(o)
       /\ orderStatus[o] = "notification_sent" => "receipt_generated" \in Seen(o)

\* Nothing is taken out of a history.
HistoryGrows == \A o \in Orders : Seen(o) \subseteq Seen(o)'

\* A call moves an order as order-service promises.
LEMMA CallMoves ==
  ASSUME NEW c, c.does # "postOrder" => c.order \in Orders \/ c.does = "getOrder",
         NEW sent, HttpEffect(c, sent)
  PROVE  [OL!Next]_(OL!lifecycleVars)
  <1>1. CASE CreatesOrder(c)
    BY <1>1 DEF CreatesOrder, OL!Next
  <1>2. CASE MovesOrder(c)
    <2>1. c.order \in Orders /\ MoveTo[c.does] \in OL!OrderStatuses
      BY <1>2 DEF MovesOrder, MoveTo, OL!OrderStatuses
    <2>2. QED
      BY <1>2, <2>1 DEF MovesOrder, OL!Next
  <1>3. CASE MakesDocument(c) \/ ChargesOrder(c) \/ SendsMail(c, sent) \/ UNCHANGED dataVars
    BY <1>3 DEF MakesDocument, ChargesOrder, SendsMail, dataVars, OL!lifecycleVars
  <1>4. QED
    BY <1>1, <1>2, <1>3 DEF HttpEffect

\* So does every step.
LEMMA OrderMoves ==
  ASSUME Sound, SagaMove
  PROVE  [OL!Next]_(OL!lifecycleVars)
  <1>1. ASSUME UNCHANGED <<orderStatus, trail>> PROVE [OL!Next]_(OL!lifecycleVars)
    BY <1>1 DEF OL!lifecycleVars
  <1>2. ASSUME NEW w \in Workers, Handles(w) PROVE [OL!Next]_(OL!lifecycleVars)
    <2>1. CASE HttpStep(w)
      <3>1. PICK sent \in MailOutcomes : HttpEffect(Call(w), sent)
        BY <2>1 DEF HttpStep
      <3>2. Call(w).does = Await(w) /\ Call(w).order = loc[w] /\ (Await(w) # "postOrder" => loc[w] \in Orders)
        BY <2>1, CallKnown DEF HttpStep
      <3>3. QED
        BY <3>1, <3>2, CallMoves
    <2>2. CASE DbStep(w) \/ SendStep(w) \/ TellStep(w)
      BY <1>1, <2>2 DEF DbStep, DbEffect, SendStep, TellStep, dataVars
    <2>3. QED
      BY <1>2, <2>1, <2>2 DEF Handles
  <1>3. ASSUME NEW w \in Workers, Leaves(w) PROVE [OL!Next]_(OL!lifecycleVars)
    BY <1>1, <1>3 DEF Leaves, LeavesUndone, DbEffect, MarkRunFailed, dataVars
  <1>4. ASSUME NEW c \in late, LateCall(c) PROVE [OL!Next]_(OL!lifecycleVars)
    <2>1. CASE UNCHANGED dataVars
      BY <1>1, <2>1 DEF dataVars
    <2>2. ASSUME NEW sent \in MailOutcomes, HttpEffect(c, sent) PROVE [OL!Next]_(OL!lifecycleVars)
      BY <2>2, CallMoves DEF Sound, LateKnow
    <2>3. QED
      BY <1>4, <2>1, <2>2 DEF LateCall
  <1>5. CASE Asks
    BY <1>1, <1>5 DEF Asks, FindRun, CreateRun, PublishRun, IntakeDies, CheckPayment, PublishPayment, dataVars
  <1>6. QED
    BY <1>2, <1>3, <1>4, <1>5 DEF SagaMove

\* The checkout workflow, its retries and its late calls use order-service by what it
\* promises: what it does to the orders is a behaviour of OrderLifecycle.
THEOREM SagaUsesLifecycle == Spec => OL!Spec
  <1>1. Init => OL!Init
    BY DEF Init
  <1>2. Sound /\ [Next]_vars => [OL!Next]_(OL!lifecycleVars)
    <2>1. UNCHANGED vars => UNCHANGED OL!lifecycleVars
      BY DEF vars, dataVars, OL!lifecycleVars
    <2>2. QED
      BY <2>1, StepIsSagaMove, OrderMoves DEF Sound
  <1>3. QED
    BY <1>1, <1>2, AlwaysSound, PTL DEF Spec, OL!Spec

\* The life of an order leaves its trace in the history.
LEMMA HistoryStep ==
  ASSUME orderStatus \in [Orders -> OL!OrderStatuses \cup {OL!Absent}], HistoryShows,
         [OL!Next]_(OL!lifecycleVars)
  PROVE  HistoryShows' /\ HistoryGrows
  <1>1. ASSUME UNCHANGED <<orderStatus, trail>> PROVE HistoryShows' /\ HistoryGrows
    <2>1. \A o : Seen(o)' = Seen(o)
      BY <1>1 DEF Seen
    <2>2. QED
      BY <1>1, <2>1 DEF HistoryShows, HistoryGrows
  <1>2. ASSUME NEW o \in Orders, NEW to \in OL!OrderStatuses, OL!CreateOrder(o) \/ OL!Transition(o, to),
               OL!CreateOrder(o) => to = "created"
        PROVE  HistoryShows' /\ HistoryGrows
    <2>1. /\ orderStatus' = [orderStatus EXCEPT ![o] = to] /\ trail' = [trail EXCEPT ![o] = Append(@, to)]
          /\ IF to = "created" THEN orderStatus[o] = OL!Absent ELSE OL!Allowed(orderStatus[o], to)
      BY <1>2 DEF OL!CreateOrder, OL!Transition, OL!Allowed, OL!ALLOWED_ORDER_TRANSITIONS
    <2>2. trail[o] \in Seq(OL!OrderStatuses)
      BY DEF HistoryShows
    <2>3. trail' \in [Orders -> Seq(OL!OrderStatuses)]
      BY <2>1, <2>2 DEF HistoryShows
    <2>4. trail'[o] = Append(trail[o], to) /\ \A q \in Orders \ {o} : trail'[q] = trail[q]
      BY <2>1 DEF HistoryShows
    <2>5. Seen(o)' = Seen(o) \cup {to}
      <3>1. /\ Len(trail'[o]) = Len(trail[o]) + 1 /\ Len(trail[o]) \in Nat
            /\ \A k \in 1..Len(trail[o]) : trail'[o][k] = trail[o][k]
            /\ trail'[o][Len(trail[o]) + 1] = to
        BY <2>2, <2>4
      <3>2. Len(trail[o]) + 1 \in 1..Len(trail'[o]) /\ \A k \in 1..Len(trail[o]) : k \in 1..Len(trail'[o])
        BY <3>1
      <3>3. \A k \in 1..Len(trail'[o]) : k \in 1..Len(trail[o]) \/ k = Len(trail[o]) + 1
        BY <3>1
      <3>4. QED
        BY <3>1, <3>2, <3>3 DEF Seen
    <2>6. \A q \in Orders \ {o} : Seen(q)' = Seen(q)
      BY <2>4 DEF Seen
    <2>7. HistoryGrows
      BY <2>5, <2>6 DEF HistoryGrows
    <2>8. orderStatus'[o] = to /\ \A q \in Orders \ {o} : orderStatus'[q] = orderStatus[q]
      BY <2>1
    <2>9. /\ to # "created" => "created" \in Seen(o)
          /\ to \notin {"created", "invoice_generated"} => "invoice_generated" \in Seen(o)
          /\ to \in Paid \ {"payment_completed"} => "payment_completed" \in Seen(o)
          /\ to = "notification_sent" => "receipt_generated" \in Seen(o)
      BY <2>1 DEF HistoryShows, OL!Allowed, OL!ALLOWED_ORDER_TRANSITIONS, Paid, OL!Absent
    <2>10. ASSUME NEW q \in Orders, orderStatus'[q] # OL!Absent
           PROVE  /\ {"created", orderStatus'[q]} \subseteq Seen(q)'
                  /\ orderStatus'[q] # "created" => "invoice_generated" \in Seen(q)'
                  /\ orderStatus'[q] \in Paid => "payment_completed" \in Seen(q)'
                  /\ orderStatus'[q] = "notification_sent" => "receipt_generated" \in Seen(q)'
      <3>1. CASE q = o
        BY <2>5, <2>8, <2>9, <3>1 DEF Paid
      <3>2. CASE q # o
        BY <2>6, <2>8, <2>10, <3>2 DEF HistoryShows
      <3>3. QED
        BY <3>1, <3>2
    <2>11. QED
      BY <2>3, <2>7, <2>10 DEF HistoryShows
  <1>3. CASE OL!Next
    BY <1>2, <1>3 DEF OL!Next, OL!OrderStatuses
  <1>4. QED
    BY <1>1, <1>3 DEF OL!lifecycleVars

\* There is no order at first.
LEMMA HistoryInit == OL!Init => HistoryShows
  BY DEF OL!Init, HistoryShows
-----------------------------------------------------------------------------
\* What is left to do.

\* A worker is at a command, and may yet write to its run.  A dead letter has to be sent
\* first, so a worker whose connection is broken marks no run.
Active(w) ==
  \/ pc[w] = "handle" /\ todo[w] \notin Ended
  \/ pc[w] = "deadLetter" /\ link[w] = "up"
  \/ pc[w] = "markFailed"

\* Entry i is not done with: it was not read yet, or waits in a batch, or is worked on.
Pending(i) ==
  \/ delivered[Commands] < i
  \/ \E w \in Workers : SWP!Holds(w, Commands, i) /\ (cur[w] < i \/ (cur[w] = i /\ Active(w)))

\* Worker w ends its command with the last thing it does for it, or goes away.
Finishes(w) ==
  /\ Active(w)
  /\ \/ Handles(w) /\ Await(w) \in LastAwaits
     \/ Leaves(w) /\ ~ Active(w)'

-----------------------------------------------------------------------------
\* Workers are stopped, die, or lose their connection to Redis; no statement fails, and Redis
\* answers no error.
Calm == Faults \cap {"db", "reply"} = {}

\* A handler raises by itself, or because the service it called did.
GivesUp(w) ==
  /\ AtAwait(w, HttpAwaits \cup {"require"})
  /\ Await(w) = "require" => Command(w).type \notin {"order_create", "payment_requested"}
  /\ UNCHANGED <<commands, dataVars>>

\* w can send a dead letter.
Burying(w) == pc[w] = "deadLetter" /\ link[w] = "up"

\* Nothing else makes a dead letter that can be sent, and one that cannot stays so.
CalmDeaths ==
  \A w \in Workers :
    /\ pc[w] # "deadLetter" /\ Burying(w)' => GivesUp(w)
    /\ pc[w] = "deadLetter" /\ (Burying(w)' \/ pc'[w] = "markFailed") => Burying(w)

\* No statement fails, and after an XADD that did the connection is broken.
LEMMA CalmStep ==
  ASSUME Sound, Calm, [Next]_vars
  PROVE  CalmDeaths
  <1>0. CASE UNCHANGED vars
    BY <1>0 DEF CalmDeaths, Burying, vars, swVars
  <1> SUFFICES ASSUME Next, NEW w \in Workers
               PROVE  /\ pc[w] # "deadLetter" /\ Burying(w)' => GivesUp(w)
                      /\ pc[w] = "deadLetter" /\ (Burying(w)' \/ pc'[w] = "markFailed") => Burying(w)
    BY <1>0 DEF CalmDeaths
  <1> DEFINE Kept == pc'[w] = pc[w] /\ link'[w] = link[w]
             Gone == pc'[w] \notin {"deadLetter", "markFailed"}
  <1>1. pc \in [Workers -> SWP!PCs] /\ link \in [Workers -> {"up", "broken"}]
    BY DEF Sound, SWP!StreamInv, SWP!TypeOK
  <1>2. ASSUME NEW u \in Workers, Handles(u) PROVE Kept
    BY <1>2, HandlesFrame
  <1>3. CASE Intake \/ AskForCheckout \/ AskForPayment \/ \E c \in late : LateCall(c)
    <2>1. Asks \/ \E c \in late : LateCall(c)
      BY <1>3 DEF Intake, AskForCheckout, AskForPayment, Asks
    <2>2. Kept
      BY <2>1, RequestFrame
    <2>3. QED
      BY <2>2 DEF Burying
  <1>4. ASSUME NEW u \in Workers, StartWorker(u) \/ LoopErrorEndsTask(u) \/ HandlerReturns(u) \/ MarkFailed(u)
        PROVE  Kept \/ (u = w /\ Gone)
    BY <1>1, <1>4 DEF StartWorker, LoopErrorEndsTask, HandlerReturns, MarkFailed, SW!Start, SW!LoopErrorEndsTask,
       SW!HandlerReturns, SW!MarkFailed, SW!Goto
  <1>5. ASSUME NEW u \in Workers, Deliver(u)
        PROVE  Kept \/ (u = w /\ Gone) \/ (u = w /\ Burying(w) /\ pc'[w] = "markFailed")
    <2>1. CASE SW!Record(u) \/ SW!Ack(u)
      BY <1>1, <2>1 DEF SW!Record, SW!Ack, SW!LeaveFinally, SW!NextMessage, SW!Escape, SW!Goto
    <2>2. CASE SW!EnsureGroup(u) \/ SW!Read(u) \/ SW!ReadNothing(u) \/ SW!LoopError(u)
      BY <1>1, <2>2 DEF SW!EnsureGroup, SW!Read, SW!ReadNothing, SW!LoopError, SW!NextStream, SW!Goto
    <2>3. CASE SW!DeadLetter(u)
      BY <1>1, <2>3 DEF SW!DeadLetter, SW!Goto, Burying
    <2>4. QED
      BY <1>5, <2>1, <2>2, <2>3 DEF Deliver
  <1>6. ASSUME NEW u \in Workers, Stop(u) \/ Crash(u) PROVE Kept \/ (u = w /\ Gone)
    BY <1>1, <1>6 DEF Stop, Crash, SW!Stop, SW!Crash, SW!Goto
  <1>7. ASSUME NEW u \in Workers, HandlerDbFails(u) \/ DbFails(u) \/ RedisRefuses(u) PROVE FALSE
    BY <1>7 DEF HandlerDbFails, DbFails, RedisRefuses, SW!DbFails, SW!RedisRefuses, Calm
  <1>8. ASSUME NEW u \in Workers, RedisFails(u)
        PROVE  Kept \/ (u = w /\ link'[w] = "broken" /\ pc'[w] # "markFailed")
    <2>1. SW!Raise(u) /\ link' = [link EXCEPT ![u] = "broken"]
      BY <1>8 DEF RedisFails, SW!RedisFails
    <2>2. QED
      BY <1>1, <2>1 DEF SW!Raise, SW!Escape, SW!Goto
  <1>9. ASSUME NEW u \in Workers, HandlerRefuses(u) \/ UpstreamFails(u)
        PROVE  Kept \/ (u = w /\ pc[w] = "handle" /\ pc'[w] = "deadLetter" /\ GivesUp(w))
    <2>1. (u # w /\ Kept) \/ (u = w /\ pc[w] = "handle" /\ pc'[w] = "deadLetter")
      BY <1>1, <1>9 DEF HandlerRefuses, UpstreamFails, SW!HandlerRaises, SW!Goto
    <2>2. AtAwait(u, HttpAwaits \cup {"require"})
      BY <1>9 DEF HandlerRefuses, UpstreamFails, AtAwait, MoveTo, HttpAwaits
    <2>3. Await(u) = "require" => HandlerRefuses(u) /\ MustRefuse(u)
      BY <1>9 DEF HandlerRefuses, UpstreamFails, AtAwait, HttpAwaits
    <2>4. UNCHANGED <<commands, dataVars>>
      BY <1>9 DEF HandlerRefuses, UpstreamFails
    <2>5. GivesUp(u)
      BY <2>2, <2>3, <2>4 DEF GivesUp, MustRefuse
    <2>6. QED
      BY <2>1, <2>5
  <1>10. ASSUME NEW u \in Workers, StartWorker(u) \/ Work(u) \/ Trouble(u)
         PROVE  \/ Kept \/ Gone \/ (Burying(w) /\ pc'[w] = "markFailed")
                \/ link'[w] = "broken" /\ pc'[w] # "markFailed"
                \/ pc[w] = "handle" /\ pc'[w] = "deadLetter" /\ GivesUp(w)
    BY <1>2, <1>4, <1>5, <1>6, <1>7, <1>8, <1>9, <1>10 DEF Work, Handler, Handles, Trouble
  <1>11. ASSUME NEW u \in Workers, StartWorker(u) \/ Work(u) \/ Trouble(u)
         PROVE  /\ pc[w] # "deadLetter" /\ Burying(w)' => GivesUp(w)
                /\ pc[w] = "deadLetter" /\ (Burying(w)' \/ pc'[w] = "markFailed") => Burying(w)
    BY <1>10, <1>11 DEF Burying
  <1>12. QED
    BY <1>3, <1>11 DEF Next, Steps
-----------------------------------------------------------------------------
\* What a worker holds was read, and nobody else holds it.
LEMMA HeldAlone ==
  ASSUME Sound, NEW w \in Workers, NEW i \in Nat, SWP!Holds(w, Commands, i)
  PROVE  /\ i <= delivered[Commands] /\ delivered[Commands] \in Nat
         /\ \A u \in Workers : SWP!Holds(u, Commands, i) => u = w
  <1>1. Commands \in SWP!Streams
    BY DEF SWP!Streams, NStreams, Commands
  <1>2. <<Commands, i>> \in pel /\ \A u \in Workers \ {w} : ~ SWP!Holds(u, Commands, i)
    BY <1>1 DEF Sound, SWP!StreamInv, SWP!HeldIsPending
  <1>3. QED
    BY <1>1, <1>2 DEF Sound, SWP!StreamInv, SWP!Delivered, SWP!TypeOK

\* A worker at a command has one that is not done with.
LEMMA ActiveIsPending ==
  ASSUME Sound, NEW w \in Workers, Active(w)
  PROVE  /\ cur[w] \in 1..Len(commands) /\ Pending(cur[w]) /\ SWP!Holds(w, Commands, cur[w])
         /\ cur[w] \in Nat /\ cur[w] <= delivered[Commands] /\ delivered[Commands] \in Nat
         /\ RunOf(w) = commands[cur[w]].run /\ RunOf(w) \in Runs /\ Command(w) \in CommandRecords
  <1>1. /\ cur[w] \in 1..Len(commands) /\ SWP!Holds(w, Commands, cur[w]) /\ Command(w) \in CommandRecords
    BY CommandKnown DEF Sound, SWP!Busy, Active
  <1>2. cur[w] \in Nat /\ cur[w] <= delivered[Commands] /\ delivered[Commands] \in Nat
    BY <1>1, HeldAlone DEF Sound, SWP!StreamInv, SWP!TypeOK
  <1>3. RunOf(w) \in Runs /\ RunOf(w) = commands[cur[w]].run
    BY <1>1 DEF RunOf, Command, CommandRecords
  <1>4. Pending(cur[w])
    BY <1>1 DEF Pending
  <1>5. QED
    BY <1>1, <1>2, <1>3, <1>4

\* Once over, a worker's move is not at a command any more, or has just come to it.
LEMMA LeavesHandler ==
  ASSUME NEW w \in Workers, Leaves(w)
  PROVE  /\ pc'[w] = "deadLetter" => pc[w] = "handle"
         /\ pc'[w] = "markFailed" => pc[w] = "deadLetter"
         /\ pc[w] = "markFailed" => pc'[w] \notin {"handle", "deadLetter", "markFailed"}
         /\ pc[w] = "handle" => pc'[w] \notin {"handle", "markFailed"}
  BY DEF Leaves, SWP!WorkerMove, SWP!HoldsNothing, SWP!GoesOn, SWP!Buries, SWP!Records, SWP!Advances, SWP!Takes, SWP!Busy

\* Who writes to a row.

\* The statuses, and the failure that may be retried, each has its statement.
SetsStatus(w, patch) ==
  /\ "status" \in DOMAIN patch /\ patch["status"] \notin {"none", "accepted"}
  /\ patch["status"] = "awaiting_payment" <=> Await(w) \in {"setAwaiting", "setRetryable"}
  /\ patch["status"] = "completed" => Await(w) = "setCompleted"
  /\ patch["status"] = "failed" => Await(w) = "setRejected"
  /\ "failure" \in DOMAIN patch /\ patch["failure"] = "INSUFFICIENT_FUNDS" =>
       Await(w) \in {"setRetryable", "setRejected"} /\ Outcome[Command(w).scenario] = "INSUFFICIENT_FUNDS"

\* Every statement of a handler sets its status.
LEMMA PatchStatus ==
  ASSUME NEW w \in Workers, AtAwait(w, DbAwaits), Await(w) # "require"
  PROVE  SetsStatus(w, Patch(w))
  <1>1. CASE Await(w) = "setCreating"
    <2>1. Patch(w) = [status |-> "order_creating"]
      BY <1>1 DEF Patch
    <2>2. QED
      BY <1>1, <2>1 DEF SetsStatus
  <1>2. CASE Await(w) = "setOrder"
    <2>1. Patch(w) = [status |-> "invoice_generating", order |-> loc[w]]
      BY <1>2 DEF Patch
    <2>2. QED
      BY <1>2, <2>1 DEF SetsStatus
  <1>3. CASE Await(w) = "setInvoicing"
    <2>1. Patch(w) = [status |-> "invoice_generating"]
      BY <1>3 DEF Patch
    <2>2. QED
      BY <1>3, <2>1 DEF SetsStatus
  <1>4. CASE Await(w) = "setAwaiting"
    <2>1. Patch(w) = [status |-> "awaiting_payment", invoice |-> TRUE, failure |-> "none"]
      BY <1>4 DEF Patch
    <2>2. QED
      BY <1>4, <2>1 DEF SetsStatus
  <1>5. CASE Await(w) = "setRequested"
    <2>1. Patch(w) = [status |-> "payment_requested", failure |-> "none"]
      BY <1>5 DEF Patch
    <2>2. QED
      BY <1>5, <2>1 DEF SetsStatus
  <1>6. CASE Await(w) = "setProcessing"
    <2>1. Patch(w) = [status |-> "payment_processing"]
      BY <1>6 DEF Patch
    <2>2. QED
      BY <1>6, <2>1 DEF SetsStatus
  <1>7. CASE Await(w) = "setPaid"
    <2>1. Patch(w) = [status |-> "receipt_generating", payment |-> TRUE, failure |-> "none"]
      BY <1>7 DEF Patch
    <2>2. QED
      BY <1>7, <2>1 DEF SetsStatus
  <1>8. CASE Await(w) = "setRetryable"
    <2>1. Patch(w) = [status |-> "awaiting_payment", payment |-> TRUE, failure |-> Outcome[Command(w).scenario]]
      BY <1>8 DEF Patch
    <2>2. QED
      BY <1>8, <2>1 DEF SetsStatus
  <1>9. CASE Await(w) = "setRejected"
    <2>1. Patch(w) = [status |-> "failed", finished |-> TRUE, failure |-> Outcome[Command(w).scenario]]
      BY <1>9 DEF Patch
    <2>2. QED
      BY <1>9, <2>1 DEF SetsStatus
  <1>10. CASE Await(w) = "setSending"
    <2>1. Patch(w) = [status |-> "notification_sending", receipt |-> TRUE]
      BY <1>10 DEF Patch
    <2>2. QED
      BY <1>10, <2>1 DEF SetsStatus
  <1>11. CASE Await(w) = "setCompleted"
    <2>1. Patch(w) = [status |-> "completed", notification |-> TRUE, finished |-> TRUE]
      BY <1>11 DEF Patch
    <2>2. QED
      BY <1>11, <2>1 DEF SetsStatus
  <1>12. CASE Await(w) = "setUnsent"
    <2>1. Patch(w) = [status |-> "notification_failed", notification |-> TRUE, failure |-> "NOTIFICATION_FAILED"]
      BY <1>12 DEF Patch
    <2>2. QED
      BY <1>12, <2>1 DEF SetsStatus
  <1>13. QED
    BY <1>1, <1>2, <1>3, <1>4, <1>5, <1>6, <1>7, <1>8, <1>9, <1>10, <1>11, <1>12 DEF AtAwait, DbAwaits

\* The statement w is at is executed for run r, and w goes on or goes away.
Executes(w, r) ==
  /\ AtAwait(w, DbAwaits) /\ Await(w) # "require" /\ Active(w) /\ r = RunOf(w)
  /\ Handles(w) \/ (Leaves(w) /\ ~ Active(w)')
  /\ UpdateRun(r, Patch(w))
  /\ UNCHANGED <<orderStatus, trail, owner, docs, charges, mails, commands>>

\* w marks its run, r, as failed.
Fails(w, r) ==
  /\ pc[w] = "markFailed" /\ Active(w) /\ r = RunOf(w) /\ Leaves(w) /\ ~ Active(w)'
  /\ MarkRunFailed(w) /\ UNCHANGED commands

\* A request makes run r.
Opens(r) ==
  \E a \in Attempts : CreateRun(r, a) /\ runs[r].status = "none" /\ UpdateRun(r, [status |-> "accepted"])

\* A row is written by who works for its run, or by the request that makes it.
LEMMA RowTouched ==
  ASSUME Sound, SagaMove, CalmDeaths, NEW r \in Runs
  PROVE  \/ runs'[r] = runs[r]
         \/ \E w \in Workers : Executes(w, r)
         \/ \E w \in Workers : Fails(w, r)
         \/ Opens(r)
  <1>1. \A q \in Runs : \A patch : UpdateRun(q, patch) /\ q # r => runs'[r] = runs[r]
    BY DEF UpdateRun, Sound, TypeOK
  <1>2. ASSUME NEW w \in Workers, AtAwait(w, DbAwaits), Await(w) # "require", Handles(w) \/ Leaves(w),
               UpdateRun(RunOf(w), Patch(w)),
               UNCHANGED <<orderStatus, trail, owner, docs, charges, mails, commands>>
        PROVE  runs'[r] = runs[r] \/ Executes(w, r)
    <2>1. Active(w) /\ pc[w] = "handle"
      BY <1>2 DEF AtAwait, Handling, Await, DbAwaits, Active, Ended
    <2>2. RunOf(w) \in Runs
      BY <2>1, ActiveIsPending
    <2>3. Leaves(w) => ~ Active(w)'
      <3>1. ~ GivesUp(w)
        BY <1>2 DEF GivesUp, AtAwait, DbAwaits, HttpAwaits
      <3>2. QED
        BY <2>1, <3>1, LeavesHandler DEF CalmDeaths, Burying, Active
    <2>4. QED
      BY <1>1, <1>2, <2>1, <2>2, <2>3 DEF Executes
  <1>3. ASSUME NEW w \in Workers, pc[w] = "markFailed", Leaves(w), MarkRunFailed(w), UNCHANGED commands
        PROVE  runs'[r] = runs[r] \/ Fails(w, r)
    <2>1. Active(w) /\ ~ Active(w)'
      BY <1>3, LeavesHandler DEF Active
    <2>2. RunOf(w) \in Runs
      BY <2>1, ActiveIsPending
    <2>3. QED
      BY <1>1, <1>3, <2>1, <2>2 DEF Fails, MarkRunFailed
  <1>4. ASSUME NEW q \in Runs, NEW a \in Attempts,
               CreateRun(q, a), runs[q].status = "none", UpdateRun(q, [status |-> "accepted"])
        PROVE  runs'[r] = runs[r] \/ Opens(r)
    BY <1>1, <1>4 DEF Opens
  <1>5. QED
    BY <1>2, <1>3, <1>4, RunsStep
-----------------------------------------------------------------------------
\* What a step does to one run.

\* The row of a run after the statement of a handler.
LEMMA ExecutedRow ==
  ASSUME Sound, NEW r \in Runs, NEW w \in Workers, Executes(w, r)
  PROVE  /\ runs'[r].status \notin {"none", "accepted"}
         /\ runs'[r].status = "awaiting_payment" <=> Await(w) \in {"setAwaiting", "setRetryable"}
         /\ runs'[r].status \in {"awaiting_payment", "completed", "failed"} => Finishes(w)
         /\ Await(w) \in {"setAwaiting", "setRetryable"} => runs'[r].order = runs[r].order
         /\ runs'[r].failure = "INSUFFICIENT_FUNDS" =>
              \/ runs[r].failure = "INSUFFICIENT_FUNDS"
              \/ Await(w) \in {"setRetryable", "setRejected"} /\ Outcome[Command(w).scenario] = "INSUFFICIENT_FUNDS"
  <1>1. SetsStatus(w, Patch(w))
    BY PatchStatus DEF Executes
  <1>2. UpdateRun(r, Patch(w))
    BY DEF Executes
  <1>3. {"status", "failure", "order"} \subseteq DOMAIN NoRun
    BY DEF NoRun
  <1>4. runs'[r]["status"] = Patch(w)["status"]
    BY <1>1, <1>2, <1>3, RunColumn DEF SetsStatus
  <1>5. runs'[r]["failure"] = IF "failure" \in DOMAIN Patch(w) THEN Patch(w)["failure"] ELSE runs[r]["failure"]
    BY <1>2, <1>3, RunColumn
  <1>6. Await(w) \in {"setAwaiting", "setRetryable"} => runs'[r].order = runs[r].order
    <2>1. Await(w) \in {"setAwaiting", "setRetryable"} => "order" \notin DOMAIN Patch(w)
      BY DEF Patch
    <2>2. QED
      BY <1>2, <1>3, <2>1, RunColumn
  <1>7. Await(w) \in {"setAwaiting", "setRetryable", "setCompleted", "setRejected"} => Finishes(w)
    BY DEF Executes, Finishes, LastAwaits
  <1>8. QED
    BY <1>1, <1>4, <1>5, <1>6, <1>7 DEF SetsStatus

\* After the worker failed it.
LEMMA FailedRow ==
  ASSUME Sound, NEW r \in Runs, NEW w \in Workers, Fails(w, r)
  PROVE  /\ runs'[r].status = "failed" /\ runs'[r].failure = "WORKFLOW_WORKER_ERROR"
         /\ Finishes(w)
  <1>1. UpdateRun(r, [status |-> "failed", failure |-> "WORKFLOW_WORKER_ERROR", finished |-> TRUE])
    BY DEF Fails, MarkRunFailed
  <1>2. {"status", "failure"} \subseteq DOMAIN NoRun
    BY DEF NoRun
  <1>3. runs'[r]["status"] = "failed" /\ runs'[r]["failure"] = "WORKFLOW_WORKER_ERROR"
    BY <1>1, <1>2, RunColumn
  <1>4. QED
    BY <1>3 DEF Fails, Finishes

\* After a request made it.
LEMMA OpenedRow ==
  ASSUME Sound, NEW r \in Runs, Opens(r)
  PROVE  /\ runs[r].status = "none" /\ runs'[r].status = "accepted" /\ runs'[r].failure = runs[r].failure
  <1>1. UpdateRun(r, [status |-> "accepted"]) /\ runs[r].status = "none"
    BY DEF Opens
  <1>2. {"status", "failure"} \subseteq DOMAIN NoRun
    BY DEF NoRun
  <1>3. runs'[r]["status"] = "accepted" /\ runs'[r]["failure"] = runs[r]["failure"]
    BY <1>1, <1>2, RunColumn
  <1>4. QED
    BY <1>1, <1>3
-----------------------------------------------------------------------------
\* A busy run has work.

\* Only other services fail, and requests come once there is a group.
NoFaults == Faults = {} /\ EarlyIntake = FALSE

\* Entry i waits in the batch of w, or w is at it.
Waits(w, i) == SWP!Holds(w, Commands, i) /\ (cur[w] < i \/ (cur[w] = i /\ Active(w)))

\* Worker w does the last thing it does for its command.
Ends(w) == (Handles(w) /\ Await(w) \in LastAwaits) \/ MarkFailed(w)

\* No exception waits for a finally block to end, and no connection is broken.
Undisturbed == \A w \in Workers : after[w] = "next" /\ link[w] = "up"

\* Before there is a group, there is nothing.
GroupFirst ==
  ~ grouped[Commands] =>
    /\ commands = <<>>
    /\ \A r \in Runs : runs[r].status = "none"
    /\ \A r \in Runs, a \in Attempts : intake[<<r, a>>] = "idle"
    /\ \A p \in PayRequests : pay[p].at # "checked"

\* Somebody has yet to do something for run r.
HasWork(r) ==
  \/ \E i \in 1..Len(commands) : Pending(i) /\ commands[i].run = r
  \/ \E a \in Attempts : intake[<<r, a>>] = "inserted"

\* BusyRunHasWork, with the work that is left and not only held.
BusyIsPending == \A r \in Runs : runs[r].status \notin Resting => HasWork(r)

BusyInv == Undisturbed /\ GroupFirst /\ BusyIsPending

\* The steps of a worker that no fault of its own makes.
Calmly(w) ==
  \/ Handles(w) \/ HandlerReturns(w) \/ HandlerRefuses(w) \/ UpstreamFails(w) \/ MarkFailed(w)
  \/ Deliver(w) \/ StartWorker(w) \/ LoopErrorEndsTask(w)

\* Every step of a worker is one of them while there are no faults.
LEMMA WithoutFaults ==
  ASSUME NoFaults, Next
  PROVE  Asks \/ (\E c \in late : LateCall(c)) \/ \E w \in Workers : Calmly(w)
  <1>1. CASE Intake \/ AskForCheckout \/ AskForPayment
    BY <1>1 DEF Intake, AskForCheckout, AskForPayment, Asks
  <1>2. ASSUME NEW w \in Workers, HandlerDbFails(w) \/ RedisFails(w) \/ RedisRefuses(w) \/ DbFails(w) \/ Stop(w) \/ Crash(w)
        PROVE  FALSE
    BY <1>2 DEF NoFaults, HandlerDbFails, RedisFails, RedisRefuses, DbFails, Stop, Crash, SW!RedisFails,
       SW!RedisRefuses, SW!DbFails, SW!Stop, SW!Crash
  <1>3. ASSUME NEW w \in Workers, StartWorker(w) \/ Work(w) \/ Trouble(w) PROVE Calmly(w)
    BY <1>2, <1>3 DEF Work, Handler, Trouble, Calmly, Handles
  <1>4. QED
    BY <1>1, <1>3 DEF Next, Steps

\* What a worker is at, as the stream knows it.
LEMMA WorkerFacts ==
  ASSUME Sound, NEW w \in Workers
  PROVE  /\ on[w] = Commands /\ cur[w] \in Nat /\ hi[w] \in Nat /\ Commands \in SW!Streams
         /\ delivered[Commands] \in Nat /\ appended[Commands] = Len(commands)
         /\ appended[Commands] \in Nat /\ delivered[Commands] <= appended[Commands]
         /\ pc \in [Workers -> SWP!PCs] /\ cur \in [Workers -> Nat] /\ hi \in [Workers -> Nat]
         /\ on \in [Workers -> SW!Streams] /\ delivered \in [SW!Streams -> Nat]
         /\ after \in [Workers -> {"next", "loopError", "down"}]
         /\ link \in [Workers -> {"up", "broken"}]
         /\ pc[w] \notin SWP!Busy => cur[w] = 1 /\ hi[w] = 0
         /\ pc[w] # "handle" => todo[w] = <<"require">>
         /\ pc[w] = "record" => ~ SW!Recorded(SW!Entry(w))
  <1>1. SWP!TypeOK /\ SWP!Delivered /\ SWP!HoldsWhileBusy /\ SWP!HeldIsUnrecorded
    BY DEF Sound, SWP!StreamInv
  <1>2. Commands \in SW!Streams /\ SW!Streams = SWP!Streams /\ SW!Streams = {Commands}
    BY DEF SW!Streams, SWP!Streams, NStreams, Commands
  <1>3. pc[w] = "record" => ~ SWP!Recorded(SWP!Entry(w))
    <2>1. pc[w] = "record" => SWP!Holds(w, on[w], cur[w]) /\ on[w] \in SWP!Streams /\ cur[w] \in Nat
      BY <1>1, SWP!HoldsItsEntry, Assumed DEF SWP!Busy
    <2>2. QED
      BY <1>1, <2>1 DEF SWP!HeldIsUnrecorded, SWP!Entry
  <1>4. pc[w] = "record" => ~ SW!Recorded(SW!Entry(w))
    BY <1>3 DEF SW!Recorded, SWP!Recorded, SW!Entry, SWP!Entry
  <1>5. TypeOK /\ AtRest
    BY DEF Sound
  <1>6. appended[Commands] = Len(commands)
    BY <1>5 DEF TypeOK
  <1>7. QED
    BY <1>1, <1>2, <1>4, <1>5, <1>6 DEF SWP!TypeOK, SWP!Delivered, SWP!HoldsWhileBusy, AtRest

\* The worker keeps the entries that wait for it, until it is done with the first.
LEMMA WaitsStep ==
  ASSUME Sound, Undisturbed, NEW w \in Workers, OnScript(w), Calmly(w), NEW i \in Nat, Waits(w, i)
  PROVE  Waits(w, i)' \/ (cur[w] = i /\ Ends(w))
  <1>1. /\ on[w] = Commands /\ cur[w] \in Nat /\ hi[w] \in Nat /\ cur[w] <= i /\ i <= hi[w]
        /\ pc \in [Workers -> SWP!PCs] /\ cur \in [Workers -> Nat] /\ hi \in [Workers -> Nat]
        /\ pc[w] \notin SWP!Busy => cur[w] = 1 /\ hi[w] = 0
        /\ pc[w] # "handle" => todo[w] = <<"require">>
        /\ pc[w] = "record" => ~ SW!Recorded(SW!Entry(w))
    BY WorkerFacts DEF Waits, SWP!Holds
  <1>2. pc[w] \in SWP!Busy
    BY <1>1
  <1>3. cur[w] < i \/ (cur[w] = i /\ Active(w))
    BY DEF Waits
  <1>4. ASSUME on'[w] = on[w], cur'[w] = cur[w], hi'[w] = hi[w], cur[w] < i \/ Active(w)'
        PROVE  Waits(w, i)'
    BY <1>1, <1>3, <1>4 DEF Waits, SWP!Holds
  <1>5. CASE Handles(w)
    <2>1. UNCHANGED <<on, cur, hi, pc>> /\ pc[w] = "handle"
      BY <1>5, HandlesFrame
    <2>2. CASE cur[w] < i
      BY <1>4, <2>1, <2>2
    <2>3. CASE cur[w] = i /\ Active(w) /\ Await(w) \notin LastAwaits
      <3>1. todo[w] \notin Ended
        BY <2>1, <2>3 DEF Active
      <3>2. todo'[w] \notin Ended
        BY <1>5, <2>3, <3>1, HandlerFlow
      <3>3. Active(w)'
        BY <2>1, <3>2 DEF Active
      <3>4. QED
        BY <1>4, <2>1, <3>3
    <2>4. QED
      BY <1>3, <1>5, <2>2, <2>3 DEF Ends
  <1>6. CASE HandlerReturns(w)
    <2>1. pc[w] = "handle" /\ todo[w] = <<>> /\ UNCHANGED <<on, cur, hi>>
      BY <1>6 DEF HandlerReturns, SW!HandlerReturns
    <2>2. ~ Active(w)
      BY <2>1 DEF Active, Ended
    <2>3. QED
      BY <1>3, <1>4, <2>1, <2>2
  <1>7. CASE HandlerRefuses(w) \/ UpstreamFails(w)
    <2>1. UNCHANGED <<on, cur, hi, link>> /\ pc'[w] = "deadLetter" /\ link[w] = "up"
      BY <1>1, <1>7 DEF HandlerRefuses, UpstreamFails, SW!HandlerRaises, SW!Goto, Undisturbed
    <2>2. QED
      BY <1>4, <2>1 DEF Active
  <1>8. CASE MarkFailed(w)
    <2>1. UNCHANGED <<on, cur, hi>>
      BY <1>8 DEF MarkFailed, SW!MarkFailed
    <2>2. QED
      BY <1>3, <1>4, <1>8, <2>1 DEF Ends
  <1>9. CASE StartWorker(w) \/ LoopErrorEndsTask(w)
    BY <1>2, <1>9 DEF StartWorker, LoopErrorEndsTask, SW!Start, SW!LoopErrorEndsTask, SWP!Busy
  <1>10. CASE Deliver(w)
    <2>1. CASE SW!EnsureGroup(w) \/ SW!Read(w) \/ SW!ReadNothing(w) \/ SW!LoopError(w)
      BY <1>2, <2>1 DEF SW!EnsureGroup, SW!Read, SW!ReadNothing, SW!LoopError, SWP!Busy
    <2>2. CASE SW!DeadLetter(w)
      <3>1. UNCHANGED <<on, cur, hi>> /\ pc'[w] = "markFailed"
        BY <1>1, <2>2 DEF SW!DeadLetter, SW!Goto
      <3>2. QED
        BY <1>4, <3>1 DEF Active
    <2>3. CASE SW!Record(w)
      <3>1. UNCHANGED <<on, cur, hi>> /\ pc[w] = "record"
        BY <1>1, <2>3 DEF SW!Record
      <3>2. QED
        BY <1>3, <1>4, <3>1 DEF Active
    <2>4. CASE SW!Ack(w)
      <3>1. SW!NextMessage(w) /\ pc[w] = "ack"
        BY <2>4 DEF SW!Ack, SW!LeaveFinally, Undisturbed
      <3>2. cur[w] < i
        BY <1>3, <3>1 DEF Active
      <3>3. on'[w] = on[w] /\ cur'[w] = cur[w] + 1 /\ hi'[w] = hi[w] /\ pc'[w] = "handle"
        BY <1>1, <3>1, <3>2 DEF SW!NextMessage, SW!Goto
      <3>4. todo'[w] = <<"require">>
        BY <1>1, <1>10, <3>1 DEF Deliver, handlerVars
      <3>5. Active(w)'
        BY <3>3, <3>4 DEF Active, Ended
      <3>6. QED
        BY <1>1, <3>2, <3>3, <3>5 DEF Waits, SWP!Holds
    <2>5. QED
      BY <1>10, <2>1, <2>2, <2>3, <2>4 DEF Deliver
  <1>11. QED
    BY <1>5, <1>6, <1>7, <1>8, <1>9, <1>10 DEF Calmly

\* The steps of a worker leave the others where they are.
LEMMA CalmFrame ==
  ASSUME Sound, NEW w \in Workers, Calmly(w), NEW u \in Workers, u # w
  PROVE  on'[u] = on[u] /\ cur'[u] = cur[u] /\ hi'[u] = hi[u] /\ pc'[u] = pc[u] /\ todo'[u] = todo[u]
         /\ after'[u] = after[u] /\ link'[u] = link[u]
  <1>1. SWP!TypeOK /\ todo \in [Workers -> Seq(AwaitLabels)]
    BY DEF Sound, SWP!StreamInv, TypeOK, AwaitLabels
  <1>2. CASE Handles(w)
    BY <1>2, HandlesFrame, HandlesStep DEF Sound, OthersWait
  <1>3. CASE HandlerReturns(w) \/ HandlerRefuses(w) \/ UpstreamFails(w)
    BY <1>1, <1>3 DEF HandlerReturns, HandlerRefuses, UpstreamFails, SW!HandlerReturns, SW!HandlerRaises, SW!Goto,
       Forget, SWP!TypeOK
  <1>4. CASE MarkFailed(w) \/ StartWorker(w) \/ LoopErrorEndsTask(w)
    BY <1>1, <1>4 DEF MarkFailed, StartWorker, LoopErrorEndsTask, SW!MarkFailed, SW!Start, SW!LoopErrorEndsTask,
       SW!Goto, SWP!TypeOK, handlerVars
  <1>5. CASE Deliver(w)
    <2>1. UNCHANGED todo
      BY <1>5 DEF Deliver, handlerVars
    <2>2. CASE SW!EnsureGroup(w) \/ SW!Read(w) \/ SW!ReadNothing(w) \/ SW!DeadLetter(w) \/ SW!LoopError(w)
      BY <1>1, <2>1, <2>2 DEF SW!EnsureGroup, SW!Read, SW!ReadNothing, SW!DeadLetter, SW!LoopError, SW!NextStream,
         SW!Goto, SWP!TypeOK
    <2>3. CASE SW!Record(w) \/ SW!Ack(w)
      <3>0. UNCHANGED link
        BY <2>3 DEF SW!Record, SW!Ack
      <3>1. CASE SW!NextMessage(w)
        BY <1>1, <2>1, <3>0, <3>1 DEF SW!NextMessage, SW!DropBatch, SW!Goto, SWP!TypeOK
      <3>2. CASE SW!Escape(w)
        BY <1>1, <2>1, <3>0, <3>2 DEF SW!Escape, SW!DropBatch, SW!Goto, SWP!TypeOK
      <3>3. CASE SW!Goto(w, "ack") /\ UNCHANGED <<on, cur, hi, verdict, after>>
        BY <1>1, <2>1, <3>0, <3>3 DEF SW!Goto, SWP!TypeOK
      <3>4. QED
        BY <2>3, <3>1, <3>2, <3>3 DEF SW!Record, SW!Ack, SW!LeaveFinally
    <2>4. QED
      BY <1>5, <2>2, <2>3 DEF Deliver
  <1>6. QED
    BY <1>2, <1>3, <1>4, <1>5 DEF Calmly

\* While there is a group, only a read hands anything out.
LEMMA OnlyReads ==
  ASSUME Sound, NEW w \in Workers, Calmly(w), grouped[Commands]
  PROVE  delivered'[Commands] = delivered[Commands] \/ (Deliver(w) /\ SW!Read(w))
  <1>1. on[w] = Commands
    BY WorkerFacts
  <1>2. CASE Handles(w)
    BY <1>2, HandlesFrame
  <1>3. CASE HandlerReturns(w) \/ HandlerRefuses(w) \/ UpstreamFails(w) \/ MarkFailed(w) \/ StartWorker(w) \/ LoopErrorEndsTask(w)
    BY <1>3 DEF HandlerReturns, HandlerRefuses, UpstreamFails, MarkFailed, StartWorker, LoopErrorEndsTask,
       SW!HandlerReturns, SW!HandlerRaises, SW!MarkFailed, SW!Start, SW!LoopErrorEndsTask, SW!NoEffect, SW!redisVars
  <1>4. CASE Deliver(w)
    BY <1>1, <1>4 DEF Deliver, SW!EnsureGroup, SW!ReadNothing, SW!DeadLetter, SW!Record, SW!Ack, SW!LoopError,
       SW!NoEffect, SW!redisVars, SW!CreateGroup, SW!PublishDeadLetter, SW!RecordProcessed, SW!Acknowledge
  <1>5. QED
    BY <1>2, <1>3, <1>4 DEF Calmly

\* What a read hands out waits for its reader.
LEMMA ReadWaits ==
  ASSUME Sound, NEW w \in Workers, Deliver(w), SW!Read(w), NEW i \in Nat, delivered[Commands] < i
  PROVE  delivered'[Commands] < i \/ Waits(w, i)'
  <1>1. /\ on[w] = Commands /\ delivered[Commands] \in Nat /\ appended[Commands] \in Nat /\ Commands \in SW!Streams
        /\ pc \in [Workers -> SWP!PCs] /\ cur \in [Workers -> Nat] /\ hi \in [Workers -> Nat]
        /\ delivered \in [SW!Streams -> Nat] /\ (pc[w] # "handle" => todo[w] = <<"require">>)
    BY WorkerFacts
  <1>2. SW!LastRead(Commands) \in Nat /\ delivered'[Commands] = SW!LastRead(Commands)
    <2>1. SW!LastRead(Commands) \in Nat
      BY <1>1, CheckoutAssumption DEF SW!LastRead
    <2>2. QED
      BY <1>1, <2>1 DEF SW!Read, SW!DeliverBatch
  <1>3. /\ on'[w] = Commands /\ cur'[w] = delivered[Commands] + 1 /\ hi'[w] = SW!LastRead(Commands)
        /\ pc'[w] = "handle" /\ pc[w] = "read"
    BY <1>1 DEF SW!Read, SW!Goto
  <1>4. todo'[w] = <<"require">>
    BY <1>1, <1>3 DEF Deliver, handlerVars
  <1>5. Active(w)'
    BY <1>3, <1>4 DEF Active, Ended
  <1>6. CASE i <= SW!LastRead(Commands)
    BY <1>1, <1>2, <1>3, <1>5, <1>6 DEF Waits, SWP!Holds
  <1>7. QED
    BY <1>2, <1>6

\* An entry that is not done with stays so, until a worker is done with it.
LEMMA PendingGoes ==
  ASSUME Sound, HandlersOnScript, Undisturbed, GroupFirst, NoFaults, Next, NEW i \in 1..Len(commands), Pending(i)
  PROVE  Pending(i)' \/ \E w \in Workers : Waits(w, i) /\ cur[w] = i /\ Calmly(w) /\ Ends(w)
  <1>1. i \in Nat
    OBVIOUS
  <1>2. ASSUME NEW w \in Workers, Waits(w, i)' PROVE Pending(i)'
    BY <1>2 DEF Waits, Pending
  <1>3. CASE Asks \/ \E c \in late : LateCall(c)
    <2>1. UNCHANGED <<pc, link, on, cur, hi, delivered, todo>>
      BY <1>3, RequestFrame
    <2>2. QED
      BY <2>1 DEF Pending, SWP!Holds, Active
  <1>4. ASSUME NEW w \in Workers, Calmly(w) PROVE Pending(i)' \/ (Waits(w, i) /\ cur[w] = i /\ Ends(w))
    <2>1. CASE delivered[Commands] < i
      <3>1. grouped[Commands]
        BY DEF GroupFirst
      <3>2. CASE delivered'[Commands] = delivered[Commands]
        BY <2>1, <3>2 DEF Pending
      <3>3. CASE Deliver(w) /\ SW!Read(w)
        BY <1>1, <1>2, <2>1, <3>3, ReadWaits DEF Pending
      <3>4. QED
        BY <1>4, <3>1, <3>2, <3>3, OnlyReads
    <2>2. ASSUME NEW u \in Workers, Waits(u, i), u # w PROVE Pending(i)'
      <3>1. /\ on'[u] = on[u] /\ cur'[u] = cur[u] /\ hi'[u] = hi[u] /\ pc'[u] = pc[u] /\ todo'[u] = todo[u]
            /\ link'[u] = link[u]
        BY <1>4, <2>2, CalmFrame
      <3>2. Waits(u, i)'
        BY <2>2, <3>1 DEF Waits, SWP!Holds, Active
      <3>3. QED
        BY <1>2, <3>2
    <2>3. CASE Waits(w, i)
      BY <1>1, <1>2, <1>4, <2>3, WaitsStep DEF HandlersOnScript
    <2>4. QED
      BY <2>1, <2>2, <2>3 DEF Pending, Waits
  <1>5. QED
    BY <1>3, <1>4, WithoutFaults

\* Statements that end a handler let its run rest.
LEMMA LastStatus ==
  ASSUME Sound, NEW w \in Workers, Handles(w), Await(w) \in LastAwaits \ DOMAIN Sends, NEW r \in Runs, r = RunOf(w)
  PROVE  runs'[r].status \in Resting
  <1>1. /\ AtAwait(w, DbAwaits) /\ UpdateRun(RunOf(w), Patch(w))
        /\ Await(w) \in {"setAwaiting", "setRetryable", "setRejected", "setCompleted", "setUnsent"}
    <2>1. Await(w) \in {"setAwaiting", "setRetryable", "setRejected", "setCompleted", "setUnsent"}
      BY DEF LastAwaits
    <2>2. DbStep(w)
      BY <2>1 DEF Handles, HttpStep, SendStep, TellStep, AtAwait, HttpAwaits, Sends
    <2>3. QED
      BY <2>1, <2>2 DEF DbStep, DbEffect
  <1>2. "status" \in DOMAIN NoRun
    BY DEF NoRun
  <1>3. "status" \in DOMAIN Patch(w) /\ Patch(w)["status"] \in Resting
    <2>1. CASE Await(w) = "setAwaiting"
      BY <2>1 DEF Patch, Resting
    <2>2. CASE Await(w) = "setRetryable"
      BY <2>2 DEF Patch, Resting
    <2>3. CASE Await(w) = "setRejected"
      BY <2>3 DEF Patch, Resting
    <2>4. CASE Await(w) = "setCompleted"
      BY <2>4 DEF Patch, Resting
    <2>5. CASE Await(w) = "setUnsent"
      BY <2>5 DEF Patch, Resting
    <2>6. QED
      BY <1>1, <2>1, <2>2, <2>3, <2>4, <2>5
  <1>4. runs'[r]["status"] = Patch(w)["status"]
    BY <1>1, <1>2, <1>3, RunColumn
  <1>5. QED
    BY <1>3, <1>4

\* A new entry is not done with.
LEMMA NewIsPending ==
  ASSUME Sound, NEW entry \in CommandRecords, Appends(entry), UNCHANGED delivered, NEW r, entry.run = r
  PROVE  HasWork(r)'
  <1>1. commands \in Seq(CommandRecords)
    BY TypeParts DEF Sound, CommandTypes
  <1>2. delivered[Commands] \in Nat /\ delivered[Commands] <= Len(commands) /\ Len(commands) \in Nat
    <2>1. delivered[Commands] \in Nat /\ appended[Commands] = Len(commands) /\ delivered[Commands] <= appended[Commands]
      BY DEF Sound, SWP!StreamInv, SWP!TypeOK, SWP!Delivered, SWP!Streams, NStreams, Commands, TypeOK
    <2>2. QED
      BY <1>1, <2>1
  <1>3. Len(commands) + 1 \in 1..Len(commands') /\ commands'[Len(commands) + 1].run = r
    BY <1>1, <1>2 DEF Appends
  <1>4. delivered'[Commands] < Len(commands) + 1
    BY <1>2
  <1>5. \E i \in 1..Len(commands') : delivered'[Commands] < i /\ commands'[i].run = r
    BY <1>3, <1>4
  <1>6. QED
    BY <1>5 DEF HasWork, Pending

\* A worker that is done with a command has sent the next one, or lets the run rest.
LEMMA EndsWork ==
  ASSUME Sound, NEW w \in Workers, NEW i, Waits(w, i), cur[w] = i, Ends(w),
         NEW r \in Runs, commands[i].run = r, runs'[r].status \notin Resting
  PROVE  HasWork(r)'
  <1>1. Active(w)
    BY WorkerFacts DEF Waits
  <1>2. RunOf(w) = r /\ Command(w) \in CommandRecords
    BY <1>1, ActiveIsPending
  <1>3. CASE Handles(w) /\ Await(w) \in DOMAIN Sends
    <2>1. AtAwait(w, DOMAIN Sends)
      BY <1>3, HandlesFrame DEF AtAwait, Handling
    <2>2. NewCommand(w) \in CommandRecords /\ NewCommand(w).run = r
      <3>1. Sends[Await(w)] \in DOMAIN Script
        BY <1>3 DEF Sends, Script
      <3>2. QED
        BY <1>2, <3>1 DEF NewCommand, RunOf, CommandRecords
    <2>3. SendStep(w)
      BY <1>3 DEF Handles, DbStep, HttpStep, TellStep, AtAwait, DbAwaits, HttpAwaits, Sends
    <2>4. Appends(NewCommand(w))
      <3>1. appended \in [SW!Streams -> Nat] /\ Commands \in SW!Streams
        BY DEF Sound, TypeOK, SW!TypeOK, SW!Streams, NStreams, Commands
      <3>2. QED
        BY <2>3, <3>1 DEF SendStep, Appends, SW!Publish, SW!AppendEntry
    <2>5. UNCHANGED delivered
      BY <1>3, HandlesFrame
    <2>6. QED
      BY <2>2, <2>4, <2>5, NewIsPending
  <1>4. CASE Handles(w) /\ Await(w) \in LastAwaits \ DOMAIN Sends
    BY <1>2, <1>4, LastStatus
  <1>5. CASE MarkFailed(w)
    <2>1. UpdateRun(r, [status |-> "failed", failure |-> "WORKFLOW_WORKER_ERROR", finished |-> TRUE])
      BY <1>2, <1>5 DEF MarkFailed, MarkRunFailed
    <2>2. "status" \in DOMAIN NoRun
      BY DEF NoRun
    <2>3. runs'[r]["status"] = "failed"
      BY <2>1, <2>2, RunColumn
    <2>4. QED
      BY <2>3 DEF Resting
  <1>6. QED
    BY <1>3, <1>4, <1>5 DEF Ends

\* The steps of a worker do not touch the requests.
LEMMA CalmRequests ==
  ASSUME NEW w \in Workers, Calmly(w)
  PROVE  UNCHANGED requestVars
  BY DEF Calmly, Handles, DbStep, HttpStep, SendStep, TellStep, HandlerReturns, HandlerRefuses, UpstreamFails,
         MarkFailed, Deliver, StartWorker, LoopErrorEndsTask

\* A request that made its row sends the command.
LEMMA InsertedStep ==
  ASSUME Sound, NoFaults, Next, NEW r \in Runs, NEW a \in Attempts, intake[<<r, a>>] = "inserted"
  PROVE  HasWork(r)'
  <1>1. intake \in [Runs \X Attempts -> {"idle", "absent", "inserted", "done"}]
    BY DEF Sound, TypeOK
  <1>2. ASSUME NEW q \in Runs, NEW b \in Attempts, PublishRun(q, b)
        PROVE  intake'[<<r, a>>] = "inserted" \/ HasWork(r)'
    <2>1. CASE q = r
      <3>1. [type |-> "order_create", run |-> r, scenario |-> "success"] \in CommandRecords
        BY DEF CommandRecords, Script, Outcome
      <3>2. appended \in [SW!Streams -> Nat] /\ Commands \in SW!Streams
        BY DEF Sound, TypeOK, SW!TypeOK, SW!Streams, NStreams, Commands
      <3>3. Appends([type |-> "order_create", run |-> r, scenario |-> "success"]) /\ UNCHANGED delivered
        BY <1>2, <2>1, <3>2 DEF PublishRun, Appends, SW!Publish, SW!AppendEntry
      <3>4. QED
        BY <3>1, <3>3, NewIsPending
    <2>2. CASE q # r
      BY <1>1, <1>2, <2>2 DEF PublishRun, SetIntake
    <2>3. QED
      BY <2>1, <2>2
  <1>3. ASSUME NEW q \in Runs, NEW b \in Attempts, FindRun(q, b) \/ CreateRun(q, b) \/ IntakeDies(q, b)
        PROVE  intake'[<<r, a>>] = "inserted"
    <2>1. ~ IntakeDies(q, b)
      BY DEF IntakeDies, NoFaults
    <2>2. intake[<<q, b>>] \in {"idle", "absent"}
      BY <1>3, <2>1 DEF FindRun, CreateRun
    <2>3. \E at : intake' = [intake EXCEPT ![<<q, b>>] = at]
      BY <1>3, <2>1 DEF FindRun, CreateRun, SetIntake
    <2>4. QED
      BY <1>1, <2>2, <2>3
  <1>4. CASE Asks
    BY <1>2, <1>3, <1>4 DEF Asks, HasWork, CheckPayment, PublishPayment
  <1>5. CASE \/ \E c \in late : LateCall(c)
             \/ \E w \in Workers : Calmly(w)
    <2>1. UNCHANGED intake
      BY <1>5, CalmRequests DEF LateCall, requestVars
    <2>2. QED
      BY <2>1 DEF HasWork
  <1>6. QED
    BY <1>4, <1>5, WithoutFaults

\* A run is busy for as long as somebody has something to do for it.
LEMMA BusyIsPendingStep ==
  ASSUME Sound, HandlersOnScript, BusyInv, NoFaults, [Next]_vars
  PROVE  BusyIsPending'
  <1>1. CASE UNCHANGED vars
    BY <1>1 DEF vars, swVars, dataVars, requestVars, handlerVars, BusyInv, BusyIsPending, HasWork, Pending, SWP!Holds, Active
  <1>2. CASE Next /\ SagaMove
    <2> SUFFICES ASSUME NEW r \in Runs, runs'[r].status \notin Resting PROVE HasWork(r)'
      BY DEF BusyIsPending
    <2>1. ASSUME NEW i \in 1..Len(commands), Pending(i), commands[i].run = r PROVE HasWork(r)'
      <3>1. CASE Pending(i)'
        <4>1. i \in 1..Len(commands') /\ commands'[i].run = r
          BY <1>2, <2>1, CommandsKept
        <4>2. QED
          BY <3>1, <4>1 DEF HasWork
      <3>2. ASSUME NEW w \in Workers, Waits(w, i), cur[w] = i, Ends(w) PROVE HasWork(r)'
        BY <2>1, <3>2, EndsWork
      <3>3. QED
        BY <1>2, <2>1, <3>1, <3>2, PendingGoes DEF BusyInv
    <2>2. ASSUME HasWork(r) PROVE HasWork(r)'
      BY <1>2, <2>1, <2>2, InsertedStep DEF HasWork
    <2>3. CASE runs'[r] = runs[r]
      BY <2>2, <2>3 DEF BusyInv, BusyIsPending
    <2>4. ASSUME NEW w \in Workers, Executes(w, r) PROVE HasWork(r)'
      <3>1. Active(w) /\ RunOf(w) = r
        BY <2>4 DEF Executes
      <3>2. cur[w] \in 1..Len(commands) /\ Pending(cur[w]) /\ commands[cur[w]].run = r
        BY <3>1, ActiveIsPending
      <3>3. QED
        BY <2>1, <3>2
    <2>5. ASSUME NEW w \in Workers, Fails(w, r) PROVE FALSE
      BY <2>5, FailedRow DEF Resting
    <2>6. CASE Opens(r)
      <3>1. PICK a \in Attempts : CreateRun(r, a) /\ runs[r].status = "none"
        BY <2>6 DEF Opens
      <3>2. intake'[<<r, a>>] = "inserted"
        BY <3>1 DEF CreateRun, SetIntake, Sound, TypeOK
      <3>3. QED
        BY <3>2 DEF HasWork
    <2>7. CalmDeaths
      BY CalmStep DEF NoFaults, Calm
    <2>8. QED
      BY <1>2, <2>3, <2>4, <2>5, <2>6, <2>7, RowTouched
  <1>3. QED
    BY <1>1, <1>2, StepIsSagaMove DEF Sound

\* No exception is kept for later, and connections stay up.
LEMMA UndisturbedStep ==
  ASSUME Sound, Undisturbed, NoFaults, [Next]_vars
  PROVE  Undisturbed'
  <1>1. CASE UNCHANGED vars
    BY <1>1 DEF vars, swVars, Undisturbed
  <1>2. CASE Asks \/ \E c \in late : LateCall(c)
    BY <1>2 DEF Asks, FindRun, CreateRun, IntakeDies, CheckPayment, PublishRun, PublishPayment, LateCall,
       swVars, SW!Publish, SW!workerVars, Undisturbed
  <1>3. ASSUME NEW w \in Workers, Calmly(w) PROVE Undisturbed'
    <2>1. /\ after[w] = "next" /\ after \in [Workers -> {"next", "loopError", "down"}]
          /\ link[w] = "up" /\ link \in [Workers -> {"up", "broken"}]
      BY WorkerFacts DEF Undisturbed
    <2>2. CASE Handles(w)
      BY <2>1, <2>2, HandlesFrame DEF Undisturbed
    <2>3. CASE HandlerReturns(w) \/ HandlerRefuses(w) \/ UpstreamFails(w) \/ MarkFailed(w) \/ StartWorker(w) \/ LoopErrorEndsTask(w)
      BY <2>1, <2>3 DEF HandlerReturns, HandlerRefuses, UpstreamFails, MarkFailed, StartWorker, LoopErrorEndsTask,
         SW!HandlerReturns, SW!HandlerRaises, SW!MarkFailed, SW!Start, SW!LoopErrorEndsTask, Undisturbed
    <2>4. CASE Deliver(w)
      <3>1. CASE SW!EnsureGroup(w) \/ SW!Read(w) \/ SW!ReadNothing(w) \/ SW!DeadLetter(w) \/ SW!LoopError(w)
        BY <2>1, <3>1 DEF SW!EnsureGroup, SW!Read, SW!ReadNothing, SW!DeadLetter, SW!LoopError, Undisturbed
      <3>2. CASE SW!Record(w) \/ SW!Ack(w)
        BY <2>1, <3>2 DEF SW!Record, SW!Ack, SW!LeaveFinally, SW!NextMessage, SW!DropBatch, Undisturbed
      <3>3. QED
        BY <2>4, <3>1, <3>2 DEF Deliver
    <2>5. QED
      BY <1>3, <2>2, <2>3, <2>4 DEF Calmly
  <1>4. QED
    BY <1>1, <1>2, <1>3, WithoutFaults

\* Groups stay.
LEMMA GroupStays ==
  ASSUME Sound, SagaMove, grouped[Commands]
  PROVE  grouped'[Commands]
  <1>1. grouped \in [SWP!Streams -> BOOLEAN] /\ Commands \in SWP!Streams
    BY DEF Sound, SWP!StreamInv, SWP!TypeOK, SWP!Streams, NStreams, Commands
  <1>2. ASSUME NEW w \in Workers, Handles(w) PROVE UNCHANGED grouped
    BY <1>2 DEF Handles, DbStep, HttpStep, SendStep, TellStep, swVars, SW!Publish, SW!AppendEntry
  <1>3. CASE Asks \/ \E c \in late : LateCall(c)
    BY <1>3 DEF Asks, FindRun, CreateRun, IntakeDies, CheckPayment, PublishRun, PublishPayment, LateCall,
       swVars, SW!Publish, SW!AppendEntry
  <1>4. ASSUME NEW w \in Workers, Leaves(w) PROVE grouped'[Commands]
    <2>1. SWP!Effect(w) /\ on[w] \in SWP!Streams
      BY <1>4, SWP!WorkerMoveEffect, Assumed DEF Leaves, Sound, SWP!StreamInv, SWP!TypeOK
    <2>2. grouped' = grouped \/ grouped' = [grouped EXCEPT ![on[w]] = TRUE]
      BY <2>1 DEF SWP!Effect, SWP!NoEffect, SWP!redisVars, SWP!AppendEntry, SWP!CreateGroup, SWP!DeliverBatch,
             SWP!PublishDeadLetter, SWP!RecordProcessed, SWP!Acknowledge
    <2>3. QED
      BY <1>1, <2>1, <2>2
  <1>5. QED
    BY <1>2, <1>3, <1>4 DEF SagaMove

\* Nothing is asked, sent or made before there is a group.
LEMMA GroupFirstStep ==
  ASSUME Sound, GroupFirst, NoFaults, [Next]_vars
  PROVE  GroupFirst'
  <1>1. CASE UNCHANGED vars
    BY <1>1 DEF vars, swVars, dataVars, requestVars, GroupFirst
  <1>2. CASE SagaMove
    <2> SUFFICES ASSUME ~ grouped'[Commands] PROVE UNCHANGED <<commands, runs, intake, pay>>
      BY <1>2, GroupStays DEF GroupFirst
    <2>1. /\ ~ grouped[Commands] /\ commands = <<>>
          /\ \A r \in Runs : runs[r].status = "none"
          /\ \A r \in Runs, a \in Attempts : intake[<<r, a>>] = "idle"
          /\ \A p \in PayRequests : pay[p].at # "checked"
      BY <1>2, GroupStays DEF GroupFirst
    <2>2. ASSUME NEW w \in Workers, pc[w] \in SWP!Busy PROVE FALSE
      <3>1. cur[w] \in 1..Len(commands)
        BY <2>2, CommandKnown DEF Sound
      <3>2. QED
        BY <2>1, <3>1
    <2>3. ASSUME NEW w \in Workers, Handles(w) PROVE FALSE
      BY <2>2, <2>3, HandlesFrame DEF SWP!Busy
    <2>4. ASSUME NEW w \in Workers, Leaves(w) PROVE UNCHANGED <<commands, runs, intake, pay>>
      <3>1. pc[w] \notin {"handle", "markFailed"}
        BY <2>2 DEF SWP!Busy
      <3>2. QED
        BY <2>4, <3>1 DEF Leaves, LeavesUndone, AtAwait, Handling, dataVars, requestVars
    <2>5. ASSUME NEW c \in late, LateCall(c) PROVE UNCHANGED <<commands, runs, intake, pay>>
      BY <2>5 DEF LateCall, requestVars, dataVars, HttpEffect, CreatesOrder, MovesOrder, MakesDocument, ChargesOrder,
         SendsMail
    <2>6. CASE Asks
      <3>1. ASSUME NEW r \in Runs, NEW a \in Attempts
            PROVE  ~ FindRun(r, a) /\ ~ CreateRun(r, a) /\ ~ PublishRun(r, a) /\ ~ IntakeDies(r, a)
        BY <2>1 DEF FindRun, IntakeOpen, CreateRun, PublishRun, IntakeDies, NoFaults
      <3>2. ASSUME NEW p \in PayRequests, NEW r \in Runs, NEW s \in Scenarios
            PROVE  ~ CheckPayment(p, r, s)
        BY <2>1 DEF CheckPayment
      <3>3. ASSUME NEW p \in PayRequests PROVE ~ PublishPayment(p)
        BY <2>1 DEF PublishPayment
      <3>4. QED
        BY <2>6, <3>1, <3>2, <3>3 DEF Asks
    <2>7. QED
      BY <1>2, <2>3, <2>4, <2>5, <2>6 DEF SagaMove
  <1>3. QED
    BY <1>1, <1>2, StepIsSagaMove DEF Sound

\* The first state.
LEMMA BusyInit == Init => BusyInv
  <1> SUFFICES ASSUME Init PROVE BusyInv
    OBVIOUS
  <1>1. Undisturbed
    BY DEF Init, SW!Init, Undisturbed
  <1>2. \A r \in Runs : runs[r].status = "none"
    BY DEF Init, NoRun
  <1>3. GroupFirst
    BY <1>2 DEF Init, GroupFirst
  <1>4. BusyIsPending
    BY <1>2 DEF BusyIsPending, Resting
  <1>5. QED
    BY <1>1, <1>3, <1>4 DEF BusyInv

\* A step keeps all of it.
LEMMA BusyStep == NoFaults /\ Sound /\ HandlersOnScript /\ BusyInv /\ [Next]_vars => BusyInv'
  <1> SUFFICES ASSUME NoFaults, Sound, HandlersOnScript, BusyInv, [Next]_vars PROVE BusyInv'
    OBVIOUS
  <1>1. Undisturbed' /\ GroupFirst'
    BY UndisturbedStep, GroupFirstStep DEF BusyInv
  <1>2. BusyIsPending'
    BY BusyIsPendingStep
  <1>3. QED
    BY <1>1, <1>2 DEF BusyInv

\* What is left to do for a run is a command that was not read, or is held.
LEMMA WorkIsHeld ==
  ASSUME Sound, BusyIsPending
  PROVE  BusyRunHasWork
  <1> SUFFICES ASSUME NEW r \in Runs, runs[r].status \notin Resting
               PROVE  \/ \E i \in (delivered[Commands] + 1)..Len(commands) : commands[i].run = r
                      \/ \E w \in Workers : \E e \in SW!Batch(w) : commands[e[2]].run = r
                      \/ \E a \in Attempts : intake[<<r, a>>] = "inserted"
    BY DEF BusyRunHasWork
  <1>1. ASSUME NEW i \in 1..Len(commands), delivered[Commands] < i, commands[i].run = r
        PROVE  \E j \in (delivered[Commands] + 1)..Len(commands) : commands[j].run = r
    <2>1. delivered[Commands] \in Nat
      BY DEF Sound, SWP!StreamInv, SWP!TypeOK, SWP!Streams, NStreams, Commands
    <2>2. i \in (delivered[Commands] + 1)..Len(commands)
      BY <1>1, <2>1
    <2>3. QED
      BY <1>1, <2>2
  <1>2. ASSUME NEW i \in 1..Len(commands), NEW w \in Workers, SWP!Holds(w, Commands, i), commands[i].run = r
        PROVE  \E e \in SW!Batch(w) : commands[e[2]].run = r
    <2>1. cur[w] \in Nat /\ hi[w] \in Nat /\ i \in Nat
      BY WorkerFacts
    <2>2. <<on[w], i>> \in SW!Batch(w)
      BY <1>2, <2>1 DEF SW!Batch, SWP!Holds
    <2>3. commands[<<on[w], i>>[2]].run = r
      BY <1>2
    <2>4. QED
      BY <2>2, <2>3
  <1>3. HasWork(r)
    BY DEF BusyIsPending
  <1>4. CASE \E a \in Attempts : intake[<<r, a>>] = "inserted"
    BY <1>4
  <1>5. ASSUME NEW i \in 1..Len(commands), Pending(i), commands[i].run = r
        PROVE  \/ \E j \in (delivered[Commands] + 1)..Len(commands) : commands[j].run = r
               \/ \E w \in Workers : \E e \in SW!Batch(w) : commands[e[2]].run = r
    BY <1>1, <1>2, <1>5 DEF Pending
  <1>6. QED
    BY <1>3, <1>4, <1>5 DEF HasWork

\* While nothing fails but the services the workflow calls, and nothing is sent before
\* there is a group, a run that is not at rest has a command that is yet to be read, or
\* is held, or is about to be sent: every handler sends the next command before it
\* returns, or leaves its run in a status that asks for nothing.
THEOREM BusyShown ==
  ASSUME Faults = {}, EarlyIntake = FALSE
  PROVE  Spec => []BusyRunHasWork
  <1>1. NoFaults
    BY DEF NoFaults
  <1>2. Init => HandlersOnScript
    BY OnScriptInit
  <1>3. Sound /\ HandlersOnScript /\ [Next]_vars => HandlersOnScript'
    BY OnScriptStep
  <1>4. Sound /\ HandlersOnScript /\ BusyInv /\ [Next]_vars => BusyInv'
    BY <1>1, BusyStep
  <1>5. Sound /\ BusyInv => BusyRunHasWork
    BY WorkIsHeld DEF BusyInv
  <1>6. QED
    BY <1>2, <1>3, <1>4, <1>5, BusyInit, AlwaysSound, PTL DEF Spec
=============================================================================

-------------------------- MODULE SmokeClientProofs --------------------------
(***************************************************************************)
(* What the script of SmokeClient can rely on, for any number of workers,    *)
(* orders and attempts.  The argument has these parts:                      *)
(*                                                                          *)
(*   - every step of the script is one CheckoutSaga allows (SmokeIsSaga), so *)
(*     what CheckoutSagaProofs shows holds here;                            *)
(*   - ScriptPays: each payment is the one of its line, and is sent once; so *)
(*     no order is charged twice, under every fault;                        *)
(*   - CalmInv, while no statement of a worker fails and Redis answers no    *)
(*     error: a run has one command at most that is not done with            *)
(*     (OnePending), so whoever is at it acts alone; a run at rest has none  *)
(*     (Quiet), but for a payment that begins; a run whose handler left a    *)
(*     call behind is not gone on with (LateIsOver), so the call finds       *)
(*     nobody to disturb; and a run whose payment was told to succeed never  *)
(*     waits for one again (PaidForNeverWaits), so what waits is uncharged.  *)
(***************************************************************************)
EXTENDS SmokeClient, CheckoutSagaProofs

\* The lines of main() that pay, and what they pay with.
LEMMA MainPays ==
  /\ DOMAIN Main = 1..10
  /\ \A i \in DOMAIN Main : Main[i].does = "pay" => i \in PayRequests /\ i \in Nat
  /\ \A p \in PayRequests : p \in DOMAIN Main /\ Main[p].does = "pay" /\ Main[p].run \in Runs /\ Main[p].scenario \in Scenarios
  /\ \A p, q \in PayRequests : Main[p].run = Main[q].run /\ Main[p].scenario = Main[q].scenario => p = q
  <1>1. DOMAIN Main = 1..10
    BY DEF Main
  <1>2. \A i \in 1..10 : i \in Nat /\ (i \in {1, 2, 4, 5, 6, 8, 10} \/ i \in PayRequests)
    BY SmokeClientAssumption
  <1>3. \A i \in {1, 2, 4, 5, 6, 8, 10} : Main[i].does # "pay"
    BY DEF Main
  <1>4. /\ Main[3].run = First /\ Main[3].does = "pay" /\ Main[3].scenario = "success"
        /\ Main[7].run = Second /\ Main[7].does = "pay" /\ Main[7].scenario = "insufficient_funds"
        /\ Main[9].run = Second /\ Main[9].does = "pay" /\ Main[9].scenario = "success"
    BY DEF Main
  <1>5. \A i \in DOMAIN Main : Main[i].does = "pay" => i \in PayRequests /\ i \in Nat
    BY <1>1, <1>2, <1>3
  <1>6. QED
    BY <1>1, <1>4, <1>5, SmokeClientAssumption

\* A step of the script, or of the system it uses, is a step of the system.
LEMMA SmokeStepsSaga ==
  ASSUME SmokeNext \/ UNCHANGED <<vars, line>>
  PROVE  [Next]_vars
  <1>1. CASE Steps
    BY <1>1 DEF Next
  <1>2. ASSUME NEW i \in DOMAIN Main, PlaceOrder(i) PROVE Next
    <2>1. Main[i].run \in Runs
      BY <1>2, SmokeClientAssumption DEF PlaceOrder, Doing, Main
    <2>2. QED
      BY <1>2, <2>1 DEF PlaceOrder, Next, AskForCheckout
  <1>3. ASSUME NEW i \in DOMAIN Main, See(i) PROVE UNCHANGED vars
    BY <1>3 DEF See
  <1>4. ASSUME NEW i \in DOMAIN Main, Pay(i) PROVE Next
    <2>1. i \in PayRequests
      BY <1>4, MainPays DEF Pay, Doing
    <2>2. CheckPayment(i, Main[i].run, Main[i].scenario) /\ Main[i].run \in Runs /\ Main[i].scenario \in Scenarios
      BY <1>4, <2>1, MainPays DEF Pay
    <2>3. QED
      BY <2>1, <2>2 DEF Next, AskForPayment
  <1>5. QED
    BY <1>1, <1>2, <1>3, <1>4 DEF SmokeNext, vars

\* So the script is a customer the workflow allows for.
LEMMA SmokeIsSaga == SmokeSpec => Spec
  <1>1. SmokeInit => Init
    BY DEF SmokeInit
  <1>2. [SmokeNext]_<<vars, line>> => [Next]_vars
    BY SmokeStepsSaga
  <1>3. QED
    BY <1>1, <1>2, PTL DEF SmokeSpec, Spec
-----------------------------------------------------------------------------
\* Each payment the script asks for is the one of its line.
PaysInTurn ==
  \A p \in PayRequests :
    pay[p].at # "idle" =>
      p < line /\ pay[p].run = Main[p].run /\ pay[p].scenario = Main[p].scenario

\* Each payment command was sent by one of them, that is done with.
PaymentsAreAsked ==
  \A i \in 1..Len(commands) :
    commands[i].type = "payment_requested" =>
      \E p \in PayRequests :
        pay[p].at = "done" /\ pay[p].run = commands[i].run /\ pay[p].scenario = commands[i].scenario

\* No two of them are about the same payment.
PaymentsDiffer ==
  \A i, j \in 1..Len(commands) :
    /\ commands[i].type = "payment_requested" /\ commands[j].type = "payment_requested"
    /\ commands[i].run = commands[j].run /\ commands[i].scenario = commands[j].scenario
    => i = j

\* The inductive invariant of ChargedOnceShown, next to those of ChargesShown.
ScriptPays == line \in 1..11 /\ PaysInTurn /\ PaymentsAreAsked /\ PaymentsDiffer

\* The system asks for no payment; it sends those the script asked for.
LEMMA StepsPay ==
  ASSUME Steps
  PROVE  UNCHANGED pay \/ \E p \in PayRequests : PublishPayment(p)
  <1>1. CASE Intake
    BY <1>1 DEF Intake, CreateRun, PublishRun, IntakeDies
  <1>2. ASSUME NEW c \in late, LateCall(c) PROVE UNCHANGED pay
    BY <1>2 DEF LateCall, requestVars
  <1>3. ASSUME NEW w \in Workers, StartWorker(w) \/ Work(w) PROVE UNCHANGED pay
    BY <1>3 DEF StartWorker, Work, Handler, DbStep, HttpStep, SendStep, TellStep, HandlerReturns, HandlerRefuses,
         MarkFailed, Deliver, requestVars
  <1>4. ASSUME NEW w \in Workers, Trouble(w) PROVE UNCHANGED pay
    BY <1>4 DEF Trouble, UpstreamFails, HandlerDbFails, RedisFails, RedisRefuses, DbFails, LoopErrorEndsTask, Stop, Crash, requestVars
  <1>5. QED
    BY <1>1, <1>2, <1>3, <1>4 DEF Steps

\* A step of the script keeps to its line, and to the next.
LEMMA ScriptMoves ==
  ASSUME line \in 1..11, SmokeNext \/ UNCHANGED <<vars, line>>
  PROVE  /\ line' \in 1..11
         /\ \/ UNCHANGED line /\ (Steps \/ UNCHANGED vars)
            \/ line \in DOMAIN Main /\ line' = line + 1 /\ (PlaceOrder(line) \/ See(line) \/ Pay(line))
  <1>1. ASSUME NEW i \in DOMAIN Main, PlaceOrder(i) \/ See(i) \/ Pay(i)
        PROVE  line = i /\ line' = line + 1 /\ line' \in 1..11
    <2>1. line = i /\ line' = i + 1
      BY <1>1 DEF PlaceOrder, See, Pay, Doing
    <2>2. i \in 1..10
      BY MainPays
    <2>3. QED
      BY <2>1, <2>2
  <1>2. QED
    BY <1>1 DEF SmokeNext

\* A payment command is appended by a request of the script, on its line.
LEMMA PaymentEntries ==
  ASSUME Sound, SagaMove, NEW i \in 1..Len(commands'), commands'[i].type = "payment_requested"
  PROVE  \/ i \in 1..Len(commands) /\ commands'[i] = commands[i]
         \/ \E p \in PayRequests : /\ PublishPayment(p) /\ i = Len(commands) + 1
                                   /\ commands'[i].run = pay[p].run /\ commands'[i].scenario = pay[p].scenario
  <1>1. commands \in Seq(CommandRecords)
    BY DEF Sound, TypeOK
  <1>2. ASSUME NEW entry, Appends(entry)
        PROVE  \/ i \in 1..Len(commands) /\ commands'[i] = commands[i]
               \/ i = Len(commands) + 1 /\ commands'[i] = entry
    <2>1. commands' = Append(commands, entry)
      BY <1>2 DEF Appends
    <2>2. commands \in Seq(CommandRecords \cup {entry}) /\ entry \in CommandRecords \cup {entry}
      BY <1>1
    <2>3. Len(commands') = Len(commands) + 1 /\ Len(commands) \in Nat
      BY <2>1, <2>2
    <2>4. \A k \in 1..Len(commands) : commands'[k] = commands[k]
      BY <2>1, <2>2
    <2>5. commands'[Len(commands) + 1] = entry
      BY <2>1, <2>2
    <2>6. i \in 1..Len(commands) \/ i = Len(commands) + 1
      BY <2>3
    <2>7. QED
      BY <2>4, <2>5, <2>6
  <1>3. CASE UNCHANGED <<commands, appended>>
    BY <1>3
  <1>4. ASSUME NEW w \in Workers, AtAwait(w, DOMAIN Sends), Appends(NewCommand(w))
        PROVE  i \in 1..Len(commands) /\ commands'[i] = commands[i]
    <2>1. NewCommand(w).type # "payment_requested"
      BY <1>4 DEF AtAwait, Sends, NewCommand
    <2>2. QED
      BY <1>2, <1>4, <2>1
  <1>5. ASSUME NEW r, Appends([type |-> "order_create", run |-> r, scenario |-> "success"])
        PROVE  i \in 1..Len(commands) /\ commands'[i] = commands[i]
    BY <1>2, <1>5
  <1>6. ASSUME NEW p \in PayRequests, PublishPayment(p),
               Appends([type |-> "payment_requested", run |-> pay[p].run, scenario |-> pay[p].scenario])
        PROVE  \/ i \in 1..Len(commands) /\ commands'[i] = commands[i]
               \/ /\ PublishPayment(p) /\ i = Len(commands) + 1
                  /\ commands'[i].run = pay[p].run /\ commands'[i].scenario = pay[p].scenario
    BY <1>2, <1>6
  <1>7. QED
    BY <1>3, <1>4, <1>5, <1>6, CommandsStep

\* A request that sends its payment is done.
LEMMA PaymentIsDone ==
  ASSUME Sound, NEW p \in PayRequests, PublishPayment(p)
  PROVE  /\ pay[p].at = "checked" /\ pay'[p].at = "done" /\ pay'[p].run = pay[p].run /\ pay'[p].scenario = pay[p].scenario
         /\ \A q \in PayRequests : q # p => pay'[q] = pay[q]
  BY DEF PublishPayment, Sound, TypeOK

\* A payment the script asks for is that of its line.
LEMMA ScriptPaysOnce ==
  ASSUME Sound, line \in 1..10, Pay(line)
  PROVE  /\ line \in PayRequests /\ pay[line].at = "idle"
         /\ pay'[line].at = "checked" /\ pay'[line].run = Main[line].run /\ pay'[line].scenario = Main[line].scenario
         /\ \A q \in PayRequests : q # line => pay'[q] = pay[q]
  <1>1. line \in PayRequests
    BY MainPays DEF Pay, Doing
  <1>2. QED
    BY <1>1 DEF Pay, CheckPayment, Sound, TypeOK

\* What the script asked for changes with its line.
LEMMA PaysInTurnStep ==
  ASSUME Sound, line \in 1..11, PaysInTurn, SmokeNext \/ UNCHANGED <<vars, line>>
  PROVE  /\ PaysInTurn'
         /\ \A p \in PayRequests : pay[p].at = "done" =>
              pay'[p].at = "done" /\ pay'[p].run = pay[p].run /\ pay'[p].scenario = pay[p].scenario
  <1>1. \A p \in PayRequests : p \in Nat
    BY SmokeClientAssumption
  <1>2. CASE UNCHANGED <<pay, line>>
    BY <1>2 DEF PaysInTurn
  <1>3. ASSUME NEW p \in PayRequests, PublishPayment(p), UNCHANGED line
        PROVE  PaysInTurn' /\ \A q \in PayRequests : pay[q].at = "done" => pay'[q] = pay[q]
    BY <1>3, PaymentIsDone DEF PaysInTurn
  <1>4. CASE line \in DOMAIN Main /\ line' = line + 1 /\ (PlaceOrder(line) \/ See(line))
    <2>1. UNCHANGED pay
      BY <1>4 DEF PlaceOrder, See, FindRun, vars, requestVars
    <2>2. QED
      BY <1>1, <1>4, <2>1 DEF PaysInTurn
  <1>5. CASE line \in DOMAIN Main /\ line' = line + 1 /\ Pay(line)
    <2>1. /\ line \in PayRequests /\ pay[line].at = "idle"
          /\ pay'[line].at = "checked" /\ pay'[line].run = Main[line].run /\ pay'[line].scenario = Main[line].scenario
          /\ \A q \in PayRequests : q # line => pay'[q] = pay[q]
      BY <1>5, MainPays, ScriptPaysOnce
    <2>2. \A p \in PayRequests : p < line => p < line'
      BY <1>1, <1>5
    <2>3. \A p \in PayRequests : pay'[p].at # "idle" =>
            p < line' /\ pay'[p].run = Main[p].run /\ pay'[p].scenario = Main[p].scenario
      <3> SUFFICES ASSUME NEW p \in PayRequests, pay'[p].at # "idle"
                   PROVE  p < line' /\ pay'[p].run = Main[p].run /\ pay'[p].scenario = Main[p].scenario
        OBVIOUS
      <3>1. CASE p = line
        BY <1>1, <1>5, <2>1, <3>1
      <3>2. CASE p # line
        BY <2>1, <2>2, <3>2 DEF PaysInTurn
      <3>3. QED
        BY <3>1, <3>2
    <2>4. QED
      BY <2>1, <2>3 DEF PaysInTurn
  <1>6. CASE UNCHANGED line /\ (Steps \/ UNCHANGED vars)
    BY <1>2, <1>3, <1>6, StepsPay DEF vars, requestVars
  <1>7. QED
    BY <1>4, <1>5, <1>6, ScriptMoves

\* It sends each of its payments once.
LEMMA ScriptPaysStep ==
  ASSUME Sound, ScriptPays, SmokeNext \/ UNCHANGED <<vars, line>>
  PROVE  ScriptPays'
  <1>1. line' \in 1..11
    BY ScriptMoves DEF ScriptPays
  <1>2. /\ PaysInTurn'
        /\ \A p \in PayRequests : pay[p].at = "done" =>
             pay'[p].at = "done" /\ pay'[p].run = pay[p].run /\ pay'[p].scenario = pay[p].scenario
    BY PaysInTurnStep DEF ScriptPays
  <1>3. CASE UNCHANGED vars
    BY <1>1, <1>2, <1>3 DEF ScriptPays, PaymentsAreAsked, PaymentsDiffer, vars, requestVars
  <1>4. CASE SagaMove
    <2>1. PaymentsAreAsked'
      <3> SUFFICES ASSUME NEW i \in 1..Len(commands'), commands'[i].type = "payment_requested"
                   PROVE  \E p \in PayRequests :
                            pay'[p].at = "done" /\ pay'[p].run = commands'[i].run /\ pay'[p].scenario = commands'[i].scenario
        BY DEF PaymentsAreAsked
      <3>1. CASE i \in 1..Len(commands) /\ commands'[i] = commands[i]
        BY <1>2, <3>1 DEF ScriptPays, PaymentsAreAsked
      <3>2. ASSUME NEW p \in PayRequests, PublishPayment(p),
                   commands'[i].run = pay[p].run /\ commands'[i].scenario = pay[p].scenario
            PROVE  pay'[p].at = "done" /\ pay'[p].run = commands'[i].run /\ pay'[p].scenario = commands'[i].scenario
        BY <3>2, PaymentIsDone
      <3>3. QED
        BY <1>4, <3>1, <3>2, PaymentEntries
    <2>2. ASSUME NEW p \in PayRequests, PublishPayment(p), NEW i \in 1..Len(commands),
                 commands[i].type = "payment_requested", commands[i].run = pay[p].run, commands[i].scenario = pay[p].scenario
          PROVE  FALSE
      <3>1. PICK q \in PayRequests :
              pay[q].at = "done" /\ pay[q].run = commands[i].run /\ pay[q].scenario = commands[i].scenario
        BY <2>2 DEF ScriptPays, PaymentsAreAsked
      <3>2. pay[p].at = "checked"
        BY <2>2, PaymentIsDone
      <3>3. Main[p].run = Main[q].run /\ Main[p].scenario = Main[q].scenario
        BY <2>2, <3>1, <3>2 DEF ScriptPays, PaysInTurn
      <3>4. QED
        BY <3>1, <3>2, <3>3, MainPays
    <2>3. PaymentsDiffer'
      <3> SUFFICES ASSUME NEW i \in 1..Len(commands'), NEW j \in 1..Len(commands'),
                          commands'[i].type = "payment_requested", commands'[j].type = "payment_requested",
                          commands'[i].run = commands'[j].run, commands'[i].scenario = commands'[j].scenario
                   PROVE  i = j
        BY DEF PaymentsDiffer
      <3>1. \/ i \in 1..Len(commands) /\ commands'[i] = commands[i]
            \/ \E p \in PayRequests : /\ PublishPayment(p) /\ i = Len(commands) + 1
                                      /\ commands'[i].run = pay[p].run /\ commands'[i].scenario = pay[p].scenario
        BY <1>4, PaymentEntries
      <3>2. \/ j \in 1..Len(commands) /\ commands'[j] = commands[j]
            \/ \E p \in PayRequests : /\ PublishPayment(p) /\ j = Len(commands) + 1
                                      /\ commands'[j].run = pay[p].run /\ commands'[j].scenario = pay[p].scenario
        BY <1>4, PaymentEntries
      <3>3. QED
        BY <2>2, <3>1, <3>2 DEF ScriptPays, PaymentsDiffer
    <2>4. QED
      BY <1>1, <1>2, <2>1, <2>3 DEF ScriptPays
  <1>5. QED
    BY <1>3, <1>4, SmokeStepsSaga, StepIsSagaMove DEF Sound

\* It has asked for nothing at first.
LEMMA ScriptPaysInit == SmokeInit => ScriptPays
  BY DEF SmokeInit, Init, ScriptPays, PaysInTurn, PaymentsAreAsked, PaymentsDiffer

\* While the script is the customer no order is charged twice: it asks for each payment
\* on a line of its own, and what it asked for is charged once, whatever fails, crashes
\* or comes late.
THEOREM ChargedOnceShown == SmokeSpec => []ChargedAtMostOnce
  <1>1. ScriptPays /\ TypeOK /\ ChargesWereAsked => ChargedAtMostOnce
    <2> SUFFICES ASSUME ScriptPays, TypeOK, ChargesWereAsked, NEW o \in Orders PROVE charges[o] <= 1
      BY DEF ChargedAtMostOnce
    <2>1. \A i, j \in Accepted(o) : i = j
      BY DEF Accepted, ScriptPays, PaymentsDiffer
    <2>2. Cardinality(Accepted(o)) \in {0, 1}
      <3>1. CASE Accepted(o) = {}
        BY <3>1, FS_EmptySet
      <3>2. ASSUME NEW i \in Accepted(o) PROVE Cardinality(Accepted(o)) = 1
        <4>1. Accepted(o) = {i}
          BY <2>1
        <4>2. QED
          BY <4>1, FS_Singleton
      <3>3. QED
        BY <3>1, <3>2
    <2>3. charges[o] \in Nat
      BY DEF TypeOK
    <2>4. QED
      BY <2>2, <2>3 DEF ChargesWereAsked
  <1>2. SmokeSpec => []Sound /\ []TypeOK /\ []ChargesWereAsked
    BY SmokeIsSaga, AlwaysSound, SagaTypes, ChargesShown, PTL
  <1>3. Sound /\ ScriptPays /\ [SmokeNext]_<<vars, line>> => ScriptPays'
    BY ScriptPaysStep
  <1>4. SmokeSpec => []ScriptPays
    BY <1>2, <1>3, ScriptPaysInit, PTL DEF SmokeSpec
  <1>5. QED
    BY <1>1, <1>2, <1>4, PTL
-----------------------------------------------------------------------------
\* What is left to do.

\* Entry i was read, and its handler, if it had one, is over.
Dropped(i) ==
  /\ i <= delivered[Commands]
  /\ \A w \in Workers : SWP!Holds(w, Commands, i) => cur[w] = i /\ pc[w] # "handle"

\* Nothing is left to do for run r.
Quiet(r) == \A i \in 1..Len(commands) : Pending(i) => commands[i].run # r
-----------------------------------------------------------------------------
\* A run has one command that is not done with, at most.
OnePending ==
  \A i, j \in 1..Len(commands) :
    Pending(i) /\ Pending(j) /\ commands[i].run = commands[j].run => i = j

\* A request that made a row, and has still to send its command, is first.
InsertedIsFirst ==
  \A r \in Runs, a \in Attempts :
    intake[<<r, a>>] = "inserted" =>
      runs[r].status = "accepted" /\ Quiet(r) /\ \A c \in late : c.run # r

\* A payment that was accepted finds its run waiting until it is sent.
CheckedIsAwaited ==
  \A p \in PayRequests :
    pay[p].at = "checked" =>
      /\ runs[pay[p].run].status = "awaiting_payment" /\ Quiet(pay[p].run)
      /\ \A q \in PayRequests : pay[q].at = "checked" /\ pay[q].run = pay[p].run => q = p

\* All that may be left to do for a run that waits for a payment is to begin with one.
AwaitingIsQuiet ==
  \A r \in Runs : runs[r].status = "awaiting_payment" =>
    \A i \in 1..Len(commands) : Pending(i) /\ commands[i].run = r =>
      /\ commands[i].type = "payment_requested"
      /\ \A w \in Workers : cur[w] = i /\ Active(w) =>
           pc[w] = "handle" /\ todo[w] \in {<<"require">>, PaymentRequestedScript}

\* Nothing is left to do for a run that is over.
OverIsQuiet == \A r \in Runs : runs[r].status \in {"completed", "failed"} => Quiet(r)

\* A call was left behind by a handler that does not go on; its run never waits for a
\* payment again.
LateIsOver ==
  \A c \in late :
    /\ runs[c.run].status \notin {"none", "awaiting_payment"}
    /\ \A i \in 1..Len(commands) : Pending(i) /\ commands[i].run = c.run => Dropped(i)

\* Handlers, and the calls they left behind, name the order of their run.
NamedAreOwned ==
  /\ \A w \in Workers : loc[w] # NoOrder => Owned(loc[w], RunOf(w))
  /\ \A c \in late : c.order # NoOrder => Owned(c.order, c.run)

\* The order of a run that waits for a payment is unpaid.
AwaitedIsUnpaid ==
  \A r \in Runs : runs[r].status = "awaiting_payment" =>
    orderStatus[runs[r].order] \in {"invoice_generated", "payment_failed"}

\* A handler that is about to let its run wait has moved the order.
WaitsAreMoved ==
  \A w \in Workers :
    /\ todo[w] = <<"setAwaiting", "tell">> => loc[w] \in Orders /\ orderStatus[loc[w]] = "invoice_generated"
    /\ todo[w] \in {<<"tell", "setRetryable">>, <<"setRetryable">>} =>
         loc[w] \in Orders /\ orderStatus[loc[w]] = "payment_failed"

\* A payment is rejected for good only for what cannot be retried.
RejectedForGood ==
  \A w \in Workers :
    "setRejected" \in Ahead(w) => Outcome[Command(w).scenario] \notin PAYMENT_FAILURE_RETRYABLE

\* A payment is tried again only if it did not succeed.
RetriedFailed == \A w \in Workers : "setRetryable" \in Ahead(w) => Command(w).scenario # "success"

\* A run whose payment was told to succeed never waits for one again: all it has left to do
\* is that payment and what comes after it.
AfterPayment == {"payment_process", "generate_receipt", "notification_send"}

PaidForNeverWaits ==
  \A i \in 1..Len(commands) : commands[i].type = "payment_process" /\ commands[i].scenario = "success" =>
    /\ runs[commands[i].run].status # "awaiting_payment"
    /\ \A j \in 1..Len(commands) : Pending(j) /\ commands[j].run = commands[i].run =>
         /\ commands[j].type \in AfterPayment
         /\ commands[j].type = "payment_process" => commands[j].scenario = "success"

\* No payment fails before the script asks for one that does.
FailuresAreAsked ==
  /\ \A i \in 1..Len(commands) : commands[i].scenario # "success" => pay[7].at = "done"
  /\ runs[Second].failure = "INSUFFICIENT_FUNDS" => pay[7].at = "done"

\* Until the script pays again, the run whose payment failed waits.
FailedIsAwaited ==
  runs[Second].failure = "INSUFFICIENT_FUNDS" /\ line <= 9 =>
    /\ runs[Second].status = "awaiting_payment" /\ Quiet(Second)
    /\ \A p \in PayRequests : pay[p].at = "checked" => pay[p].run # Second

\* What the script saw last is still so.
SeenIsSo ==
  /\ line = 3 => runs[First].status = "awaiting_payment"
  /\ line > 4 => runs[First].status = "completed"
  /\ line = 7 => runs[Second].status = "awaiting_payment"
  /\ line = 9 => runs[Second].failure = "INSUFFICIENT_FUNDS"
  /\ line > 10 => runs[Second].status = "completed"

\* The inductive invariant, while workers are stopped, die or lose the connection to Redis, and
\* calls fail.
CalmInv ==
  /\ OnePending /\ InsertedIsFirst /\ CheckedIsAwaited /\ AwaitingIsQuiet /\ OverIsQuiet /\ LateIsOver
  /\ NamedAreOwned /\ AwaitedIsUnpaid /\ WaitsAreMoved /\ RejectedForGood
  /\ RetriedFailed /\ PaidForNeverWaits
  /\ FailuresAreAsked /\ FailedIsAwaited /\ SeenIsSo
-----------------------------------------------------------------------------
\* What is not done with after a step was not before.
LEMMA PendingStep ==
  ASSUME Sound, SagaMove, HandlersOnScript, CalmDeaths, NEW i \in 1..Len(commands), Pending(i)'
  PROVE  Pending(i)
  <1>0. i \in Nat /\ delivered[Commands] \in Nat /\ delivered'[Commands] \in Nat /\ delivered[Commands] <= delivered'[Commands]
    BY DeliveredKept
  <1>1. CASE Asks \/ \E c \in late : LateCall(c)
    <2>1. UNCHANGED <<pc, link, on, cur, hi, delivered, todo>>
      BY <1>1, RequestFrame
    <2>2. QED
      BY <2>1 DEF Pending, Active, SWP!Holds
  <1>2. ASSUME NEW w \in Workers, Handles(w) PROVE Pending(i)
    <2>1. UNCHANGED <<pc, link, on, cur, hi, delivered>>
      BY <1>2, HandlesFrame
    <2>2. \A u \in Workers : Active(u)' => Active(u)
      <3> SUFFICES ASSUME NEW u \in Workers, Active(u)' PROVE Active(u)
        OBVIOUS
      <3>1. CASE u # w
        <4>1. todo'[u] = todo[u]
          BY <1>2, <3>1, HandlesStep DEF OthersWait, Sound
        <4>2. QED
          BY <2>1, <4>1 DEF Active
      <3>2. CASE u = w
        <4>1. todo[w] \in Ended => todo'[w] \in Ended
          BY <1>2, HandlerFlow DEF HandlersOnScript
        <4>2. QED
          BY <2>1, <3>2, <4>1 DEF Active
      <3>3. QED
        BY <3>1, <3>2
    <2>3. QED
      BY <2>1, <2>2 DEF Pending, SWP!Holds
  <1>3. ASSUME NEW w \in Workers, Leaves(w) PROVE Pending(i)
    <2>1. CASE delivered'[Commands] < i
      BY <1>0, <2>1 DEF Pending
    <2>2. ASSUME NEW u \in Workers, SWP!Holds(u, Commands, i)', cur'[u] < i \/ (cur'[u] = i /\ Active(u)')
          PROVE  Pending(i)
      <3>1. SWP!Holds(u, Commands, i) \/ (u = w /\ delivered[Commands] < i)
        BY <1>0, <1>3, <2>2, HeldOrNew
      <3>2. CASE u # w /\ SWP!Holds(u, Commands, i)
        <4>1. pc'[u] = pc[u] /\ cur'[u] = cur[u]
          BY <1>3, <3>2, LeavesControl DEF SWP!OthersKeep
        <4>2. todo'[u] = todo[u]
          BY <1>3, <3>2, ForgetFacts DEF Leaves, OthersWait, Sound
        <4>3. Active(u)' => Active(u)
          BY <4>1, <4>2 DEF Active, CalmDeaths, Burying
        <4>4. QED
          BY <2>2, <3>2, <4>1, <4>3 DEF Pending
      <3>3. CASE u = w /\ SWP!Holds(w, Commands, i)
        <4>1. cur[w] <= i
          BY <3>3 DEF SWP!Holds
        <4>2. CASE cur[w] < i
          BY <3>3, <4>2 DEF Pending
        <4>3. CASE cur[w] = i
          <5>1. i <= delivered[Commands]
            BY <1>0, <3>3, HeldAlone
          <5>2. cur'[w] = i /\ pc'[w] # "handle"
            BY <1>0, <1>3, <2>2, <3>3, <4>3, <5>1, LeavesControl
          <5>3. Burying(w)' \/ pc'[w] = "markFailed"
            BY <2>2, <3>3, <5>2 DEF Active, Burying
          <5>4. CASE pc[w] = "deadLetter"
            BY <3>3, <4>3, <5>3, <5>4 DEF Pending, Active, CalmDeaths, Burying
          <5>5. CASE pc[w] # "deadLetter"
            <6>1. pc[w] = "handle" /\ GivesUp(w)
              BY <1>3, <5>3, <5>5, LeavesHandler DEF CalmDeaths, Burying
            <6>2. todo[w] \notin Ended
              BY <6>1 DEF GivesUp, AtAwait, Await, Ended, HttpAwaits
            <6>3. QED
              BY <3>3, <4>3, <6>1, <6>2 DEF Pending, Active
          <5>6. QED
            BY <5>4, <5>5
        <4>4. QED
          BY <1>0, <4>1, <4>2, <4>3, LeavesControl DEF Sound, SWP!StreamInv, SWP!TypeOK
      <3>4. QED
        BY <3>1, <3>2, <3>3 DEF Pending
    <2>3. QED
      BY <2>1, <2>2 DEF Pending
  <1>4. QED
    BY <1>1, <1>2, <1>3 DEF SagaMove
-----------------------------------------------------------------------------
\* The end of a command.

\* What a worker finishes is done with.
LEMMA FinishedIsDone ==
  ASSUME Sound, HandlersOnScript, NEW w \in Workers, Finishes(w), NEW i, i = cur[w]
  PROVE  ~ Pending(i)'
  <1>1. /\ i \in Nat /\ i <= delivered[Commands] /\ delivered[Commands] \in Nat /\ SWP!Holds(w, Commands, i)
    BY ActiveIsPending DEF Finishes
  <1>2. \A u \in Workers : SWP!Holds(u, Commands, i) => u = w
    BY <1>1, HeldAlone
  <1>3. SagaMove
    BY DEF SagaMove, Finishes
  <1>4. ~ (delivered'[Commands] < i)
    BY <1>1, <1>3, DeliveredKept
  <1>5. CASE Handles(w) /\ Await(w) \in LastAwaits
    <2>1. UNCHANGED <<pc, on, cur, hi>> /\ pc[w] = "handle"
      BY <1>5, HandlesFrame
    <2>2. todo[w] \notin Ended /\ todo'[w] \in Ended
      BY <1>5, <2>1, HandlerFlow DEF HandlersOnScript, Finishes, Active
    <2>3. \A u \in Workers : SWP!Holds(u, Commands, i)' => u = w
      BY <1>2, <2>1 DEF SWP!Holds
    <2>4. ~ Active(w)' /\ cur'[w] = i
      BY <2>1, <2>2 DEF Active
    <2>5. QED
      BY <1>1, <1>4, <2>3, <2>4 DEF Pending
  <1>6. CASE Leaves(w) /\ ~ Active(w)'
    <2>1. \A u \in Workers : SWP!Holds(u, Commands, i)' => u = w
      BY <1>1, <1>2, <1>6, HeldOrNew
    <2>2. SWP!Holds(w, Commands, i)' => cur'[w] = i
      BY <1>1, <1>6, LeavesControl
    <2>3. SWP!Holds(w, Commands, i)' => ~ Active(w)' /\ cur'[w] = i
      BY <1>6, <2>2
    <2>4. QED
      BY <1>1, <1>4, <2>1, <2>3 DEF Pending
  <1>7. QED
    BY <1>5, <1>6 DEF Finishes

\* What a handler leaves is dropped.
LEMMA LeftIsDropped ==
  ASSUME Sound, NEW w \in Workers, Leaves(w), Active(w), NEW i, i = cur[w]
  PROVE  Dropped(i)'
  <1>1. /\ i \in Nat /\ i <= delivered[Commands] /\ delivered[Commands] \in Nat /\ SWP!Holds(w, Commands, i)
    BY ActiveIsPending
  <1>2. \A u \in Workers : SWP!Holds(u, Commands, i) => u = w
    BY <1>1, HeldAlone
  <1>3. SagaMove
    BY DEF SagaMove
  <1>4. i <= delivered'[Commands]
    BY <1>1, <1>3, DeliveredKept
  <1>5. \A u \in Workers : SWP!Holds(u, Commands, i)' => u = w
    BY <1>1, <1>2, HeldOrNew
  <1>6. SWP!Holds(w, Commands, i)' => cur'[w] = i /\ pc'[w] # "handle"
    BY <1>1, LeavesControl
  <1>7. QED
    BY <1>4, <1>5, <1>6 DEF Dropped

\* What is dropped stays so.
LEMMA DroppedStep ==
  ASSUME Sound, SagaMove, NEW i \in Nat, Dropped(i)
  PROVE  Dropped(i)'
  <1>1. i <= delivered[Commands] /\ delivered[Commands] \in Nat /\ i <= delivered'[Commands]
    BY DeliveredKept DEF Dropped
  <1>2. CASE (\E w \in Workers : Handles(w)) \/ Asks \/ \E c \in late : LateCall(c)
    <2>1. UNCHANGED <<pc, on, cur, hi, delivered>>
      BY <1>2, HandlesFrame, RequestFrame
    <2>2. QED
      BY <2>1 DEF Dropped, SWP!Holds
  <1>3. ASSUME NEW w \in Workers, Leaves(w) PROVE Dropped(i)'
    <2> SUFFICES ASSUME NEW u \in Workers, SWP!Holds(u, Commands, i)' PROVE cur'[u] = i /\ pc'[u] # "handle"
      BY <1>1 DEF Dropped
    <2>1. SWP!Holds(u, Commands, i)
      BY <1>1, <1>3, HeldOrNew
    <2>2. cur[u] = i /\ pc[u] # "handle"
      BY <2>1 DEF Dropped
    <2>3. CASE u # w
      BY <1>3, <2>2, <2>3, LeavesControl DEF SWP!OthersKeep
    <2>4. CASE u = w
      BY <1>1, <1>3, <2>2, <2>4, LeavesControl
    <2>5. QED
      BY <2>3, <2>4
  <1>4. QED
    BY <1>2, <1>3 DEF SagaMove
-----------------------------------------------------------------------------
\* Who appends a command.

\* The worker that sends entry i, which is its last await.
SentBy(w, i) ==
  /\ i = Len(commands) + 1 /\ Finishes(w) /\ AtAwait(w, DOMAIN Sends)
  /\ commands'[i].run = RunOf(w) /\ commands'[i].scenario = Command(w).scenario
  /\ commands'[i].type = Sends[Await(w)] /\ commands'[i].type # "payment_requested"

\* So do the two kinds of request.
StartedBy(r, a, i) ==
  /\ i = Len(commands) + 1 /\ PublishRun(r, a)
  /\ commands'[i] = [type |-> "order_create", run |-> r, scenario |-> "success"]

PaidBy(p, i) ==
  /\ i = Len(commands) + 1 /\ PublishPayment(p)
  /\ commands'[i] = [type |-> "payment_requested", run |-> pay[p].run, scenario |-> pay[p].scenario]

\* An entry was there, or somebody sent it.
LEMMA EntryBy ==
  ASSUME Sound, SagaMove, CalmDeaths, NEW i \in 1..Len(commands')
  PROVE  \/ i \in 1..Len(commands) /\ commands'[i] = commands[i]
         \/ \E w \in Workers : SentBy(w, i)
         \/ \E r \in Runs, a \in Attempts : StartedBy(r, a, i)
         \/ \E p \in PayRequests : PaidBy(p, i)
  <1>1. commands \in Seq(CommandRecords) /\ Len(commands) \in Nat
    BY DEF Sound, TypeOK
  <1>2. ASSUME NEW entry, Appends(entry)
        PROVE  \/ i \in 1..Len(commands) /\ commands'[i] = commands[i]
               \/ i = Len(commands) + 1 /\ commands'[i] = entry
    <2>1. commands' = Append(commands, entry)
      BY <1>2 DEF Appends
    <2>2. commands \in Seq(CommandRecords \cup {entry}) /\ entry \in CommandRecords \cup {entry}
      BY <1>1
    <2>3. Len(commands') = Len(commands) + 1 /\ Len(commands) \in Nat
      BY <2>1, <2>2
    <2>4. \A k \in 1..Len(commands) : commands'[k] = commands[k]
      BY <2>1, <2>2
    <2>5. commands'[Len(commands) + 1] = entry
      BY <2>1, <2>2
    <2>6. i \in 1..Len(commands) \/ i = Len(commands) + 1
      BY <2>3
    <2>7. QED
      BY <2>4, <2>5, <2>6
  <1>3. CASE UNCHANGED <<commands, appended>>
    BY <1>3
  <1>4. ASSUME NEW w \in Workers, AtAwait(w, DOMAIN Sends), Appends(NewCommand(w)), Handles(w) \/ Leaves(w)
        PROVE  (i \in 1..Len(commands) /\ commands'[i] = commands[i]) \/ SentBy(w, i)
    <2>1. pc[w] = "handle" /\ todo[w] \notin Ended /\ Await(w) \in LastAwaits
      BY <1>4 DEF AtAwait, Handling, Await, Sends, Ended, LastAwaits
    <2>2. commands' # commands
      BY <1>1, <1>4 DEF Appends, Sound, TypeOK, CommandTypes
    <2>3. Leaves(w) => ~ Active(w)'
      BY <2>1, <2>2, LeavesHandler DEF CalmDeaths, GivesUp, Burying, Active
    <2>4. Finishes(w)
      BY <1>4, <2>1, <2>3 DEF Finishes, Active
    <2>5. NewCommand(w).type # "payment_requested"
      BY <1>4 DEF AtAwait, Sends, NewCommand
    <2>6. /\ NewCommand(w).run = RunOf(w) /\ NewCommand(w).scenario = Command(w).scenario
          /\ NewCommand(w).type = Sends[Await(w)]
      BY DEF NewCommand
    <2>7. QED
      BY <1>2, <1>4, <2>4, <2>5, <2>6 DEF SentBy
  <1>5. ASSUME NEW r \in Runs, NEW a \in Attempts, PublishRun(r, a),
               Appends([type |-> "order_create", run |-> r, scenario |-> "success"])
        PROVE  (i \in 1..Len(commands) /\ commands'[i] = commands[i]) \/ StartedBy(r, a, i)
    BY <1>2, <1>5 DEF StartedBy
  <1>6. ASSUME NEW p \in PayRequests, PublishPayment(p),
               Appends([type |-> "payment_requested", run |-> pay[p].run, scenario |-> pay[p].scenario])
        PROVE  (i \in 1..Len(commands) /\ commands'[i] = commands[i]) \/ PaidBy(p, i)
    BY <1>2, <1>6 DEF PaidBy
  <1>7. QED
    BY <1>3, <1>4, <1>5, <1>6, CommandsStep
-----------------------------------------------------------------------------
\* All that is known before a step.
Settled ==
  Sound /\ HandlersOnScript /\ PaidInv /\ DeliveryInv /\ ChargeInv /\ ScriptPays /\ CalmInv

\* What a step may be.
CalmMove == SagaMove /\ CalmDeaths

\* A worker at a command of run r is at the only one not done with.
LEMMA OneActive ==
  ASSUME Sound, OnePending, NEW w \in Workers, Active(w)
  PROVE  /\ \A i \in 1..Len(commands) : Pending(i) /\ commands[i].run = RunOf(w) => i = cur[w]
         /\ \A u \in Workers : Active(u) /\ RunOf(u) = RunOf(w) => u = w
  <1>1. \A i \in 1..Len(commands) : Pending(i) /\ commands[i].run = RunOf(w) => i = cur[w]
    BY ActiveIsPending DEF OnePending
  <1>2. ASSUME NEW u \in Workers, Active(u), RunOf(u) = RunOf(w) PROVE u = w
    <2>1. cur[u] = cur[w]
      BY <1>1, <1>2, ActiveIsPending
    <2>2. QED
      BY <1>2, <2>1, ActiveIsPending, HeldAlone
  <1>3. QED
    BY <1>1, <1>2

\* No worker is at a command of a run for which nothing is left to do.
LEMMA QuietIsIdle ==
  ASSUME Sound, NEW r, Quiet(r), NEW w \in Workers, Active(w)
  PROVE  RunOf(w) # r
  BY ActiveIsPending DEF Quiet

\* Only requests give a run something to do.
LEMMA QuietStep ==
  ASSUME Sound, HandlersOnScript, CalmMove, NEW r \in Runs, Quiet(r)
  PROVE  \/ Quiet(r)'
         \/ \E a \in Attempts : PublishRun(r, a)
         \/ \E p \in PayRequests : PublishPayment(p) /\ pay[p].run = r
  <1> SUFFICES ASSUME NEW i \in 1..Len(commands'), Pending(i)', commands'[i].run = r
               PROVE  \/ \E a \in Attempts : PublishRun(r, a)
                      \/ \E p \in PayRequests : PublishPayment(p) /\ pay[p].run = r
    BY DEF Quiet
  <1> USE DEF CalmMove
  <1>1. ~ (i \in 1..Len(commands) /\ commands'[i] = commands[i])
    BY PendingStep DEF Quiet
  <1>2. \A w \in Workers : ~ SentBy(w, i)
    BY QuietIsIdle DEF SentBy, Finishes
  <1>3. ASSUME NEW q \in Runs, NEW a \in Attempts, StartedBy(q, a, i) PROVE PublishRun(r, a)
    BY <1>3 DEF StartedBy
  <1>4. ASSUME NEW p \in PayRequests, PaidBy(p, i) PROVE PublishPayment(p) /\ pay[p].run = r
    BY <1>4 DEF PaidBy
  <1>5. QED
    BY <1>1, <1>2, <1>3, <1>4, EntryBy

\* A run for which nothing is left to do keeps its row.
LEMMA QuietRow ==
  ASSUME Sound, CalmMove, NEW r \in Runs, Quiet(r), runs[r].status # "none"
  PROVE  runs'[r] = runs[r]
  BY RowTouched, QuietIsIdle, OpenedRow DEF CalmMove, Executes, Fails

\* When its command is finished, and none is sent, nothing is left to do for a run.
LEMMA FinishedIsQuiet ==
  ASSUME Sound, HandlersOnScript, OnePending, CalmMove, NEW w \in Workers, Finishes(w), UNCHANGED commands,
         NEW r, r = RunOf(w)
  PROVE  Quiet(r)'
  <1> SUFFICES ASSUME NEW i \in 1..Len(commands), Pending(i)', commands[i].run = r PROVE FALSE
    BY DEF Quiet
  <1>1. Pending(i)
    BY PendingStep DEF CalmMove
  <1>2. i = cur[w]
    BY <1>1, OneActive DEF Finishes
  <1>3. QED
    BY <1>2, FinishedIsDone
-----------------------------------------------------------------------------
\* The steps of the invariant.

\* A command is sent by the one its run had, or by a request when it had none.
LEMMA OnePendingStep ==
  ASSUME Settled, CalmMove
  PROVE  OnePending'
  <1> SUFFICES ASSUME NEW i \in 1..Len(commands'), NEW j \in 1..Len(commands'), Pending(i)', Pending(j)',
                      commands'[i].run = commands'[j].run
               PROVE  i = j
    BY DEF OnePending
  <1> USE DEF CalmMove, Settled
  <1>1. ASSUME NEW k \in 1..Len(commands), Pending(k)', NEW l \in 1..Len(commands'), Pending(l)', l \notin 1..Len(commands),
               commands[k].run = commands'[l].run
        PROVE  FALSE
    <2>1. Pending(k)
      BY <1>1, PendingStep
    <2>2. ASSUME NEW w \in Workers, SentBy(w, l) PROVE FALSE
      <3>1. k = cur[w]
        BY <1>1, <2>1, <2>2, OneActive DEF SentBy, Finishes, CalmInv
      <3>2. QED
        BY <1>1, <2>2, <3>1, FinishedIsDone DEF SentBy
    <2>3. ASSUME NEW r \in Runs, NEW a \in Attempts, StartedBy(r, a, l) PROVE FALSE
      BY <1>1, <2>1, <2>3 DEF StartedBy, PublishRun, CalmInv, InsertedIsFirst, Quiet
    <2>4. ASSUME NEW p \in PayRequests, PaidBy(p, l) PROVE FALSE
      BY <1>1, <2>1, <2>4 DEF PaidBy, PublishPayment, CalmInv, CheckedIsAwaited, Quiet
    <2>5. QED
      BY <1>1, <2>2, <2>3, <2>4, EntryBy
  <1>2. \A k \in 1..Len(commands') : \/ k \in 1..Len(commands) /\ commands'[k] = commands[k]
                                     \/ k \notin 1..Len(commands) /\ k = Len(commands) + 1
    <2>1. Len(commands) \in Nat
      BY DEF Sound, TypeOK
    <2>2. ASSUME NEW k \in 1..Len(commands')
          PROVE  (k \in 1..Len(commands) /\ commands'[k] = commands[k]) \/ k = Len(commands) + 1
      BY EntryBy DEF SentBy, StartedBy, PaidBy
    <2>3. QED
      BY <2>1, <2>2
  <1>3. CASE i \in 1..Len(commands) /\ j \in 1..Len(commands)
    <2>1. commands'[i] = commands[i] /\ commands'[j] = commands[j]
      BY <1>2, <1>3
    <2>2. QED
      BY <1>3, <2>1, PendingStep DEF CalmInv, OnePending
  <1>4. CASE i \in 1..Len(commands) /\ j \notin 1..Len(commands)
    BY <1>1, <1>2, <1>4
  <1>5. CASE i \notin 1..Len(commands) /\ j \in 1..Len(commands)
    BY <1>1, <1>2, <1>5
  <1>6. CASE i \notin 1..Len(commands) /\ j \notin 1..Len(commands)
    BY <1>2, <1>6
  <1>7. QED
    BY <1>3, <1>4, <1>5, <1>6

\* A call left behind is about a run that was there.
LEMMA LateRun ==
  ASSUME Settled, CalmMove, NEW c \in late'
  PROVE  \/ c \in late
         \/ \E w \in Workers : Leaves(w) /\ AtAwait(w, HttpAwaits) /\ Active(w) /\ c = Call(w) /\ c.run = RunOf(w)
  <1>1. ASSUME NEW w \in Workers, AtAwait(w, HttpAwaits) PROVE Active(w)
    BY <1>1 DEF AtAwait, Handling, Await, HttpAwaits, Active, Ended
  <1>2. QED
    BY <1>1, LateStep DEF CalmMove, Settled, Call

\* The request that makes a row is the first to know of its run.
LEMMA InsertedIsFirstStep ==
  ASSUME Settled, CalmMove
  PROVE  InsertedIsFirst'
  <1> SUFFICES ASSUME NEW r \in Runs, NEW a \in Attempts, intake'[<<r, a>>] = "inserted"
               PROVE  runs'[r].status = "accepted" /\ Quiet(r)' /\ \A c \in late' : c.run # r
    BY DEF InsertedIsFirst
  <1> USE DEF CalmMove, Settled
  <1>1. intake \in [Runs \X Attempts -> {"idle", "absent", "inserted", "done"}]
    BY DEF Sound, TypeOK
  <1>2. CASE intake[<<r, a>>] = "inserted"
    <2>1. runs[r].status = "accepted" /\ Quiet(r) /\ \A c \in late : c.run # r
      BY <1>2 DEF CalmInv, InsertedIsFirst
    <2>2. runs'[r] = runs[r]
      BY <2>1, QuietRow
    <2>3. ASSUME NEW b \in Attempts, PublishRun(r, b) PROVE FALSE
      <3>1. b = a
        BY <1>2, <2>3 DEF PublishRun, PaidInv, OneOrder, OneIntake, OneInserter
      <3>2. QED
        BY <1>1, <2>3, <3>1 DEF PublishRun, SetIntake
    <2>4. ASSUME NEW p \in PayRequests, PublishPayment(p), pay[p].run = r PROVE FALSE
      BY <2>1, <2>4 DEF PublishPayment, CalmInv, CheckedIsAwaited
    <2>5. Quiet(r)'
      BY <2>1, <2>3, <2>4, QuietStep
    <2>6. \A c \in late' : c.run # r
      BY <2>1, LateRun, QuietIsIdle
    <2>7. QED
      BY <2>1, <2>2, <2>5, <2>6
  <1>3. CASE intake[<<r, a>>] # "inserted"
    <2>1. runs[r].status = "none" /\ UpdateRun(r, [status |-> "accepted"]) /\ UNCHANGED commands
      <3>1. ASSUME NEW q \in Runs, NEW b \in Attempts, NEW at, SetIntake(q, b, at)
            PROVE  q = r /\ b = a /\ at = "inserted"
        BY <1>1, <1>3, <3>1 DEF SetIntake
      <3>2. QED
        BY <1>3, <3>1, IntakeStep
    <2>2. runs'[r].status = "accepted"
      <3>1. "status" \in DOMAIN NoRun
        BY DEF NoRun
      <3>2. runs'[r]["status"] = "accepted"
        BY <2>1, <3>1, RunColumn
      <3>3. QED
        BY <3>2
    <2>3. \A i \in 1..Len(commands) : commands[i].run # r
      BY <2>1 DEF PaidInv, OneOrder, OneIntake, KnownRuns
    <2>4. Quiet(r)'
      BY <2>1, <2>3 DEF Quiet
    <2>5. \A c \in late : c.run # r
      BY <2>1 DEF CalmInv, LateIsOver
    <2>6. \A w \in Workers : Active(w) => RunOf(w) # r
      BY <2>3, ActiveIsPending
    <2>7. QED
      BY <2>2, <2>4, <2>5, <2>6, LateRun
  <1>4. QED
    BY <1>2, <1>3
-----------------------------------------------------------------------------
\* What the script and the system do to a payment.
LEMMA PaymentChange ==
  ASSUME Sound, line \in 1..11, SmokeNext \/ UNCHANGED <<vars, line>>, NEW p \in PayRequests
  PROVE  \/ pay'[p] = pay[p]
         \/ PublishPayment(p) /\ pay[p].at = "checked" /\ pay'[p].at = "done"
         \/ /\ p = line /\ line \in 1..10 /\ Pay(p) /\ pay[p].at = "idle"
            /\ pay'[p].at = "checked" /\ pay'[p].run = Main[p].run /\ pay'[p].scenario = Main[p].scenario
            /\ UNCHANGED <<runs, commands, pc, link, on, cur, hi, delivered, todo>>
  <1>1. CASE Steps
    BY <1>1, StepsPay, PaymentIsDone
  <1>2. CASE UNCHANGED vars
    BY <1>2 DEF vars, requestVars
  <1>3. CASE line \in DOMAIN Main /\ (PlaceOrder(line) \/ See(line))
    BY <1>3 DEF PlaceOrder, See, FindRun, vars, requestVars
  <1>4. CASE line \in DOMAIN Main /\ Pay(line)
    <2>1. line \in 1..10
      BY <1>4, MainPays
    <2>2. UNCHANGED <<runs, commands, pc, link, on, cur, hi, delivered, todo>>
      BY <1>4 DEF Pay, CheckPayment, dataVars, swVars, handlerVars
    <2>3. QED
      BY <1>4, <2>1, <2>2, ScriptPaysOnce
  <1>5. QED
    BY <1>1, <1>2, <1>3, <1>4, ScriptMoves

\* When the script pays, its run has nothing left to do, and no other payment under way.
LEMMA PaysWhenQuiet ==
  ASSUME Settled, line \in 1..10, Pay(line)
  PROVE  /\ runs[Main[line].run].status = "awaiting_payment"
         /\ Quiet(Main[line].run)
         /\ \A q \in PayRequests : pay[q].at = "checked" => pay[q].run # Main[line].run
  <1> USE DEF Settled
  <1>1. /\ line \in PayRequests /\ Main[line].run \in Runs
        /\ runs[Main[line].run].status = "awaiting_payment"
    BY MainPays DEF Pay, Doing, CheckPayment
  <1>2. /\ Main[3].run = First /\ Main[7].run = Second /\ Main[9].run = Second
    BY DEF Main
  <1>3. CASE line \in {3, 7}
    <2>1. ASSUME NEW q \in PayRequests, pay[q].at # "idle" PROVE pay[q].run # Main[line].run
      <3>1. q < line /\ pay[q].run = Main[q].run
        BY <2>1 DEF ScriptPays, PaysInTurn
      <3>2. line = 7 /\ q = 3
        BY <1>3, <3>1, SmokeClientAssumption
      <3>3. QED
        BY <1>2, <3>1, <3>2, SmokeClientAssumption
    <2>2. ASSUME NEW i \in 1..Len(commands), Pending(i), commands[i].run = Main[line].run PROVE FALSE
      <3>1. commands[i].type = "payment_requested"
        BY <1>1, <2>2 DEF CalmInv, AwaitingIsQuiet
      <3>2. PICK q \in PayRequests : pay[q].at = "done" /\ pay[q].run = commands[i].run
        BY <3>1 DEF ScriptPays, PaymentsAreAsked
      <3>3. QED
        BY <2>1, <2>2, <3>2
    <2>3. QED
      BY <1>1, <2>1, <2>2 DEF Quiet
  <1>4. CASE line = 9
    BY <1>1, <1>2, <1>4 DEF CalmInv, SeenIsSo, FailedIsAwaited
  <1>5. QED
    BY <1>1, <1>3, <1>4, SmokeClientAssumption

\* A payment that was accepted is sent before anything else happens to its run.
LEMMA CheckedIsAwaitedStep ==
  ASSUME Settled, CalmMove, SmokeNext \/ UNCHANGED <<vars, line>>
  PROVE  CheckedIsAwaited'
  <1> USE DEF CalmMove, Settled
  <1>0. line \in 1..11
    BY DEF ScriptPays
  <1>1. ASSUME NEW p \in PayRequests, pay'[p] = pay[p], pay[p].at = "checked"
        PROVE  /\ runs'[pay[p].run].status = "awaiting_payment" /\ Quiet(pay[p].run)'
               /\ ~ (line \in 1..10 /\ Pay(line) /\ Main[line].run = pay[p].run)
    <2>1. /\ runs[pay[p].run].status = "awaiting_payment" /\ Quiet(pay[p].run) /\ pay[p].run \in Runs
          /\ \A q \in PayRequests : pay[q].at = "checked" /\ pay[q].run = pay[p].run => q = p
      BY <1>1 DEF CalmInv, CheckedIsAwaited, Sound, TypeOK
    <2>2. runs'[pay[p].run] = runs[pay[p].run]
      BY <2>1, QuietRow
    <2>3. \A a \in Attempts : ~ PublishRun(pay[p].run, a)
      BY <2>1 DEF PublishRun, CalmInv, InsertedIsFirst
    <2>4. \A q \in PayRequests : ~ (PublishPayment(q) /\ pay[q].run = pay[p].run)
      BY <1>1, <2>1, PaymentIsDone
    <2>5. QED
      BY <1>1, <2>1, <2>2, <2>3, <2>4, QuietStep, PaysWhenQuiet
  <1>2. ASSUME NEW p \in PayRequests, p = line, line \in 1..10, Pay(p), pay'[p].run = Main[p].run,
               UNCHANGED <<runs, commands, pc, link, on, cur, hi, delivered, todo>>
        PROVE  runs'[pay'[p].run].status = "awaiting_payment" /\ \A r : r = pay'[p].run => Quiet(r)'
    <2>1. runs[Main[line].run].status = "awaiting_payment" /\ Quiet(Main[line].run)
      BY <1>2, PaysWhenQuiet
    <2>2. \A r : Quiet(r) => Quiet(r)'
      BY <1>2 DEF Quiet, Pending, Active, SWP!Holds
    <2>3. QED
      BY <1>2, <2>1, <2>2
  <1> SUFFICES ASSUME NEW p \in PayRequests, pay'[p].at = "checked", NEW r, r = pay'[p].run
               PROVE  /\ runs'[r].status = "awaiting_payment" /\ Quiet(r)'
                      /\ \A q \in PayRequests : pay'[q].at = "checked" /\ pay'[q].run = r => q = p
    <2>1. \A p \in PayRequests : pay'[p].at = "checked" =>
            \A r : r = pay'[p].run =>
              /\ runs'[r].status = "awaiting_payment" /\ Quiet(r)'
              /\ \A q \in PayRequests : pay'[q].at = "checked" /\ pay'[q].run = r => q = p
      OBVIOUS
    <2>2. QED
      BY <2>1 DEF CheckedIsAwaited, Quiet
  <1>3. runs'[r].status = "awaiting_payment" /\ Quiet(r)'
    <2>1. CASE pay'[p] = pay[p]
      <3>1. runs'[pay[p].run].status = "awaiting_payment" /\ r = pay[p].run
        BY <1>1, <2>1
      <3>2. \A q : q = pay[p].run => Quiet(q)'
        <4> SUFFICES ASSUME NEW q, q = pay[p].run PROVE Quiet(q)'
          OBVIOUS
        <4>1. QED
          BY <1>1, <2>1 DEF Quiet
      <3>3. QED
        BY <3>1, <3>2
    <2>2. CASE p = line /\ line \in 1..10 /\ Pay(p) /\ pay'[p].run = Main[p].run
               /\ UNCHANGED <<runs, commands, pc, link, on, cur, hi, delivered, todo>>
      BY <1>2, <2>2
    <2>3. QED
      BY <1>0, <2>1, <2>2, PaymentChange
  <1>4. ASSUME NEW q \in PayRequests, pay'[q].at = "checked", pay'[q].run = r PROVE q = p
    <2>1. /\ (pay'[p] = pay[p] \/ (p = line /\ line \in 1..10 /\ Pay(p) /\ pay'[p].run = Main[p].run))
          /\ (pay'[q] = pay[q] \/ (q = line /\ line \in 1..10 /\ Pay(q) /\ pay'[q].run = Main[q].run))
      BY <1>0, <1>4, PaymentChange
    <2>2. CASE pay'[p] = pay[p] /\ pay'[q] = pay[q]
      BY <1>4, <2>2 DEF CalmInv, CheckedIsAwaited
    <2>3. QED
      BY <1>1, <1>4, <2>1, <2>2
  <1>5. QED
    BY <1>3, <1>4
-----------------------------------------------------------------------------
\* Nothing is left to do for a run that is over, after a step as before.
LEMMA OverIsQuietStep ==
  ASSUME Settled, CalmMove
  PROVE  OverIsQuiet'
  <1> SUFFICES ASSUME NEW r \in Runs, runs'[r].status \in {"completed", "failed"} PROVE Quiet(r)'
    BY DEF OverIsQuiet
  <1> USE DEF CalmMove, Settled
  <1>1. CASE runs'[r] = runs[r]
    <2>1. Quiet(r)
      BY <1>1 DEF CalmInv, OverIsQuiet
    <2>2. \A a \in Attempts : ~ PublishRun(r, a)
      BY <1>1 DEF PublishRun, CalmInv, InsertedIsFirst
    <2>3. \A p \in PayRequests : ~ (PublishPayment(p) /\ pay[p].run = r)
      BY <1>1 DEF PublishPayment, CalmInv, CheckedIsAwaited
    <2>4. QED
      BY <2>1, <2>2, <2>3, QuietStep
  <1>2. ASSUME NEW w \in Workers, Executes(w, r) \/ Fails(w, r) PROVE Quiet(r)'
    <2>1. Finishes(w) /\ UNCHANGED commands /\ r = RunOf(w)
      BY <1>2, ExecutedRow, FailedRow DEF Executes, Fails
    <2>2. QED
      BY <2>1, FinishedIsQuiet DEF CalmInv
  <1>3. CASE Opens(r)
    BY <1>3, OpenedRow
  <1>4. QED
    BY <1>1, <1>2, <1>3, RowTouched
-----------------------------------------------------------------------------
\* How a worker came to be at the command it is at.
LEMMA ActiveBefore ==
  ASSUME Sound, SagaMove, HandlersOnScript, CalmDeaths, NEW w \in Workers, Active(w)'
  PROVE  \/ Active(w) /\ UNCHANGED <<pc[w], cur[w], todo[w]>>
         \/ Active(w) /\ Handles(w) /\ UNCHANGED <<pc[w], cur[w]>>
         \/ Leaves(w) /\ pc'[w] = "handle" /\ todo'[w] = <<"require">>
         \/ Active(w) /\ Leaves(w) /\ UNCHANGED cur[w] /\ (pc[w] = "deadLetter" \/ GivesUp(w))
  <1>1. CASE Asks \/ \E c \in late : LateCall(c)
    BY <1>1, RequestFrame DEF Active
  <1>2. ASSUME NEW u \in Workers, Handles(u), u # w
        PROVE  Active(w) /\ UNCHANGED <<pc[w], cur[w], todo[w]>>
    BY <1>2, HandlesFrame, HandlesStep DEF Active, OthersWait, Sound
  <1>3. CASE Handles(w)
    <2>1. pc[w] = "handle" /\ UNCHANGED <<pc, cur>>
      BY <1>3, HandlesFrame
    <2>2. todo[w] \in Ended => todo'[w] \in Ended
      BY <1>3, HandlerFlow DEF HandlersOnScript
    <2>3. QED
      BY <1>3, <2>1, <2>2 DEF Active
  <1>4. ASSUME NEW u \in Workers, Leaves(u), u # w
        PROVE  Active(w) /\ UNCHANGED <<pc[w], cur[w], todo[w]>>
    <2>1. OthersWait(u) /\ SWP!OthersKeep(u)
      BY <1>4, LeavesControl, ForgetFacts DEF Sound, Leaves
    <2>2. UNCHANGED <<pc[w], cur[w], todo[w]>>
      BY <1>4, <2>1 DEF OthersWait, SWP!OthersKeep
    <2>3. QED
      BY <2>2 DEF Active, CalmDeaths, Burying
  <1>5. CASE Leaves(w)
    <2>1. todo'[w] = <<"require">>
      BY <1>5, ForgetFacts DEF Leaves, Sound
    <2>2. CASE pc'[w] = "handle"
      BY <1>5, <2>1, <2>2
    <2>3. CASE pc'[w] # "handle"
      <3>1. pc'[w] \in {"deadLetter", "markFailed"} /\ (Burying(w)' \/ pc'[w] = "markFailed")
        BY <2>3 DEF Active, Burying
      <3>2. cur'[w] = cur[w]
        BY <1>5, <3>1 DEF Leaves, SWP!WorkerMove, SWP!HoldsNothing, SWP!GoesOn, SWP!Buries, SWP!Records, SWP!Advances,
           SWP!Takes, SWP!Busy, SWP!KeepsBatch
      <3>3. CASE pc[w] = "deadLetter"
        BY <1>5, <3>1, <3>2, <3>3 DEF Active, CalmDeaths, Burying
      <3>4. CASE pc[w] # "deadLetter"
        <4>1. pc[w] = "handle" /\ GivesUp(w)
          BY <1>5, <3>1, <3>4, LeavesHandler DEF CalmDeaths
        <4>2. todo[w] \notin Ended
          BY <4>1 DEF GivesUp, AtAwait, Await, Ended, HttpAwaits
        <4>3. QED
          BY <1>5, <3>2, <4>1, <4>2 DEF Active
      <3>5. QED
        BY <3>3, <3>4
    <2>4. QED
      BY <2>2, <2>3
  <1>6. QED
    BY <1>1, <1>2, <1>3, <1>4, <1>5 DEF SagaMove

\* A handler of payment_requested that goes on has its script to do, or starts the payment.
LEMMA PaymentBegins ==
  ASSUME Sound, NEW w \in Workers, Handles(w), Command(w).type = "payment_requested",
         todo[w] \in {<<"require">>, PaymentRequestedScript}
  PROVE  \/ todo'[w] = PaymentRequestedScript
         \/ AtAwait(w, DbAwaits) /\ Await(w) = "setRequested" /\ DbStep(w)
  <1>1. Handles(w) /\ pc[w] = "handle" /\ todo[w] # <<>> /\ Await(w) = Head(todo[w])
    BY HandlesFrame
  <1>2. CASE todo[w] = <<"require">>
    <2>1. Await(w) = "require"
      BY <1>1, <1>2
    <2>2. Begins(w)
      BY <2>1, HandlesStep DEF Branches, Proceeds, Sound
    <2>3. QED
      BY <2>2 DEF Begins, Script
  <1>3. CASE todo[w] = PaymentRequestedScript
    <2>1. Await(w) = "setRequested"
      BY <1>1, <1>3 DEF PaymentRequestedScript
    <2>2. DbStep(w) /\ AtAwait(w, DbAwaits)
      BY <1>1, <2>1 DEF Handles, DbStep, HttpStep, SendStep, TellStep, AtAwait, HttpAwaits, Sends, DbAwaits
    <2>3. QED
      BY <2>1, <2>2
  <1>4. QED
    BY <1>2, <1>3

\* A run begins to wait for a payment when its command is finished, and stops when a payment begins.
LEMMA AwaitingIsQuietStep ==
  ASSUME Settled, CalmMove
  PROVE  AwaitingIsQuiet'
  <1> SUFFICES ASSUME NEW r \in Runs, runs'[r].status = "awaiting_payment",
                      NEW i \in 1..Len(commands'), Pending(i)', commands'[i].run = r
               PROVE  /\ commands'[i].type = "payment_requested"
                      /\ \A w \in Workers : cur'[w] = i /\ Active(w)' =>
                           pc'[w] = "handle" /\ todo'[w] \in {<<"require">>, PaymentRequestedScript}
    BY DEF AwaitingIsQuiet
  <1> USE DEF CalmMove, Settled
  <1>1. ASSUME NEW w \in Workers, Executes(w, r) PROVE FALSE
    <2>1. Finishes(w) /\ UNCHANGED commands /\ r = RunOf(w)
      BY <1>1, ExecutedRow DEF Executes
    <2>2. Quiet(r)'
      BY <2>1, FinishedIsQuiet DEF CalmInv
    <2>3. QED
      BY <2>2 DEF Quiet
  <1>2. ASSUME NEW w \in Workers, Fails(w, r) PROVE FALSE
    BY <1>2, FailedRow
  <1>3. ~ Opens(r)
    BY OpenedRow
  <1>4. runs'[r] = runs[r]
    BY <1>1, <1>2, <1>3, RowTouched
  <1>5. \A k \in 1..Len(commands) : Pending(k) /\ commands[k].run = r =>
          /\ commands[k].type = "payment_requested"
          /\ \A w \in Workers : cur[w] = k /\ Active(w) =>
               pc[w] = "handle" /\ todo[w] \in {<<"require">>, PaymentRequestedScript}
    BY <1>4 DEF CalmInv, AwaitingIsQuiet
  <1>6. CASE i \in 1..Len(commands) /\ commands'[i] = commands[i]
    <2>1. Pending(i)
      BY <1>6, PendingStep
    <2>2. ASSUME NEW w \in Workers, cur'[w] = i, Active(w)'
          PROVE  pc'[w] = "handle" /\ todo'[w] \in {<<"require">>, PaymentRequestedScript}
      <3>1. Active(w) /\ cur[w] = i => /\ pc[w] = "handle" /\ todo[w] \in {<<"require">>, PaymentRequestedScript}
                                       /\ Command(w).type = "payment_requested" /\ RunOf(w) = r
        BY <1>5, <1>6, <2>1 DEF Command, RunOf
      <3>2. CASE Active(w) /\ UNCHANGED <<pc[w], cur[w], todo[w]>>
        BY <2>2, <3>1, <3>2
      <3>3. CASE Active(w) /\ Handles(w) /\ UNCHANGED <<pc[w], cur[w]>>
        <4>1. /\ pc[w] = "handle" /\ todo[w] \in {<<"require">>, PaymentRequestedScript}
              /\ Command(w).type = "payment_requested" /\ RunOf(w) = r
          BY <2>2, <3>1, <3>3
        <4>2. CASE AtAwait(w, DbAwaits) /\ Await(w) = "setRequested" /\ DbStep(w)
          <5>1. Executes(w, r)
            BY <3>3, <4>1, <4>2 DEF Executes, DbStep, DbEffect
          <5>2. QED
            BY <1>1, <5>1
        <4>3. QED
          BY <3>3, <4>1, <4>2, PaymentBegins
      <3>4. CASE Leaves(w) /\ pc'[w] = "handle" /\ todo'[w] = <<"require">>
        BY <3>4
      <3>5. CASE Active(w) /\ Leaves(w) /\ UNCHANGED cur[w] /\ (pc[w] = "deadLetter" \/ GivesUp(w))
        <4>1. /\ pc[w] = "handle" /\ todo[w] \in {<<"require">>, PaymentRequestedScript}
              /\ Command(w).type = "payment_requested" /\ GivesUp(w)
          BY <2>2, <3>1, <3>5
        <4>2. Await(w) \in HttpAwaits
          BY <4>1 DEF GivesUp, AtAwait
        <4>3. todo[w] = PaymentRequestedScript => Await(w) = "setRequested"
          BY DEF Await, PaymentRequestedScript
        <4>4. QED
          BY <4>1, <4>2, <4>3 DEF Await, HttpAwaits
      <3>6. QED
        BY <2>2, <3>2, <3>3, <3>4, <3>5, ActiveBefore
    <2>3. QED
      BY <1>5, <1>6, <2>1, <2>2
  <1>7. ASSUME NEW u \in Workers, SentBy(u, i) PROVE FALSE
    <2>1. Active(u) /\ RunOf(u) = r /\ AtAwait(u, DOMAIN Sends)
      BY <1>7 DEF SentBy, Finishes
    <2>2. todo[u] \in {<<"require">>, PaymentRequestedScript}
      BY <1>5, <2>1, ActiveIsPending
    <2>3. Await(u) \in {"require", "setRequested"}
      BY <2>2 DEF Await, PaymentRequestedScript
    <2>4. QED
      BY <2>1, <2>3 DEF AtAwait, Sends
  <1>8. ASSUME NEW q \in Runs, NEW a \in Attempts, StartedBy(q, a, i) PROVE FALSE
    BY <1>4, <1>8 DEF StartedBy, PublishRun, CalmInv, InsertedIsFirst
  <1>9. ASSUME NEW p \in PayRequests, PaidBy(p, i)
        PROVE  /\ commands'[i].type = "payment_requested"
               /\ \A w \in Workers : cur'[w] = i => ~ Active(w)'
    <2>1. UNCHANGED <<pc, link, cur, todo>> /\ i = Len(commands) + 1 /\ commands'[i].type = "payment_requested"
      BY <1>9, RequestFrame DEF PaidBy, Asks
    <2>2. ASSUME NEW w \in Workers, cur'[w] = i, Active(w)' PROVE FALSE
      <3>1. Active(w) /\ cur[w] = i
        BY <2>1, <2>2 DEF Active
      <3>2. Len(commands) \in Nat
        BY DEF Sound, TypeOK
      <3>3. QED
        BY <2>1, <3>1, <3>2, ActiveIsPending
    <2>3. QED
      BY <2>1, <2>2
  <1>10. QED
    BY <1>6, <1>7, <1>8, <1>9, EntryBy
-----------------------------------------------------------------------------
\* A worker at an await of its handler is at its command.
LEMMA AwaitIsActive ==
  ASSUME NEW w \in Workers, AtAwait(w, DbAwaits \cup HttpAwaits \cup DOMAIN Sends)
  PROVE  Active(w) /\ pc[w] = "handle"
  BY DEF AtAwait, Handling, Await, DbAwaits, HttpAwaits, Sends, Active, Ended

\* A run with a call left behind is not gone on with.
LEMMA LateIsOverStep ==
  ASSUME Settled, CalmMove
  PROVE  LateIsOver'
  <1> SUFFICES ASSUME NEW c \in late', NEW r, r = c.run
               PROVE  /\ runs'[r].status \notin {"none", "awaiting_payment"}
                      /\ \A i \in 1..Len(commands') : Pending(i)' /\ commands'[i].run = r => Dropped(i)'
    <2>1. \A c \in late' : \A r : r = c.run =>
            /\ runs'[r].status \notin {"none", "awaiting_payment"}
            /\ \A i \in 1..Len(commands') : Pending(i)' /\ commands'[i].run = r => Dropped(i)'
      OBVIOUS
    <2>2. QED
      BY <2>1 DEF LateIsOver
  <1> USE DEF CalmMove, Settled
  <1>0. r \in Runs
    BY LateStep DEF CallRows
  <1>1. CASE c \in late
    <2>1. /\ runs[r].status \notin {"none", "awaiting_payment"}
          /\ \A i \in 1..Len(commands) : Pending(i) /\ commands[i].run = r => Dropped(i)
      BY <1>1 DEF CalmInv, LateIsOver
    <2>2. ASSUME NEW w \in Workers, Active(w), RunOf(w) = r PROVE pc[w] # "handle"
      <3>1. Dropped(cur[w]) /\ SWP!Holds(w, Commands, cur[w])
        BY <2>1, <2>2, ActiveIsPending
      <3>2. QED
        BY <3>1 DEF Dropped
    <2>3. ASSUME NEW w \in Workers, Executes(w, r) PROVE FALSE
      BY <2>2, <2>3 DEF Executes, AtAwait, Handling
    <2>4. ASSUME NEW w \in Workers, Fails(w, r) PROVE runs'[r].status \notin {"none", "awaiting_payment"}
      BY <1>0, <2>4, FailedRow
    <2>5. ~ Opens(r)
      BY <1>0, <2>1, OpenedRow
    <2>6. runs'[r].status \notin {"none", "awaiting_payment"}
      BY <1>0, <2>1, <2>3, <2>4, <2>5, RowTouched
    <2>7. ASSUME NEW i \in 1..Len(commands'), Pending(i)', commands'[i].run = r PROVE Dropped(i)'
      <3>1. CASE i \in 1..Len(commands) /\ commands'[i] = commands[i]
        BY <2>1, <2>7, <3>1, PendingStep, DroppedStep
      <3>2. \A w \in Workers : ~ SentBy(w, i)
        BY <2>2, <2>7 DEF SentBy, Finishes, AtAwait, Handling
      <3>3. ASSUME NEW q \in Runs, NEW a \in Attempts, StartedBy(q, a, i) PROVE FALSE
        <4>1. q = r /\ intake[<<q, a>>] = "inserted"
          BY <2>7, <3>3 DEF StartedBy, PublishRun
        <4>2. \A d \in late : d.run # r
          BY <4>1 DEF CalmInv, InsertedIsFirst
        <4>3. QED
          BY <1>1, <4>2
      <3>4. ASSUME NEW p \in PayRequests, PaidBy(p, i) PROVE FALSE
        <4>1. pay[p].run = r /\ pay[p].at = "checked"
          BY <2>7, <3>4 DEF PaidBy, PublishPayment
        <4>2. runs[r].status = "awaiting_payment"
          BY <4>1 DEF CalmInv, CheckedIsAwaited
        <4>3. QED
          BY <2>1, <4>2
      <3>5. QED
        BY <3>1, <3>2, <3>3, <3>4, EntryBy
    <2>8. QED
      BY <2>6, <2>7
  <1>2. ASSUME NEW w \in Workers, Leaves(w), AtAwait(w, HttpAwaits), Active(w), RunOf(w) = r
        PROVE  /\ runs'[r].status \notin {"none", "awaiting_payment"}
               /\ \A i \in 1..Len(commands') : Pending(i)' /\ commands'[i].run = r => Dropped(i)'
    <2>1. /\ cur[w] \in 1..Len(commands) /\ Pending(cur[w]) /\ commands[cur[w]].run = r
      BY <1>2, ActiveIsPending
    <2>2. /\ \A i \in 1..Len(commands) : Pending(i) /\ commands[i].run = r => i = cur[w]
          /\ \A u \in Workers : Active(u) /\ RunOf(u) = r => u = w
      BY <1>2, OneActive DEF CalmInv
    <2>3. runs[r].status # "none"
      BY <2>1 DEF PaidInv, OneOrder, OneIntake, KnownRuns
    <2>4. runs[r].status # "awaiting_payment"
      <3>1. SUFFICES ASSUME runs[r].status = "awaiting_payment" PROVE FALSE
        OBVIOUS
      <3>2. todo[w] \in {<<"require">>, PaymentRequestedScript}
        BY <1>0, <1>2, <2>1, <3>1 DEF CalmInv, AwaitingIsQuiet
      <3>3. Await(w) \in {"require", "setRequested"}
        BY <3>2 DEF Await, PaymentRequestedScript
      <3>4. QED
        BY <1>2, <3>3 DEF AtAwait, HttpAwaits
    <2>5. Await(w) \in HttpAwaits /\ pc[w] = "handle"
      BY <1>2 DEF AtAwait, Handling
    <2>6. \A u \in Workers : ~ Executes(u, r)
      BY <2>2, <2>5 DEF Executes, AtAwait, HttpAwaits, DbAwaits
    <2>7. \A u \in Workers : ~ Fails(u, r)
      BY <2>2, <2>5 DEF Fails
    <2>8. ~ Opens(r)
      BY <1>0, <2>3, OpenedRow
    <2>9. runs'[r] = runs[r]
      BY <1>0, <2>6, <2>7, <2>8, RowTouched
    <2>10. ASSUME NEW i \in 1..Len(commands'), Pending(i)', commands'[i].run = r PROVE Dropped(i)'
      <3>1. CASE i \in 1..Len(commands) /\ commands'[i] = commands[i]
        <4>1. i = cur[w]
          BY <2>2, <2>10, <3>1, PendingStep
        <4>2. QED
          BY <1>2, <4>1, LeftIsDropped
      <3>2. \A u \in Workers : ~ SentBy(u, i)
        BY <2>2, <2>5, <2>10 DEF SentBy, Finishes, AtAwait, Sends, HttpAwaits
      <3>3. ASSUME NEW q \in Runs, NEW a \in Attempts, StartedBy(q, a, i) PROVE FALSE
        <4>1. q = r /\ intake[<<q, a>>] = "inserted"
          BY <2>10, <3>3 DEF StartedBy, PublishRun
        <4>2. Quiet(r)
          BY <4>1 DEF CalmInv, InsertedIsFirst
        <4>3. QED
          BY <2>1, <4>2 DEF Quiet
      <3>4. ASSUME NEW p \in PayRequests, PaidBy(p, i) PROVE FALSE
        <4>1. pay[p].run = r /\ pay[p].at = "checked"
          BY <2>10, <3>4 DEF PaidBy, PublishPayment
        <4>2. Quiet(r)
          BY <4>1 DEF CalmInv, CheckedIsAwaited
        <4>3. QED
          BY <2>1, <4>2 DEF Quiet
      <3>5. QED
        BY <3>1, <3>2, <3>3, <3>4, EntryBy
    <2>11. QED
      BY <2>3, <2>4, <2>9, <2>10
  <1>3. QED
    BY <1>1, <1>2, LateRun
-----------------------------------------------------------------------------
\* A worker is in its handler, or has no order in mind, or waits.
LEMMA LocStep ==
  ASSUME Sound, SagaMove, NEW u \in Workers
  PROVE  \/ Handles(u)
         \/ loc'[u] = NoOrder /\ todo'[u] = <<"require">>
         \/ todo'[u] = todo[u] /\ loc'[u] = loc[u] /\ Command(u)' = Command(u) /\ RunOf(u)' = RunOf(u)
  <1>1. ASSUME pc[u] = "handle" => cur'[u] = cur[u], todo'[u] = todo[u], loc'[u] = loc[u]
        PROVE  \/ loc'[u] = NoOrder /\ todo'[u] = <<"require">>
               \/ todo'[u] = todo[u] /\ loc'[u] = loc[u] /\ Command(u)' = Command(u) /\ RunOf(u)' = RunOf(u)
    <2>1. CASE pc[u] = "handle"
      BY <1>1, <2>1, OthersCommand DEF SWP!Busy, RunOf
    <2>2. CASE pc[u] # "handle"
      BY <1>1, <2>2 DEF Sound, AtRest
    <2>3. QED
      BY <2>1, <2>2
  <1>2. ASSUME NEW w \in Workers, w # u, Handles(w)
        PROVE  cur'[u] = cur[u] /\ todo'[u] = todo[u] /\ loc'[u] = loc[u]
    BY <1>2, HandlesFrame, HandlesStep DEF Sound, OthersWait
  <1>3. ASSUME NEW w \in Workers, w # u, Leaves(w)
        PROVE  cur'[u] = cur[u] /\ todo'[u] = todo[u] /\ loc'[u] = loc[u]
    <2>1. OthersWait(w)
      BY <1>3, ForgetFacts DEF Sound, Leaves
    <2>2. SWP!OthersKeep(w)
      BY <1>3, LeavesControl
    <2>3. QED
      BY <1>3, <2>1, <2>2 DEF OthersWait, SWP!OthersKeep
  <1>4. ASSUME Leaves(u) PROVE loc'[u] = NoOrder /\ todo'[u] = <<"require">>
    BY <1>4, ForgetFacts DEF Sound, Leaves
  <1>5. ASSUME Asks \/ \E c \in late : LateCall(c)
        PROVE  cur'[u] = cur[u] /\ todo'[u] = todo[u] /\ loc'[u] = loc[u]
    BY <1>5, RequestFrame
  <1>6. QED
    BY <1>1, <1>2, <1>3, <1>4, <1>5 DEF SagaMove

\* Handlers, and calls left behind, go on naming the order of their run.
LEMMA NamedAreOwnedStep ==
  ASSUME Settled, CalmMove
  PROVE  NamedAreOwned'
  <1> USE DEF CalmMove, Settled
  <1>1. ASSUME NEW u \in Workers, loc'[u] # NoOrder PROVE Owned(loc[u], RunOf(u))'
    <2>1. ASSUME NEW o, o = loc'[u], Owned(o, RunOf(u))', RunOf(u)' = RunOf(u) PROVE Owned(loc[u], RunOf(u))'
      BY <2>1 DEF Owned
    <2>2. ASSUME loc'[u] = loc[u], RunOf(u)' = RunOf(u) PROVE Owned(loc[u], RunOf(u))'
      <3>1. Owned(loc[u], RunOf(u))
        BY <1>1, <2>2 DEF CalmInv, NamedAreOwned
      <3>2. PICK o, r : o = loc[u] /\ r = RunOf(u)
        OBVIOUS
      <3>3. Owned(o, r)'
        BY <3>1, <3>2, OwnedStays
      <3>4. QED
        BY <2>2, <3>2, <3>3 DEF Owned
    <2>3. CASE Handles(u)
      <3>1. /\ Command(u)' = Command(u) /\ RunOf(u)' = RunOf(u)
            /\ Command(u) \in CommandRecords /\ RunOf(u) \in Runs
        BY <2>3, HandlesFrame, OthersCommand, CommandKnown DEF SWP!Busy, RunOf, Sound, CommandRecords
      <3>2. CASE Begins(u)
        <4>1. loc'[u] = runs[RunOf(u)].order /\ UNCHANGED <<orderStatus, owner>>
          BY <3>2 DEF Begins, dataVars
        <4>2. Owned(runs[RunOf(u)].order, RunOf(u))
          BY <1>1, <3>1, <4>1 DEF ChargeInv, RowsOwn
        <4>3. QED
          BY <3>1, <4>1, <4>2 DEF Owned
      <3>3. CASE Branches(u) \/ (Proceeds(u) /\ Await(u) # "postOrder")
        BY <2>2, <3>1, <3>3 DEF Branches, Proceeds
      <3>4. CASE Proceeds(u) /\ Await(u) = "postOrder"
        <4>1. HttpStep(u)
          BY <2>3, <3>4 DEF Handles, DbStep, SendStep, TellStep, AtAwait, DbAwaits, Sends
        <4>2. PICK sent \in MailOutcomes : HttpEffect(Call(u), sent)
          BY <4>1 DEF HttpStep
        <4>3. CreatesOrder(Call(u))
          BY <3>4, <4>2 DEF HttpEffect, MovesOrder, MakesDocument, ChargesOrder, SendsMail, Call, MoveTo
        <4>4. /\ FreshOrder \in Orders
              /\ orderStatus' = [orderStatus EXCEPT ![FreshOrder] = "created"]
              /\ owner' = [owner EXCEPT ![FreshOrder] = RunOf(u)]
          BY <4>3 DEF CreatesOrder, OL!CreateOrder, Call
        <4>5. orderStatus \in [Orders -> OL!OrderStatuses \cup {OL!Absent}] /\ owner \in [Orders -> Runs]
          BY TypeParts DEF Sound, DataTypes
        <4>6. loc'[u] = FreshOrder
          BY <3>4 DEF Proceeds
        <4>7. QED
          BY <3>1, <4>4, <4>5, <4>6 DEF Owned, OL!Absent
      <3>5. QED
        BY <2>3, <3>2, <3>3, <3>4, HandlesStep DEF Sound
    <2>4. QED
      BY <1>1, <2>2, <2>3, LocStep
  <1>2. ASSUME NEW c \in late', c.order # NoOrder PROVE Owned(c.order, c.run)
    <2>1. CASE c \in late
      BY <1>2, <2>1 DEF CalmInv, NamedAreOwned
    <2>2. ASSUME NEW w \in Workers, c = Call(w) PROVE Owned(c.order, c.run)
      BY <1>2, <2>2 DEF CalmInv, NamedAreOwned, Call
    <2>3. QED
      BY <2>1, <2>2, LateRun
  <1>3. ASSUME NEW c \in late', c.order # NoOrder PROVE \A o, r : o = c.order /\ r = c.run => Owned(o, r)'
    BY <1>2, <1>3, OwnedStays
  <1>4. \A c \in late' : c.order # NoOrder => \A o, r : o = c.order /\ r = c.run => Owned(o, r)'
    BY <1>3
  <1>5. QED
    BY <1>1, <1>4 DEF NamedAreOwned, Owned
-----------------------------------------------------------------------------
\* What a call does to the status of an order that is there.
LEMMA CallTouches ==
  ASSUME Sound, NEW c, c.does # "postOrder" => c.order \in Orders \/ c.does = "getOrder", NEW sent, HttpEffect(c, sent),
         NEW o \in Orders, orderStatus[o] # OL!Absent
  PROVE  \/ orderStatus'[o] = orderStatus[o] /\ c.does \notin DOMAIN MoveTo
         \/ orderStatus'[o] = orderStatus[o] /\ c.order # o
         \/ c.does \in DOMAIN MoveTo /\ c.order = o /\ orderStatus'[o] = MoveTo[c.does]
  <1>1. orderStatus \in [Orders -> OL!OrderStatuses \cup {OL!Absent}]
    BY TypeParts DEF Sound, DataTypes
  <1>2. CASE CreatesOrder(c)
    <2>1. /\ FreshOrder \in Orders /\ orderStatus[FreshOrder] = OL!Absent
          /\ orderStatus' = [orderStatus EXCEPT ![FreshOrder] = "created"] /\ c.does = "postOrder"
      BY <1>2 DEF CreatesOrder, OL!CreateOrder
    <2>2. QED
      BY <1>1, <2>1 DEF MoveTo
  <1>3. CASE MovesOrder(c)
    <2>1. /\ c.does \in DOMAIN MoveTo /\ c.order \in Orders
          /\ orderStatus' = [orderStatus EXCEPT ![c.order] = MoveTo[c.does]]
      BY <1>3 DEF MovesOrder, OL!Transition, MoveTo
    <2>2. QED
      BY <1>1, <2>1
  <1>4. CASE MakesDocument(c) \/ ChargesOrder(c) \/ SendsMail(c, sent)
    BY <1>4 DEF MakesDocument, ChargesOrder, SendsMail, MoveTo
  <1>5. CASE c.does = "getOrder" /\ UNCHANGED dataVars
    BY <1>5 DEF dataVars, MoveTo
  <1>6. QED
    BY <1>2, <1>3, <1>4, <1>5 DEF HttpEffect

\* What an await that asks order-service for a move gets.
LEMMA HandlerMoves ==
  ASSUME Sound, NEW w \in Workers, Handles(w), Await(w) \in DOMAIN MoveTo
  PROVE  loc[w] \in Orders /\ HttpStep(w) /\ orderStatus'[loc[w]] = MoveTo[Await(w)]
  <1>1. HttpStep(w) /\ AtAwait(w, HttpAwaits)
    BY DEF Handles, DbStep, SendStep, TellStep, HttpStep, AtAwait, MoveTo, DbAwaits, Sends
  <1>2. PICK sent \in MailOutcomes : HttpEffect(Call(w), sent)
    BY <1>1 DEF HttpStep
  <1>3. Call(w).does = Await(w) /\ Call(w).order = loc[w] /\ loc[w] \in Orders
    BY <1>1, CallKnown DEF MoveTo
  <1>4. MovesOrder(Call(w))
    BY <1>2, <1>3 DEF HttpEffect, CreatesOrder, MakesDocument, ChargesOrder, SendsMail, MoveTo
  <1>5. orderStatus' = [orderStatus EXCEPT ![loc[w]] = MoveTo[Await(w)]]
    BY <1>3, <1>4 DEF MovesOrder, OL!Transition
  <1>6. orderStatus \in [Orders -> OL!OrderStatuses \cup {OL!Absent}]
    BY TypeParts DEF Sound, DataTypes
  <1>7. QED
    BY <1>1, <1>3, <1>5, <1>6

\* An order is moved by a handler of its run, or by a call such a handler left behind.
LEMMA OrderTouched ==
  ASSUME Sound, SagaMove, NamedAreOwned, NEW o \in Orders, NEW r, Owned(o, r)
  PROVE  \/ orderStatus'[o] = orderStatus[o]
         \/ \E w \in Workers : AtAwait(w, DOMAIN MoveTo) /\ RunOf(w) = r
         \/ \E c \in late : c.run = r
  <1>0. orderStatus[o] # OL!Absent /\ owner[o] = r /\ o # NoOrder
    BY CheckoutAssumption DEF Owned, NoOrder
  <1>1. ASSUME NEW w \in Workers, HttpStep(w)
        PROVE  orderStatus'[o] = orderStatus[o] \/ (AtAwait(w, DOMAIN MoveTo) /\ RunOf(w) = r)
    <2>1. PICK sent \in MailOutcomes : HttpEffect(Call(w), sent)
      BY <1>1 DEF HttpStep
    <2>2. /\ Call(w).does = Await(w) /\ Call(w).order = loc[w] /\ AtAwait(w, HttpAwaits)
          /\ Await(w) # "postOrder" => loc[w] \in Orders
      BY <1>1, CallKnown DEF HttpStep
    <2>3. orderStatus'[o] = orderStatus[o] \/ (Await(w) \in DOMAIN MoveTo /\ loc[w] = o)
      BY <1>0, <2>1, <2>2, CallTouches
    <2>4. Await(w) \in DOMAIN MoveTo => AtAwait(w, DOMAIN MoveTo)
      BY <2>2 DEF AtAwait
    <2>5. loc[w] = o => RunOf(w) = r
      BY <1>0 DEF NamedAreOwned, Owned
    <2>6. QED
      BY <2>3, <2>4, <2>5
  <1>2. ASSUME NEW c \in late, LateCall(c)
        PROVE  orderStatus'[o] = orderStatus[o] \/ c.run = r
    <2>1. CASE UNCHANGED dataVars
      BY <2>1 DEF dataVars
    <2>2. ASSUME NEW sent \in MailOutcomes, HttpEffect(c, sent)
          PROVE  orderStatus'[o] = orderStatus[o] \/ c.order = o
      BY <1>0, <2>2, CallTouches DEF Sound, LateKnow
    <2>3. c.order = o => c.run = r
      BY <1>0 DEF NamedAreOwned, Owned
    <2>4. QED
      BY <1>2, <2>1, <2>2, <2>3 DEF LateCall
  <1>3. ASSUME NEW w \in Workers, DbStep(w) \/ SendStep(w) \/ TellStep(w) \/ Leaves(w)
        PROVE  UNCHANGED orderStatus
    BY <1>3 DEF DbStep, SendStep, TellStep, Leaves, LeavesUndone, DbEffect, MarkRunFailed, dataVars
  <1>4. CASE Asks
    BY <1>4 DEF Asks, FindRun, CreateRun, PublishRun, IntakeDies, PublishPayment, CheckPayment, dataVars
  <1>5. QED
    BY <1>1, <1>2, <1>3, <1>4 DEF SagaMove, Handles
-----------------------------------------------------------------------------
\* What is left of a handler that is about to let its run wait for a payment.
LEMMA WaitParts ==
  ASSUME Sound, HandlersOnScript, NEW w \in Workers, AtAwait(w, {"setAwaiting", "setRetryable"})
  PROVE  /\ Await(w) = "setAwaiting" => todo[w] = <<"setAwaiting", "tell">>
         /\ Await(w) = "setRetryable" => todo[w] = <<"setRetryable">> /\ Command(w).type = "payment_process"
  <1>1. pc[w] = "handle" /\ todo[w] # <<>> /\ Await(w) = Head(todo[w])
    BY DEF AtAwait, Handling, Await
  <1>2. Command(w) \in CommandRecords
    BY <1>1, CommandKnown DEF Sound, SWP!Busy
  <1>3. Command(w).type \in DOMAIN Script /\ todo[w] \in Parts[Command(w).type]
    BY <1>1, <1>2 DEF HandlersOnScript, OnScript, CommandRecords
  <1>4. Command(w).type = HandlerOf[Await(w)]
    BY <1>1, <1>3, PartHeads DEF HandlerOf, AtAwait
  <1>5. CASE Await(w) = "setAwaiting"
    <2>1. todo[w] \in Parts["generate_invoice"]
      BY <1>3, <1>4, <1>5 DEF HandlerOf
    <2>2. QED
      BY <1>1, <1>5, <2>1, ShortTails DEF Parts, InvoiceScript
  <1>6. CASE Await(w) = "setRetryable"
    <2>1. todo[w] \in Parts["payment_process"] /\ Command(w).type = "payment_process"
      BY <1>3, <1>4, <1>6 DEF HandlerOf
    <2>2. QED
      BY <1>1, <1>6, <2>1, ShortTails DEF Parts, PaymentProcessScript, PaidScript, RetryScript, RejectedScript
  <1>7. QED
    BY <1>5, <1>6 DEF AtAwait

\* A run begins to wait with its order unpaid, and nobody pays for it while it does.
LEMMA AwaitedIsUnpaidStep ==
  ASSUME Settled, CalmMove
  PROVE  AwaitedIsUnpaid'
  <1> SUFFICES ASSUME NEW r \in Runs, runs'[r].status = "awaiting_payment"
               PROVE  orderStatus'[runs'[r].order] \in {"invoice_generated", "payment_failed"}
    BY DEF AwaitedIsUnpaid
  <1> USE DEF CalmMove, Settled
  <1>1. CASE runs'[r] = runs[r]
    <2>1. PICK o \in Orders : o = runs[r].order
      BY <1>1 DEF DeliveryInv, MarksAreBacked, Backed
    <2>2. orderStatus[o] \in {"invoice_generated", "payment_failed"}
      BY <1>1, <2>1 DEF CalmInv, AwaitedIsUnpaid
    <2>3. Owned(o, r)
      BY <2>1, CheckoutAssumption DEF ChargeInv, RowsOwn, NoOrder
    <2>4. ASSUME NEW w \in Workers, AtAwait(w, DOMAIN MoveTo), RunOf(w) = r PROVE FALSE
      <3>1. Active(w)
        BY <2>4, AwaitIsActive DEF AtAwait, MoveTo, HttpAwaits
      <3>2. todo[w] \in {<<"require">>, PaymentRequestedScript}
        BY <1>1, <2>4, <3>1, ActiveIsPending DEF CalmInv, AwaitingIsQuiet
      <3>3. Await(w) \in {"require", "setRequested"}
        BY <3>2 DEF Await, PaymentRequestedScript
      <3>4. QED
        BY <2>4, <3>3 DEF AtAwait, MoveTo
    <2>5. \A c \in late : c.run # r
      BY <1>1 DEF CalmInv, LateIsOver
    <2>6. orderStatus'[o] = orderStatus[o]
      BY <2>3, <2>4, <2>5, OrderTouched DEF CalmInv
    <2>7. QED
      BY <1>1, <2>1, <2>2, <2>6
  <1>2. ASSUME NEW w \in Workers, Executes(w, r)
        PROVE  orderStatus'[runs'[r].order] \in {"invoice_generated", "payment_failed"}
    <2>1. /\ Await(w) \in {"setAwaiting", "setRetryable"} /\ AtAwait(w, {"setAwaiting", "setRetryable"})
          /\ runs'[r].order = runs[r].order /\ UNCHANGED orderStatus /\ r = RunOf(w) /\ pc[w] = "handle"
      BY <1>2, ExecutedRow DEF Executes, AtAwait, Handling
    <2>2. Await(w) \in Ahead(w)
      BY <2>1, AwaitIsAhead DEF AtAwait
    <2>3. CASE Await(w) = "setAwaiting"
      <3>1. loc[w] \in Orders /\ orderStatus[loc[w]] = "invoice_generated"
        BY <2>1, <2>3, WaitParts DEF CalmInv, WaitsAreMoved
      <3>2. runs[r].order = loc[w]
        BY <2>1, <2>2, <2>3 DEF DeliveryInv, HandlersKnowDone, KnowsDone
      <3>3. QED
        BY <2>1, <3>1, <3>2
    <2>4. CASE Await(w) = "setRetryable"
      <3>1. loc[w] \in Orders /\ orderStatus[loc[w]] = "payment_failed"
        BY <2>1, <2>4, WaitParts DEF CalmInv, WaitsAreMoved
      <3>2. runs[r].invoice
        BY <2>1, <2>4, WaitParts, CommandFollows DEF DeliveryInv, Follows, SWP!Busy
      <3>3. runs[r].order \in Orders
        BY <3>2 DEF DeliveryInv, MarksAreBacked, Backed
      <3>4. Owned(runs[r].order, r)
        BY <3>3, CheckoutAssumption DEF ChargeInv, RowsOwn, NoOrder
      <3>5. Owned(loc[w], r)
        BY <2>1, <3>1, CheckoutAssumption DEF CalmInv, NamedAreOwned, NoOrder
      <3>6. runs[r].order = loc[w]
        BY <3>4, <3>5 DEF Owned, PaidInv, OneOrder, OneOrderPerRun
      <3>7. QED
        BY <2>1, <3>1, <3>6
    <2>5. QED
      BY <2>1, <2>3, <2>4
  <1>3. \A w \in Workers : ~ Fails(w, r)
    BY FailedRow
  <1>4. ~ Opens(r)
    BY OpenedRow
  <1>5. QED
    BY <1>1, <1>2, <1>3, <1>4, RowTouched

\* What is left of a handler that lets its run wait next.
Waiting ==
  {<<"setAwaiting", "tell">>, <<"tell", "setRetryable">>, <<"setRetryable">>}

\* A handler moves the order before it lets its run wait, and nobody else moves it.
LEMMA WaitsAreMovedStep ==
  ASSUME Settled, CalmMove
  PROVE  WaitsAreMoved'
  <1> SUFFICES ASSUME NEW u \in Workers, todo'[u] \in Waiting
               PROVE  /\ loc'[u] \in Orders
                      /\ orderStatus'[loc'[u]] = IF todo'[u] = <<"setAwaiting", "tell">> THEN "invoice_generated"
                                                                                       ELSE "payment_failed"
    <2>1. <<"setAwaiting", "tell">> \notin {<<"tell", "setRetryable">>, <<"setRetryable">>}
      OBVIOUS
    <2>2. QED
      BY <2>1 DEF WaitsAreMoved, Waiting
  <1> USE DEF CalmMove, Settled
  <1>0. <<"setAwaiting", "tell">> \notin {<<"tell", "setRetryable">>, <<"setRetryable">>}
    OBVIOUS
  <1>1. CASE Handles(u)
    <2>1. Flows(todo[u], todo'[u]) /\ Proceeds(u) /\ Await(u) = Head(todo[u]) /\ loc'[u] = loc[u]
      <3>1. ~ Begins(u)
        <4>1. SUFFICES ASSUME Begins(u) PROVE FALSE
          OBVIOUS
        <4>2. Command(u).type \in DOMAIN Script
          BY <1>1, HandlerFlow DEF HandlersOnScript, CommandRecords
        <4>3. todo'[u] \in {OrderCreateScript, InvoiceScript, PaymentRequestedScript, PaymentProcessScript,
                            ReceiptScript, NotificationScript}
          BY <4>1, <4>2 DEF Begins, Script
        <4>4. QED
          BY <4>3 DEF Waiting, OrderCreateScript, InvoiceScript, PaymentRequestedScript, PaymentProcessScript,
             ReceiptScript, NotificationScript
      <3>2. ~ Branches(u)
        BY DEF Branches, Waiting, PaidScript, RetryScript, RejectedScript, SentScript, UnsentScript
      <3>3. Proceeds(u) /\ Flows(todo[u], todo'[u]) /\ Await(u) = Head(todo[u])
        BY <1>1, <3>1, <3>2, HandlerFlow, HandlesFrame DEF HandlersOnScript
      <3>4. Await(u) # "postOrder"
        <4>1. todo'[u] # <<"setRetryable">> => Await(u) \in {"moveInvoiced", "moveUnpaid"}
          BY <3>3 DEF Flows, Waiting
        <4>2. todo'[u] = <<"setRetryable">> => Await(u) = "tell"
          BY <3>3, ShortTails DEF Flows
        <4>3. QED
          BY <4>1, <4>2
      <3>5. QED
        BY <3>3, <3>4 DEF Proceeds
    <2>2. CASE todo'[u] = <<"setRetryable">>
      <3>1. todo[u] = <<"tell", "setRetryable">> /\ Await(u) = "tell"
        BY <2>1, <2>2, ShortTails DEF Flows
      <3>2. loc[u] \in Orders /\ orderStatus[loc[u]] = "payment_failed"
        BY <3>1 DEF CalmInv, WaitsAreMoved
      <3>3. UNCHANGED orderStatus
        BY <1>1, <3>1 DEF Handles, DbStep, HttpStep, SendStep, TellStep, AtAwait, DbAwaits, HttpAwaits, Sends, dataVars
      <3>4. QED
        BY <1>0, <2>1, <2>2, <3>2, <3>3
    <2>3. CASE todo'[u] # <<"setRetryable">>
      <3>1. Await(u) = IF todo'[u] = <<"setAwaiting", "tell">> THEN "moveInvoiced" ELSE "moveUnpaid"
        BY <2>1, <2>3 DEF Flows, Waiting
      <3>2. Await(u) \in DOMAIN MoveTo /\ MoveTo[Await(u)] = IF todo'[u] = <<"setAwaiting", "tell">> THEN "invoice_generated"
                                                                                                 ELSE "payment_failed"
        BY <3>1 DEF MoveTo
      <3>3. QED
        BY <1>1, <2>1, <3>2, HandlerMoves
    <2>4. QED
      BY <2>2, <2>3
  <1>2. CASE todo'[u] = <<"require">>
    BY <1>2 DEF Waiting
  <1>3. CASE todo'[u] = todo[u] /\ loc'[u] = loc[u]
    <2>1. /\ loc[u] \in Orders
          /\ orderStatus[loc[u]] = IF todo[u] = <<"setAwaiting", "tell">> THEN "invoice_generated"
                                                                        ELSE "payment_failed"
      BY <1>0, <1>3 DEF CalmInv, WaitsAreMoved, Waiting
    <2>2. pc[u] = "handle"
      BY <1>3 DEF Sound, AtRest, Waiting
    <2>3. Active(u) /\ Await(u) \in {"setAwaiting", "tell", "setRetryable"}
      <3>1. todo[u] \in Waiting
        BY <1>3
      <3>2. todo[u] \notin Ended
        BY <3>1 DEF Ended, Waiting
      <3>3. Await(u) \in {"setAwaiting", "tell", "setRetryable"}
        BY <3>1, ShortTails DEF Await, Waiting
      <3>4. QED
        BY <2>2, <3>2, <3>3 DEF Active
    <2>4. PICK o \in Orders : o = loc[u]
      BY <2>1
    <2>5. Owned(o, RunOf(u))
      BY <2>4, CheckoutAssumption DEF CalmInv, NamedAreOwned, NoOrder
    <2>6. ASSUME NEW w \in Workers, AtAwait(w, DOMAIN MoveTo), RunOf(w) = RunOf(u) PROVE FALSE
      <3>1. Active(w)
        BY <2>6, AwaitIsActive DEF AtAwait, MoveTo, HttpAwaits
      <3>2. w = u
        BY <2>3, <2>6, <3>1, OneActive DEF CalmInv
      <3>3. QED
        BY <2>3, <2>6, <3>2 DEF AtAwait, MoveTo
    <2>7. \A c \in late : c.run # RunOf(u)
      <3> SUFFICES ASSUME NEW c \in late, c.run = RunOf(u) PROVE FALSE
        OBVIOUS
      <3>1. Dropped(cur[u]) /\ SWP!Holds(u, Commands, cur[u])
        BY <2>3, ActiveIsPending DEF CalmInv, LateIsOver
      <3>2. QED
        BY <2>2, <3>1 DEF Dropped
    <2>8. orderStatus'[o] = orderStatus[o]
      BY <2>5, <2>6, <2>7, OrderTouched DEF CalmInv
    <2>9. QED
      BY <1>3, <2>1, <2>4, <2>8
  <1>4. QED
    BY <1>1, <1>2, <1>3, LocStep
-----------------------------------------------------------------------------
\* A handler learns that its payment is rejected for good when it cannot be retried.
LEMMA RejectedForGoodStep ==
  ASSUME Settled, CalmMove
  PROVE  RejectedForGood'
  <1> SUFFICES ASSUME NEW u \in Workers, "setRejected" \in Ahead(u)'
               PROVE  Outcome[Command(u)'.scenario] \notin PAYMENT_FAILURE_RETRYABLE
    BY DEF RejectedForGood
  <1> USE DEF CalmMove, Settled
  <1>1. ASSUME Command(u)' = Command(u), Ahead(u)' \subseteq Ahead(u)
        PROVE  Outcome[Command(u)'.scenario] \notin PAYMENT_FAILURE_RETRYABLE
    BY <1>1 DEF CalmInv, RejectedForGood
  <1>2. CASE Handles(u)
    <2>1. Command(u)' = Command(u) /\ Command(u) \in CommandRecords
      BY <1>2, HandlesFrame, OthersCommand, CommandKnown DEF SWP!Busy, Sound
    <2>2. CASE Begins(u) /\ Ahead(u)' = Awaits(Script[Command(u).type])
      <3>1. Ahead(u)' \in {Awaits(OrderCreateScript), Awaits(InvoiceScript), Awaits(PaymentRequestedScript),
                           Awaits(PaymentProcessScript), Awaits(ReceiptScript), Awaits(NotificationScript)}
        BY <2>1, <2>2 DEF Script, CommandRecords
      <3>2. QED
        BY <3>1, ScriptAwaits
    <2>3. CASE Branches(u) /\ Await(u) = "postPayment"
      <3>1. HttpStep(u)
        BY <1>2, <2>3 DEF Handles, DbStep, SendStep, TellStep, AtAwait, DbAwaits, Sends
      <3>2. todo \in [Workers -> Seq(AwaitLabels)]
        BY TypeParts DEF Sound, HandlerTypesOK
      <3>3. Outcome[Command(u).scenario] \in PAYMENT_FAILURE_RETRYABLE => todo'[u] \in {PaidScript, RetryScript}
        BY <2>3, <3>1, <3>2 DEF HttpStep, Continue
      <3>4. Ahead(u)' = Awaits(todo'[u])
        BY DEF Ahead, Awaits
      <3>5. QED
        BY <2>1, <3>3, <3>4, ScriptAwaits
    <2>4. CASE Ahead(u)' \in {{"moveNotified", "setCompleted", "tell"}, {"setUnsent", "tell"}}
      BY <2>4
    <2>5. CASE Ahead(u)' \subseteq Ahead(u)
      BY <1>1, <2>1, <2>5
    <2>6. QED
      BY <1>2, <2>2, <2>3, <2>4, <2>5, AheadAfter
  <1>3. QED
    BY <1>1, <1>2, WorkerStep

\* A handler learns that its payment may be retried from what the provider answered.
LEMMA RetriedFailedStep ==
  ASSUME Settled, CalmMove
  PROVE  RetriedFailed'
  <1> SUFFICES ASSUME NEW u \in Workers, "setRetryable" \in Ahead(u)'
               PROVE  Command(u)'.scenario # "success"
    BY DEF RetriedFailed
  <1> USE DEF CalmMove, Settled
  <1>1. ASSUME Command(u)' = Command(u), Ahead(u)' \subseteq Ahead(u)
        PROVE  Command(u)'.scenario # "success"
    BY <1>1 DEF CalmInv, RetriedFailed
  <1>2. CASE Handles(u)
    <2>1. Command(u)' = Command(u) /\ Command(u) \in CommandRecords
      BY <1>2, HandlesFrame, OthersCommand, CommandKnown DEF SWP!Busy, Sound
    <2>2. CASE Begins(u) /\ Ahead(u)' = Awaits(Script[Command(u).type])
      <3>1. Ahead(u)' \in {Awaits(OrderCreateScript), Awaits(InvoiceScript), Awaits(PaymentRequestedScript),
                           Awaits(PaymentProcessScript), Awaits(ReceiptScript), Awaits(NotificationScript)}
        BY <2>1, <2>2 DEF Script, CommandRecords
      <3>2. QED
        BY <3>1, ScriptAwaits
    <2>3. CASE Outcome[Command(u).scenario] # "completed"
      BY <2>1, <2>3 DEF Outcome
    <2>4. CASE Ahead(u)' \in {{"movePaid", "setPaid", "sendReceipt"}, {"moveNotified", "setCompleted", "tell"},
                              {"setUnsent", "tell"}}
      BY <2>4
    <2>5. CASE Ahead(u)' \subseteq Ahead(u)
      BY <1>1, <2>1, <2>5
    <2>6. QED
      BY <1>2, <2>2, <2>3, <2>4, <2>5, AheadAfter
  <1>3. QED
    BY <1>1, <1>2, WorkerStep

\* What the handlers of a payment and after it send.
LEMMA SendsOnward ==
  ASSUME Sound, HandlersOnScript, NEW w \in Workers, AtAwait(w, DOMAIN Sends), Command(w).type \in AfterPayment
  PROVE  Sends[Await(w)] \in {"generate_receipt", "notification_send"}
  <1>1. pc[w] = "handle" /\ todo[w] # <<>> /\ Await(w) = Head(todo[w]) /\ Await(w) \in DOMAIN Sends
    BY DEF AtAwait, Handling, Await
  <1>2. todo[w] \in Parts[Command(w).type]
    BY <1>1 DEF HandlersOnScript, OnScript
  <1>3. Await(w) \notin {"sendInvoice", "sendProcess"}
    <2>1. CASE Command(w).type = "payment_process"
      BY <1>1, <1>2, <2>1, ShortTails DEF Parts, PaymentProcessScript, PaidScript, RetryScript, RejectedScript
    <2>2. CASE Command(w).type = "generate_receipt"
      BY <1>1, <1>2, <2>2, ShortTails DEF Parts, ReceiptScript
    <2>3. CASE Command(w).type = "notification_send"
      BY <1>1, <1>2, <2>3, ShortTails DEF Parts, NotificationScript, SentScript, UnsentScript
    <2>4. QED
      BY <2>1, <2>2, <2>3 DEF AfterPayment
  <1>4. QED
    BY <1>1, <1>3 DEF Sends

\* From the command of such a payment on, a run goes its way without waiting.
LEMMA PaidForNeverWaitsStep ==
  ASSUME Settled, CalmMove
  PROVE  PaidForNeverWaits'
  <1> SUFFICES ASSUME NEW i \in 1..Len(commands'), commands'[i].type = "payment_process",
                      commands'[i].scenario = "success", NEW r, r = commands'[i].run
               PROVE  /\ runs'[r].status # "awaiting_payment"
                      /\ \A j \in 1..Len(commands') : Pending(j)' /\ commands'[j].run = r =>
                           /\ commands'[j].type \in AfterPayment
                           /\ commands'[j].type = "payment_process" => commands'[j].scenario = "success"
    BY DEF PaidForNeverWaits
  <1> USE DEF CalmMove, Settled
  <1>1. ASSUME i \in 1..Len(commands), commands'[i] = commands[i]
        PROVE  /\ runs'[r].status # "awaiting_payment"
               /\ \A j \in 1..Len(commands') : Pending(j)' /\ commands'[j].run = r =>
                    /\ commands'[j].type \in AfterPayment
                    /\ commands'[j].type = "payment_process" => commands'[j].scenario = "success"
    <2>1. /\ runs[r].status # "awaiting_payment"
          /\ \A j \in 1..Len(commands) : Pending(j) /\ commands[j].run = r =>
               /\ commands[j].type \in AfterPayment
               /\ commands[j].type = "payment_process" => commands[j].scenario = "success"
      BY <1>1 DEF CalmInv, PaidForNeverWaits
    <2>2. r \in Runs /\ runs[r].status # "none" /\ runs[r].invoice
      <3>1. commands[i] \in CommandRecords
        BY <1>1 DEF Sound, TypeOK
      <3>2. runs[r].status # "none"
        BY <1>1 DEF PaidInv, OneOrder, OneIntake, KnownRuns
      <3>3. runs[r].invoice
        BY <1>1 DEF DeliveryInv, CommandsFollow, Follows
      <3>4. QED
        BY <1>1, <3>1, <3>2, <3>3 DEF CommandRecords
    <2>3. ASSUME NEW w \in Workers, Active(w), RunOf(w) = r
          PROVE  /\ Command(w).type \in AfterPayment
                 /\ Command(w).type = "payment_process" => Command(w).scenario = "success"
      BY <2>1, <2>3, ActiveIsPending DEF Command
    <2>4. ASSUME NEW w \in Workers, Executes(w, r) PROVE runs'[r].status # "awaiting_payment"
      <3>1. SUFFICES ASSUME runs'[r].status = "awaiting_payment" PROVE FALSE
        OBVIOUS
      <3>2. /\ Await(w) \in {"setAwaiting", "setRetryable"} /\ Active(w) /\ RunOf(w) = r
            /\ pc[w] = "handle" /\ todo[w] # <<>>
        BY <2>2, <2>4, <3>1, ExecutedRow DEF Executes, AtAwait, Handling
      <3>3. Await(w) \in Ahead(w)
        BY <3>2, AwaitIsAhead
      <3>4. Command(w).type = HandlerOf[Await(w)]
        BY <3>2, <3>3 DEF DeliveryInv, HandlersKnowDone, KnowsDone, HandlerOf
      <3>5. Await(w) # "setAwaiting"
        BY <2>3, <3>2, <3>4 DEF HandlerOf, AfterPayment
      <3>6. Command(w).type = "payment_process" /\ Command(w).scenario # "success"
        BY <3>2, <3>3, <3>4, <3>5 DEF HandlerOf, CalmInv, RetriedFailed
      <3>7. QED
        BY <2>3, <3>2, <3>6
    <2>5. \A w \in Workers : Fails(w, r) => runs'[r].status # "awaiting_payment"
      BY <2>2, FailedRow
    <2>6. ~ Opens(r)
      BY <2>2, OpenedRow
    <2>7. runs'[r].status # "awaiting_payment"
      BY <2>1, <2>2, <2>4, <2>5, <2>6, RowTouched
    <2>8. ASSUME NEW j \in 1..Len(commands'), Pending(j)', commands'[j].run = r
          PROVE  /\ commands'[j].type \in AfterPayment
                 /\ commands'[j].type = "payment_process" => commands'[j].scenario = "success"
      <3>1. CASE j \in 1..Len(commands) /\ commands'[j] = commands[j]
        BY <2>1, <2>8, <3>1, PendingStep
      <3>2. ASSUME NEW w \in Workers, SentBy(w, j) PROVE commands'[j].type \in {"generate_receipt", "notification_send"}
        <4>1. Active(w) /\ RunOf(w) = r /\ AtAwait(w, DOMAIN Sends) /\ commands'[j].type = Sends[Await(w)]
          BY <2>8, <3>2 DEF SentBy, Finishes
        <4>2. Command(w).type \in AfterPayment
          BY <2>3, <4>1
        <4>3. QED
          BY <4>1, <4>2, SendsOnward
      <3>3. ASSUME NEW q \in Runs, NEW a \in Attempts, StartedBy(q, a, j) PROVE FALSE
        <4>1. q = r /\ intake[<<r, a>>] = "inserted"
          BY <2>8, <3>3 DEF StartedBy, PublishRun
        <4>2. \A k \in 1..Len(commands) : ~ Creates(k, r)
          BY <2>2, <4>1 DEF PaidInv, OneOrder, OneIntake, OneInserter
        <4>3. runs[r].order # NoOrder
          BY <2>2, CheckoutAssumption DEF DeliveryInv, MarksAreBacked, Backed, NoOrder
        <4>4. QED
          BY <2>2, <4>2, <4>3 DEF PaidInv, NamesAreSpent
      <3>4. ASSUME NEW p \in PayRequests, PaidBy(p, j) PROVE FALSE
        <4>1. pay[p].run = r /\ pay[p].at = "checked"
          BY <2>8, <3>4 DEF PaidBy, PublishPayment
        <4>2. QED
          BY <2>1, <4>1 DEF CalmInv, CheckedIsAwaited
      <3>5. QED
        BY <3>1, <3>2, <3>3, <3>4, EntryBy DEF AfterPayment
    <2>9. QED
      BY <2>7, <2>8
  <1>2. ASSUME NEW w \in Workers, SentBy(w, i)
        PROVE  /\ runs'[r].status # "awaiting_payment"
               /\ \A j \in 1..Len(commands') : Pending(j)' /\ commands'[j].run = r => j = i
    <2>1. /\ Finishes(w) /\ Active(w) /\ RunOf(w) = r /\ AtAwait(w, DOMAIN Sends) /\ Await(w) = "sendProcess"
          /\ i = Len(commands) + 1
      BY <1>2 DEF SentBy, Finishes, AtAwait, Sends
    <2>2. /\ cur[w] \in 1..Len(commands) /\ Pending(cur[w]) /\ commands[cur[w]].run = r /\ r \in Runs
      BY <2>1, ActiveIsPending
    <2>3. /\ \A j \in 1..Len(commands) : Pending(j) /\ commands[j].run = r => j = cur[w]
          /\ \A u \in Workers : Active(u) /\ RunOf(u) = r => u = w
      BY <2>1, OneActive DEF CalmInv
    <2>4. runs[r].status \notin {"none", "awaiting_payment"}
      <3>1. runs[r].status # "none"
        BY <2>2 DEF PaidInv, OneOrder, OneIntake, KnownRuns
      <3>2. ASSUME runs[r].status = "awaiting_payment" PROVE FALSE
        <4>1. todo[w] \in {<<"require">>, PaymentRequestedScript}
          BY <2>1, <2>2, <3>2 DEF CalmInv, AwaitingIsQuiet
        <4>2. Await(w) \in {"require", "setRequested"}
          BY <4>1 DEF Await, PaymentRequestedScript
        <4>3. QED
          BY <2>1, <4>2
      <3>3. QED
        BY <3>1, <3>2
    <2>5. \A u \in Workers : ~ Executes(u, r)
      BY <2>1, <2>3 DEF Executes, AtAwait, DbAwaits
    <2>6. \A u \in Workers : Fails(u, r) => runs'[r].status # "awaiting_payment"
      BY <2>2, FailedRow
    <2>7. ~ Opens(r)
      BY <2>2, <2>4, OpenedRow
    <2>8. runs'[r].status # "awaiting_payment"
      BY <2>2, <2>4, <2>5, <2>6, <2>7, RowTouched
    <2>9. ASSUME NEW j \in 1..Len(commands'), Pending(j)', commands'[j].run = r PROVE j = i
      <3>1. CASE j \in 1..Len(commands) /\ commands'[j] = commands[j]
        <4>1. j = cur[w]
          BY <2>3, <2>9, <3>1, PendingStep
        <4>2. QED
          BY <2>1, <2>9, <4>1, FinishedIsDone
      <3>2. QED
        BY <2>1, <3>1, EntryBy DEF SentBy, StartedBy, PaidBy
    <2>10. QED
      BY <2>8, <2>9
  <1>3. \A q \in Runs, a \in Attempts : ~ StartedBy(q, a, i)
    BY DEF StartedBy
  <1>4. \A p \in PayRequests : ~ PaidBy(p, i)
    BY DEF PaidBy
  <1>5. CASE \E w \in Workers : SentBy(w, i)
    <2>1. /\ runs'[r].status # "awaiting_payment"
          /\ \A j \in 1..Len(commands') : Pending(j)' /\ commands'[j].run = r => j = i
      BY <1>2, <1>5
    <2>2. QED
      BY <2>1 DEF AfterPayment
  <1>6. QED
    BY <1>1, <1>3, <1>4, <1>5, EntryBy

\* The lines of the script.
LEMMA MainLines ==
  /\ Main[2].does = "waitInvoice" /\ Main[2].run = First /\ Main[3].run = First
  /\ Main[4].does = "waitCompleted" /\ Main[4].run = First
  /\ Main[6].does = "waitInvoice" /\ Main[6].run = Second /\ Main[7].run = Second
  /\ Main[8].does = "waitFailure" /\ Main[8].run = Second /\ Main[9].run = Second
  /\ Main[10].does = "waitCompleted" /\ Main[10].run = Second
  /\ Main[3].scenario = "success" /\ Main[9].scenario = "success"
  /\ First \in Runs /\ Second \in Runs /\ First # Second
  BY SmokeClientAssumption DEF Main

\* No payment fails before the script asked for one that does.
LEMMA FailuresAreAskedStep ==
  ASSUME Settled, CalmMove, SmokeNext \/ UNCHANGED <<vars, line>>
  PROVE  FailuresAreAsked'
  <1> USE DEF CalmMove, Settled
  <1>1. 7 \in PayRequests /\ Second \in Runs
    BY SmokeClientAssumption
  <1>2. pay[7].at = "done" => pay'[7].at = "done"
    BY <1>1, PaysInTurnStep DEF ScriptPays
  <1>3. \A i \in 1..Len(commands) : commands[i].scenario # "success" => pay[7].at = "done"
    BY DEF CalmInv, FailuresAreAsked
  <1>4. ASSUME NEW w \in Workers, Active(w), Command(w).scenario # "success" PROVE pay[7].at = "done"
    BY <1>3, <1>4, ActiveIsPending DEF Command
  <1>5. ASSUME NEW i \in 1..Len(commands'), commands'[i].scenario # "success" PROVE pay'[7].at = "done"
    <2>1. CASE i \in 1..Len(commands) /\ commands'[i] = commands[i]
      BY <1>2, <1>3, <1>5, <2>1
    <2>2. ASSUME NEW w \in Workers, SentBy(w, i) PROVE pay'[7].at = "done"
      BY <1>2, <1>4, <1>5, <2>2 DEF SentBy, Finishes
    <2>3. \A r \in Runs, a \in Attempts : ~ StartedBy(r, a, i)
      BY <1>5 DEF StartedBy
    <2>4. ASSUME NEW p \in PayRequests, PaidBy(p, i) PROVE pay'[7].at = "done"
      <3>1. pay[p].scenario # "success" /\ PublishPayment(p)
        BY <1>5, <2>4 DEF PaidBy
      <3>2. pay[p].scenario = Main[p].scenario /\ pay'[p].at = "done"
        BY <3>1, PaymentIsDone DEF ScriptPays, PaysInTurn
      <3>3. p = 7
        BY <3>1, <3>2, MainLines, SmokeClientAssumption
      <3>4. QED
        BY <3>2, <3>3
    <2>5. QED
      BY <2>1, <2>2, <2>3, <2>4, EntryBy
  <1>6. ASSUME runs'[Second].failure = "INSUFFICIENT_FUNDS" PROVE pay'[7].at = "done"
    <2>1. CASE runs[Second].failure = "INSUFFICIENT_FUNDS"
      BY <1>2, <2>1 DEF CalmInv, FailuresAreAsked
    <2>2. CASE runs[Second].failure # "INSUFFICIENT_FUNDS"
      <3>1. \A w \in Workers : ~ Fails(w, Second)
        BY <1>1, <1>6, FailedRow
      <3>2. ~ Opens(Second)
        BY <1>1, <1>6, <2>2, OpenedRow
      <3>3. PICK w \in Workers : Executes(w, Second)
        BY <1>1, <1>6, <2>2, <3>1, <3>2, RowTouched
      <3>4. Outcome[Command(w).scenario] = "INSUFFICIENT_FUNDS" /\ Active(w)
        BY <1>1, <1>6, <2>2, <3>3, ExecutedRow DEF Executes
      <3>5. Command(w).scenario # "success"
        BY <3>4 DEF Outcome
      <3>6. QED
        BY <1>2, <1>4, <3>4, <3>5
    <2>3. QED
      BY <2>1, <2>2
  <1>7. QED
    BY <1>5, <1>6 DEF FailuresAreAsked

\* A run whose payment failed waits until the script pays again.
LEMMA FailedIsAwaitedStep ==
  ASSUME Settled, CalmMove, SmokeNext \/ UNCHANGED <<vars, line>>
  PROVE  FailedIsAwaited'
  <1> SUFFICES ASSUME runs'[Second].failure = "INSUFFICIENT_FUNDS", line' <= 9
               PROVE  /\ runs'[Second].status = "awaiting_payment" /\ Quiet(Second)'
                      /\ \A p \in PayRequests : pay'[p].at = "checked" => pay'[p].run # Second
    BY DEF FailedIsAwaited
  <1> USE DEF CalmMove, Settled
  <1>0. line \in 1..11 /\ line' \in 1..11 /\ line <= line' /\ Second \in Runs
    BY ScriptMoves, SmokeClientAssumption DEF ScriptPays
  <1>1. runs[Second].failure = "INSUFFICIENT_FUNDS" =>
          /\ runs[Second].status = "awaiting_payment" /\ Quiet(Second)
          /\ \A p \in PayRequests : pay[p].at = "checked" => pay[p].run # Second
          /\ pay[7].at = "done"
    BY <1>0 DEF CalmInv, FailedIsAwaited, FailuresAreAsked
  <1>2. CASE runs[Second].failure = "INSUFFICIENT_FUNDS"
    <2>1. runs'[Second] = runs[Second]
      BY <1>0, <1>1, <1>2, QuietRow
    <2>2. \A a \in Attempts : ~ PublishRun(Second, a)
      BY <1>0, <1>1, <1>2 DEF PublishRun, CalmInv, InsertedIsFirst
    <2>3. \A p \in PayRequests : ~ (PublishPayment(p) /\ pay[p].run = Second)
      BY <1>1, <1>2 DEF PublishPayment
    <2>4. Quiet(Second)'
      BY <1>0, <1>1, <1>2, <2>2, <2>3, QuietStep
    <2>5. ASSUME NEW p \in PayRequests, pay'[p].at = "checked", pay'[p].run = Second PROVE FALSE
      <3>1. p = line /\ line \in 1..10 /\ Pay(p) /\ pay[p].at = "idle" /\ Main[p].run = Second
        BY <1>0, <1>1, <1>2, <2>5, PaymentChange
      <3>2. line' = line + 1
        BY <3>1 DEF Pay
      <3>3. p = 7
        BY <1>0, <3>1, <3>2, MainLines, SmokeClientAssumption
      <3>4. QED
        BY <1>1, <1>2, <3>1, <3>3
    <2>6. QED
      BY <1>1, <1>2, <2>1, <2>4, <2>5
  <1>3. CASE runs[Second].failure # "INSUFFICIENT_FUNDS"
    <2>1. \A w \in Workers : ~ Fails(w, Second)
      BY <1>0, FailedRow
    <2>2. ~ Opens(Second)
      BY <1>0, <1>3, OpenedRow
    <2>3. PICK w \in Workers : Executes(w, Second)
      BY <1>0, <1>3, <2>1, <2>2, RowTouched
    <2>4. /\ Await(w) \in {"setRetryable", "setRejected"} /\ Outcome[Command(w).scenario] = "INSUFFICIENT_FUNDS"
          /\ Active(w) /\ RunOf(w) = Second /\ AtAwait(w, DbAwaits) /\ UNCHANGED commands
      BY <1>0, <1>3, <2>3, ExecutedRow DEF Executes
    <2>5. Await(w) = "setRetryable"
      <3>1. Await(w) \in Ahead(w)
        BY <2>4, AwaitIsAhead DEF AtAwait, Handling
      <3>2. QED
        BY <2>4, <3>1 DEF CalmInv, RejectedForGood, PAYMENT_FAILURE_RETRYABLE
    <2>6. runs'[Second].status = "awaiting_payment" /\ Finishes(w)
      BY <1>0, <2>3, <2>5, ExecutedRow
    <2>7. Quiet(Second)'
      BY <2>4, <2>6, FinishedIsQuiet DEF CalmInv
    <2>8. ~ Quiet(Second)
      BY <2>4, QuietIsIdle
    <2>9. ASSUME NEW p \in PayRequests, pay'[p].at = "checked", pay'[p].run = Second PROVE FALSE
      <3>1. pay[p].at = "checked" => pay[p].run # Second
        BY <2>8 DEF CalmInv, CheckedIsAwaited
      <3>2. p = line /\ line \in 1..10 /\ Pay(p) /\ Main[p].run = Second
        BY <1>0, <2>9, <3>1, PaymentChange
      <3>3. QED
        BY <2>8, <3>2, PaysWhenQuiet
    <2>10. QED
      BY <2>6, <2>7, <2>9
  <1>4. QED
    BY <1>2, <1>3

\* The script goes on when it sees what it waits for.
LEMMA ScriptSees ==
  ASSUME line \in 1..11, SeenIsSo,
         line \in DOMAIN Main /\ line' = line + 1 /\ (PlaceOrder(line) \/ See(line) \/ Pay(line))
  PROVE  SeenIsSo'
  <1>1. UNCHANGED runs
    BY DEF PlaceOrder, See, Pay, FindRun, CheckPayment, vars, dataVars
  <1>2. line \in {2, 4, 6, 8, 10} => See(line) /\ WaitIsOver(line)
    BY MainLines DEF PlaceOrder, See, Pay, Doing
  <1>3. line = 2 => runs[First].status = "awaiting_payment"
    BY <1>2, MainLines DEF WaitIsOver, RunAt
  <1>4. line = 4 => runs[First].status = "completed"
    BY <1>2, MainLines DEF WaitIsOver, RunAt
  <1>5. line = 6 => runs[Second].status = "awaiting_payment"
    BY <1>2, MainLines DEF WaitIsOver, RunAt
  <1>6. line = 8 => runs[Second].failure = "INSUFFICIENT_FUNDS"
    BY <1>2, MainLines DEF WaitIsOver, RunAt
  <1>7. line = 10 => runs[Second].status = "completed"
    BY <1>2, MainLines DEF WaitIsOver, RunAt
  <1>8. QED
    BY <1>1, <1>3, <1>4, <1>5, <1>6, <1>7 DEF SeenIsSo

\* Until the script goes on, what it saw stays.
LEMMA SeenIsSoStep ==
  ASSUME Settled, CalmMove, SmokeNext \/ UNCHANGED <<vars, line>>
  PROVE  SeenIsSo'
  <1> USE DEF CalmMove, Settled
  <1>0. line \in 1..11 /\ First \in Runs /\ Second \in Runs /\ SeenIsSo
    BY SmokeClientAssumption DEF ScriptPays, CalmInv
  <1>1. ASSUME NEW r \in Runs, runs[r].status = "awaiting_payment",
               \A p \in PayRequests : p < line => Main[p].run # r
        PROVE  Quiet(r)
    <2> SUFFICES ASSUME NEW i \in 1..Len(commands), Pending(i), commands[i].run = r PROVE FALSE
      BY DEF Quiet
    <2>1. commands[i].type = "payment_requested"
      BY <1>1 DEF CalmInv, AwaitingIsQuiet
    <2>2. PICK p \in PayRequests : pay[p].at = "done" /\ pay[p].run = r
      BY <2>1 DEF ScriptPays, PaymentsAreAsked
    <2>3. QED
      BY <1>1, <2>2 DEF ScriptPays, PaysInTurn
  <1>2. line = 3 => Quiet(First) /\ runs[First].status # "none"
    BY <1>0, <1>1, MainLines, SmokeClientAssumption DEF SeenIsSo
  <1>3. line = 7 => Quiet(Second) /\ runs[Second].status # "none"
    BY <1>0, <1>1, MainLines, SmokeClientAssumption DEF SeenIsSo
  <1>4. line > 4 => Quiet(First) /\ runs[First].status # "none"
    BY <1>0 DEF SeenIsSo, CalmInv, OverIsQuiet
  <1>5. line = 9 => Quiet(Second) /\ runs[Second].status # "none"
    BY <1>0 DEF SeenIsSo, CalmInv, FailedIsAwaited
  <1>6. line > 10 => Quiet(Second) /\ runs[Second].status # "none"
    BY <1>0 DEF SeenIsSo, CalmInv, OverIsQuiet
  <1>7. CASE UNCHANGED line
    <2>1. line = 3 \/ line > 4 => runs'[First] = runs[First]
      BY <1>0, <1>2, <1>4, QuietRow
    <2>2. line \in {7, 9} \/ line > 10 => runs'[Second] = runs[Second]
      BY <1>0, <1>3, <1>5, <1>6, QuietRow
    <2>3. QED
      BY <1>0, <1>7, <2>1, <2>2 DEF SeenIsSo
  <1>8. QED
    BY <1>0, <1>7, ScriptMoves, ScriptSees
-----------------------------------------------------------------------------
\* Nothing has happened at first.
LEMMA CalmInit == SmokeInit => CalmInv
  <1> SUFFICES ASSUME SmokeInit PROVE CalmInv
    OBVIOUS
  <1>1. /\ commands = <<>> /\ runs = [r \in Runs |-> NoRun] /\ line = 1 /\ late = {}
        /\ intake = [ra \in Runs \X Attempts |-> "idle"] /\ \A p \in PayRequests : pay[p].at = "idle"
        /\ todo = [w \in Workers |-> <<"require">>] /\ loc = [w \in Workers |-> NoOrder]
    BY DEF SmokeInit, Init
  <1>2. First \in Runs /\ Second \in Runs
    BY SmokeClientAssumption
  <1>3. Len(commands) = 0 /\ 1..Len(commands) = {}
    BY <1>1
  <1>4. \A r \in Runs : runs[r].status = "none" /\ runs[r].failure = "none"
    BY <1>1 DEF NoRun
  <1>5. OnePending /\ InsertedIsFirst /\ CheckedIsAwaited
    BY <1>1, <1>3 DEF OnePending, InsertedIsFirst, CheckedIsAwaited
  <1>6. AwaitingIsQuiet /\ OverIsQuiet /\ LateIsOver /\ AwaitedIsUnpaid
    BY <1>1, <1>4 DEF AwaitingIsQuiet, OverIsQuiet, LateIsOver, AwaitedIsUnpaid
  <1>7. NamedAreOwned /\ WaitsAreMoved
    <2>1. <<"require">> \notin {<<"setAwaiting", "tell">>, <<"tell", "setRetryable">>, <<"setRetryable">>}
      OBVIOUS
    <2>2. QED
      BY <1>1, <2>1 DEF NamedAreOwned, WaitsAreMoved
  <1>8. RejectedForGood /\ RetriedFailed /\ PaidForNeverWaits
    BY <1>1, <1>3, ScriptAwaits DEF RejectedForGood, RetriedFailed, PaidForNeverWaits, Ahead
  <1>9. FailuresAreAsked /\ FailedIsAwaited /\ SeenIsSo
    BY <1>1, <1>2, <1>3, <1>4 DEF FailuresAreAsked, FailedIsAwaited, SeenIsSo
  <1>10. QED
    BY <1>5, <1>6, <1>7, <1>8, <1>9 DEF CalmInv

\* The script's own look at a run changes nothing but its line.
LEMMA CalmLook ==
  ASSUME CalmInv, line \in 1..11, SmokeNext \/ UNCHANGED <<vars, line>>, UNCHANGED vars
  PROVE  CalmInv'
  <1> USE DEF CalmInv
  <1>1. UNCHANGED <<commands, runs, late, intake, pay, todo, loc, pc, link, on, cur, hi, delivered, orderStatus, owner>>
    BY DEF vars, swVars, dataVars, handlerVars, requestVars
  <1>2. \A i : Pending(i)' <=> Pending(i)
    BY <1>1 DEF Pending, Active, SWP!Holds
  <1>3. \A i : Dropped(i)' <=> Dropped(i)
    BY <1>1 DEF Dropped, SWP!Holds
  <1>4. \A r : Quiet(r)' <=> Quiet(r)
    BY <1>1, <1>2 DEF Quiet
  <1>5. OnePending' /\ InsertedIsFirst'
    BY <1>1, <1>2, <1>4 DEF OnePending, InsertedIsFirst
  <1>6. CheckedIsAwaited' /\ OverIsQuiet'
    BY <1>1, <1>4 DEF CheckedIsAwaited, OverIsQuiet, Quiet, Pending, Active, SWP!Holds
  <1>7. AwaitingIsQuiet'
    BY <1>1, <1>2 DEF AwaitingIsQuiet, Active
  <1>8. LateIsOver'
    BY <1>1, <1>2, <1>3 DEF LateIsOver
  <1>9. NamedAreOwned' /\ AwaitedIsUnpaid' /\ WaitsAreMoved'
    BY <1>1 DEF NamedAreOwned, AwaitedIsUnpaid, WaitsAreMoved, Owned, RunOf, Command
  <1>10. RejectedForGood' /\ RetriedFailed' /\ PaidForNeverWaits'
    BY <1>1, <1>2 DEF RejectedForGood, RetriedFailed, PaidForNeverWaits, Ahead, Awaits, Command
  <1>11. FailuresAreAsked'
    BY <1>1 DEF FailuresAreAsked
  <1>12. FailedIsAwaited'
    <2>1. line <= line'
      BY ScriptMoves
    <2>2. line' \in 1..11
      BY ScriptMoves
    <2>3. QED
      BY <1>1, <1>4, <2>1, <2>2 DEF FailedIsAwaited
  <1>13. SeenIsSo'
    <2>1. CASE UNCHANGED line
      BY <1>1, <2>1 DEF SeenIsSo
    <2>2. QED
      BY <2>1, ScriptMoves, ScriptSees
  <1>14. QED
    BY <1>5, <1>6, <1>7, <1>8, <1>9, <1>10, <1>11, <1>12, <1>13

\* The invariant is inductive.
LEMMA CalmInvStep ==
  ASSUME Calm, Settled, SmokeNext \/ UNCHANGED <<vars, line>>
  PROVE  CalmInv'
  <1>1. [Next]_vars
    BY SmokeStepsSaga
  <1>2. CASE UNCHANGED vars
    BY <1>2, CalmLook DEF Settled, ScriptPays
  <1>3. CASE SagaMove
    <2>1. CalmMove
      BY <1>1, <1>3, CalmStep DEF Settled, CalmMove
    <2>2. OnePending' /\ InsertedIsFirst' /\ CheckedIsAwaited' /\ AwaitingIsQuiet' /\ OverIsQuiet' /\ LateIsOver'
      BY <2>1, OnePendingStep, InsertedIsFirstStep, CheckedIsAwaitedStep, AwaitingIsQuietStep, OverIsQuietStep,
         LateIsOverStep
    <2>3. NamedAreOwned' /\ AwaitedIsUnpaid' /\ WaitsAreMoved' /\ RejectedForGood'
      BY <2>1, NamedAreOwnedStep, AwaitedIsUnpaidStep, WaitsAreMovedStep, RejectedForGoodStep
    <2>4. FailuresAreAsked' /\ FailedIsAwaited' /\ SeenIsSo'
      BY <2>1, FailuresAreAskedStep, FailedIsAwaitedStep, SeenIsSoStep
    <2>5. RetriedFailed' /\ PaidForNeverWaits'
      BY <2>1, RetriedFailedStep, PaidForNeverWaitsStep
    <2>6. QED
      BY <2>2, <2>3, <2>4, <2>5 DEF CalmInv
  <1>4. QED
    BY <1>1, <1>2, <1>3, StepIsSagaMove DEF Settled, Sound

\* What holds of the saga whoever its customers are, and of the script under every fault.
LEMMA SmokeKnown ==
  SmokeSpec => [](Sound /\ TypeOK /\ PaidInv /\ DeliveryInv /\ ChargeInv /\ HandlersOnScript /\ HistoryShows /\ ScriptPays)
  <1>1. Spec => []Sound /\ []TypeOK
    BY AlwaysSound, SagaTypes, PTL
  <1>2. Spec => []PaidInv
    BY <1>1, PaidInit, PaidStep, PTL DEF Spec
  <1>3. Spec => []DeliveryInv
    BY <1>1, <1>2, DeliveryInit, DeliveryStep, PTL DEF Spec
  <1>4. Spec => []ChargeInv
    BY <1>1, <1>2, ChargeInit, ChargeStep, PTL DEF Spec
  <1>5. Spec => []HandlersOnScript
    <2>1. Sound /\ HandlersOnScript /\ [Next]_vars => HandlersOnScript'
      BY OnScriptStep
    <2>2. QED
      BY <1>1, <2>1, OnScriptInit, PTL DEF Spec
  <1>6. Spec => []HistoryShows
    <2>1. TypeOK /\ HistoryShows /\ [OL!Next]_(OL!lifecycleVars) => HistoryShows'
      BY HistoryStep DEF TypeOK
    <2>2. OL!Spec => OL!Init /\ [][OL!Next]_(OL!lifecycleVars)
      BY PTL DEF OL!Spec
    <2>3. QED
      BY <1>1, <2>1, <2>2, HistoryInit, SagaUsesLifecycle, PTL
  <1>7. Sound /\ ScriptPays /\ [SmokeNext]_<<vars, line>> => ScriptPays'
    BY ScriptPaysStep
  <1>8. SmokeSpec => []ScriptPays
    BY <1>1, <1>7, SmokeIsSaga, ScriptPaysInit, PTL DEF SmokeSpec
  <1>9. QED
    BY <1>1, <1>2, <1>3, <1>4, <1>5, <1>6, <1>8, SmokeIsSaga, PTL

\* So the invariant holds while no statement of a worker fails, and Redis answers no error.
LEMMA SmokeSettled == ASSUME Calm PROVE SmokeSpec => []Settled
  <1>1. Settled /\ [SmokeNext]_<<vars, line>> => CalmInv'
    BY CalmInvStep
  <1>2. Sound /\ HandlersOnScript /\ PaidInv /\ DeliveryInv /\ ChargeInv /\ ScriptPays /\ CalmInv <=> Settled
    BY DEF Settled
  <1>3. QED
    BY <1>1, <1>2, CalmInit, SmokeKnown, PTL DEF SmokeSpec

\* The run a payment is asked for names an order that was never charged, is not paid and has
\* no receipt: while workers are stopped, killed, started again and lose the connection to
\* Redis, and services fail, time out or answer late.
THEOREM AwaitingShown == ASSUME Faults \cap {"db", "reply"} = {} PROVE SmokeSpec => []AwaitingMeansUnpaid
  <1>1. Calm
    BY DEF Calm
  <1>2. Settled => AwaitingMeansUnpaid
    <2> SUFFICES ASSUME Settled, NEW r \in Runs, runs[r].status = "awaiting_payment"
                 PROVE  /\ runs[r].order # NoOrder
                        /\ orderStatus[runs[r].order] \in {"invoice_generated", "payment_failed"}
                        /\ charges[runs[r].order] = 0
                        /\ <<runs[r].order, "receipt">> \notin docs
      BY DEF AwaitingMeansUnpaid
    <2>1. orderStatus[runs[r].order] \in {"invoice_generated", "payment_failed"}
      BY DEF Settled, CalmInv, AwaitedIsUnpaid
    <2>2. PICK o \in Orders : o = runs[r].order /\ o # NoOrder
      BY CheckoutAssumption DEF Settled, DeliveryInv, MarksAreBacked, Backed, NoOrder
    <2>3. <<o, "receipt">> \notin docs
      BY <2>1, <2>2 DEF Settled, PaidInv, ReceiptMeansPaid, Paid
    <2>4. charges[o] = 0
      <3>1. owner[o] = r
        BY <2>2 DEF Settled, ChargeInv, RowsOwn, Owned
      <3>2. charges[o] \in Nat /\ Coming(o) \in {0, 1}
        <4>1. charges \in [Orders -> Nat]
          BY TypeParts DEF Settled, Sound, DataTypes
        <4>2. QED
          BY <4>1 DEF Coming
      <3>3. charges[o] + Coming(o) <= Cardinality(Charged(r))
        BY <3>1 DEF Settled, ChargeInv, ChargesWereProcessed
      <3>4. Charged(r) = {}
        <4> SUFFICES ASSUME NEW i \in Charged(r) PROVE FALSE
          OBVIOUS
        <4>1. /\ i \in 1..Len(commands) /\ commands[i].run = r
              /\ commands[i].type = "payment_process" /\ commands[i].scenario = "success"
          BY DEF Charged, Entries
        <4>2. QED
          BY <4>1 DEF Settled, CalmInv, PaidForNeverWaits
      <3>5. Cardinality(Charged(r)) = 0
        BY <3>4, FS_EmptySet
      <3>6. QED
        BY <3>2, <3>3, <3>5
    <2>5. QED
      BY <2>1, <2>2, <2>3, <2>4
  <1>3. QED
    BY <1>1, <1>2, SmokeSettled, PTL

\* A run that completed or failed stays so: its command was its last, and nobody sends
\* it another.  A statement that fails, or an event Redis refuses, after the row was written
\* would fail the run.
THEOREM FinalShown == ASSUME Faults \cap {"db", "reply"} = {} PROVE SmokeSpec => TerminalIsFinal
  <1>1. Calm
    BY DEF Calm
  <1>2. Settled /\ [SmokeNext]_<<vars, line>> =>
          [\A r \in Runs : runs[r].status \in {"completed", "failed"} => runs'[r].status = runs[r].status]_vars
    <2> SUFFICES ASSUME Settled, SmokeNext \/ UNCHANGED <<vars, line>>, ~ UNCHANGED vars,
                        NEW r \in Runs, runs[r].status \in {"completed", "failed"}
                 PROVE  runs'[r].status = runs[r].status
      OBVIOUS
    <2>1. [Next]_vars /\ Sound
      BY SmokeStepsSaga DEF Settled
    <2>2. CalmMove
      BY <1>1, <2>1, CalmStep, StepIsSagaMove DEF CalmMove, Sound
    <2>3. Quiet(r) /\ runs[r].status # "none"
      BY DEF Settled, CalmInv, OverIsQuiet
    <2>4. QED
      BY <2>1, <2>2, <2>3, QuietRow
  <1>3. QED
    BY <1>1, <1>2, SmokeSettled, PTL DEF SmokeSpec, TerminalIsFinal

\* The script gets what it expects: each payment it posts is accepted and finds an
\* invoice, a failed one left no receipt, and a run it saw completed has its receipt and
\* the whole history of its order, under the faults of AwaitingShown.
THEOREM ExpectationsShown == ASSUME Faults \cap {"db", "reply"} = {} PROVE SmokeSpec => []SmokeExpectations
  <1>1. Calm
    BY DEF Calm
  <1>2. Settled /\ HistoryShows => SmokeExpectations
    <2> SUFFICES ASSUME Settled, HistoryShows PROVE SmokeExpectations
      OBVIOUS
    <2> USE DEF Settled
    <2>1. line \in 1..11 /\ SeenIsSo /\ First \in Runs /\ Second \in Runs
      BY SmokeClientAssumption DEF ScriptPays, CalmInv
    <2>2. ASSUME NEW i \in DOMAIN Main, Doing(i, {"pay"})
          PROVE  RunAt(i).status = "awaiting_payment" /\ <<RunAt(i).order, "invoice">> \in docs
      <3>1. line = i /\ i \in {3, 7, 9} /\ Main[i].run \in Runs
        BY <2>2, MainPays, SmokeClientAssumption DEF Doing
      <3>2. runs[Main[i].run].status = "awaiting_payment"
        BY <2>1, <3>1, MainLines DEF SeenIsSo, CalmInv, FailedIsAwaited
      <3>3. QED
        BY <3>1, <3>2 DEF RunAt, DeliveryInv, MarksAreBacked, Backed
    <2>3. ASSUME Doing(9, {"pay"})
          PROVE  ~ RunAt(9).receipt /\ <<RunAt(9).order, "receipt">> \notin docs
      <3>1. line = 9 /\ RunAt(9) = runs[Second]
        BY <2>3, MainLines DEF Doing, RunAt
      <3>2. runs[Second].status = "awaiting_payment"
        BY <2>1, <3>1 DEF SeenIsSo, CalmInv, FailedIsAwaited
      <3>3. /\ orderStatus[runs[Second].order] \in {"invoice_generated", "payment_failed"}
            /\ runs[Second].order \in Orders
        BY <2>1, <3>2 DEF CalmInv, AwaitedIsUnpaid, DeliveryInv, MarksAreBacked, Backed
      <3>4. <<runs[Second].order, "receipt">> \notin docs
        BY <3>3 DEF PaidInv, ReceiptMeansPaid, Paid
      <3>5. ~ runs[Second].receipt
        BY <2>1, <3>4 DEF DeliveryInv, MarksAreBacked, Backed
      <3>6. QED
        BY <3>1, <3>4, <3>5
    <2>4. ASSUME NEW i \in {4, 10}, Passed(i)
          PROVE  /\ <<RunAt(i).order, "receipt">> \in docs
                 /\ {"created", "invoice_generated", "payment_completed",
                     "receipt_generated", "notification_sent"} \subseteq HistoryOf(RunAt(i).order)
      <3>1. RunAt(i).status = "completed" /\ Main[i].run \in Runs /\ RunAt(i) = runs[Main[i].run]
        BY <2>1, <2>4, MainLines DEF Passed, SeenIsSo, RunAt
      <3>2. PICK o : o = RunAt(i).order
        OBVIOUS
      <3>3. o \in mails /\ orderStatus[o] = "notification_sent" /\ <<o, "receipt">> \in docs
        BY <3>1, <3>2 DEF DeliveryInv, CompletedMeansDelivered
      <3>4. o \in Orders
        BY <3>3 DEF Sound, TypeOK
      <3>5. {"created", "invoice_generated", "payment_completed",
             "receipt_generated", "notification_sent"} \subseteq Seen(o)
        BY <3>3, <3>4 DEF HistoryShows, OL!Absent, Paid
      <3>6. Seen(o) = HistoryOf(o)
        <4>1. DOMAIN trail[o] = 1..Len(trail[o])
          BY <3>4 DEF HistoryShows
        <4>2. QED
          BY <4>1 DEF Seen, HistoryOf
      <3>7. QED
        BY <3>2, <3>3, <3>5, <3>6
    <2>5. QED
      BY <2>2, <2>3, <2>4 DEF SmokeExpectations
  <1>3. QED
    BY <1>1, <1>2, SmokeSettled, SmokeKnown, PTL
=============================================================================

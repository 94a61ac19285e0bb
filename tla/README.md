# RetailOps in TLA+

A verification project for the RetailOps microservices platform: TLA+ modules
translated from the Python source, TLC runs that check them on small instances,
and TLAPS proofs that hold for every value of the constants. `PROJECT.json`
lists the components, the runs, the code lines behind every definition (`map`),
a mutated definition that breaks each property (`mutants`), the hazards the
properties are for, and the disagreements found (`findings`).

## 1. Inventory

| part | state it keeps | operations that change it | how it meets the others |
|---|---|---|---|
| order-service | `orders`, `order_status_history` | `POST /orders`, `POST /orders/{id}/transitions` | called by workflow-service and by the gateway's manual routes |
| workflow-service intake | `workflow_runs` (insert), command stream (XADD) | `POST /workflows/order-checkout`, `POST /workflows/orders/{id}/payments` | called by the gateway |
| workflow-service worker | `workflow_runs` (update), `processed_stream_messages`, streams, group, pending list, dead letters | `run`, `_run_once`, `_process_message`, six command handlers, one event handler that logs | calls order, payment, document and notification services over HTTP |
| payment-service | `payments` (completed and failed) | `POST /payments`: the simulated provider, then the row | called by the worker |
| document-service | `document_metadata`, PDF files | `POST /documents/invoice`, `/receipt`: the file, then the row | called by the worker and the gateway |
| notification-service | `notifications` (sent and failed), mail | `POST /notifications`: the SMTP session, then the row | called by the worker and the gateway |
| api-gateway idempotency | `gateway_idempotency_keys` | `idempotent_json_response` round the order and payment routes | in front of the intake |
| api-gateway manual routes | none of its own | invoice, receipt and notification of an order by hand | check, create and move in three calls, racing with the worker |
| api-gateway proxy, auth boundary | none | reads, token checks | in front of everything |
| auth-service | `auth_users`, tokens in the hands of customers | register, login, `/auth/me` | the gateway checks each request's token with it |
| catalog-service | `products` (seeded) | reads only | the gateway |
| frontend dashboard | the status it shows, its polling | order, pay | polls `GET /api/workflows/...` |
| smoke check script | the line of `main()` it is at | order, pay | the gateway, as a customer who waits |
| shared runtime | logging, settings, engine, the Redis client | | everywhere; the Redis client is modelled with the worker |
| migrations, seeds, charts | schema, constraints | once, before the services | their unique constraints are guards of the models |

A checkout runs like this. The dashboard posts an order with an
`Idempotency-Key`; the gateway looks the key up and forwards the request;
workflow-service inserts a `workflow_runs` row and publishes `order.create`.
The worker takes commands off the stream one at a time. Each handler
updates the row, calls a service, moves the order along its life and publishes
the next command: create the order, make the invoice, wait for the customer's
payment, charge, make the receipt, send the mail.

What is hard about it, and what makes each part correct:

- **order-service**: concurrent transitions of one order, each of which reads
  the status under `SELECT ... FOR UPDATE`; a transaction that fails half way; a
  commit whose answer is lost; a history listed by stamps that are older than the
  lock. Correct when what is listed can be squared with the row, the history only
  goes forward, answers are true, and no request waits for ever for a lock.
- **worker loop**: an await may fail, be cancelled by a shutdown, or be the last
  thing a pod does, and may have taken effect all the same. Only new entries
  (`>`) are ever read. The `finally` block records and acknowledges
  whatever happened. Correct when no entry is handled twice, nothing is
  acknowledged unrecorded, and the outcome on record is the outcome.
- **checkout**: seven databases and streams change in turn without a common
  transaction; calls that time out may still take effect; statuses are
  set without looking at the status they replace. Correct when one key makes one
  order, nobody is charged without asking or twice, a receipt means a payment,
  "completed" means everything was delivered, and every checkout comes to rest.
- **idempotency**: nothing is held between the lookup of a key and the insert of
  its record. Correct when all accepted answers for a key agree and tell of
  something that took place, and a settled key is never run again.
- **manual routes**: a status checked in one call and used two calls later, with
  the worker in between.
- **document-, payment-, notification-service**: something outside the database is
  done first, then a row says so; any step in between may fail, the caller may be
  gone, the pod may die. Correct when no row says more than was done, and when a
  caller that was told "done" can rely on it.
- **auth-service**: a user is looked up before the insert, two unique indexes
  decide, and transactions wait for each other's entries. Correct when every answer
  is true, nobody waits for ever, and who was given an account can use it.
- **customers** (dashboard, smoke script): they act on an answer that may be older
  than what they, or the workers, just did.

`hazards` in PROJECT.json places each of these at its line, with the properties
that would catch it going wrong, or why none does yet.

## 2. Modules

| module | models | uses |
|---|---|---|
| `OrderLifecycle` | what order-service promises: an order is created once and makes atomic, allowed transitions; `trail` records them | |
| `OrderService` | the transaction as it runs: lock, check, update and insert, commit, abort | `OrderLifecycle`, as the abstract specification |
| `OrderServiceProofs` | theorems about `OrderService` | `OrderService`, TLAPS |
| `StreamWorker` | the loop round the handlers, Redis Streams, the records | |
| `StreamWorkerProofs` | theorems about `StreamWorker` | `StreamWorker`, TLAPS |
| `CheckoutSaga` | intake, handlers and services | `StreamWorker` for delivery, `OrderLifecycle` for the orders |
| `CheckoutSagaProofs` | theorems about `CheckoutSaga`: orders, payments, charges, deliveries, what is left to do | `CheckoutSaga`, `StreamWorkerProofs` (as `SWP`), TLAPS |
| `SmokeClient` | `check_async_workflow.py`, a customer who waits for what it needs | extends `CheckoutSaga`, in place of its unrestricted customers |
| `SmokeClientProofs` | theorems about `SmokeClient` | `SmokeClient`, `CheckoutSagaProofs` |
| `Dashboard` | one tab of the dashboard, a customer who clicks on what is shown | extends `CheckoutSaga`, likewise |
| `ServiceCall` | what document-, payment- and notification-service promise a caller | |
| `BackendServices` | the three services, step by step | `ServiceCall`, as the abstract specification |
| `BackendServicesProofs` | theorems about `BackendServices` | `BackendServices`, TLAPS |
| `Accounts` | auth-service and the gateway's auth boundary | |
| `AccountsProofs` | theorems about `Accounts` | `Accounts`, TLAPS |
| `LegacyRoutes` | the manual routes of the gateway | extends `CheckoutSaga`, whose steps interleave with its own |
| `LegacyRoutesProofs` | theorems about `LegacyRoutes` | `LegacyRoutes`, `CheckoutSagaProofs` |
| `GatewayIdempotency` | the key layer of the gateway over the intake | |
| `GatewayIdempotencyProofs` | theorems about `GatewayIdempotency` | `GatewayIdempotency`, TLAPS |

`CheckoutSaga` sees orders through `OrderLifecycle`, not through `OrderService`:
a transition is one step of the saga. This is sound because `OrderService` is
proved to implement `OrderLifecycle` (theorem `ImplementsLifecycle`). In the same
way it sees the calls of the three other services as single steps, which is sound
because `BackendServices` is proved to implement `ServiceCall` (theorem
`ServicesKeepPromise`).

### OrderService

`status`, `updated` and `history` are the two tables (`committed`: what other
transactions can read), `rowLock` the lock of `FOR UPDATE`, `clock` the wall clock,
`stamp` the `now` a transition takes before it has the lock, which becomes the row's
`updated_at` and the entry's `created_at`. A request is `Begin`, `Lock` (or `NotFound`), then `Refuse` (409)
or `Commit`, `CommitUnanswered` (the commit is made, the answer lost), or
`Abort` (rollback after the UPDATE, the INSERT or neither). `answers` collects
what callers were told. The clock ticks with every request: two requests that read the
same microsecond are outside the model. Stamps that differ let an answer be matched
with its history entry, and the row with its entry in the listing.

`GET /orders/{id}/history` lists by `created_at`. A transition that was stamped first
and committed last is listed first, so the listing need not end with the row's status,
and `RowAgreesWithHistory` does not say so. It says what a reader can rely on whatever
the order of the stamps: the creation is listed first, and the one entry dated with the
row's `updated_at` has the row's status.

### StreamWorker

A stream is a count of its entries, the group a last delivered entry and a
pending list. A worker's batch is an interval `cur..hi` of the stream it is `on`.
The position `pc` is the await the task is at:

- `ensure`: `ensure_group` (`$`) on each start of `run`; `read`: XREADGROUP of
  the command stream, then of the event stream;
- `handle`: the handler; `deadLetter` and `markFailed`: the two awaits of the
  `except` block; `record` and `ack`: the `finally` block;
- `loopError`: `run`'s `except`, which closes the connection and starts over;
  `dead`: `close()` raised, the task is over though its pod is not; `down`: no
  pod.

`Interrupted(w)` is what an await may have done before it failed: everything or
nothing. Redis fails in two ways. `RedisFails` is a lost connection: the call may have
been carried out, and the connection stays broken until it is closed (`connect()` keeps
it), so the awaits that follow fail too. `RedisRefuses` is an error reply (out of
memory, read-only): the call did nothing, the connection is good, and the dead letter,
`_mark_failed` and XACK that follow may succeed. `Stop` is
`task.cancel()`: inside a handler it skips `except Exception` and goes to
`finally`. `Crash` drops everything at once.

### CheckoutSaga

A handler is the list of awaits it still has to make (`todo[w]`), and each await is
a step: `DbStep`, `HttpStep`, `SendStep` or `TellStep`. The scripts
(`OrderCreateScript` ... `UnsentScript`) are the bodies of the handlers, in order.
`UpstreamFails` is a time-out or an error answer: the handler raises, and the
call may go on in the service (`late`) and take effect at any later moment, or
never (`LateCall`). `HandlerRefuses` is a handler that raises by itself, because
the run has no order or order-service answers 409. The actions of the loop
(`MarkFailed`, `RedisFails`, `RedisRefuses`, `DbFails`, `Stop`, `Crash`, `Deliver`...) conjoin
StreamWorker's action with what it means for the run, the services and the stream
(`Cut`). `FindRun`, `CreateRun`, `PublishRun`, `IntakeDies`, `CheckPayment` and
`PublishPayment` are the intake, await by await.

`Steps` is what the system does with what it was asked. `AskForCheckout` and
`AskForPayment` are customers who ask whenever the intake answers them; the modules
`SmokeClient` and `Dashboard` put a particular customer in their place.

### SmokeClient

`Main` is `main()` of the script, `line` the step that comes next: `PlaceOrder`,
`See` (the GET that ends a `wait_for`) and `Pay`. Between a `See` and the `Pay` that
relies on it the system goes on. A wait that times out, and a request answered
otherwise than expected, end the script (`WaitIsOver` is the predicate of each wait:
only those of the first checkout look at the documents and the notification); the specification has no fairness, so a
script that stops anywhere is among its behaviours.

### Dashboard

`shown` is the status on the screen, `poll` the polling loop of `App.tsx`, `click`
the pay button with what became of its request. A GET is two steps: `PollReads` or
`PayReads`, when workflow-service reads the row, and `PollShows` or `PayShows`,
when the tab gets the answer. The button is enabled by what is shown (`canPay`).

### BackendServices and ServiceCall

A call of a service is `Arrive`; then `StartFile` and `FinishFile` (document-service),
`process_payment` or `send`; then `Store` and the answer. `FileFails`, `StoreFails`
(whose commit may have been made), `GiveUp` (the caller times out) and `Dies` are the
ways it may go wrong. A caller's view is `ServiceCall`: "done" means done, "error"
means done, done later or never, and "refused" means not done, save for a mail,
which the SMTP server may have taken although the session failed after it. These are
the steps `HttpStep`, `UpstreamFails` and `LateCall` of `CheckoutSaga` take with the
data of a call: `Complete` and `Refuse` are `HttpStep` (a payment that is declined, a
mail that is reported unsent), `Fail` is `UpstreamFails`, `Late` is `LateCall`.

### Accounts

A registration is its two lookups, then the INSERT as PostgreSQL does it: an entry in
the unique index of the names (`ClaimName`), one in that of the emails (`ClaimEmail`),
each waiting for a transaction that holds the value uncommitted and failing on a
committed one; then `Commit`, `CommitUnanswered` or `Abort`. A session is `LogIn`
(the request), `login` (lookup and `verify_password`), and, for each request of a
logged-in customer, `decode_access_token` and `me` behind the gateway's
`protected_user`. `known` notes at `LogIn` whether that account was promised already.

### GatewayIdempotency

A request is `Arrive`, `Find` (answer from the record, 409, or go on), `Handle` or
`HandlerFails` (an upstream error, a time-out with the call still running,
a dead pod), `Store` or `StoreFails`. `LateUpstream` is the call that outlives a
504. Behind the handlers workflow-service is what it is in `CheckoutSaga`: one run
per order key (`CreateRun`, then its command with the answer, or `Abandoned` in
between), one command per accepted payment request. `AnswersAreReal` says of an order
that the row of its run is there. That its command was published cannot be said: a
workflow-service that dies between the two leaves a run nobody works for, and a retry of
the key is told 202 for it.

### LegacyRoutes

The module extends `CheckoutSaga`: every step of the saga is a step here, and so is
every call of a manual route. `LoadOrder` reads the order and checks its status;
the calls it then has left are `manual[m].todo`: `MakeOrSend` or `SendNotice`, then
`MoveOrder`, which answers 409 when the worker or another person moved the order
first. `RouteFails` is a call that fails or outlives its caller (`late`, as in the
saga). The worker in turn may find its order moved: `HandlerRefuses`, and the run
is marked failed.

### What is abstracted

- Texts, money, addresses, names and layouts: no property is about them. Values
  that are told apart are model values or strings (statuses, failure codes).
- The event stream: its only handler logs, so it decides nothing. `CheckoutSaga`
  keeps the publishing of events as an await (`tell`) that can fail and stores no
  entry; StreamWorker reads it as stream 2.
- Two XADDs in a row are one await, and so are two calls of which the first only
  reads. Neither lets another actor see anything in between.
- `PROVIDER_UNAVAILABLE` behaves as `INSUFFICIENT_FUNDS` (both retryable) and has
  no scenario of its own.
- An error reply stands for every failure of a Redis call that leaves the connection
  usable, a refused new connection included. Where a handler makes two XADDs the command
  is the second, so a call that is refused leaves no command behind.
- Every pod has the one `WORKFLOW_WORKER_CONSUMER_NAME` of the deployment, so the
  `consumer_name` in the unique key of `processed_stream_messages` is left out.
- A manual route is run by its idempotency layer or not; here it runs, and a 409
  before its first call is no step. Orders of other users are left out.
- In `CheckoutSaga` and `LegacyRoutes` a call of the payment, document or
  notification service is one step; `BackendServices` has its steps.
- A password is what it was hashed from, a token its owner and whether it has
  expired; a forged token is cryptography's concern.
- A customer of `Dashboard` and `SmokeClient` talks to workflow-service; the
  gateway's idempotency layer in between is `GatewayIdempotency` (every click and
  every line has a key of its own).

## 3. Runs

| run | configuration | shows |
|---|---|---|
| `order_service` | 1 order, 2 requests at a time, 5 clock ticks | `RowAgreesWithHistory`, `ForwardOnly`, `AnswersAreTrue`; it implements `OrderLifecycle`; `EveryRequestAnswered` |
| `stream_worker` | 2 workers, 2 streams of 2 entries, COUNT 2, every fault: lost connections and error replies of Redis, database, shutdowns, crashes | at most once: `NoEntryHandledTwice`, `BatchesAreExclusive`; `AckedIsRecorded`, `DeadLetterIsFailure`; what is dropped is never taken up again (`AbandonedForGood`) |
| `saga` | 2 POSTs of one checkout, 1 payment, every fault: calls that fail or come late, lost connections and error replies of Redis, database, shutdowns, crashes | `OneOrderPerRun`, `ChargesWereAsked`, `CompletedMeansDelivered`, `ReceiptMeansPaid`, `WorkerErrorIsDeadLettered` |
| `smoke` | the script's 2 checkouts and 3 payments, 2 workers, shutdowns, crashes, calls that fail or come late | for a customer who waits: `ChargedAtMostOnce`, `AwaitingMeansUnpaid`, `TerminalIsFinal`, and what the script demands (`SmokeExpectations`) |
| `saga_rests` | 2 POSTs, 2 payments at any time, other services fail | `BusyRunHasWork`, `EveryCheckoutRests`, `EveryPaymentRests`, `EveryCommandSettles` |
| `legacy_routes` | 2 manual requests next to a checkout with 2 payments, calls that fail or come late | `StatusIsBacked`, `NoticesAreTrue`, `ReceiptMeansPaid` |
| `gateway` | 3 requests, an order key and a payment key, 2 bodies | `AcceptedAgree`, `AnswersAreReal`, `SettledForGood` |
| `accounts` | 3 registrations over 2 names and 2 emails, a session | `AuthAnswersTrue`, `RegisteredCanLogIn`, `EveryRegistrationAnswered` |
| `backends` | a document, a payment, a notification | `RowsAreBacked`; it implements `ServiceCall` (`Promise`) |
| `dashboard` | one tab, no faults | violated: `ChargedAtMostOnce`, by a second click after an answer from before the first |
| `saga_stop` | one graceful shutdown | violated: the command it cuts short is recorded as processed, and the checkout never moves again |
| `gateway_payload` | 2 requests | violated: a key whose first answer was lost is accepted with another body, for the first body's order |

Every run but the three violations passes; each of its properties has a mutant, a
plausible bug in one mapped definition, under which TLC finds that property
violated.

### Bounds, and why they are enough

- **OrderService.** Two transactions are enough to race for one row: every
  conflict is between the one that holds the lock and one that waits. Orders do
  not share anything, so one will do; an unknown id is asked for too. Five ticks
  are as many requests, which reaches `payment_failed` twice and `payment_completed`.
- **StreamWorker.** Two workers are a rolling update. Two entries a stream with
  COUNT 2 (10 in the code) give a batch of two, batches of one, an entry that
  arrives while a batch is under way, and the way from one stream to the next;
  the runs of CheckoutSaga have longer streams.
- **CheckoutSaga.** One checkout: two share only the stream, where they delay each
  other, and `smoke` has two. Two order ids are one more than a correct run makes.
  MaxLen 6 is a full checkout (6 commands: create, invoice, requested, process,
  receipt, notify); 8 also lets a second payment be requested and processed. One late
  call at a time (MaxLate 1) is enough for a call to land behind any later step; two
  late calls of one run would need two handlers of it to time out, and a handler that
  times out ends the run. MaxAbandoned 2 stops faults when two entries are pending in
  nobody's hands: each ends what its run can still do, and there are two commands of
  a run at most at a time (a checkout's and a payment's); runs in which no fault
  leaves an entry behind have 8, more than there are entries.
- **SmokeClient.** The script as it is, with its two checkouts one after another; the
  second has the failing payment and the one that follows. Three order ids, two
  workers, one late call, shutdowns, and crashes until one entry is left behind.
- **Dashboard.** One checkout and two clicks are what it takes.
- **BackendServices.** Calls share nothing (every id is a uuid4), so one of each kind
  has every behaviour.
- **Accounts.** Three registrations: one that holds the name another waits for, which
  holds the email of a third. Sessions do not change what registrations see.
- **GatewayIdempotency.** Three requests are the first, the one that races it and
  the one that comes after; two bodies are the same one and another.

CHECK_DEADLOCK is FALSE in every run since requests, entries and the clock are
bounded: the system stops when they are used up.

### Fairness, and why the code justifies it

- **OrderService.** A request that holds the row, or found none, goes on (weak
  fairness on `NotFound`, `Refuse` and `Commit`). A request that waits gets the
  row when it keeps coming free (strong fairness on `Lock`): PostgreSQL
  queues the waiters of a row.
- **CheckoutSaga.** A pod is started (Kubernetes or compose restarts it) and its
  task, being scheduled by asyncio, takes a step when it can: weak fairness on
  `StartWorker` and `Work`. Nothing is fair about faults, late calls or customers. A
  call need not succeed: `UpstreamFails` may be the step the task takes instead, as
  the `httpx` time-out ends every call.
- Requests that made a row go on to publish (weak fairness on `CreateRun` and
  `PublishRun`); runs with crashes do not check liveness, save `saga_stop`, where
  the shutdown is the point.
- **Accounts.** A request under way is scheduled, and PostgreSQL wakes a transaction
  when the value it waits for is free (weak fairness on `Work`). That nobody waits
  for ever rests on the order of the indexes, names before emails: a transaction
  that holds an email waits for nothing.

## 4. Findings

1. **A double charge** (`dashboard`). The check for `awaiting_payment` and the
   command are two steps that change nothing in between, and the handler charges
   without asking whether the order is paid. The dashboard gets there by itself: after
   a 202 it reads the run once more, may be shown `awaiting_payment` from before the
   worker took the command, and frees the button; `main.py` answers "Workflow is not
   awaiting payment" only once the worker has taken the first. By the same gap, as no
   `update_workflow` looks at the status it replaces, a payment still in the stream
   takes a run out of `failed` or `completed`.
2. **A graceful shutdown loses the command in hand** (`saga_stop`).
   `CancelledError` is no `Exception`: the `finally` block records "processed" and
   acknowledges.
3. **The same key, another body, 202** (`gateway_payload`). A record is stored only
   after the handler's answer; when that is lost, a retry with another body finds
   no record, and workflow-service finds the run by its key alone.

Seen while modelling: a history is listed by a `created_at`
taken before the lock, so two transitions may be listed in the wrong order, and the
list may end with another status than the row's
(`services/order-service/.../repository.py:205`); an error reply of Redis to an event
after `setCompleted` makes the worker mark a completed run failed (`worker.py:525`); overlapping workers may leave
`payment_failed` beside a receipt when payments overlap (`worker.py:437`);
commands published before the first group exists are never read
(`redis_streams.py:100`); a request that dies between the row and its command leaves
a run its retry finds and never starts (`main.py:139`); a person who is faster than
the worker with an invoice makes the worker fail the run
(`routes/documents.py:64`, `worker.py:291`); two racing requests with one payment key publish two
commands (`idempotency.py:197`); a PDF whose row was never stored is never removed
(`document-service/.../main.py:88`); a mail may be out although its notification says
failed (`provider.py:111`); one failed GET ends the dashboard's polling
(`App.tsx:190`).

## 5. Assumptions of the runs

- **The customer** (`smoke` only): asks for a payment when its last GET showed
  `awaiting_payment`, and again only after a GET showed how the last one failed. The code
  does not enforce it (finding 1), but the repository's script behaves so. For such a
  customer `ChargedAtMostOnce`, `AwaitingMeansUnpaid` and `TerminalIsFinal` hold, with any number of
  workers, shutdowns, crashes, lost connections and late calls, the last two while no
  statement fails and Redis answers no error (section 6): the code's own ordering of
  statements, `setPaid` after `movePaid` and so on, is what makes them hold, and the mutants
  break them.
- **EarlyIntake**: whether requests may come before the consumer group was first
  made. The group starts at `$`, so such commands are skipped. The safety runs
  allow it; the runs with liveness do not, since a skipped command rests the
  checkout nowhere.
- `UpstreamFaults`, `Faults`, `MaxLate`, `MaxAbandoned`: which failures a run has, and
  how many. `saga` has all of them at once.

## 6. Proofs

The proof modules are checked by tlapm to the last leaf, for every set of orders,
requests, keys, payloads and workers, every number of streams and entries and every
batch size, from the named assumptions of the modules (`OrderServiceAssumption`,
`GatewayIdempotencyAssumption`: the values that stand for "none" are not among the
others; `StreamWorkerAssumption`: there is a stream, and a read asks for an entry;
`BackendServicesAssumption`: a call goes to one service; `AccountsAssumption`: there
are registrations, names and emails; `CheckoutAssumption`: there are runs, order ids
are positive, the scenarios and faults are the ones modelled, a read asks for an
entry; `SmokeClientAssumption`: the script has its two checkouts, and the scenarios it
pays with exist).

**OrderServiceProofs.** The invariant is
`ServiceInv == TypeOK /\ HeldRowIsFresh /\ TargetsExist /\ RowIsLastEntry /\ ForwardOnly`.
Neither `ForwardOnly` nor the refinement is inductive alone: a commit is allowed
by the status the request has *seen*, so it takes `HeldRowIsFresh`, that a request
which holds the lock sees the row's status as it is, and `TargetsExist`, that the
row is there. From it:

- `TypeCorrect`, `HistoryOnlyGoesForward`: invariants of the run;
- `AnswersAlwaysTrue`: `AnswersAreTrue`, from an invariant of its own (`AnswersInv`). Stamps
  of requests under way differ (`StampsDiffer`), what is on record is of the past
  (`RecordsArePast`) and not of a request under way (`RunningIsUnrecorded`), so an entry
  with a request's stamp is that request's own;
- `RowAlwaysAgreesWithHistory`: `RowAgreesWithHistory`, about the history as it is listed.
  The row shows what was committed last (`RowIsLastEntry`), which is not what is listed last;
  that entries of an order have different stamps (`EntriesDiffer`) makes the row's
  `updated_at` name one entry, and that whoever asks for a transition begins after the
  order was created (`CreatedFirst`) puts the creation first;
- `ImplementsLifecycle`: `Spec => Lifecycle`. `Commit` and `CommitUnanswered`
  map to `Transition`, creation to `CreateOrder`, every other step to a stutter.

**GatewayIdempotencyProofs.** The invariant is
`GatewayInv == TypeOK /\ VerdictAtEnd /\ AcceptedIsStored /\ StoringIsReal /\ TableIsReal /\ ConflictIsStored`:
a verdict is given once; what was accepted is the record, as it stands; what is
about to be stored, and what is stored, took place; a 409 has a record. From it:

- `GatewayTypeCorrect`, `AcceptedAlwaysAgree`, `AnswersAlwaysReal`;
- `SettledStaysSettled`, the action property: no step of any request changes a
  settled key's record, or publishes for it.

**StreamWorkerProofs.** The invariant is `StreamInv`: the types, `AckedIsRecorded` and
`DeadLetterIsFailure`, and five facts about batches that those rest on.

- `Delivered`: the group's last delivered entry is not past its stream, and only
  delivered entries are pending, on record or dead. Without it a batch just read
  could contain an entry somebody has already.
- `HoldsWhileBusy`: a worker has entries exactly while it is at an await of
  `_process_message`.
- `HeldIsPending`: what it holds is pending and held by no other worker. This is
  `BatchesAreExclusive`, entry by entry.
- `HeldIsUnrecorded`: what it holds has no outcome, but for the entry it is about to
  acknowledge. It makes `NoEntryHandledTwice` inductive, and shows that
  `ON CONFLICT DO NOTHING` never withholds an acknowledgement.
- `HeldIsAlive`: a dead letter it holds is one whose failure it is about to record.

The steps, interrupted ones included, are first sorted into seven moves by what
becomes of the worker's batch (`ActIsMove` for one worker, `StepIsMove` for all: an entry is appended, the batch is given
up, goes on inside the try and except blocks, is buried, recorded, acknowledged and
advanced, or taken); each part of the invariant is then shown for the moves. From it:

- `StreamTypes`, `BatchesExclude`, `AckFollowsRecord`, `HandledOnce`,
  `DeadLettersFailed`: the invariants of the run `stream_worker`;
- `AbandonedStay`, its action property.

**BackendServicesProofs.** The invariant is `ServiceInv == TypeOK /\ Stages /\ RowsAreBacked`.
`Stages` says how far a call has come by where its handler is: before the insert
there is no row, at the insert a document is whole and a notification's result is
what the SMTP session did, and a call that is over was answered. Without it a row
could be stored for a file that is not there yet. From it:

- `BackendTypes`, `RowsAlwaysBacked`: the invariants of the run;
- `ServicesKeepPromise`: `Spec => Promise`. What a caller notes of an effect is nothing
  while it waits (`Seen`), so an answer maps to `Complete`, `Refuse` or `Fail`, an effect
  after a time-out to `Late`, every other step to a stutter.

**AccountsProofs.** The invariant is
`AccountsInv == TypeOK /\ Origins /\ Claims /\ RepliesTrue /\ SessionsOwned`: every row is some
registration's; what a transaction claims nobody else claims or has; the part of
`AuthAnswersTrue` about registrations; and whose session a token is. `Claims` is what the
lookups before the INSERT cannot give, since anybody may register in between. From it `AccountTypes`, `AuthAlwaysTrue` and
`RegisteredAlwaysIn`, the invariants of the run.

**CheckoutSagaProofs.** Every step of the saga is a step of `StreamWorker` or leaves
its variables alone (`SagaUsesStream`: `Spec => SW!Spec`), so `StreamInv` holds of the
saga. The steps are again sorted (`SagaMove`): a worker is inside a handler (`Handles`)
or elsewhere in the loop (`Leaves`), a late call takes effect, or a customer asks. Three
invariants are then shown, each resting on the one before.

- `Sound == StreamInv /\ TypeOK /\ AtRest /\ HandlersKnow /\ LateKnow`: outside of a
  handler nothing is begun, and a call that names an order, made or left behind, has
  read one. Without `HandlersKnow` even the types would not last: a row could be looked
  up for no order. From it `SagaTypes` and, with `MarkedIsDead`, `WorkerErrorShown`.
- `OneOrder`: one request inserts the row, so a run has one `order.create`
  (`OneInserter`, `OneCommandPerRun`); its handler makes the order once
  (`CreatesInOrder`), and once an order exists, or a call that may yet make one was left
  behind, the command is *spent* (`OrdersAreSpent`): it was delivered, and whoever holds
  it is past `POST /orders`. That the worker never reads an entry twice is what keeps a
  spent command spent, and comes from `StreamInv`. From it `OneOrderShown`.
- `PaidInv`: the row names its order once (`NamesAreSpent`), so an order a handler has
  read is still the run's when it goes on; a paid order was charged (`PaidIsCharged`);
  and a handler past its payment, a late call and a `document.generate_receipt` command all know
  it (`HandlersKnowPaid`, `LateKnowPaid`, `ReceiptCommandsKnowPaid`). From it
  `ReceiptShown`.

*Deliveries.* On top of `PaidInv`, the invariant is
`DeliveryInv == HandlersKnowDone /\ CommandsFollow /\ PaymentsFollow /\ MarksAreBacked /\ CompletedMeansDelivered`.
A run's row marks what was done for it, and nothing unsets a mark (`RowStep`). Each mark
has its document, charge or mail behind it (`MarksAreBacked`); a command is sent only
about a run that has the marks of the commands before it (`CommandsFollow`), and a
payment is accepted only for a run that has its invoice (`PaymentsFollow`); a handler
that is about to write a mark has made what it marks at an earlier await
(`HandlersKnowDone`). The last handler writes `completed`, so it is there that all of
them meet: `CompletedShown`. That mails and documents are never taken back, and that an
order's life ends at `notification_sent`, is `DeliveriesStep`.

*Charges.* The theorem is a count, and `ChargeInv` its links. A run has no
more `payment.process` commands than successful payments were accepted for it whose
handler is past sending one (`ProcessesWereAsked`); an order has no more charges, made or
still to come from a call left behind, than its run has `payment.process` commands whose
handler is past `POST /payments` (`ChargesWereProcessed`). Each link is kept because the
step that adds to the left side spends a command on the right side in the same step,
one that was not spent before (`SenderIsSpent`, `ChargerIsSpent`); so neither a shutdown
nor a crash at that very await makes room for a second one. That a charge counts for the
right run is `RowsOwn`, `HandlersOwn` and `LateOwn`: the order a row names, a handler has
read or a late call charges was made for that run. From it `ChargesShown`.

*Scripts and histories.* What is left of a handler is a tail of the script of its
command (`HandlersOnScript`, from `Parts`), so an await tells which command is being
handled and what it has done. The orders of the saga are a behaviour of `OrderLifecycle`
(`SagaUsesLifecycle`: `Spec => OL!Spec`), the way its stream is one of `StreamWorker`;
with `HistoryShows` an order's history holds every status it went through.

*What is left to do.* `BusyShown` is `BusyRunHasWork`, under the hypotheses the run
`saga_rests` has: `Faults = {}` and no request before the first group. They are needed:
a shutdown or a crash loses the command in hand (finding 2), a request that dies leaves
a row nobody works for, and `$` skips what was sent before. `BusyRunHasWork` is not
inductive, since a batch still holds a command whose handler has returned. `BusyIsPending` counts a
command only while something is left of its handler (`Pending`, `Active`); a handler then ends by
sending the next command or by a statement after which the run rests (`EndsWork`), and
`Undisturbed` and `GroupFirst` say that no batch is dropped and no entry skipped.

**SmokeClientProofs.** Every step of the script is one `CheckoutSaga` allows
(`SmokeIsSaga`: `SmokeSpec => Spec`), so all of the above holds for it. Two invariants
are added.

- `ScriptPays`: each payment is the one of its line (`PaysInTurn`), every
  `payment.requested` was asked for on a line (`PaymentsAreAsked`), and no two are about
  the same payment (`PaymentsDiffer`). With `ChargesShown` this gives
  `ChargedOnceShown`, `ChargedAtMostOnce`, under every fault.
- `CalmInv`, while no statement of a worker fails and Redis answers no error
  (`Faults \cap {"db", "reply"} = {}`: workers may be stopped, die and lose the connection
  to Redis, and calls may fail, time out and come late as they like; the run has "stop" and
  "crash"). A worker whose connection broke cannot send the dead letter
  that comes before its run is marked, so it is done with its command (`Active`). The
  heart of `CalmInv` is `OnePending`: a run has one command at most that is not done
  with, so whoever is at it acts alone. A run at rest has none (`AwaitingIsQuiet`, `OverIsQuiet`), but for a payment
  that begins (`CheckedIsAwaited`); a run whose handler left a call behind is not gone
  on with (`LateIsOver`), so the call disturbs nobody. The rest says what rows,
  histories and the script know of each other (`NamedAreOwned`, `AwaitedIsUnpaid`,
  `WaitsAreMoved`, `RejectedForGood`, `FailuresAreAsked`, `FailedIsAwaited`, `SeenIsSo`,
  `InsertedIsFirst`). That a run that waits was never charged rests on two more
  parts. An order is charged only by a `payment.process` command that was told to succeed;
  a handler that is about to let the run wait again has one that was told to fail
  (`RetriedFailed`); and a run for which a successful one was sent does not wait, and has
  nothing left to do but that payment and what comes after it (`PaidForNeverWaits`): a
  time-out marks it failed, whether the call charges later or not. From `CalmInv`:
  `AwaitingShown` (with `charges[order] = 0`), `FinalShown` and `ExpectationsShown`.

The hypothesis is needed, both halves of it. With "db" the commit of `setCompleted` may be
made although the statement raises; the worker then marks the completed run failed, and TLC
finds `TerminalIsFinal` violated (`SmokeClient.cfg` with `Faults = {"db"}`). With "reply" the
event after `setCompleted` or `setAwaiting` is refused, the dead letter is written and the run
is marked failed: TLC finds `TerminalIsFinal` and `SmokeExpectations` violated.
`ChargedOnceShown` needs neither.

**LegacyRoutesProofs.** The invariant is
`LegacyInv == SagaInv /\ StatusIsBacked /\ LateKnowMoves /\ RoutesKnow /\ NoticesKnown`,
where `SagaInv` is what was shown of the workflow alone. A step of the workflow keeps
`SagaInv` by the lemmas above. A route adds documents, mails and moves and takes none
back (`DataKept`), so what a handler has learned stays true while people act; and what a
route has learned (`RoutesKnow`: it moves an order after it made what the move stands
for) stays true while the worker acts. From it, under every fault: `StatusBackedShown`,
`NoticesShown`, and that the workflow's own promises survive the manual routes,
`LegacyReceiptShown`, `LegacyCompletedShown` and `LegacyUsesLifecycle`.

Every invariant and every safety property of the passing runs is stated by a theorem. Out
of reach of the prover, and only model-checked, is liveness (`EveryRequestAnswered`,
`EveryCommandSettles`, `EveryCheckoutRests`, `EveryPaymentRests`,
`EveryRegistrationAnswered`).

## 7. Plan

Done, in this order: `OrderLifecycle`, `OrderService`, `StreamWorker`, `CheckoutSaga`,
`GatewayIdempotency`, `LegacyRoutes`, `ServiceCall` and `BackendServices`, `Accounts`,
`SmokeClient` and `Dashboard`, and the proofs about `OrderService`, `GatewayIdempotency`,
`StreamWorker`, `BackendServices`, `Accounts`, `CheckoutSaga`, `SmokeClient` and
`LegacyRoutes`.

Left, the model: money (quantity times price against 32-bit columns, kopecks to
text).

Left, the proofs: that the dashboard, too, is a customer `CheckoutSaga` allows for, and
that the gateway's key layer stands on the intake as `CheckoutSaga` has it.

### Not modelled

catalog-service, the proxy routes and the other reads return rows as they are.
Migrations and seeds run once before the services; logging, configuration, health and
metrics decide nothing the properties speak of. The layout of documents, mails and
pages is data no property tells apart.

## 8. Running it

    tlc -config OrderService.cfg OrderService.tla
    tlapm OrderServiceProofs.tla

and so on for the other configurations, each named after its module. The longest are
`Accounts.cfg`, `CheckoutSaga.cfg` and `SmokeClient.cfg`, about two minutes each with two
workers; the others take seconds, or half a minute. The proofs of `CheckoutSagaProofs`
and `SmokeClientProofs` take five to ten minutes each, the others less than two.

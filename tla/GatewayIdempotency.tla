-------------------------- MODULE GatewayIdempotency --------------------------
(***************************************************************************)
(* The Idempotency-Key layer of api-gateway under POST /api/orders and      *)
(* POST /api/orders/{id}/payments: idempotent_json_response looks the key   *)
(* up, runs the handler when it is new, stores what the handler returned    *)
(* and answers.  Requests run concurrently, in any number of pods, and      *)
(* nothing is held between the lookup and the insert.                       *)
(*                                                                          *)
(* A key stands for (user, key, method, path), the unique constraint of     *)
(* gateway_idempotency_keys; a payload for its hash.  Behind the handlers   *)
(* workflow-service knows the key of an order (one run per key, made from   *)
(* the first payload it is given) but not that of a payment, which it       *)
(* publishes each time it is asked while the run awaits a payment.  The row *)
(* of a run and its order.create command are two steps.                     *)
(***************************************************************************)
EXTENDS Integers, FiniteSets

CONSTANTS
  Requests,      \* POST requests, each sent once
  OrderKeys,     \* keys used with POST /api/orders
  PaymentKeys,   \* keys used with POST /api/orders/{id}/payments
  Payloads,      \* request bodies
  None           \* no payload, no run, no record

Keys == OrderKeys \cup PaymentKeys

VARIABLES
  table,         \* gateway_idempotency_keys, by key
  runs,          \* workflow_runs, by key: the payload the run was made from
  published,     \* the requests whose order.create or payment.requested was published
  creating,      \* the requests whose call inserted a run and has its command to publish
  pc,            \* each request: idle | find | handle | store | done
  key, payload,  \* its Idempotency-Key and body
  reply,         \* response_body, as the handler returned it or as it was stored
  verdict,       \* what the caller was told: none | accepted | conflict | error
  late           \* requests answered 504 whose upstream call still runs

vars == <<table, runs, published, creating, pc, key, payload, reply, verdict, late>>

\* WorkflowAcceptedResponse: the run and its status when it was looked at.
Replies == [run : Payloads \cup {None}, status : {"accepted", "under_way", "awaiting_payment"}]

NoReply == [run |-> None, status |-> "accepted"]

Records == [payload : Payloads, reply : Replies]

ASSUME GatewayIdempotencyAssumption ==
  /\ OrderKeys \cap PaymentKeys = {}
  /\ None \notin Payloads
  /\ None \notin Records

Init ==
  /\ table = [k \in Keys |-> None]
  /\ runs = [k \in OrderKeys |-> None]
  /\ published = {}
  /\ creating = {}
  /\ pc = [q \in Requests |-> "idle"]
  /\ key \in [Requests -> Keys]
  /\ payload \in [Requests -> Payloads]
  /\ reply = [q \in Requests |-> NoReply]
  /\ verdict = [q \in Requests |-> "none"]
  /\ late = {}
-----------------------------------------------------------------------------
Goto(q, label) == pc' = [pc EXCEPT ![q] = label]

\* The request is over; this is what its caller learns.
Answer(q, says) ==
  /\ Goto(q, "done")
  /\ verdict' = [verdict EXCEPT ![q] = says]

\* The request arrives with its key.
Arrive(q) ==
  /\ pc[q] = "idle"
  /\ Goto(q, "find")
  /\ UNCHANGED <<table, runs, published, creating, key, payload, reply, verdict, late>>

\* Mutant: a record of another payload is no record.
FindMatching(q) ==
  /\ pc[q] = "find"
  /\ IF table[key[q]] # None /\ table[key[q]].payload = payload[q]
     THEN Answer(q, "accepted") /\ reply' = [reply EXCEPT ![q] = table[key[q]].reply]
     ELSE Goto(q, "handle") /\ UNCHANGED <<verdict, reply>>
  /\ UNCHANGED <<table, runs, published, creating, key, payload, late>>

\* find_record: no row, a row of another payload (409), or a row to replay.
Find(q) ==
  /\ pc[q] = "find"
  /\ LET record == table[key[q]] IN
     \/ record = None /\ Goto(q, "handle") /\ UNCHANGED <<verdict, reply>>
     \/ /\ record # None
        /\ record.payload # payload[q]
        /\ Answer(q, "conflict")
        /\ UNCHANGED reply
     \/ /\ record # None
        /\ record.payload = payload[q]
        /\ Answer(q, "accepted")
        /\ reply' = [reply EXCEPT ![q] = record.reply]
  /\ UNCHANGED <<table, runs, published, creating, key, payload, late>>

\* workflow-service has found no run of the key, and inserts one.
CreateRun(q) ==
  /\ pc[q] = "handle" \/ q \in late
  /\ key[q] \in OrderKeys
  /\ runs[key[q]] = None
  /\ runs' = [runs EXCEPT ![key[q]] = payload[q]]
  /\ creating' = creating \cup {q}
  /\ UNCHANGED <<table, published, pc, key, payload, reply, verdict, late>>

\* What workflow-service does with the handler's POST, and what it answers.
\* Order: the command of the run it inserted, or the run it found.
StartsOrder(q, r) ==
  /\ key[q] \in OrderKeys
  /\ runs[key[q]] # None
  /\ r.run = runs[key[q]]
  /\ IF q \in creating
     THEN published' = published \cup {q} /\ r.status = "accepted"
     ELSE UNCHANGED published

\* Payment: the run awaits one, so the command is published.
RequestsPayment(q, r) ==
  /\ key[q] \in PaymentKeys
  /\ published' = published \cup {q}
  /\ r = [run |-> None, status |-> "awaiting_payment"]

Upstream(q, r) ==
  /\ StartsOrder(q, r) \/ RequestsPayment(q, r)
  /\ creating' = creating \ {q}

\* Mutant: the upstream's whole response in place of its body.
HandleWhole(q) ==
  /\ pc[q] = "handle"
  /\ \E r \in Replies : Upstream(q, r) /\ reply' = [reply EXCEPT ![q] = [status_code |-> 202, body |-> r]]
  /\ Goto(q, "store")
  /\ UNCHANGED <<table, runs, key, payload, verdict, late>>

\* await handler() returns (202, body).
Handle(q) ==
  /\ pc[q] = "handle"
  /\ \E r \in Replies : Upstream(q, r) /\ reply' = [reply EXCEPT ![q] = r]
  /\ Goto(q, "store")
  /\ UNCHANGED <<table, runs, key, payload, verdict, late>>

\* Mutant: the upstream's status code is not looked at.
HandlerFailsUnnoticed(q) ==
  /\ pc[q] = "handle"
  /\ Goto(q, "store")
  /\ UNCHANGED <<table, runs, published, creating, key, payload, reply, verdict, late>>

\* The upstream call refuses, fails or dies: a run it inserted keeps no command.
Abandoned(q) == creating' = creating \ {q} /\ UNCHANGED published

\* The handler raises GatewayError: 404 or 409 from the upstream, an error, a
\* timeout, or the pod dies.  The upstream did its part, or did not, or still will.
HandlerFails(q) ==
  /\ pc[q] = "handle"
  /\ \/ Abandoned(q) /\ UNCHANGED late
     \/ (\E r \in Replies : Upstream(q, r)) /\ UNCHANGED late
     \/ late' = late \cup {q} /\ UNCHANGED <<published, creating>>
  /\ Answer(q, "error")
  /\ UNCHANGED <<table, runs, key, payload, reply>>

\* A call the gateway gave up on ends in workflow-service.
LateUpstream(q) ==
  /\ q \in late
  /\ late' = late \ {q}
  /\ (\E r \in Replies : Upstream(q, r)) \/ Abandoned(q)
  /\ UNCHANGED <<table, runs, pc, key, payload, reply, verdict>>

InsertRecord(q) ==
  /\ table[key[q]] = None
  /\ table' = [table EXCEPT ![key[q]] = [payload |-> payload[q], reply |-> reply[q]]]

\* Mutant: ON CONFLICT DO NOTHING.
StoreOrIgnore(q) ==
  /\ pc[q] = "store"
  /\ InsertRecord(q) \/ (table[key[q]] # None /\ UNCHANGED table)
  /\ Answer(q, "accepted")
  /\ UNCHANGED <<runs, published, creating, key, payload, reply, late>>

\* store_record commits, then the response is sent.
Store(q) ==
  /\ pc[q] = "store"
  /\ InsertRecord(q)
  /\ Answer(q, "accepted")
  /\ UNCHANGED <<runs, published, creating, key, payload, reply, late>>

\* The unique constraint refuses the row (500), the insert fails, or the pod dies
\* with the row inserted or not.
StoreFails(q) ==
  /\ pc[q] = "store"
  /\ InsertRecord(q) \/ UNCHANGED table
  /\ Answer(q, "error")
  /\ UNCHANGED <<runs, published, creating, key, payload, reply, late>>

Next ==
  \E q \in Requests :
    \/ Arrive(q) \/ Find(q) \/ CreateRun(q) \/ Handle(q) \/ HandlerFails(q) \/ LateUpstream(q)
    \/ Store(q) \/ StoreFails(q)

Spec == Init /\ [][Next]_vars
-----------------------------------------------------------------------------
\* The values the variables range over.
TypeOK ==
  /\ table \in [Keys -> Records \cup {None}]
  /\ runs \in [OrderKeys -> Payloads \cup {None}]
  /\ published \subseteq Requests
  /\ creating \subseteq Requests
  /\ pc \in [Requests -> {"idle", "find", "handle", "store", "done"}]
  /\ key \in [Requests -> Keys]
  /\ payload \in [Requests -> Payloads]
  /\ reply \in [Requests -> Replies]
  /\ verdict \in [Requests -> {"none", "accepted", "conflict", "error"}]
  /\ late \subseteq Requests

\* All callers told 202 for one key sent the same body and were given the same
\* answer, whichever of them ran the handler and however their requests raced.
AcceptedAgree ==
  \A q, u \in Requests :
    verdict[q] = "accepted" /\ verdict[u] = "accepted" /\ key[q] = key[u] =>
      payload[q] = payload[u] /\ reply[q] = reply[u]

\* The mutation of a key took place in workflow-service: the row of the run is there,
\* or the payment command is in the stream.  Of an order no more can be said: a
\* workflow-service that stops between row and command leaves a run without one, and
\* a retry of the key is told 202 for it.
CarriedOut(k) ==
  IF k \in OrderKeys THEN runs[k] # None ELSE \E u \in published : key[u] = k

\* Whoever is told 202, or 409 because the key was used for another body, is told
\* of a mutation that was carried out; a 202 for an order shows the run there is.
AnswersAreReal ==
  \A q \in Requests :
    /\ verdict[q] \in {"accepted", "conflict"} => CarriedOut(key[q])
    /\ verdict[q] = "accepted" /\ key[q] \in OrderKeys => reply[q].run = runs[key[q]]

\* A key that was accepted and has no handler or upstream call under way.
Settled(k) ==
  /\ \E q \in Requests : verdict[q] = "accepted" /\ key[q] = k
  /\ \A q \in Requests : key[q] = k => pc[q] # "handle" /\ q \notin late

\* A settled key stays settled: no later request runs its mutation again.
SettledForGood ==
  [][\A k \in Keys : Settled(k) =>
       /\ Settled(k)'
       /\ table[k]' = table[k]
       /\ {q \in published : key[q] = k}' = {q \in published : key[q] = k}]_vars

\* "Idempotency-Key was already used with a different request": a caller told 202
\* for an order gets the order it asked for, and not one that an earlier request
\* of the key asked for and got no answer to.
RunHasRequestedPayload ==
  \A q \in Requests :
    verdict[q] = "accepted" /\ key[q] \in OrderKeys => runs[key[q]] = payload[q]
=============================================================================

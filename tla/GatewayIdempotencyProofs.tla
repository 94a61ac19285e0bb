----------------------- MODULE GatewayIdempotencyProofs -----------------------
(***************************************************************************)
(* What the Idempotency-Key layer promises for any set of requests, keys    *)
(* and payloads.  The argument rests on the unique constraint: a record is  *)
(* never replaced, so everyone who was told 202 reads the same one.         *)
(***************************************************************************)
EXTENDS GatewayIdempotency, TLAPS

USE GatewayIdempotencyAssumption DEF Keys

\* A request has no verdict before it is over.
VerdictAtEnd == \A q \in Requests : verdict[q] # "none" => pc[q] = "done"

\* What a caller was told 202 for is what the table holds.
AcceptedIsStored ==
  \A q \in Requests :
    verdict[q] = "accepted" => table[key[q]] = [payload |-> payload[q], reply |-> reply[q]]

\* A reply r for key k is real: the mutation took place, and r shows the run.
RealReply(k, r) == CarriedOut(k) /\ (k \in OrderKeys => r.run = runs[k])

\* A handler that returned did so for a mutation that took place.
StoringIsReal == \A q \in Requests : pc[q] = "store" => RealReply(key[q], reply[q])

\* So did the one behind every record.
TableIsReal == \A k \in Keys : table[k] # None => RealReply(k, table[k].reply)

\* A conflict is answered only of a key that has a record.
ConflictIsStored == \A q \in Requests : verdict[q] = "conflict" => table[key[q]] # None

\* The inductive invariant of the layer.
GatewayInv ==
  TypeOK /\ VerdictAtEnd /\ AcceptedIsStored /\ StoringIsReal /\ TableIsReal /\ ConflictIsStored

\* What a request has to store is a record, so it is not None.
LEMMA StoredIsRecord ==
  ASSUME TypeOK, NEW q \in Requests
  PROVE  [payload |-> payload[q], reply |-> reply[q]] # None
  BY DEF TypeOK, Records

\* Whoever has an answer has a record.
LEMMA AnsweredIsStored ==
  ASSUME GatewayInv, NEW q \in Requests, verdict[q] \in {"accepted", "conflict"}
  PROVE  table[key[q]] # None /\ key[q] \in Keys
  <1>1. TypeOK /\ AcceptedIsStored /\ ConflictIsStored
    BY DEF GatewayInv
  <1>2. key[q] \in Keys
    BY <1>1 DEF TypeOK
  <1>3. CASE verdict[q] = "accepted"
    BY <1>1, <1>2, <1>3, StoredIsRecord DEF AcceptedIsStored
  <1>4. CASE verdict[q] = "conflict"
    BY <1>1, <1>2, <1>4 DEF ConflictIsStored
  <1>5. QED
    BY <1>3, <1>4

\* What the upstream may answer and do is well typed.
LEMMA UpstreamType ==
  ASSUME TypeOK, NEW q \in Requests, NEW r \in Replies, Upstream(q, r)
  PROVE  /\ creating' \subseteq Requests
         /\ published' \subseteq Requests
  BY DEF Upstream, StartsOrder, RequestsPayment, TypeOK

\* The initial values have their types.
LEMMA InitType == Init => TypeOK
  BY DEF Init, TypeOK, Replies, NoReply

\* Every step keeps the types.
LEMMA TypeStep ==
  ASSUME TypeOK, [Next]_vars
  PROVE  TypeOK'
  <1>1. ASSUME NEW q \in Requests, Arrive(q)
        PROVE TypeOK'
    BY <1>1 DEF Arrive, Goto, TypeOK
  <1>2. ASSUME NEW q \in Requests, Find(q)
        PROVE TypeOK'
    <2>1. table[key[q]] # None => table[key[q]].reply \in Replies
      BY DEF TypeOK, Records
    <2>2. QED
      BY <1>2, <2>1 DEF Find, Goto, Answer, TypeOK
  <1>3. ASSUME NEW q \in Requests, Handle(q)
        PROVE TypeOK'
    BY <1>3, UpstreamType DEF Handle, Goto, TypeOK
  <1>4. ASSUME NEW q \in Requests, HandlerFails(q)
        PROVE TypeOK'
    BY <1>4, UpstreamType DEF HandlerFails, Abandoned, Goto, Answer, TypeOK
  <1>5. ASSUME NEW q \in Requests, LateUpstream(q)
        PROVE TypeOK'
    BY <1>5, UpstreamType DEF LateUpstream, Abandoned, TypeOK
  <1>6. ASSUME NEW q \in Requests, Store(q) \/ StoreFails(q)
        PROVE TypeOK'
    <2>1. [payload |-> payload[q], reply |-> reply[q]] \in Records
      BY DEF TypeOK, Records
    <2>2. QED
      BY <1>6, <2>1 DEF Store, StoreFails, InsertRecord, Goto, Answer, TypeOK
  <1>7. CASE UNCHANGED vars
    BY <1>7 DEF vars, TypeOK
  <1>8. ASSUME NEW q \in Requests, CreateRun(q)
        PROVE TypeOK'
    BY <1>8 DEF CreateRun, TypeOK
  <1>9. QED
    BY <1>1, <1>2, <1>3, <1>4, <1>5, <1>6, <1>7, <1>8 DEF Next

\* A mutation that took place is never undone, and its run keeps its payload.
LEMMA RealForGood ==
  ASSUME TypeOK, [Next]_vars, NEW k \in Keys, NEW r, RealReply(k, r)
  PROVE  RealReply(k, r)'
  <1>1. key' = key
    BY DEF Next, vars, Arrive, Find, CreateRun, Abandoned, Handle, HandlerFails,
           LateUpstream, Store, StoreFails
  <1>2. published \subseteq published'
    BY DEF Next, vars, Arrive, Find, CreateRun, Abandoned, Handle, HandlerFails,
           LateUpstream, Store, StoreFails,
           Upstream, StartsOrder, RequestsPayment
  <1>3. k \in OrderKeys /\ runs[k] # None => runs'[k] = runs[k]
    BY DEF Next, vars, Arrive, Find, CreateRun, Abandoned, Handle, HandlerFails,
           LateUpstream, Store, StoreFails,
           Upstream, StartsOrder, RequestsPayment, TypeOK
  <1>4. QED
    BY <1>1, <1>2, <1>3 DEF RealReply, CarriedOut, TypeOK

\* The reply a handler returns is real.
LEMMA HandledIsReal ==
  ASSUME TypeOK, NEW q \in Requests, Handle(q)
  PROVE  RealReply(key[q], reply[q])'
  <1>1. PICK r \in Replies : Upstream(q, r) /\ reply' = [reply EXCEPT ![q] = r]
    BY DEF Handle
  <1>2. reply'[q] = r /\ key' = key
    BY <1>1 DEF Handle, TypeOK
  <1>3. CASE StartsOrder(q, r)
    BY <1>2, <1>3 DEF Handle, StartsOrder, RealReply, CarriedOut, TypeOK
  <1>4. CASE RequestsPayment(q, r)
    BY <1>2, <1>4 DEF RequestsPayment, RealReply, CarriedOut, TypeOK
  <1>5. QED
    BY <1>1, <1>3, <1>4 DEF Upstream

\* A record is never replaced, and a request keeps its key and payload.
LEMMA RecordsStay ==
  ASSUME TypeOK, [Next]_vars
  PROVE  /\ key' = key /\ payload' = payload
         /\ \A k \in Keys : table[k] # None => table'[k] = table[k]
  BY DEF Next, vars, Arrive, Find, CreateRun, Abandoned, Handle, HandlerFails,
         LateUpstream, Store, StoreFails,
         InsertRecord, TypeOK

\* Every step keeps the invariant's facts about the table and the verdicts.
LEMMA StoredStep ==
  ASSUME TypeOK, VerdictAtEnd, AcceptedIsStored, ConflictIsStored, [Next]_vars
  PROVE  VerdictAtEnd' /\ AcceptedIsStored' /\ ConflictIsStored'
  <1> DEFINE Stored(u) == [payload |-> payload[u], reply |-> reply[u]]
  <1>1. \A u \in Requests : Stored(u) # None
    BY DEF TypeOK, Records
  <1>2. VerdictAtEnd'
    BY DEF VerdictAtEnd, Next, vars, Arrive, Find, CreateRun, Abandoned, Handle,
           HandlerFails, LateUpstream, Store,
           StoreFails, Goto, Answer, TypeOK
  <1>3. \A u \in Requests : verdict[u] # "none" => verdict'[u] = verdict[u] /\ reply'[u] = reply[u]
    BY DEF VerdictAtEnd, Next, vars, Arrive, Find, CreateRun, Abandoned, Handle,
           HandlerFails, LateUpstream, Store,
           StoreFails, Goto, Answer, TypeOK
  <1>4. ASSUME NEW u \in Requests, verdict[u] = "none", verdict'[u] = "accepted"
        PROVE  table'[key[u]] = [payload |-> payload[u], reply |-> reply'[u]]
    <2>1. Find(u) \/ Store(u)
      BY <1>4 DEF Next, vars, Arrive, Find, CreateRun, Abandoned, Handle, HandlerFails,
                  LateUpstream, Store,
                  StoreFails, Goto, Answer, TypeOK
    <2>2. CASE Find(u)
      <3>1. /\ table[key[u]] # None
            /\ table[key[u]].payload = payload[u]
            /\ reply'[u] = table[key[u]].reply
            /\ table' = table
        BY <1>4, <2>2 DEF Find, Goto, Answer, TypeOK
      <3>2. table[key[u]] \in Records
        BY <3>1 DEF TypeOK
      <3>3. QED
        BY <3>1, <3>2 DEF Records
    <2>3. CASE Store(u)
      BY <2>3 DEF Store, InsertRecord, TypeOK
    <2>4. QED
      BY <2>1, <2>2, <2>3
  <1>5. ASSUME NEW u \in Requests, verdict[u] = "none", verdict'[u] = "conflict"
        PROVE  table'[key[u]] # None
    BY <1>5 DEF Next, vars, Arrive, Find, CreateRun, Abandoned, Handle, HandlerFails,
                LateUpstream, Store,
                StoreFails, Goto, Answer, TypeOK
  <1>6. AcceptedIsStored'
    <2> SUFFICES ASSUME NEW u \in Requests, verdict'[u] = "accepted"
                 PROVE  table'[key'[u]] = [payload |-> payload'[u], reply |-> reply'[u]]
      BY DEF AcceptedIsStored
    <2>1. CASE verdict[u] = "none"
      BY <2>1, <1>4, RecordsStay
    <2>2. CASE verdict[u] # "none"
      <3>1. table[key[u]] = Stored(u) /\ table[key[u]] # None /\ key[u] \in Keys
        BY <2>2, <1>1, <1>3 DEF AcceptedIsStored, TypeOK
      <3>2. QED
        BY <2>2, <3>1, <1>3, RecordsStay
    <2>3. QED
      BY <2>1, <2>2
  <1>7. ConflictIsStored'
    <2> SUFFICES ASSUME NEW u \in Requests, verdict'[u] = "conflict"
                 PROVE  table'[key'[u]] # None
      BY DEF ConflictIsStored
    <2>1. CASE verdict[u] = "none"
      BY <2>1, <1>5, RecordsStay
    <2>2. CASE verdict[u] # "none"
      <3>1. table[key[u]] # None /\ key[u] \in Keys
        BY <2>2, <1>3 DEF ConflictIsStored, TypeOK
      <3>2. QED
        BY <3>1, RecordsStay
    <2>3. QED
      BY <2>1, <2>2
  <1>8. QED
    BY <1>2, <1>6, <1>7

\* Every step keeps replies and records real.
LEMMA RealStep ==
  ASSUME TypeOK, StoringIsReal, TableIsReal, [Next]_vars
  PROVE  StoringIsReal' /\ TableIsReal'
  <1>1. StoringIsReal'
    <2> SUFFICES ASSUME NEW u \in Requests, pc'[u] = "store"
                 PROVE  RealReply(key[u], reply[u])'
      BY DEF StoringIsReal, RealReply, CarriedOut
    <2>1. CASE Handle(u)
      BY <2>1, HandledIsReal
    <2>2. CASE ~ Handle(u)
      <3>1. pc[u] = "store" /\ reply'[u] = reply[u] /\ key' = key
        BY <2>2 DEF Next, vars, Arrive, Find, CreateRun, Abandoned, Handle,
                    HandlerFails, LateUpstream, Store,
                    StoreFails, Goto, Answer, TypeOK
      <3>2. RealReply(key[u], reply[u]) /\ key[u] \in Keys
        BY <3>1 DEF StoringIsReal, TypeOK
      <3>3. QED
        BY <3>1, <3>2, RealForGood DEF RealReply, CarriedOut
    <2>3. QED
      BY <2>1, <2>2
  <1>2. TableIsReal'
    <2> SUFFICES ASSUME NEW k \in Keys, table'[k] # None
                 PROVE  RealReply(k, table[k].reply)'
      BY DEF TableIsReal, RealReply, CarriedOut
    <2>1. CASE table[k] # None
      <3>1. RealReply(k, table[k].reply) /\ table'[k] = table[k]
        BY <2>1, RecordsStay DEF TableIsReal
      <3>2. QED
        BY <3>1, RealForGood DEF RealReply, CarriedOut
    <2>2. CASE table[k] = None
      <3>1. PICK q \in Requests : (Store(q) \/ StoreFails(q)) /\ InsertRecord(q)
        BY <2>2 DEF Next, vars, Arrive, Find, CreateRun, Abandoned, Handle,
                    HandlerFails, LateUpstream, Store, StoreFails
      <3>2. key[q] = k /\ table'[k].reply = reply[q] /\ pc[q] = "store"
        BY <3>1, <2>2 DEF InsertRecord, TypeOK, Store, StoreFails
      <3>3. RealReply(k, reply[q])
        BY <3>2 DEF StoringIsReal
      <3>4. QED
        BY <3>2, <3>3, RealForGood DEF RealReply, CarriedOut
    <2>3. QED
      BY <2>1, <2>2
  <1>3. QED
    BY <1>1, <1>2

\* The invariant holds at first.
LEMMA InvInit == Init => GatewayInv
  <1>1. Init => VerdictAtEnd /\ AcceptedIsStored /\ StoringIsReal /\ TableIsReal /\ ConflictIsStored
    BY DEF Init, VerdictAtEnd, AcceptedIsStored, StoringIsReal, TableIsReal,
           ConflictIsStored
  <1>2. QED
    BY <1>1, InitType DEF GatewayInv

\* The invariant holds of every behaviour of the layer.
LEMMA Invariance == Spec => []GatewayInv
  <1>1. GatewayInv /\ [Next]_vars => GatewayInv'
    BY TypeStep, StoredStep, RealStep DEF GatewayInv
  <1>2. QED
    BY <1>1, InvInit, PTL DEF Spec

\* The variables of the layer have the values TypeOK gives them.
THEOREM GatewayTypeCorrect == Spec => []TypeOK
  <1>1. GatewayInv => TypeOK
    BY DEF GatewayInv
  <1>2. QED
    BY <1>1, Invariance, PTL

\* For any requests, keys and payloads: all who are told 202 for one key sent the
\* same body and get the same answer.
THEOREM AcceptedAlwaysAgree == Spec => []AcceptedAgree
  <1>1. GatewayInv => AcceptedAgree
    <2> SUFFICES ASSUME GatewayInv, NEW q \in Requests, NEW u \in Requests,
                        verdict[q] = "accepted", verdict[u] = "accepted", key[q] = key[u]
                 PROVE  payload[q] = payload[u] /\ reply[q] = reply[u]
      BY DEF AcceptedAgree
    <2>1. table[key[q]] = [payload |-> payload[q], reply |-> reply[q]]
      BY DEF GatewayInv, AcceptedIsStored
    <2>2. table[key[u]] = [payload |-> payload[u], reply |-> reply[u]]
      BY DEF GatewayInv, AcceptedIsStored
    <2>3. QED
      BY <2>1, <2>2
  <1>2. QED
    BY <1>1, Invariance, PTL

\* For any requests, keys and payloads: a 202 and a 409 tell of a mutation that
\* took place, and a 202 for an order shows the run there is.
THEOREM AnswersAlwaysReal == Spec => []AnswersAreReal
  <1>1. GatewayInv => AnswersAreReal
    <2> SUFFICES ASSUME GatewayInv, NEW q \in Requests,
                        verdict[q] \in {"accepted", "conflict"}
                 PROVE  /\ CarriedOut(key[q])
                        /\ verdict[q] = "accepted" /\ key[q] \in OrderKeys
                             => reply[q].run = runs[key[q]]
      BY DEF AnswersAreReal
    <2>1. table[key[q]] # None /\ key[q] \in Keys
      BY AnsweredIsStored
    <2>2. RealReply(key[q], table[key[q]].reply)
      BY <2>1 DEF GatewayInv, TableIsReal
    <2>3. verdict[q] = "accepted" => table[key[q]].reply = reply[q]
      <3>1. verdict[q] = "accepted" =>
              table[key[q]] = [payload |-> payload[q], reply |-> reply[q]]
        BY DEF GatewayInv, AcceptedIsStored
      <3>2. QED
        BY <3>1
    <2>4. QED
      BY <2>2, <2>3 DEF RealReply
  <1>2. QED
    BY <1>1, Invariance, PTL

\* For any requests, keys and payloads: once a key is accepted and nothing is
\* under way for it, its mutation is never run again.
THEOREM SettledStaysSettled == Spec => SettledForGood
  <1>1. GatewayInv /\ [Next]_vars =>
          [\A k \in Keys : Settled(k) =>
             /\ Settled(k)'
             /\ table[k]' = table[k]
             /\ {q \in published : key[q] = k}' = {q \in published : key[q] = k}]_vars
    <2> SUFFICES ASSUME GatewayInv, [Next]_vars, NEW k \in Keys, Settled(k)
                 PROVE  /\ Settled(k)'
                        /\ table'[k] = table[k]
                        /\ {q \in published : key[q] = k}' = {q \in published : key[q] = k}
      OBVIOUS
    <2>1. PICK a \in Requests : verdict[a] = "accepted" /\ key[a] = k
      BY DEF Settled
    <2>2. table[k] # None
      BY <2>1, AnsweredIsStored
    <2>3. key' = key /\ table'[k] = table[k]
      BY <2>2, RecordsStay DEF GatewayInv
    <2>4. verdict'[a] = "accepted"
      BY <2>1 DEF GatewayInv, VerdictAtEnd, Next, vars, Arrive, Find, CreateRun,
                  Abandoned, Handle, HandlerFails,
                  LateUpstream, Store, StoreFails, Goto, Answer, TypeOK
    <2>5. \A q \in Requests : key[q] = k => pc[q] # "handle" /\ q \notin late
      BY DEF Settled
    <2>6. \A q \in Requests : key[q] = k => pc'[q] # "handle" /\ q \notin late'
      BY <2>2, <2>5 DEF GatewayInv, Next, vars, Arrive, Find, CreateRun, Abandoned,
                        Handle, HandlerFails,
                        LateUpstream, Store, StoreFails, Goto, Answer, TypeOK
    <2>7. \A q \in Requests : q \in published' /\ q \notin published => key[q] # k
      BY <2>5 DEF Next, vars, Arrive, Find, CreateRun, Abandoned, Handle, HandlerFails,
                  LateUpstream, Store,
                  StoreFails, Upstream, StartsOrder, RequestsPayment
    <2>8. published \subseteq published' /\ published' \subseteq Requests
      <3>1. published' \subseteq Requests
        BY TypeStep DEF GatewayInv, TypeOK
      <3>2. published \subseteq published'
        BY DEF Next, vars, Arrive, Find, CreateRun, Abandoned, Handle, HandlerFails,
               LateUpstream, Store,
               StoreFails, Upstream, StartsOrder, RequestsPayment
      <3>3. QED
        BY <3>1, <3>2
    <2>9. Settled(k)'
      BY <2>1, <2>3, <2>4, <2>6 DEF Settled
    <2>10. {q \in published : key[q] = k}' = {q \in published : key[q] = k}
      BY <2>3, <2>7, <2>8
    <2>11. QED
      BY <2>3, <2>9, <2>10
  <1>2. QED
    BY <1>1, Invariance, PTL DEF Spec, SettledForGood
=============================================================================

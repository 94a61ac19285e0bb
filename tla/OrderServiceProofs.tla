------------------------- MODULE OrderServiceProofs -------------------------
(***************************************************************************)
(* What holds of order-service for any set of orders and any number of      *)
(* concurrent requests.  The argument rests on one fact about FOR UPDATE:   *)
(* while a request holds a row, the status it read is still the row's.      *)
(***************************************************************************)
EXTENDS OrderService, SequenceTheorems, TLAPS

USE OrderServiceAssumption

\* The initial values have their types.
LEMMA InitType == Init => TypeOK
  BY DEF Init, TypeOK, Statuses, Answer, LC!Absent

\* The end of a request keeps the types.
LEMMA FinishType ==
  ASSUME NEW t \in Txs, NEW a \in {"ok", "missing", "conflict", "error"},
         TypeOK, Finish(t, a)
  PROVE  /\ rowLock' \in [Orders -> Txs \cup {NoTx}]
         /\ clock' \in Nat
         /\ pc' \in [Txs -> {"idle", "locking", "locked"}]
         /\ target' \in [Txs -> Orders \cup {Unknown}]
         /\ want' \in [Txs -> Statuses]
         /\ stamp' \in [Txs -> Nat]
         /\ seen' \in [Txs -> Statuses \cup {LC!Absent}]
         /\ answers' \subseteq Answer
  <1>1. [at |-> stamp[t], order |-> target[t], says |-> a] \in Answer
    BY DEF TypeOK, Answer
  <1>2. answers' \subseteq Answer
    BY <1>1 DEF Finish, TypeOK
  <1>3. rowLock' \in [Orders -> Txs \cup {NoTx}]
    BY DEF Finish, TypeOK
  <1>4. QED
    BY <1>2, <1>3 DEF Finish, TypeOK, Statuses

\* What one more history entry does to a history.
LEMMA AppendEntry ==
  ASSUME NEW h \in Seq(HistoryEntry), NEW e \in HistoryEntry
  PROVE  /\ Append(h, e) \in Seq(HistoryEntry)
         /\ Len(h) \in Nat
         /\ Len(Append(h, e)) = Len(h) + 1
         /\ \A i \in 1..Len(h) : Append(h, e)[i] = h[i]
         /\ Append(h, e)[Len(h) + 1] = e
  BY AppendProperties

\* The two writes of a transition keep the types.
LEMMA WriteType ==
  ASSUME NEW t \in Txs, TypeOK, Write(t), target[t] \in Orders
  PROVE  /\ status' \in [Orders -> Statuses \cup {LC!Absent}]
         /\ updated' \in [Orders -> Nat]
         /\ history' \in [Orders -> Seq(HistoryEntry)]
  <1>1. [status |-> want[t], at |-> stamp[t]] \in HistoryEntry
    BY DEF TypeOK, HistoryEntry
  <1>2. Append(history[target[t]], [status |-> want[t], at |-> stamp[t]])
          \in Seq(HistoryEntry)
    BY <1>1, AppendEntry DEF TypeOK
  <1>3. QED
    BY <1>2 DEF Write, TypeOK

\* While a request holds a row, the row is locked by it and still shows the
\* status the request read.
HeldRowIsFresh ==
  \A t \in Txs : pc[t] = "locked" =>
    /\ target[t] \in Orders
    /\ rowLock[target[t]] = t
    /\ seen[t] = status[target[t]]

\* A request that runs names an order that exists, or none at all.
TargetsExist ==
  \A t \in Txs : pc[t] # "idle" /\ target[t] \in Orders => status[target[t]] # LC!Absent

\* A row shows what was committed last.
RowIsLastEntry ==
  \A o \in Orders :
    IF status[o] = LC!Absent
    THEN history[o] = <<>>
    ELSE /\ history[o] # <<>>
         /\ history[o][Len(history[o])] = [status |-> status[o], at |-> updated[o]]

\* The inductive invariant of the service.
ServiceInv ==
  TypeOK /\ HeldRowIsFresh /\ TargetsExist /\ RowIsLastEntry /\ ForwardOnly

\* Every step keeps the types; a commit writes only a row that exists.
LEMMA TypeStep ==
  ASSUME TypeOK, HeldRowIsFresh, [Next]_vars
  PROVE  TypeOK'
  <1>1. ASSUME NEW o \in Orders, CreateOrder(o)
        PROVE TypeOK'
    <2>1. clock' \in Nat
      BY <1>1 DEF CreateOrder, TypeOK
    <2>2. [status |-> "created", at |-> clock'] \in HistoryEntry
      BY <2>1 DEF Statuses, HistoryEntry
    <2>3. history' \in [Orders -> Seq(HistoryEntry)]
      BY <1>1, <2>2, AppendEntry DEF CreateOrder, TypeOK
    <2>4. /\ status' \in [Orders -> Statuses \cup {LC!Absent}]
          /\ updated' \in [Orders -> Nat]
      BY <1>1, <2>1 DEF CreateOrder, TypeOK, Statuses
    <2>5. QED
      BY <1>1, <2>1, <2>3, <2>4 DEF CreateOrder, TypeOK
  <1>2. ASSUME NEW t \in Txs, NEW o \in Orders \cup {Unknown}, NEW s \in Requestable,
               Begin(t, o, s)
        PROVE TypeOK'
    BY <1>2 DEF Begin, TypeOK, Requestable, committed
  <1>3. ASSUME NEW t \in Txs, NotFound(t)
        PROVE TypeOK'
    BY <1>3, FinishType DEF NotFound, TypeOK, committed
  <1>4. ASSUME NEW t \in Txs, Lock(t)
        PROVE TypeOK'
    BY <1>4 DEF Lock, TypeOK, committed
  <1>5. ASSUME NEW t \in Txs, Refuse(t)
        PROVE TypeOK'
    BY <1>5, FinishType DEF Refuse, TypeOK, committed
  <1>6. ASSUME NEW t \in Txs, Commit(t)
        PROVE TypeOK'
    <2>1. target[t] \in Orders
      BY <1>6 DEF Commit, Write, HeldRowIsFresh
    <2>2. QED
      BY <1>6, <2>1, FinishType, WriteType DEF Commit, TypeOK
  <1>7. ASSUME NEW t \in Txs, CommitUnanswered(t)
        PROVE TypeOK'
    <2>1. target[t] \in Orders
      BY <1>7 DEF CommitUnanswered, Write, HeldRowIsFresh
    <2>2. QED
      BY <1>7, <2>1, FinishType, WriteType DEF CommitUnanswered, TypeOK
  <1>8. ASSUME NEW t \in Txs, Abort(t)
        PROVE TypeOK'
    BY <1>8, FinishType DEF Abort, TypeOK, committed
  <1>9. CASE UNCHANGED vars
    BY <1>9 DEF vars, TypeOK, committed
  <1>10. QED
    BY <1>1, <1>2, <1>3, <1>4, <1>5, <1>6, <1>7, <1>8, <1>9 DEF Next

\* When one request ends, the rows that others hold stay as they read them.
LEMMA FinishFresh ==
  ASSUME NEW t \in Txs, NEW a, TypeOK, HeldRowIsFresh, Finish(t, a),
         \A o \in Orders : o # target[t] => status'[o] = status[o],
         pc[t] = "locked" \/ status' = status
  PROVE  HeldRowIsFresh'
  <1> SUFFICES ASSUME NEW u \in Txs, pc'[u] = "locked"
               PROVE /\ target'[u] \in Orders
                     /\ rowLock'[target'[u]] = u
                     /\ seen'[u] = status'[target'[u]]
    BY DEF HeldRowIsFresh
  <1>1. u # t /\ pc[u] = "locked" /\ target'[u] = target[u] /\ seen'[u] = seen[u]
    BY DEF Finish, TypeOK
  <1>2. target[u] \in Orders /\ rowLock[target[u]] = u /\ seen[u] = status[target[u]]
    BY <1>1 DEF HeldRowIsFresh
  <1>3. rowLock'[target[u]] = u
    BY <1>1, <1>2 DEF Finish
  <1>4. status'[target[u]] = status[target[u]]
    <2>1. CASE pc[t] = "locked"
      BY <2>1, <1>1, <1>2 DEF HeldRowIsFresh
    <2>2. CASE status' = status
      BY <2>2
    <2>3. QED
      BY <2>1, <2>2
  <1>5. QED
    BY <1>1, <1>2, <1>3, <1>4

\* Every step leaves a held row as its holder read it: this is FOR UPDATE.
LEMMA FreshStep ==
  ASSUME TypeOK, HeldRowIsFresh, TargetsExist, [Next]_vars
  PROVE  HeldRowIsFresh'
  <1>1. ASSUME NEW o \in Orders, CreateOrder(o)
        PROVE HeldRowIsFresh'
    <2> SUFFICES ASSUME NEW u \in Txs, pc[u] = "locked"
                 PROVE status'[target[u]] = status[target[u]]
      BY <1>1 DEF CreateOrder, HeldRowIsFresh
    <2>1. target[u] # o
      BY <1>1 DEF CreateOrder, HeldRowIsFresh, TargetsExist
    <2>2. QED
      BY <1>1, <2>1 DEF CreateOrder, TypeOK
  <1>2. ASSUME NEW t \in Txs, NEW o \in Orders \cup {Unknown}, NEW s \in Requestable,
               Begin(t, o, s)
        PROVE HeldRowIsFresh'
    BY <1>2 DEF Begin, HeldRowIsFresh, TypeOK, committed
  <1>3. ASSUME NEW t \in Txs, NotFound(t)
        PROVE HeldRowIsFresh'
    BY <1>3, FinishFresh DEF NotFound, committed
  <1>4. ASSUME NEW t \in Txs, Lock(t)
        PROVE HeldRowIsFresh'
    BY <1>4 DEF Lock, HeldRowIsFresh, TypeOK, committed
  <1>5. ASSUME NEW t \in Txs, Refuse(t)
        PROVE HeldRowIsFresh'
    BY <1>5, FinishFresh DEF Refuse, committed
  <1>6. ASSUME NEW t \in Txs, Write(t)
        PROVE /\ pc[t] = "locked"
              /\ \A o \in Orders : o # target[t] => status'[o] = status[o]
    BY <1>6 DEF Write, TypeOK
  <1>7. ASSUME NEW t \in Txs, Commit(t) \/ CommitUnanswered(t)
        PROVE HeldRowIsFresh'
    BY <1>6, <1>7, FinishFresh DEF Commit, CommitUnanswered
  <1>8. ASSUME NEW t \in Txs, Abort(t)
        PROVE HeldRowIsFresh'
    BY <1>8, FinishFresh DEF Abort, committed
  <1>9. CASE UNCHANGED vars
    BY <1>9 DEF vars, committed, HeldRowIsFresh
  <1>10. QED
    BY <1>1, <1>2, <1>3, <1>4, <1>5, <1>7, <1>8, <1>9 DEF Next

\* Orders are never deleted, so a request's order goes on to exist.
LEMMA TargetsStep ==
  ASSUME TypeOK, TargetsExist, [Next]_vars
  PROVE  TargetsExist'
  <1>1. \A o \in Orders : status[o] # LC!Absent => status'[o] # LC!Absent
    BY DEF TypeOK, Next, vars, committed, CreateOrder, Begin, NotFound, Lock, Refuse, Write, Commit,
           CommitUnanswered, Abort, Statuses, LC!Absent
  <1>2. \A t \in Txs : pc'[t] # "idle" /\ target'[t] \in Orders =>
          \/ pc[t] # "idle" /\ target[t] = target'[t]
          \/ status[target'[t]] # LC!Absent
    BY DEF TypeOK, Next, vars, committed, CreateOrder, Begin, NotFound, Lock, Refuse, Finish, Write,
           Commit, CommitUnanswered, Abort
  <1>3. QED
    BY <1>1, <1>2 DEF TargetsExist

\* The table never moves back, and never stays but on a failed payment.
LEMMA AllowedMovesForward ==
  ASSUME NEW a \in Statuses, NEW b \in Statuses, LC!Allowed(a, b)
  PROVE  \/ Rank[a] < Rank[b]
         \/ a = "payment_failed" /\ b = "payment_failed"
  BY DEF LC!Allowed, LC!ALLOWED_ORDER_TRANSITIONS, Statuses, Rank

\* Ranks are numbers.
LEMMA RankType == \A a \in Statuses : Rank[a] \in Nat
  BY DEF Statuses, Rank

\* One entry written under the row lock: what it does to the row, to the
\* history and to the lifecycle.
LEMMA EntryStep ==
  ASSUME TypeOK, RowIsLastEntry, ForwardOnly,
         NEW o \in Orders, NEW e \in HistoryEntry,
         status' = [status EXCEPT ![o] = e.status],
         updated' = [updated EXCEPT ![o] = e.at],
         history' = [history EXCEPT ![o] = Append(@, e)],
         \/ status[o] = LC!Absent /\ e.status = "created"
         \/ LC!Allowed(status[o], e.status)
  PROVE  /\ RowIsLastEntry'
         /\ ForwardOnly'
         /\ LC!Next
  <1> DEFINE h == history[o]
             n == Len(h)
             h2 == Append(h, e)
  <1>1. /\ h \in Seq(HistoryEntry)
        /\ e.status \in Statuses
        /\ status[o] \in Statuses \cup {LC!Absent}
        /\ e = [status |-> e.status, at |-> e.at]
    BY DEF TypeOK, HistoryEntry
  <1>2. /\ n \in Nat
        /\ Len(h2) = n + 1
        /\ \A i \in 1..n : h2[i] = h[i]
        /\ h2[n + 1] = e
        /\ h2 \in Seq(HistoryEntry)
    BY <1>1, AppendEntry
  <1>3. /\ history'[o] = h2
        /\ status'[o] = e.status /\ updated'[o] = e.at
        /\ \A p \in Orders : p # o => history'[p] = history[p] /\ status'[p] = status[p]
                                     /\ updated'[p] = updated[p]
    BY DEF TypeOK
  <1>4. \A i \in 1..n : h[i].status \in Statuses
    <2>1. \A i \in 1..n : h[i] \in HistoryEntry
      BY <1>1, ElementOfSeq
    <2>2. QED
      BY <2>1 DEF HistoryEntry
  <1>5. status[o] = LC!Absent => n = 0
    <2>1. status[o] = LC!Absent => h = <<>>
      BY DEF RowIsLastEntry
    <2>2. QED
      BY <2>1, <1>1, EmptySeq
  <1>6. status[o] # LC!Absent => n > 0 /\ status[o] = h[n].status
    <2>1. status[o] # LC!Absent => h # <<>> /\ h[n] = [status |-> status[o], at |-> updated[o]]
      BY DEF RowIsLastEntry
    <2>2. h # <<>> => n > 0
      BY <1>1, <1>2, EmptySeq
    <2>3. QED
      <3> HIDE DEF h, n, h2
      <3>1. QED
        BY <2>1, <2>2
  <1>7. RowIsLastEntry'
    <2> SUFFICES ASSUME NEW p \in Orders
                 PROVE IF status'[p] = LC!Absent
                       THEN history'[p] = <<>>
                       ELSE /\ history'[p] # <<>>
                            /\ history'[p][Len(history'[p])] = [status |-> status'[p], at |-> updated'[p]]
      BY DEF RowIsLastEntry
    <2>1. CASE p = o
      <3>1. e.status # LC!Absent
        BY <1>1 DEF Statuses, LC!Absent
      <3>2. h2 # <<>>
        BY <1>1, AppendProperties
      <3>3. QED
        BY <2>1, <3>1, <3>2, <1>1, <1>2, <1>3
    <2>2. CASE p # o
      BY <2>2, <1>3 DEF RowIsLastEntry
    <2>3. QED
      BY <2>1, <2>2
  <1>8. ForwardOnly'
    <2> SUFFICES ASSUME NEW p \in Orders,
                        NEW i \in 1..Len(history'[p]), NEW j \in 1..Len(history'[p]), i < j
                 PROVE \/ Rank[history'[p][i].status] < Rank[history'[p][j].status]
                       \/ /\ history'[p][i].status = "payment_failed"
                          /\ history'[p][j].status = "payment_failed"
      BY DEF ForwardOnly
    <2>1. CASE p # o
      BY <2>1, <1>3 DEF ForwardOnly
    <2>2. CASE p = o /\ j \in 1..n
      <3>1. i \in 1..n
        BY <2>2, <1>2, <1>3
      <3>2. history'[p][i] = h[i] /\ history'[p][j] = h[j]
        BY <2>2, <3>1, <1>2, <1>3
      <3>3. QED
        BY <2>2, <3>1, <3>2 DEF ForwardOnly
    <2>3. CASE p = o /\ j = n + 1
      <3>1. i \in 1..n /\ n > 0
        BY <2>3, <1>2, <1>3
      <3>2. history'[p][i] = h[i] /\ history'[p][j] = e
        BY <2>3, <3>1, <1>2, <1>3
      <3>3. status[o] = h[n].status /\ h[n].status \in Statuses /\ h[i].status \in Statuses
        BY <3>1, <1>4, <1>5, <1>6
      <3>4. LC!Allowed(h[n].status, e.status)
        BY <3>1, <3>3, <1>5
      <3>5. \/ Rank[h[n].status] < Rank[e.status]
            \/ h[n].status = "payment_failed" /\ e.status = "payment_failed"
        BY <3>3, <3>4, <1>1, AllowedMovesForward
      <3>6. CASE i = n
        BY <3>5, <3>6, <3>2
      <3>7. CASE i < n
        <4>1. \/ Rank[h[i].status] < Rank[h[n].status]
              \/ h[i].status = "payment_failed" /\ h[n].status = "payment_failed"
          BY <3>1, <3>7 DEF ForwardOnly
        <4>2. Rank[h[i].status] \in Nat /\ Rank[h[n].status] \in Nat /\ Rank[e.status] \in Nat
          BY <3>3, <1>1, RankType
        <4>3. \/ Rank[h[i].status] < Rank[e.status]
              \/ h[i].status = "payment_failed" /\ e.status = "payment_failed"
          <5> HIDE DEF h, n, h2
          <5>1. QED
            BY <4>1, <4>2, <3>5
        <4>4. QED
          BY <4>3, <3>2
      <3>8. QED
        BY <3>1, <3>6, <3>7
    <2>4. QED
      BY <2>1, <2>2, <2>3, <1>2, <1>3
  <1>9. LC!Next
    <2> DEFINE trailOf(hs) == [i \in 1..Len(hs) |-> hs[i].status]
    <2>1. trailOf(h2) = Append(trailOf(h), e.status)
      <3>1. trailOf(h) \in Seq(Statuses) /\ Len(trailOf(h)) = n
        BY <1>2, <1>4
      <3>2. Append(trailOf(h), e.status) \in Seq(Statuses)
        BY <3>1, <1>1, AppendProperties
      <3>3. /\ Len(Append(trailOf(h), e.status)) = n + 1
            /\ \A i \in 1..n : Append(trailOf(h), e.status)[i] = h[i].status
            /\ Append(trailOf(h), e.status)[n + 1] = e.status
        BY <3>1, <1>1, <1>2, AppendProperties
      <3>4. DOMAIN Append(trailOf(h), e.status) = 1..(n + 1)
        BY <3>2, <3>3, LenProperties
      <3>5. \A i \in 1..(n + 1) : h2[i].status = Append(trailOf(h), e.status)[i]
        BY <3>3, <1>2
      <3>6. QED
        BY <3>2, <3>3, <3>4, <3>5, <1>2, SeqEqual
    <2>2. [p \in Orders |-> trailOf(history'[p])]
             = [[p \in Orders |-> trailOf(history[p])]
                  EXCEPT ![o] = Append(trailOf(history[o]), e.status)]
      <3>1. \A p \in Orders : p # o => trailOf(history'[p]) = trailOf(history[p])
        BY <1>3
      <3>2. trailOf(history'[o]) = Append(trailOf(history[o]), e.status)
        BY <1>3, <2>1
      <3> HIDE DEF trailOf
      <3>3. QED
        BY <3>1, <3>2
    <2>3. CASE status[o] = LC!Absent /\ e.status = "created"
      <3>1. LC!CreateOrder(o)
        BY <2>2, <2>3 DEF LC!CreateOrder
      <3>2. QED
        BY <3>1 DEF LC!Next
    <2>4. CASE LC!Allowed(status[o], e.status)
      <3>1. LC!Transition(o, e.status)
        BY <2>2, <2>4 DEF LC!Transition
      <3>2. e.status \in LC!OrderStatuses
        BY <1>1 DEF Statuses, LC!OrderStatuses
      <3>3. QED
        BY <3>1, <3>2 DEF LC!Next
    <2>5. QED
      BY <2>3, <2>4
  <1>10. QED
    BY <1>7, <1>8, <1>9

\* Every step writes one entry under the rules of EntryStep, or leaves the
\* committed tables alone.
LEMMA StepShape ==
  ASSUME TypeOK, HeldRowIsFresh, [Next]_vars
  PROVE  \/ \E o \in Orders, e \in HistoryEntry :
              /\ status' = [status EXCEPT ![o] = e.status]
              /\ updated' = [updated EXCEPT ![o] = e.at]
              /\ history' = [history EXCEPT ![o] = Append(@, e)]
              /\ \/ status[o] = LC!Absent /\ e.status = "created"
                 \/ LC!Allowed(status[o], e.status)
         \/ UNCHANGED committed
  <1>1. ASSUME NEW o \in Orders, CreateOrder(o)
        PROVE \E e \in HistoryEntry :
                /\ status' = [status EXCEPT ![o] = e.status]
                /\ updated' = [updated EXCEPT ![o] = e.at]
                /\ history' = [history EXCEPT ![o] = Append(@, e)]
                /\ status[o] = LC!Absent /\ e.status = "created"
    <2>1. [status |-> "created", at |-> clock'] \in HistoryEntry
      BY <1>1 DEF CreateOrder, TypeOK, HistoryEntry, Statuses
    <2>2. QED
      BY <1>1, <2>1 DEF CreateOrder
  <1>2. ASSUME NEW t \in Txs, Write(t)
        PROVE \E o \in Orders, e \in HistoryEntry :
                /\ status' = [status EXCEPT ![o] = e.status]
                /\ updated' = [updated EXCEPT ![o] = e.at]
                /\ history' = [history EXCEPT ![o] = Append(@, e)]
                /\ LC!Allowed(status[o], e.status)
    <2>1. /\ target[t] \in Orders
          /\ LC!Allowed(status[target[t]], want[t])
      BY <1>2 DEF Write, HeldRowIsFresh
    <2>2. [status |-> want[t], at |-> stamp[t]] \in HistoryEntry
      BY DEF TypeOK, HistoryEntry
    <2>3. QED
      BY <1>2, <2>1, <2>2 DEF Write
  <1>3. ASSUME NEW t \in Txs,
               \/ \E o \in Orders \cup {Unknown}, s \in Requestable : Begin(t, o, s)
               \/ NotFound(t) \/ Lock(t) \/ Refuse(t) \/ Abort(t)
        PROVE UNCHANGED committed
    BY <1>3 DEF Begin, NotFound, Lock, Refuse, Abort
  <1>4. QED
    BY <1>1, <1>2, <1>3 DEF Next, Commit, CommitUnanswered, vars

\* The inductive invariant holds at first.
LEMMA InvInit == Init => ServiceInv
  <1>1. Init => HeldRowIsFresh /\ TargetsExist
    BY DEF Init, HeldRowIsFresh, TargetsExist
  <1>2. Init => RowIsLastEntry /\ ForwardOnly
    BY DEF Init, RowIsLastEntry, ForwardOnly
  <1>3. QED
    BY <1>1, <1>2, InitType DEF ServiceInv

\* Every step keeps the inductive invariant.
LEMMA InvStep == ServiceInv /\ [Next]_vars => ServiceInv'
  <1> SUFFICES ASSUME ServiceInv, [Next]_vars
               PROVE  ServiceInv'
    OBVIOUS
  <1>1. TypeOK' /\ HeldRowIsFresh' /\ TargetsExist'
    BY TypeStep, FreshStep, TargetsStep DEF ServiceInv
  <1>2. CASE UNCHANGED committed
    BY <1>1, <1>2 DEF committed, ServiceInv, RowIsLastEntry, ForwardOnly
  <1>3. CASE ~ UNCHANGED committed
    BY <1>1, <1>3, StepShape, EntryStep DEF ServiceInv
  <1>4. QED
    BY <1>2, <1>3

\* The inductive invariant holds of every behaviour.
LEMMA Invariance == Spec => []ServiceInv
  BY InvInit, InvStep, PTL DEF Spec

\* The variables of order-service have the values TypeOK gives them.
THEOREM TypeCorrect == Spec => []TypeOK
  <1>1. ServiceInv => TypeOK
    BY DEF ServiceInv
  <1>2. QED
    BY <1>1, Invariance, PTL

\* For any orders and any number of concurrent requests, histories only go
\* forward: no order is paid twice.
THEOREM HistoryOnlyGoesForward == Spec => []ForwardOnly
  <1>1. ServiceInv => ForwardOnly
    BY DEF ServiceInv
  <1>2. QED
    BY <1>1, Invariance, PTL

\* The initial states are the lifecycle's.
LEMMA LifecycleInit == Init => LC!Init
  <1> SUFFICES ASSUME Init PROVE LC!Init
    OBVIOUS
  <1>1. ASSUME NEW o \in Orders
        PROVE [i \in 1..Len(history[o]) |-> history[o][i].status] = <<>>
    <2>1. history[o] = <<>>
      BY DEF Init
    <2>2. [i \in 1..0 |-> <<>>[i].status] = <<>>
      OBVIOUS
    <2>3. QED
      BY <2>1, <2>2
  <1>2. QED
    BY <1>1 DEF Init, LC!Init

\* Every step is one of the lifecycle's, or a stutter.
LEMMA LifecycleStep == ServiceInv /\ [Next]_vars => [LC!Next]_LC!lifecycleVars
  <1> SUFFICES ASSUME ServiceInv, [Next]_vars
               PROVE  [LC!Next]_LC!lifecycleVars
    OBVIOUS
  <1>1. CASE UNCHANGED committed
    BY <1>1 DEF committed, LC!lifecycleVars
  <1>2. CASE ~ UNCHANGED committed
    BY <1>2, StepShape, EntryStep DEF ServiceInv
  <1>3. QED
    BY <1>1, <1>2

\* order-service with its locks, rollbacks and lost replies implements the
\* atomic lifecycle.
THEOREM ImplementsLifecycle == Spec => Lifecycle
  BY LifecycleInit, LifecycleStep, Invariance, PTL DEF Spec, Lifecycle, LC!Spec
-----------------------------------------------------------------------------
(***************************************************************************)
(* The answers.  A stamp is a tick of the clock and belongs to one request,  *)
(* so an entry with a request's stamp is that request's own.                 *)
(***************************************************************************)

\* The history of o has an entry made by the request with stamp n.
Entered(o, n) == \E i \in 1..Len(history[o]) : history[o][i].at = n

\* Stamps are of the past, and no two requests under way share one.
StampsDiffer ==
  \A t \in Txs : pc[t] # "idle" =>
    /\ stamp[t] <= clock
    /\ \A u \in Txs : pc[u] # "idle" /\ stamp[u] = stamp[t] => u = t

\* What is on record, as entry or as answer, is of the past ...
RecordsArePast ==
  /\ \A o \in Orders, n \in Nat : Entered(o, n) => n <= clock
  /\ \A a \in answers : a.at <= clock

\* ... and not of a request that is still under way.
RunningIsUnrecorded ==
  \A t \in Txs : pc[t] # "idle" =>
    /\ \A o \in Orders : ~ Entered(o, stamp[t])
    /\ \A a \in answers : a.at # stamp[t]

AnswerTrue(a) ==
  /\ a.says = "ok" => a.order \in Orders /\ Entered(a.order, a.at)
  /\ a.says \in {"missing", "conflict"} /\ a.order \in Orders => ~ Entered(a.order, a.at)

AnswersInv ==
  /\ TypeOK /\ HeldRowIsFresh
  /\ StampsDiffer /\ RecordsArePast /\ RunningIsUnrecorded
  /\ \A a \in answers : AnswerTrue(a)

\* An entry that is added is the only one that is new.
LEMMA EntryAdded ==
  ASSUME TypeOK, NEW o \in Orders, NEW e \in HistoryEntry,
         history' = [history EXCEPT ![o] = Append(@, e)]
  PROVE  \A p \in Orders, n \in Nat : Entered(p, n)' <=> Entered(p, n) \/ (p = o /\ n = e.at)
  <1> SUFFICES ASSUME NEW p \in Orders, NEW n \in Nat
               PROVE Entered(p, n)' <=> Entered(p, n) \/ (p = o /\ n = e.at)
    OBVIOUS
  <1>1. CASE p # o
    <2>1. history'[p] = history[p]
      BY <1>1 DEF TypeOK
    <2>2. QED
      BY <1>1, <2>1 DEF Entered
  <1>2. CASE p = o
    <2> DEFINE h == history[o]
               h2 == Append(h, e)
    <2>1. history'[o] = h2 /\ h \in Seq(HistoryEntry)
      BY DEF TypeOK
    <2>2. /\ Len(h) \in Nat /\ Len(h2) = Len(h) + 1
          /\ \A i \in 1..Len(h) : h2[i] = h[i]
          /\ h2[Len(h) + 1] = e
      BY <2>1, AppendEntry
    <2>3. (\E i \in 1..Len(h2) : h2[i].at = n) <=> (\E i \in 1..Len(h) : h[i].at = n) \/ n = e.at
      <3> HIDE DEF h, h2
      <3>1. 1..Len(h2) = 1..Len(h) \cup {Len(h) + 1}
        BY <2>2
      <3>2. QED
        BY <2>2, <3>1
    <2>4. QED
      BY <1>2, <2>1, <2>3 DEF Entered
  <1>3. QED
    BY <1>1, <1>2

\* A request that ends says something of itself only, and truly.
LEMMA FinishAnswers ==
  ASSUME AnswersInv, TypeOK', HeldRowIsFresh', NEW t \in Txs, pc[t] # "idle",
         NEW says \in {"ok", "missing", "conflict", "error"}, Finish(t, says),
         NEW o, o = target[t], NEW now \in Nat, now = stamp[t], NEW wrote \in BOOLEAN,
         \A p \in Orders, n \in Nat :
           Entered(p, n)' <=> Entered(p, n) \/ (wrote /\ p = o /\ n = now),
         wrote => says \in {"ok", "error"},
         says = "ok" => wrote /\ o \in Orders
  PROVE  AnswersInv'
  <1> DEFINE b == [at |-> now, order |-> o, says |-> says]
  <1>1. /\ \A u \in Txs : pc'[u] # "idle" => u # t /\ pc[u] = pc'[u] /\ stamp'[u] = stamp[u]
        /\ clock' = clock /\ answers' = answers \cup {b}
    BY DEF Finish, AnswersInv, TypeOK
  <1>2. /\ stamp[t] \in Nat /\ stamp[t] <= clock
        /\ \A u \in Txs : pc'[u] # "idle" => stamp[u] \in Nat /\ stamp[u] # stamp[t]
        /\ \A a \in answers : a.at \in Nat /\ a.at # stamp[t]
        /\ \A p \in Orders : ~ Entered(p, stamp[t])
    BY <1>1 DEF AnswersInv, StampsDiffer, RunningIsUnrecorded, TypeOK, Answer
  <1>3. StampsDiffer'
    BY <1>1 DEF AnswersInv, StampsDiffer
  <1>4. RecordsArePast'
    <2>1. \A p \in Orders, n \in Nat : Entered(p, n)' => n <= clock'
      BY <1>1, <1>2 DEF AnswersInv, RecordsArePast
    <2>2. \A a \in answers' : a.at <= clock'
      BY <1>1, <1>2 DEF AnswersInv, RecordsArePast
    <2>3. QED
      BY <2>1, <2>2 DEF RecordsArePast
  <1>5. RunningIsUnrecorded'
    <2> SUFFICES ASSUME NEW u \in Txs, pc'[u] # "idle"
                 PROVE /\ \A p \in Orders : ~ Entered(p, stamp[u])'
                       /\ \A a \in answers' : a.at # stamp[u]
      BY <1>1 DEF RunningIsUnrecorded, Entered
    <2>1. \A p \in Orders : ~ Entered(p, stamp[u])
      BY <1>1 DEF AnswersInv, RunningIsUnrecorded
    <2>2. \A p \in Orders : ~ Entered(p, stamp[u])'
      <3>1. stamp'[u] = stamp[u] /\ stamp[u] \in Nat /\ stamp[u] # stamp[t]
        BY <1>1, <1>2
      <3>2. \A p \in Orders, n \in Nat : n = stamp[u] => ~ Entered(p, n)'
        BY <2>1, <3>1
      <3>3. QED
        BY <3>1, <3>2 DEF Entered
    <2>3. \A a \in answers' : a.at # stamp[u]
      BY <1>1, <1>2 DEF AnswersInv, RunningIsUnrecorded
    <2>4. QED
      BY <2>2, <2>3
  <1>6. \A a \in answers' : AnswerTrue(a)'
    <2>1. ASSUME NEW a \in answers PROVE AnswerTrue(a)'
      <3>1. AnswerTrue(a) /\ a.at \in Nat /\ a.at # stamp[t]
        BY <1>2 DEF AnswersInv
      <3>2. a.order \in Orders => (Entered(a.order, a.at)' <=> Entered(a.order, a.at))
        BY <3>1
      <3>3. QED
        BY <3>1, <3>2 DEF AnswerTrue
    <2>2. AnswerTrue(b)'
      BY <1>2 DEF AnswerTrue
    <2>3. QED
      <3> HIDE DEF b
      <3>1. QED
        BY <1>1, <2>1, <2>2
  <1>7. QED
    BY <1>3, <1>4, <1>5, <1>6 DEF AnswersInv

\* The end of a request that wrote nothing.
LEMMA FinishUnwritten ==
  ASSUME AnswersInv, TypeOK', HeldRowIsFresh', NEW t \in Txs, pc[t] # "idle",
         NEW says \in {"missing", "conflict", "error"}, Finish(t, says), history' = history
  PROVE  AnswersInv'
  <1>1. \A p \in Orders, n \in Nat : Entered(p, n)' <=> Entered(p, n)
    BY DEF Entered
  <1>2. stamp[t] \in Nat
    BY DEF AnswersInv, TypeOK
  <1>3. ASSUME NEW o, o = target[t], NEW now \in Nat, now = stamp[t], NEW wrote \in BOOLEAN,
               wrote = FALSE
        PROVE AnswersInv'
    <2>1. \A p \in Orders, n \in Nat : Entered(p, n)' <=> Entered(p, n) \/ (wrote /\ p = o /\ n = now)
      BY <1>1, <1>3
    <2>2. (wrote => says \in {"ok", "error"}) /\ (says = "ok" => wrote /\ o \in Orders)
      BY <1>3
    <2>3. QED
      BY <1>3, <2>1, <2>2, FinishAnswers
  <1>4. QED
    BY <1>2, <1>3

\* The end of a request that wrote its entry.
LEMMA FinishWritten ==
  ASSUME AnswersInv, TypeOK', HeldRowIsFresh', NEW t \in Txs,
         NEW says \in {"ok", "error"}, Write(t), Finish(t, says)
  PROVE  AnswersInv'
  <1>1. pc[t] # "idle" /\ target[t] \in Orders /\ stamp[t] \in Nat
    BY DEF AnswersInv, TypeOK, Write, HeldRowIsFresh
  <1>2. ASSUME NEW o \in Orders, o = target[t], NEW now \in Nat, now = stamp[t]
        PROVE AnswersInv'
    <2> DEFINE e == [status |-> want[t], at |-> now]
    <2>1. e \in HistoryEntry
      BY DEF AnswersInv, TypeOK, HistoryEntry
    <2>2. history' = [history EXCEPT ![o] = Append(@, e)]
      BY <1>2 DEF Write
    <2>3. e.at = now
      OBVIOUS
    <2>4. \A p \in Orders, n \in Nat : Entered(p, n)' <=> Entered(p, n) \/ (p = o /\ n = now)
      <3> HIDE DEF e
      <3>1. QED
        BY <2>1, <2>2, <2>3, EntryAdded DEF AnswersInv
    <2>5. ASSUME NEW wrote \in BOOLEAN, wrote = TRUE PROVE AnswersInv'
      <3>1. \A p \in Orders, n \in Nat : Entered(p, n)' <=> Entered(p, n) \/ (wrote /\ p = o /\ n = now)
        BY <2>4, <2>5
      <3>2. (wrote => says \in {"ok", "error"}) /\ (says = "ok" => wrote /\ o \in Orders)
        BY <2>5
      <3>3. says \in {"ok", "missing", "conflict", "error"}
        OBVIOUS
      <3>4. QED
        BY <1>1, <1>2, <3>1, <3>2, <3>3, FinishAnswers
    <2>6. QED
      BY <2>5
  <1>3. QED
    BY <1>1, <1>2

\* Each step keeps what is known of the answers.
LEMMA AnswersStep ==
  ASSUME AnswersInv, TypeOK', HeldRowIsFresh', [Next]_vars
  PROVE  AnswersInv'
  <1>1. ASSUME NEW o \in Orders, CreateOrder(o)
        PROVE AnswersInv'
    <2> DEFINE now == clock + 1
               e == [status |-> "created", at |-> now]
    <2>1. now \in Nat /\ e \in HistoryEntry
      BY DEF AnswersInv, TypeOK, HistoryEntry, Statuses
    <2>2. clock' = now /\ UNCHANGED <<pc, stamp, answers>>
      BY <1>1 DEF CreateOrder
    <2>3. history' = [history EXCEPT ![o] = Append(@, e)]
      BY <1>1 DEF CreateOrder
    <2>4. \A p \in Orders, n \in Nat : Entered(p, n)' <=> Entered(p, n) \/ (p = o /\ n = clock')
      <3>1. e.at = clock'
        BY <2>2
      <3> HIDE DEF e
      <3>2. QED
        BY <2>1, <2>3, <3>1, EntryAdded DEF AnswersInv
    <2>5. \A a \in answers : a.at \in Nat
      BY DEF AnswersInv, TypeOK, Answer
    <2>6. StampsDiffer'
      BY <2>2 DEF AnswersInv, StampsDiffer, TypeOK
    <2>7. RecordsArePast'
      BY <2>2, <2>4, <2>5 DEF AnswersInv, RecordsArePast, TypeOK
    <2>8. RunningIsUnrecorded'
      <3> SUFFICES ASSUME NEW u \in Txs, pc[u] # "idle"
                   PROVE /\ \A p \in Orders : ~ Entered(p, stamp[u])'
                         /\ \A a \in answers : a.at # stamp[u]
        BY <2>2 DEF RunningIsUnrecorded, Entered
      <3>1. stamp[u] \in Nat /\ stamp[u] < clock' /\ stamp'[u] = stamp[u]
        BY <2>2 DEF AnswersInv, StampsDiffer, TypeOK
      <3>2. \A p \in Orders, n \in Nat : n = stamp[u] => ~ Entered(p, n)'
        BY <2>4, <3>1 DEF AnswersInv, RunningIsUnrecorded
      <3>3. QED
        BY <3>1, <3>2 DEF Entered, AnswersInv, RunningIsUnrecorded
    <2>9. ASSUME NEW a \in answers PROVE AnswerTrue(a)'
      <3>1. a.at \in Nat /\ a.at < clock' /\ AnswerTrue(a)
        BY <2>2, <2>5 DEF AnswersInv, RecordsArePast, TypeOK
      <3>2. a.order \in Orders => (Entered(a.order, a.at)' <=> Entered(a.order, a.at))
        BY <2>4, <3>1
      <3>3. QED
        BY <3>1, <3>2 DEF AnswerTrue
    <2>10. QED
      BY <2>2, <2>6, <2>7, <2>8, <2>9 DEF AnswersInv
  <1>2. ASSUME NEW t \in Txs, NEW o \in Orders \cup {Unknown}, NEW s \in Requestable,
               Begin(t, o, s)
        PROVE AnswersInv'
    <2>1. clock' = clock + 1 /\ clock \in Nat /\ UNCHANGED <<history, answers>>
      BY <1>2 DEF Begin, committed, AnswersInv, TypeOK
    <2>2. \A u \in Txs : \/ u = t /\ stamp'[u] = clock'
                         \/ u # t /\ stamp'[u] = stamp[u] /\ pc'[u] = pc[u]
      BY <1>2 DEF Begin, AnswersInv, TypeOK
    <2>3. \A u \in Txs : stamp[u] \in Nat
      BY DEF AnswersInv, TypeOK
    <2>4. \A p \in Orders, n \in Nat : Entered(p, n)' <=> Entered(p, n)
      BY <2>1 DEF Entered
    <2>5. \A a \in answers : a.at \in Nat
      BY DEF AnswersInv, TypeOK, Answer
    <2>6. StampsDiffer'
      BY <2>1, <2>2, <2>3 DEF AnswersInv, StampsDiffer
    <2>7. RecordsArePast'
      BY <2>1, <2>4, <2>5 DEF AnswersInv, RecordsArePast
    <2>8. RunningIsUnrecorded'
      <3> SUFFICES ASSUME NEW u \in Txs, pc'[u] # "idle"
                   PROVE /\ \A p \in Orders : ~ Entered(p, stamp[u])'
                         /\ \A a \in answers : a.at # stamp'[u]
        BY <2>1 DEF RunningIsUnrecorded, Entered
      <3>1. stamp'[u] \in Nat
        BY <2>1, <2>2, <2>3
      <3>2. \A p \in Orders, n \in Nat : n = stamp'[u] => ~ Entered(p, n)
        BY <2>1, <2>2 DEF AnswersInv, RunningIsUnrecorded, RecordsArePast
      <3>3. \A a \in answers : a.at # stamp'[u]
        BY <2>1, <2>2, <2>5 DEF AnswersInv, RunningIsUnrecorded, RecordsArePast
      <3>4. QED
        BY <2>1, <3>1, <3>2, <3>3 DEF Entered
    <2>9. ASSUME NEW a \in answers PROVE AnswerTrue(a)'
      <3>1. AnswerTrue(a)
        BY DEF AnswersInv
      <3>2. Entered(a.order, a.at)' <=> Entered(a.order, a.at)
        BY <2>1 DEF Entered
      <3>3. QED
        BY <3>1, <3>2 DEF AnswerTrue
    <2>10. QED
      BY <2>1, <2>6, <2>7, <2>8, <2>9 DEF AnswersInv
  <1>3. ASSUME NEW t \in Txs, NotFound(t)
        PROVE AnswersInv'
    BY <1>3, FinishUnwritten DEF NotFound, committed
  <1>4. CASE \/ UNCHANGED vars
             \/ \E t \in Txs : Lock(t)
    <2>1. UNCHANGED <<clock, stamp, answers, history>>
      BY <1>4 DEF Lock, vars, committed
    <2>2. \A u \in Txs : pc'[u] # "idle" => pc[u] # "idle"
      BY <1>4 DEF Lock, vars, AnswersInv, TypeOK
    <2>3. QED
      BY <2>1, <2>2 DEF AnswersInv, StampsDiffer, RecordsArePast, RunningIsUnrecorded, AnswerTrue,
                        Entered
  <1>5. ASSUME NEW t \in Txs, Refuse(t)
        PROVE AnswersInv'
    BY <1>5, FinishUnwritten DEF Refuse, committed
  <1>6. ASSUME NEW t \in Txs, Commit(t)
        PROVE AnswersInv'
    BY <1>6, FinishWritten DEF Commit
  <1>7. ASSUME NEW t \in Txs, CommitUnanswered(t)
        PROVE AnswersInv'
    BY <1>7, FinishWritten DEF CommitUnanswered
  <1>8. ASSUME NEW t \in Txs, Abort(t)
        PROVE AnswersInv'
    BY <1>8, FinishUnwritten DEF Abort, committed
  <1>9. QED
    BY <1>1, <1>2, <1>3, <1>4, <1>5, <1>6, <1>7, <1>8 DEF Next

\* So it holds of every behaviour.
LEMMA AnswersHold == Spec => []AnswersInv
  <1>1. Init => AnswersInv
    <2>1. Init => TypeOK /\ HeldRowIsFresh
      BY InvInit DEF ServiceInv
    <2>2. Init => StampsDiffer /\ RunningIsUnrecorded
      BY DEF Init, StampsDiffer, RunningIsUnrecorded
    <2>3. Init => RecordsArePast /\ \A a \in answers : AnswerTrue(a)
      BY DEF Init, RecordsArePast, Entered
    <2>4. QED
      BY <2>1, <2>2, <2>3 DEF AnswersInv
  <1>2. AnswersInv /\ ServiceInv /\ ServiceInv' /\ [Next]_vars => AnswersInv'
    BY AnswersStep DEF ServiceInv
  <1>3. QED
    BY <1>1, <1>2, Invariance, PTL DEF Spec

\* For any orders and any number of concurrent requests, who is told 200 finds
\* its entry in the history, who is told 404 or 409 left none.
THEOREM AnswersAlwaysTrue == Spec => []AnswersAreTrue
  <1>1. AnswersInv => AnswersAreTrue
    BY DEF AnswersInv, AnswersAreTrue, AnswerTrue, Entered
  <1>2. QED
    BY <1>1, AnswersHold, PTL
-----------------------------------------------------------------------------
(***************************************************************************)
(* The listing.  Entries have different stamps, so the row's own is found by *)
(* its stamp; and whoever transitions an order begins after it was created.  *)
(***************************************************************************)

\* The entries of an order have different stamps.
EntriesDiffer ==
  \A o \in Orders : \A i, j \in 1..Len(history[o]) : history[o][i].at = history[o][j].at => i = j

\* An order is created before anything else is asked of it.
CreatedFirst ==
  /\ \A o \in Orders : \A j \in 1..Len(history[o]) :
       history[o][1].status = "created" /\ (j # 1 => history[o][1].at < history[o][j].at)
  /\ \A t \in Txs : pc[t] # "idle" /\ target[t] \in Orders => history[target[t]][1].at < stamp[t]

\* One more entry, with a stamp of its own.
LEMMA EntryListed ==
  ASSUME TypeOK, EntriesDiffer, CreatedFirst, NEW o \in Orders, NEW e \in HistoryEntry,
         history' = [history EXCEPT ![o] = Append(@, e)],
         ~ Entered(o, e.at),
         IF history[o] = <<>> THEN e.status = "created" ELSE history[o][1].at < e.at
  PROVE  /\ EntriesDiffer'
         /\ \A p \in Orders : \A j \in 1..Len(history'[p]) :
              history'[p][1].status = "created" /\ (j # 1 => history'[p][1].at < history'[p][j].at)
         /\ \A p \in Orders : history[p] # <<>> => history'[p][1] = history[p][1]
  <1> DEFINE h == history[o]
             n == Len(h)
             h2 == Append(h, e)
  <1>1. /\ h \in Seq(HistoryEntry) /\ history'[o] = h2
        /\ \A p \in Orders : p # o => history'[p] = history[p]
    BY DEF TypeOK
  <1>2. /\ n \in Nat /\ Len(h2) = n + 1
        /\ \A i \in 1..n : h2[i] = h[i]
        /\ h2[n + 1] = e
        /\ h = <<>> <=> n = 0
    BY <1>1, AppendEntry, EmptySeq
  <1>3. \A i \in 1..n : h[i].at # e.at
    BY DEF Entered
  <1>4. \A i, j \in 1..n : h[i].at = h[j].at => i = j
    BY DEF EntriesDiffer
  <1>5. \A j \in 1..n : h[1].status = "created" /\ (j # 1 => h[1].at < h[j].at)
    BY DEF CreatedFirst
  <1>6. h = <<>> => e.status = "created"
    OBVIOUS
  <1>7. h # <<>> => h[1].at < e.at
    OBVIOUS
  <1>8. \A i, j \in 1..Len(h2) : h2[i].at = h2[j].at => i = j
    <2> HIDE DEF h, n, h2
    <2>1. \A i \in 1..Len(h2) : i \in 1..n \/ i = n + 1
      BY <1>2
    <2>2. QED
      BY <1>2, <1>3, <1>4, <2>1
  <1>9. \A j \in 1..Len(h2) : h2[1].status = "created" /\ (j # 1 => h2[1].at < h2[j].at)
    <2> HIDE DEF h, n, h2
    <2>1. CASE n = 0
      BY <1>2, <1>6, <2>1
    <2>2. CASE n # 0
      <3>1. h2[1] = h[1] /\ h[1].status = "created" /\ h[1].at < e.at
        BY <1>2, <1>5, <1>7, <2>2
      <3>2. \A j \in 1..Len(h2) : (j \in 1..n /\ h2[j] = h[j]) \/ (j = n + 1 /\ h2[j] = e)
        BY <1>2
      <3>3. QED
        BY <1>5, <3>1, <3>2
    <2>3. QED
      BY <2>1, <2>2
  <1>10. h # <<>> => h2[1] = h[1]
    <2> HIDE DEF h, n, h2
    <2>1. QED
      BY <1>2
  <1>11. EntriesDiffer'
    <2> HIDE DEF h2
    <2>1. QED
      BY <1>1, <1>8 DEF EntriesDiffer
  <1>12. ASSUME NEW p \in Orders
         PROVE  /\ \A j \in 1..Len(history'[p]) :
                     history'[p][1].status = "created" /\ (j # 1 => history'[p][1].at < history'[p][j].at)
                /\ history[p] # <<>> => history'[p][1] = history[p][1]
    <2>1. CASE p = o
      BY <1>1, <1>9, <1>10, <2>1
    <2>2. CASE p # o
      BY <1>1, <2>2 DEF CreatedFirst
    <2>3. QED
      BY <2>1, <2>2
  <1>13. QED
    BY <1>11, <1>12

\* Each step keeps the order of the listing.
LEMMA ListingStep ==
  ASSUME ServiceInv, AnswersInv, EntriesDiffer, CreatedFirst, [Next]_vars
  PROVE  EntriesDiffer' /\ CreatedFirst'
  <1> USE DEF ServiceInv, AnswersInv
  <1>1. ASSUME NEW t \in Txs, pc[t] # "idle", target[t] \in Orders
        PROVE  history[target[t]] # <<>>
    BY <1>1 DEF TargetsExist, RowIsLastEntry
  <1>2. ASSUME NEW o \in Orders, CreateOrder(o)
        PROVE  EntriesDiffer' /\ CreatedFirst'
    <2> DEFINE now == clock + 1
               e == [status |-> "created", at |-> now]
    <2>1. now \in Nat /\ e \in HistoryEntry /\ e.at = now /\ e.status = "created"
      BY DEF TypeOK, HistoryEntry, Statuses
    <2>2. history' = [history EXCEPT ![o] = Append(@, e)] /\ UNCHANGED <<pc, target, stamp>>
      BY <1>2 DEF CreateOrder
    <2>3. history[o] = <<>>
      BY <1>2 DEF CreateOrder, RowIsLastEntry
    <2>4. ~ Entered(o, now)
      BY <2>1 DEF RecordsArePast, TypeOK
    <2>5. /\ EntriesDiffer'
          /\ \A p \in Orders : \A j \in 1..Len(history'[p]) :
               history'[p][1].status = "created" /\ (j # 1 => history'[p][1].at < history'[p][j].at)
          /\ \A p \in Orders : history[p] # <<>> => history'[p][1] = history[p][1]
      <3> HIDE DEF e, now
      <3>1. QED
        BY <2>1, <2>2, <2>3, <2>4, EntryListed
    <2>6. QED
      BY <1>1, <2>2, <2>5 DEF CreatedFirst
  <1>3. ASSUME NEW t \in Txs, Write(t), \E a : Finish(t, a)
        PROVE  EntriesDiffer' /\ CreatedFirst'
    <2> DEFINE o == target[t]
               e == [status |-> want[t], at |-> stamp[t]]
    <2>1. o \in Orders /\ pc[t] # "idle" /\ e \in HistoryEntry /\ e.at = stamp[t]
      BY <1>3 DEF Write, HeldRowIsFresh, TypeOK, HistoryEntry
    <2>2. history' = [history EXCEPT ![o] = Append(@, e)]
      BY <1>3 DEF Write
    <2>3. history[o] # <<>> /\ history[o][1].at < e.at /\ ~ Entered(o, e.at)
      BY <1>1, <2>1 DEF CreatedFirst, RunningIsUnrecorded
    <2>4. /\ EntriesDiffer'
          /\ \A p \in Orders : \A j \in 1..Len(history'[p]) :
               history'[p][1].status = "created" /\ (j # 1 => history'[p][1].at < history'[p][j].at)
          /\ \A p \in Orders : history[p] # <<>> => history'[p][1] = history[p][1]
      <3> HIDE DEF e, o
      <3>1. QED
        BY <2>1, <2>2, <2>3, EntryListed
    <2>5. \A u \in Txs : pc'[u] # "idle" => pc[u] # "idle" /\ target'[u] = target[u] /\ stamp'[u] = stamp[u]
      BY <1>3 DEF Finish, TypeOK
    <2>6. QED
      BY <1>1, <2>4, <2>5 DEF CreatedFirst
  <1>4. ASSUME NEW t \in Txs, NEW o \in Orders \cup {Unknown}, NEW s \in Requestable, Begin(t, o, s)
        PROVE  EntriesDiffer' /\ CreatedFirst'
    <2>1. UNCHANGED history
      BY <1>4 DEF Begin, committed
    <2>2. \A u \in Txs : \/ u = t /\ stamp'[u] = clock + 1 /\ target'[u] = o
                         \/ u # t /\ stamp'[u] = stamp[u] /\ pc'[u] = pc[u] /\ target'[u] = target[u]
      BY <1>4 DEF Begin, TypeOK
    <2>3. ASSUME o \in Orders PROVE history[o][1].at < clock + 1
      <3>1. history[o] # <<>> /\ history[o] \in Seq(HistoryEntry)
        BY <1>4, <2>3 DEF Begin, RowIsLastEntry, TypeOK
      <3>2. 1 \in 1..Len(history[o]) /\ history[o][1] \in HistoryEntry
        BY <3>1, EmptySeq, ElementOfSeq
      <3>3. \A m \in Nat : m = history[o][1].at => Entered(o, m)
        BY <3>2 DEF Entered
      <3>4. history[o][1].at \in Nat /\ history[o][1].at <= clock
        BY <2>3, <3>2, <3>3 DEF RecordsArePast, HistoryEntry
      <3>5. QED
        BY <3>4 DEF TypeOK
    <2>4. QED
      BY <2>1, <2>2, <2>3 DEF EntriesDiffer, CreatedFirst
  <1>5. ASSUME NEW t \in Txs, UNCHANGED committed, Lock(t) \/ \E a : Finish(t, a)
        PROVE  EntriesDiffer' /\ CreatedFirst'
    <2>1. UNCHANGED history
      BY <1>5 DEF committed
    <2>2. \A u \in Txs : pc'[u] # "idle" => pc[u] # "idle" /\ target'[u] = target[u] /\ stamp'[u] = stamp[u]
      BY <1>5 DEF Lock, Finish, TypeOK
    <2>3. QED
      BY <2>1, <2>2 DEF EntriesDiffer, CreatedFirst
  <1>6. CASE UNCHANGED vars
    BY <1>6 DEF vars, committed, EntriesDiffer, CreatedFirst
  <1>7. ASSUME NEW t \in Txs, NotFound(t) \/ Lock(t) \/ Refuse(t) \/ Abort(t)
        PROVE  EntriesDiffer' /\ CreatedFirst'
    BY <1>5, <1>7 DEF NotFound, Lock, Refuse, Abort
  <1>8. ASSUME NEW t \in Txs, Commit(t) \/ CommitUnanswered(t)
        PROVE  EntriesDiffer' /\ CreatedFirst'
    BY <1>3, <1>8 DEF Commit, CommitUnanswered
  <1>9. QED
    BY <1>2, <1>4, <1>6, <1>7, <1>8 DEF Next

\* For any orders and any number of concurrent requests, the history as it is listed begins
\* with the creation, and has the row's status at the row's updated_at.
THEOREM RowAlwaysAgreesWithHistory == Spec => []RowAgreesWithHistory
  <1>1. Init => EntriesDiffer /\ CreatedFirst
    BY DEF Init, EntriesDiffer, CreatedFirst
  <1>2. ServiceInv /\ AnswersInv /\ EntriesDiffer /\ CreatedFirst /\ [Next]_vars
          => EntriesDiffer' /\ CreatedFirst'
    BY ListingStep
  <1>3. ServiceInv /\ EntriesDiffer /\ CreatedFirst => RowAgreesWithHistory
    <2> SUFFICES ASSUME ServiceInv, EntriesDiffer, CreatedFirst, NEW o \in Orders, status[o] # LC!Absent
                 PROVE  /\ \E i \in 1..Len(history[o]) :
                             /\ history[o][i].status = "created"
                             /\ \A j \in 1..Len(history[o]) : j # i => history[o][i].at < history[o][j].at
                        /\ \E i \in 1..Len(history[o]) :
                             /\ history[o][i] = [status |-> status[o], at |-> updated[o]]
                             /\ \A j \in 1..Len(history[o]) : history[o][j].at = updated[o] => j = i
      BY DEF RowAgreesWithHistory, ServiceInv, RowIsLastEntry
    <2>1. /\ history[o] # <<>> /\ history[o] \in Seq(HistoryEntry)
          /\ history[o][Len(history[o])] = [status |-> status[o], at |-> updated[o]]
      BY DEF ServiceInv, RowIsLastEntry, TypeOK
    <2>2. Len(history[o]) \in Nat \ {0}
      BY <2>1, EmptySeq
    <2>3. 1 \in 1..Len(history[o]) /\ Len(history[o]) \in 1..Len(history[o])
      BY <2>2
    <2>4. \A j \in 1..Len(history[o]) : history[o][j].at = updated[o] => j = Len(history[o])
      BY <2>1, <2>3 DEF EntriesDiffer
    <2>5. QED
      BY <2>1, <2>3, <2>4 DEF CreatedFirst
  <1>4. QED
    BY <1>1, <1>2, <1>3, Invariance, AnswersHold, PTL DEF Spec
=============================================================================

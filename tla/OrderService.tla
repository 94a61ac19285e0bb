---------------------------- MODULE OrderService ----------------------------
(***************************************************************************)
(* order-service: the transactions behind POST /orders and                  *)
(* POST /orders/{id}/transitions.  A transition reads the clock, takes the  *)
(* row with SELECT ... FOR UPDATE, checks the move it is asked for against  *)
(* the status it read, then writes the row and one history entry and        *)
(* commits; any exception rolls it back.  Requests run concurrently (one    *)
(* coroutine each, any number of pods), so a request is a transaction       *)
(* t \in Txs that may stop between any two of these steps.                  *)
(*                                                                          *)
(* Uncommitted writes are invisible to other transactions, so UPDATE,       *)
(* INSERT and COMMIT are one step; a failure between them is Abort.         *)
(***************************************************************************)
EXTENDS Naturals, Sequences

CONSTANTS
  Orders,        \* ids of orders that may be created
  Unknown,       \* an id no row ever has
  Txs,           \* requests that can be in progress at the same time
  NoTx,          \* the holder of a free row
  MaxClock       \* bound: how many requests are made in all

ASSUME OrderServiceAssumption ==
  /\ Unknown \notin Orders
  /\ NoTx \notin Txs
  /\ MaxClock \in Nat

VARIABLES
  status,        \* orders.status, committed
  updated,       \* orders.updated_at, committed
  history,       \* order_status_history, committed, in commit order
  rowLock,       \* the transaction that holds the row, or NoTx
  clock,         \* datetime.now(UTC): a tick per request
  pc,            \* idle | locking (before FOR UPDATE returns) | locked
  target,        \* path parameter order_id
  want,          \* request.status
  stamp,         \* `now`, read before the row is locked
  seen,          \* row["status"] as SELECT ... FOR UPDATE returned it
  answers        \* what callers were told: 200, 404, 409 or an error

\* What other transactions can read.
committed == <<status, updated, history>>

vars == <<committed, rowLock, clock, pc, target, want, stamp, seen, answers>>

Statuses == {"created", "invoice_generated", "payment_completed",
             "payment_failed", "receipt_generated", "notification_sent"}

\* Mutant: the schema lets a status through that the table does not know.
RequestableUnchecked == Statuses \cup {"cancelled"}

\* TransitionOrderRequest.status admits every status but the initial one.
Requestable == Statuses \ {"created"}

LC == INSTANCE OrderLifecycle WITH
        trail <- [o \in Orders |-> [i \in 1..Len(history[o]) |-> history[o][i].status]]

Init ==
  /\ status = [o \in Orders |-> LC!Absent]
  /\ updated = [o \in Orders |-> 0]
  /\ history = [o \in Orders |-> <<>>]
  /\ rowLock = [o \in Orders |-> NoTx]
  /\ clock = 0
  /\ pc = [t \in Txs |-> "idle"]
  /\ target = [t \in Txs |-> Unknown]
  /\ want = [t \in Txs |-> "created"]
  /\ stamp = [t \in Txs |-> 0]
  /\ seen = [t \in Txs |-> LC!Absent]
  /\ answers = {}

\* create_order: INSERT of the row and of its first history entry, one commit.
\* Nobody can name the order before the commit returns its id.
CreateOrder(o) ==
  /\ clock < MaxClock
  /\ status[o] = LC!Absent
  /\ clock' = clock + 1
  /\ status' = [status EXCEPT ![o] = "created"]
  /\ updated' = [updated EXCEPT ![o] = clock']
  /\ history' = [history EXCEPT ![o] = Append(@, [status |-> "created", at |-> clock'])]
  /\ UNCHANGED <<rowLock, pc, target, want, stamp, seen, answers>>

\* transition_order up to its first await: `now` is taken here.
Begin(t, o, s) ==
  /\ pc[t] = "idle"
  /\ clock < MaxClock
  /\ o \in Orders => status[o] # LC!Absent
  /\ clock' = clock + 1
  /\ pc' = [pc EXCEPT ![t] = "locking"]
  /\ target' = [target EXCEPT ![t] = o]
  /\ want' = [want EXCEPT ![t] = s]
  /\ stamp' = [stamp EXCEPT ![t] = clock']
  /\ UNCHANGED <<committed, rowLock, seen, answers>>

\* Mutant: the session is not closed, so the row stays locked.
FinishKeepsLock(t, answer) ==
  /\ pc' = [pc EXCEPT ![t] = "idle"]
  /\ answers' = answers \cup {[at |-> stamp[t], order |-> target[t], says |-> answer]}
  /\ target' = [target EXCEPT ![t] = Unknown]
  /\ want' = [want EXCEPT ![t] = "created"]
  /\ stamp' = [stamp EXCEPT ![t] = 0]
  /\ seen' = [seen EXCEPT ![t] = LC!Absent]
  /\ UNCHANGED <<rowLock, clock>>

\* The end of a request: its answer, its locks released, its locals gone.
Finish(t, answer) ==
  /\ pc' = [pc EXCEPT ![t] = "idle"]
  /\ rowLock' = [o \in Orders |-> IF rowLock[o] = t THEN NoTx ELSE rowLock[o]]
  /\ answers' = answers \cup {[at |-> stamp[t], order |-> target[t], says |-> answer]}
  /\ target' = [target EXCEPT ![t] = Unknown]
  /\ want' = [want EXCEPT ![t] = "created"]
  /\ stamp' = [stamp EXCEPT ![t] = 0]
  /\ seen' = [seen EXCEPT ![t] = LC!Absent]
  /\ UNCHANGED clock

\* The SELECT finds no row: return None, 404.
NotFound(t) ==
  /\ pc[t] = "locking"
  /\ target[t] = Unknown
  /\ Finish(t, "missing")
  /\ UNCHANGED committed

\* Mutant: a plain SELECT, which waits for nobody.
LockWithoutForUpdate(t) ==
  /\ pc[t] = "locking"
  /\ target[t] # Unknown
  /\ rowLock' = [rowLock EXCEPT ![target[t]] = t]
  /\ seen' = [seen EXCEPT ![t] = status[target[t]]]
  /\ pc' = [pc EXCEPT ![t] = "locked"]
  /\ UNCHANGED <<committed, clock, target, want, stamp, answers>>

\* SELECT ... FOR UPDATE returns: nobody else holds the row.
Lock(t) ==
  /\ pc[t] = "locking"
  /\ target[t] # Unknown
  /\ rowLock[target[t]] = NoTx
  /\ rowLock' = [rowLock EXCEPT ![target[t]] = t]
  /\ seen' = [seen EXCEPT ![t] = status[target[t]]]
  /\ pc' = [pc EXCEPT ![t] = "locked"]
  /\ UNCHANGED <<committed, clock, target, want, stamp, answers>>

\* The move is not in the table: raise, roll back, 409.
Refuse(t) ==
  /\ pc[t] = "locked"
  /\ ~ LC!Allowed(seen[t], want[t])
  /\ Finish(t, "conflict")
  /\ UNCHANGED committed

\* UPDATE orders and INSERT INTO order_status_history become visible together.
Write(t) ==
  /\ pc[t] = "locked"
  /\ LC!Allowed(seen[t], want[t])
  /\ status' = [status EXCEPT ![target[t]] = want[t]]
  /\ updated' = [updated EXCEPT ![target[t]] = stamp[t]]
  /\ history' = [history EXCEPT ![target[t]] =
                   Append(@, [status |-> want[t], at |-> stamp[t]])]

Commit(t) == Write(t) /\ Finish(t, "ok")

\* The commit takes effect and the caller never learns it.
CommitUnanswered(t) == Write(t) /\ Finish(t, "error")

\* Mutant: autocommit, the UPDATE survives the INSERT's failure.
AbortKeepsUpdate(t) ==
  /\ pc[t] # "idle"
  /\ Finish(t, "error")
  /\ IF pc[t] = "locked" /\ LC!Allowed(seen[t], want[t])
     THEN /\ status' = [status EXCEPT ![target[t]] = want[t]]
          /\ updated' = [updated EXCEPT ![target[t]] = stamp[t]]
     ELSE UNCHANGED <<status, updated>>
  /\ UNCHANGED history

\* Mutant: the response is sent before the commit, which then fails.
AbortAfterAnswer(t) ==
  /\ pc[t] # "idle"
  /\ Finish(t, IF pc[t] = "locked" /\ LC!Allowed(seen[t], want[t]) THEN "ok" ELSE "error")
  /\ UNCHANGED committed

\* A statement fails, the request is cancelled or its process dies: rolled back.
Abort(t) ==
  /\ pc[t] # "idle"
  /\ Finish(t, "error")
  /\ UNCHANGED committed

Next ==
  \/ \E o \in Orders : CreateOrder(o)
  \/ \E t \in Txs :
       \/ \E o \in Orders \cup {Unknown}, s \in Requestable : Begin(t, o, s)
       \/ NotFound(t) \/ Lock(t) \/ Refuse(t) \/ Commit(t)
       \/ CommitUnanswered(t) \/ Abort(t)

\* A request runs on by itself; PostgreSQL queues the waiters of a row, so a
\* transaction that waits for a row that keeps coming free gets it.
Fairness ==
  \A t \in Txs : /\ WF_vars(NotFound(t) \/ Refuse(t) \/ Commit(t))
                 /\ SF_vars(Lock(t))

Spec == Init /\ [][Next]_vars

FairSpec == Spec /\ Fairness
-----------------------------------------------------------------------------
HistoryEntry == [status : Statuses, at : Nat]

Answer == [at : Nat, order : Orders \cup {Unknown},
           says : {"ok", "missing", "conflict", "error"}]

\* The values the variables range over.
TypeOK ==
  /\ status \in [Orders -> Statuses \cup {LC!Absent}]
  /\ updated \in [Orders -> Nat]
  /\ history \in [Orders -> Seq(HistoryEntry)]
  /\ rowLock \in [Orders -> Txs \cup {NoTx}]
  /\ clock \in Nat
  /\ pc \in [Txs -> {"idle", "locking", "locked"}]
  /\ target \in [Txs -> Orders \cup {Unknown}]
  /\ want \in [Txs -> Statuses]
  /\ stamp \in [Txs -> Nat]
  /\ seen \in [Txs -> Statuses \cup {LC!Absent}]
  /\ answers \subseteq Answer

\* GET /orders/{id}/history lists the entries by created_at, which is read before
\* the row is locked, so the listing of overlapping transitions need not end with
\* the status the row shows.  What a reader can rely on: an order that exists is
\* listed as created first, and the one entry dated with the row's updated_at has
\* the row's status; an order that does not exist has no entry.
RowAgreesWithHistory ==
  \A o \in Orders :
    LET h == history[o]
    IN IF status[o] = LC!Absent
       THEN h = <<>>
       ELSE /\ \E i \in 1..Len(h) :
                 /\ h[i].status = "created"
                 /\ \A j \in 1..Len(h) : j # i => h[i].at < h[j].at
            /\ \E i \in 1..Len(h) :
                 /\ h[i] = [status |-> status[o], at |-> updated[o]]
                 /\ \A j \in 1..Len(h) : h[j].at = updated[o] => j = i

\* How far along its life an order is.
Rank == [created |-> 0, invoice_generated |-> 1, payment_failed |-> 2,
         payment_completed |-> 3, receipt_generated |-> 4, notification_sent |-> 5]

\* However requests interleave, an order's history never goes back and never
\* repeats a status, a failed payment excepted: an order is paid at most once,
\* and has a receipt only after it is paid.
ForwardOnly ==
  \A o \in Orders : \A i, j \in 1..Len(history[o]) :
    i < j => \/ Rank[history[o][i].status] < Rank[history[o][j].status]
             \/ history[o][i].status = "payment_failed" /\ history[o][j].status = "payment_failed"

\* A caller told 200 finds its entry in the history, one told 404 or 409 left
\* none there; only an error leaves it open whether the move was made.
AnswersAreTrue ==
  \A a \in answers :
    LET entered == \E o \in Orders : \E i \in 1..Len(history[o]) :
                     o = a.order /\ history[o][i].at = a.at
    IN /\ a.says = "ok" => entered
       /\ a.says \in {"missing", "conflict"} => ~ entered

\* Each request does what the lifecycle allows or nothing at all.
Lifecycle == LC!Spec

\* Every request is answered: a row lock is never kept by a request that is over.
EveryRequestAnswered == \A t \in Txs : pc[t] # "idle" ~> pc[t] = "idle"
=============================================================================

---------------------------- MODULE StreamWorker ----------------------------
(***************************************************************************)
(* How workflow-service takes commands and events off Redis Streams: the    *)
(* loop of WorkflowProcessor (run, _run_once, _process_message), the Redis   *)
(* client under it and the start and stop of the background task.  What a    *)
(* handler does is left to CheckoutSaga; here it returns or raises.          *)
(*                                                                          *)
(* A stream is the number of entries appended to it: entry i is the i-th     *)
(* XADD.  XREADGROUP asks for ">" only, so it hands out the entries after    *)
(* the group's last delivered one, up to COUNT of them, and puts them in the *)
(* pending entries list; a worker's batch is therefore an interval           *)
(* cur..hi of one stream.  Nothing ever claims a pending entry again.        *)
(*                                                                          *)
(* Each await is one step.  An await that fails may have taken effect        *)
(* before the failure (Interrupted).                                         *)
(***************************************************************************)
EXTENDS Integers, FiniteSets, TLC

CONSTANTS
  Workers,       \* worker tasks that may run at once: pods of a rolling update
  NStreams,      \* streams 1..NStreams, read in this order: commands, events
  BatchSize,     \* COUNT of XREADGROUP (10)
  MaxLen,        \* bound: entries per stream
  Faults         \* what may go wrong, a subset of AllFaults

\* "redis" is a lost connection, "reply" an error that Redis answers.
AllFaults == {"redis", "reply", "db", "stop", "crash"}

ASSUME StreamWorkerAssumption ==
  /\ NStreams \in Nat \ {0}
  /\ BatchSize \in Nat \ {0}
  /\ MaxLen \in Nat
  /\ Faults \subseteq AllFaults

Streams == 1..NStreams

VARIABLES
  \* Redis
  appended,      \* entries ever added to each stream
  grouped,       \* whether the consumer group exists
  start,         \* the last entry when the group was created ($)
  delivered,     \* the group's last delivered entry
  pel,           \* pending entries <<stream, entry>>: delivered, not acknowledged
  deadLetters,   \* entries copied to the dead letter stream
  \* PostgreSQL
  records,       \* processed_stream_messages
  \* each worker task
  pc,            \* the await it is at
  link,          \* its Redis connection: up, or broken until it is closed
  on,            \* the stream it is at
  cur, hi,       \* the entry it processes and the last one of its batch
  verdict,       \* processed_status
  after          \* where control goes when the finally block ends

redisVars  == <<appended, grouped, start, delivered, pel, deadLetters>>
workerVars == <<pc, link, on, cur, hi, verdict, after>>
streamVars == <<redisVars, records, workerVars>>

PCs == {"down", "ensure", "read", "handle", "deadLetter", "markFailed",
        "record", "ack", "loopError", "dead"}

Entry(w) == <<on[w], cur[w]>>

\* The entries a worker has read and is not done with.
Batch(w) == {<<on[w], i>> : i \in cur[w]..hi[w]}

\* Every pod has the one WORKFLOW_WORKER_CONSUMER_NAME of the deployment, so the
\* consumer_name in the unique key tells no two records apart.
Recorded(e) == \E st \in {"processed", "failed"} :
                 [stream |-> e[1], entry |-> e[2], status |-> st] \in records

Init ==
  /\ appended = [s \in Streams |-> 0]
  /\ grouped = [s \in Streams |-> FALSE]
  /\ start = [s \in Streams |-> 0]
  /\ delivered = [s \in Streams |-> 0]
  /\ pel = {}
  /\ deadLetters = {}
  /\ records = {}
  /\ pc = [w \in Workers |-> "down"]
  /\ link = [w \in Workers |-> "up"]
  /\ on = [w \in Workers |-> 1]
  /\ cur = [w \in Workers |-> 1]
  /\ hi = [w \in Workers |-> 0]
  /\ verdict = [w \in Workers |-> "processed"]
  /\ after = [w \in Workers |-> "next"]
-----------------------------------------------------------------------------
\* What the awaits do to Redis and to PostgreSQL.

NoEffect == UNCHANGED <<redisVars, records>>

\* XADD to a stream.
AppendEntry(s) ==
  /\ appended[s] < MaxLen
  /\ appended' = [appended EXCEPT ![s] = @ + 1]
  /\ UNCHANGED <<grouped, start, delivered, pel, deadLetters, records>>

\* Mutant: the group is made anew when it exists.
CreateGroupAnew(s) ==
  /\ grouped' = [grouped EXCEPT ![s] = TRUE]
  /\ start' = IF grouped[s] THEN start ELSE [start EXCEPT ![s] = appended[s]]
  /\ delivered' = [delivered EXCEPT ![s] = start'[s]]
  /\ UNCHANGED <<appended, pel, deadLetters, records>>

\* XGROUP CREATE ... $ MKSTREAM: BUSYGROUP when the group exists.
CreateGroup(s) ==
  /\ grouped' = [grouped EXCEPT ![s] = TRUE]
  /\ start' = IF grouped[s] THEN start ELSE [start EXCEPT ![s] = appended[s]]
  /\ delivered' = IF grouped[s] THEN delivered ELSE [delivered EXCEPT ![s] = appended[s]]
  /\ UNCHANGED <<appended, pel, deadLetters, records>>

\* The last entry XREADGROUP ... COUNT BatchSize ... > hands out.
LastRead(s) ==
  IF delivered[s] + BatchSize < appended[s] THEN delivered[s] + BatchSize ELSE appended[s]

\* Mutant: read without a group, from the same entry again.
DeliverBatchAgain(s) ==
  /\ pel' = pel \cup {<<s, i>> : i \in (delivered[s] + 1)..LastRead(s)}
  /\ UNCHANGED <<appended, grouped, start, delivered, deadLetters, records>>

DeliverBatch(s) ==
  /\ delivered' = [delivered EXCEPT ![s] = LastRead(s)]
  /\ pel' = pel \cup {<<s, i>> : i \in (delivered[s] + 1)..LastRead(s)}
  /\ UNCHANGED <<appended, grouped, start, deadLetters, records>>

PublishDeadLetter(w) ==
  /\ deadLetters' = deadLetters \cup {Entry(w)}
  /\ UNCHANGED <<appended, grouped, start, delivered, pel, records>>

\* INSERT ... ON CONFLICT DO NOTHING.
RecordProcessed(w) ==
  /\ records' = IF Recorded(Entry(w)) THEN records
                ELSE records \cup {[stream |-> on[w], entry |-> cur[w], status |-> verdict[w]]}
  /\ UNCHANGED <<appended, grouped, start, delivered, pel, deadLetters>>

Acknowledge(w) ==
  /\ pel' = pel \ {Entry(w)}
  /\ UNCHANGED <<appended, grouped, start, delivered, deadLetters, records>>

\* The await a worker is at failed or was cut short: it took effect or not.
Interrupted(w) ==
  \/ NoEffect
  \/ pc[w] = "handle" /\ link[w] = "up" /\ \E s \in Streams : AppendEntry(s)
  \/ pc[w] = "ensure" /\ link[w] = "up" /\ CreateGroup(on[w])
  \/ pc[w] = "read" /\ link[w] = "up" /\ DeliverBatch(on[w])
  \/ pc[w] = "deadLetter" /\ link[w] = "up" /\ PublishDeadLetter(w)
  \/ pc[w] = "record" /\ RecordProcessed(w)
  \/ pc[w] = "ack" /\ link[w] = "up" /\ Acknowledge(w)
-----------------------------------------------------------------------------
\* Where control goes.

Goto(w, label) == pc' = [pc EXCEPT ![w] = label]

\* The rest of the batch is forgotten.
DropBatch(w) ==
  /\ cur' = [cur EXCEPT ![w] = 1]
  /\ hi' = [hi EXCEPT ![w] = 0]
  /\ verdict' = [verdict EXCEPT ![w] = "processed"]
  /\ after' = [after EXCEPT ![w] = "next"]

\* An exception leaves _process_message or the reads: run() catches it, unless
\* the task is being stopped.
Escape(w) ==
  /\ Goto(w, IF after[w] = "down" THEN "down" ELSE "loopError")
  /\ DropBatch(w)
  /\ on' = [on EXCEPT ![w] = 1]

\* Mutant: off by one, the loop runs past its last stream.
NextStreamPastEnd(w) ==
  IF on[w] <= NStreams
  THEN on' = [on EXCEPT ![w] = @ + 1] /\ UNCHANGED pc
  ELSE on' = [on EXCEPT ![w] = 1] /\ Goto(w, "ensure")

\* After the last stream of a round, the loop starts again at the groups.
NextStream(w) ==
  IF on[w] < NStreams
  THEN on' = [on EXCEPT ![w] = @ + 1] /\ UNCHANGED pc
  ELSE on' = [on EXCEPT ![w] = 1] /\ Goto(w, "ensure")

\* for message in messages.
NextMessage(w) ==
  IF cur[w] < hi[w]
  THEN /\ Goto(w, "handle")
       /\ cur' = [cur EXCEPT ![w] = @ + 1]
       /\ verdict' = [verdict EXCEPT ![w] = "processed"]
       /\ UNCHANGED <<on, hi, after>>
  ELSE /\ DropBatch(w)
       /\ IF on[w] < NStreams
          THEN on' = [on EXCEPT ![w] = @ + 1] /\ Goto(w, "read")
          ELSE on' = [on EXCEPT ![w] = 1] /\ Goto(w, "ensure")

\* The finally block ended: the next message, or the pending exception goes on.
LeaveFinally(w) == IF after[w] = "next" THEN NextMessage(w) ELSE Escape(w)
-----------------------------------------------------------------------------
\* XADD by a handler, or by a request of the HTTP API.
Publish(s) ==
  /\ AppendEntry(s)
  /\ UNCHANGED workerVars

\* start_background_worker.
Start(w) ==
  /\ pc[w] = "down"
  /\ Goto(w, "ensure")
  /\ link' = [link EXCEPT ![w] = "up"]
  /\ NoEffect
  /\ UNCHANGED <<on, cur, hi, verdict, after>>

\* _ensure_groups, one group at a time.
EnsureGroup(w) ==
  /\ pc[w] = "ensure"
  /\ link[w] = "up"
  /\ CreateGroup(on[w])
  /\ IF on[w] < NStreams
     THEN on' = [on EXCEPT ![w] = @ + 1] /\ UNCHANGED pc
     ELSE on' = [on EXCEPT ![w] = 1] /\ Goto(w, "read")
  /\ UNCHANGED <<link, cur, hi, verdict, after>>

\* Mutant: a restarted worker also takes what an earlier one left pending.
ReadLeftOver(w) ==
  /\ pc[w] = "read"
  /\ link[w] = "up"
  /\ \E i \in 1..MaxLen :
       /\ <<on[w], i>> \in pel \ UNION {Batch(u) : u \in Workers}
       /\ cur' = [cur EXCEPT ![w] = i]
       /\ hi' = [hi EXCEPT ![w] = i]
  /\ Goto(w, "handle")
  /\ NoEffect
  /\ UNCHANGED <<link, on, verdict, after>>

Read(w) ==
  /\ pc[w] = "read"
  /\ link[w] = "up"
  /\ delivered[on[w]] < appended[on[w]]
  /\ DeliverBatch(on[w])
  /\ cur' = [cur EXCEPT ![w] = delivered[on[w]] + 1]
  /\ hi' = [hi EXCEPT ![w] = LastRead(on[w])]
  /\ Goto(w, "handle")
  /\ UNCHANGED <<link, on, verdict, after>>

\* BLOCK runs out with nothing to read.
ReadNothing(w) ==
  /\ pc[w] = "read"
  /\ link[w] = "up"
  /\ delivered[on[w]] = appended[on[w]]
  /\ NoEffect
  /\ NextStream(w)
  /\ UNCHANGED <<link, cur, hi, verdict, after>>

\* Mutant: acknowledge, record never.
HandlerReturnsToAck(w) ==
  /\ pc[w] = "handle"
  /\ Goto(w, "ack")
  /\ NoEffect
  /\ UNCHANGED <<link, on, cur, hi, verdict, after>>

HandlerReturns(w) ==
  /\ pc[w] = "handle"
  /\ Goto(w, "record")
  /\ NoEffect
  /\ UNCHANGED <<link, on, cur, hi, verdict, after>>

\* Mutant: the except block leaves processed_status as it is.
HandlerRaisesUnnoticed(w) ==
  /\ pc[w] = "handle"
  /\ Goto(w, "deadLetter")
  /\ NoEffect
  /\ UNCHANGED <<link, on, cur, hi, verdict, after>>

\* An upstream, the database or a guard of the handler raises; Redis is fine.
HandlerRaises(w) ==
  /\ pc[w] = "handle"
  /\ Goto(w, "deadLetter")
  /\ verdict' = [verdict EXCEPT ![w] = "failed"]
  /\ NoEffect
  /\ UNCHANGED <<link, on, cur, hi, after>>

\* Mutant: the dead letter is all there is, the run is not marked failed.
DeadLetterOnly(w) ==
  /\ pc[w] = "deadLetter"
  /\ link[w] = "up"
  /\ PublishDeadLetter(w)
  /\ Goto(w, "record")
  /\ UNCHANGED <<link, on, cur, hi, verdict, after>>

DeadLetter(w) ==
  /\ pc[w] = "deadLetter"
  /\ link[w] = "up"
  /\ PublishDeadLetter(w)
  /\ Goto(w, "markFailed")
  /\ UNCHANGED <<link, on, cur, hi, verdict, after>>

\* _mark_failed: UPDATE workflow_runs, XADD workflow.failed.
MarkFailed(w) ==
  /\ pc[w] = "markFailed"
  /\ link[w] = "up"
  /\ Goto(w, "record")
  /\ NoEffect
  /\ UNCHANGED <<link, on, cur, hi, verdict, after>>

\* Mutant: acknowledge only what was processed.
RecordAcksProcessed(w) ==
  /\ pc[w] = "record"
  /\ RecordProcessed(w)
  /\ IF Recorded(Entry(w)) \/ verdict[w] = "failed"
     THEN LeaveFinally(w)
     ELSE Goto(w, "ack") /\ UNCHANGED <<on, cur, hi, verdict, after>>
  /\ UNCHANGED link

\* The finally block: acknowledge only what this INSERT recorded.
Record(w) ==
  /\ pc[w] = "record"
  /\ RecordProcessed(w)
  /\ IF Recorded(Entry(w))
     THEN LeaveFinally(w)
     ELSE Goto(w, "ack") /\ UNCHANGED <<on, cur, hi, verdict, after>>
  /\ UNCHANGED link

Ack(w) ==
  /\ pc[w] = "ack"
  /\ link[w] = "up"
  /\ Acknowledge(w)
  /\ LeaveFinally(w)
  /\ UNCHANGED link

\* Mutant: a dead letter that cannot be written is no error.
RaiseUnlessDeadLetter(w) ==
  \/ /\ pc[w] \in {"handle", "deadLetter"}
     /\ Goto(w, IF pc[w] = "handle" THEN "deadLetter" ELSE "markFailed")
     /\ verdict' = [verdict EXCEPT ![w] = "failed"]
     /\ UNCHANGED <<on, cur, hi, after>>
  \/ /\ pc[w] = "markFailed"
     /\ Goto(w, "record")
     /\ after' = [after EXCEPT ![w] = "loopError"]
     /\ UNCHANGED <<on, cur, hi, verdict>>
  \/ /\ pc[w] \in {"ensure", "read", "record", "ack"}
     /\ Escape(w)

\* Control after the await at pc[w] raised: the handler's exception is caught,
\* one raised by the except block waits for the finally block, others escape.
Raise(w) ==
  \/ /\ pc[w] = "handle"
     /\ Goto(w, "deadLetter")
     /\ verdict' = [verdict EXCEPT ![w] = "failed"]
     /\ UNCHANGED <<on, cur, hi, after>>
  \/ /\ pc[w] \in {"deadLetter", "markFailed"}
     /\ Goto(w, "record")
     /\ after' = [after EXCEPT ![w] = "loopError"]
     /\ UNCHANGED <<on, cur, hi, verdict>>
  \/ /\ pc[w] \in {"ensure", "read", "record", "ack"}
     /\ Escape(w)

\* The connection to Redis is lost.  connect() keeps the broken connection, so
\* every later call fails too, until run() closes it.
RedisFails(w) ==
  /\ "redis" \in Faults
  /\ pc[w] \in {"ensure", "read", "handle", "deadLetter", "markFailed", "ack"}
  /\ Interrupted(w)
  /\ Raise(w)
  /\ link' = [link EXCEPT ![w] = "broken"]

\* Redis answers an error (out of memory, read-only, NOGROUP), or refuses a new
\* connection: the call did nothing, and the next one may succeed.
RedisRefuses(w) ==
  /\ "reply" \in Faults
  /\ pc[w] \in {"ensure", "read", "handle", "deadLetter", "markFailed", "ack"}
  /\ link[w] = "up"
  /\ NoEffect
  /\ Raise(w)
  /\ UNCHANGED link

DbFails(w) ==
  /\ "db" \in Faults
  /\ pc[w] \in {"markFailed", "record"}
  /\ Interrupted(w)
  /\ Raise(w)
  /\ UNCHANGED link

\* run(): log, close the connection, sleep, loop.
LoopError(w) ==
  /\ pc[w] = "loopError"
  /\ Goto(w, "ensure")
  /\ link' = [link EXCEPT ![w] = "up"]
  /\ NoEffect
  /\ UNCHANGED <<on, cur, hi, verdict, after>>

\* wait_closed() raises for a connection that was reset: the exception leaves
\* run(), and the task is over while its process still answers /health.
LoopErrorEndsTask(w) ==
  /\ pc[w] = "loopError"
  /\ link[w] = "broken"
  /\ Goto(w, "dead")
  /\ NoEffect
  /\ UNCHANGED <<link, on, cur, hi, verdict, after>>

\* stop_background_worker: task.cancel() raises CancelledError at the await the
\* task is at.  In a handler it skips `except Exception`, so the finally block
\* records "processed" and acknowledges; in the except block it records "failed".
Stop(w) ==
  /\ "stop" \in Faults
  /\ pc[w] # "down"
  /\ after[w] # "down"
  /\ Interrupted(w)
  /\ IF pc[w] \in {"handle", "deadLetter", "markFailed"}
     THEN /\ Goto(w, "record")
          /\ after' = [after EXCEPT ![w] = "down"]
          /\ UNCHANGED <<on, cur, hi, verdict>>
     ELSE /\ Goto(w, "down")
          /\ DropBatch(w)
          /\ on' = [on EXCEPT ![w] = 1]
  /\ UNCHANGED link

\* The process dies.
Crash(w) ==
  /\ "crash" \in Faults
  /\ pc[w] # "down"
  /\ Interrupted(w)
  /\ Goto(w, "down")
  /\ DropBatch(w)
  /\ on' = [on EXCEPT ![w] = 1]
  /\ UNCHANGED link

\* The steps of the task itself, which asyncio keeps scheduling.
Work(w) ==
  \/ EnsureGroup(w) \/ Read(w) \/ ReadNothing(w) \/ HandlerReturns(w)
  \/ DeadLetter(w) \/ MarkFailed(w) \/ Record(w) \/ Ack(w) \/ LoopError(w)

Next ==
  \/ \E s \in Streams : Publish(s)
  \/ \E w \in Workers :
       \/ Start(w) \/ Work(w) \/ HandlerRaises(w)
       \/ RedisFails(w) \/ RedisRefuses(w) \/ DbFails(w) \/ LoopErrorEndsTask(w)
       \/ Stop(w) \/ Crash(w)

Spec == Init /\ [][Next]_streamVars

\* For TLC: workers differ in name only.
WorkerSymmetry == Permutations(Workers)
-----------------------------------------------------------------------------
\* The values the variables range over.
TypeOK ==
  /\ appended \in [Streams -> Nat]
  /\ grouped \in [Streams -> BOOLEAN]
  /\ start \in [Streams -> Nat]
  /\ delivered \in [Streams -> Nat]
  /\ pel \subseteq Streams \X Nat
  /\ deadLetters \subseteq Streams \X Nat
  /\ records \subseteq [stream : Streams, entry : Nat, status : {"processed", "failed"}]
  /\ pc \in [Workers -> PCs]
  /\ link \in [Workers -> {"up", "broken"}]
  /\ on \in [Workers -> Streams]
  /\ cur \in [Workers -> Nat]
  /\ hi \in [Workers -> Nat]
  /\ verdict \in [Workers -> {"processed", "failed"}]
  /\ after \in [Workers -> {"next", "loopError", "down"}]

\* An entry the group has handed out and nobody acknowledged yet is pending;
\* once it is acknowledged its outcome is on record, whatever crashed meanwhile.
AckedIsRecorded ==
  \A s \in Streams : \A i \in (start[s] + 1)..delivered[s] :
    <<s, i>> \in pel \/ Recorded(<<s, i>>)

\* Two workers never hold the same entry, and what they hold is still pending.
BatchesAreExclusive ==
  \A w \in Workers :
    /\ Batch(w) \subseteq pel
    /\ \A u \in Workers \ {w} : Batch(u) \cap Batch(w) = {}

\* A worker never reaches an entry whose outcome is on record already: no handler
\* runs twice for one entry, and ON CONFLICT DO NOTHING never withholds an ack.
NoEntryHandledTwice ==
  \A w \in Workers : \A e \in Batch(w) :
    Recorded(e) => e = Entry(w) /\ pc[w] = "ack"

\* An entry in the dead letter stream is never recorded as processed.
DeadLetterIsFailure ==
  \A e \in deadLetters : [stream |-> e[1], entry |-> e[2], status |-> "processed"] \notin records

\* The pending entries no worker will get to.
Abandoned == pel \ UNION {Batch(w) : w \in Workers}

\* Nothing is ever claimed back: an entry a worker dropped stays pending for
\* good, and its outcome is never recorded afterwards.
AbandonedForGood ==
  [][/\ Abandoned \subseteq Abandoned'
     /\ \A e \in Abandoned : Recorded(e)' = Recorded(e)]_streamVars

\* With handlers that may raise but Redis, the database and the process intact,
\* every entry added after its group was made is acknowledged and on record.
EveryEntrySettles ==
  \A s \in Streams : \A i \in 1..MaxLen :
    grouped[s] /\ start[s] < i /\ i <= appended[s] ~> Recorded(<<s, i>>) /\ <<s, i>> \notin pel

=============================================================================

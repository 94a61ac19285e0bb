------------------------- MODULE StreamWorkerProofs -------------------------
(***************************************************************************)
(* What holds of the delivery of entries for any number of workers, streams *)
(* and entries, and under every fault.  The argument is about batches: what *)
(* a worker holds was delivered to it alone, is still pending, and has no   *)
(* outcome on record but for the entry it is about to acknowledge.          *)
(***************************************************************************)
EXTENDS StreamWorker, TLAPS

USE StreamWorkerAssumption DEF Streams

\* Where a worker holds a batch.
Busy == {"handle", "deadLetter", "markFailed", "record", "ack"}

\* The group never gets ahead of its stream, and only what was delivered can be
\* pending, on record or among the dead letters.
Delivered ==
  /\ \A s \in Streams : delivered[s] <= appended[s]
  /\ \A s \in Streams, i \in Nat :
       <<s, i>> \in pel \/ Recorded(<<s, i>>) \/ <<s, i>> \in deadLetters => i <= delivered[s]

\* A worker holds entries exactly while it handles them.
HoldsWhileBusy ==
  \A w \in Workers :
    IF pc[w] \in Busy THEN cur[w] <= hi[w] ELSE cur[w] = 1 /\ hi[w] = 0

\* Entry i of stream s is in the batch of a worker.
Holds(w, s, i) == on[w] = s /\ cur[w] <= i /\ i <= hi[w]

\* What a worker holds is pending, and nobody else holds it (BatchesAreExclusive,
\* entry by entry).
HeldIsPending ==
  \A w \in Workers, s \in Streams, i \in Nat :
    Holds(w, s, i) => <<s, i>> \in pel /\ \A u \in Workers \ {w} : ~ Holds(u, s, i)

\* What a worker holds has no outcome on record, but for the entry it is about to
\* acknowledge, which has one.
HeldIsUnrecorded ==
  \A w \in Workers :
    /\ pc[w] = "ack" => Recorded(Entry(w))
    /\ \A s \in Streams, i \in Nat :
         Holds(w, s, i) /\ Recorded(<<s, i>>) => i = cur[w] /\ pc[w] = "ack"

\* What a worker holds is no dead letter, but for the entry whose failure it is
\* about to record.
HeldIsAlive ==
  \A w \in Workers :
    /\ pc[w] \in {"deadLetter", "markFailed"} => verdict[w] = "failed"
    /\ \A s \in Streams, i \in Nat :
         Holds(w, s, i) /\ <<s, i>> \in deadLetters =>
           i = cur[w] /\ verdict[w] = "failed" /\ pc[w] \in {"markFailed", "record", "ack"}

\* The inductive invariant.
StreamInv ==
  /\ TypeOK /\ Delivered /\ HoldsWhileBusy /\ HeldIsPending /\ HeldIsUnrecorded /\ HeldIsAlive
  /\ AckedIsRecorded /\ DeadLetterIsFailure
-----------------------------------------------------------------------------
\* The initial values have their types.
LEMMA InitType == Init => TypeOK
  BY DEF Init, TypeOK, PCs

\* TypeOK in two halves: what the services keep, and what the workers keep.
DataType ==
  /\ appended \in [Streams -> Nat]
  /\ grouped \in [Streams -> BOOLEAN]
  /\ start \in [Streams -> Nat]
  /\ delivered \in [Streams -> Nat]
  /\ pel \subseteq Streams \X Nat
  /\ deadLetters \subseteq Streams \X Nat
  /\ records \subseteq [stream : Streams, entry : Nat, status : {"processed", "failed"}]

WorkerType ==
  /\ pc \in [Workers -> PCs]
  /\ link \in [Workers -> {"up", "broken"}]
  /\ on \in [Workers -> Streams]
  /\ cur \in [Workers -> Nat]
  /\ hi \in [Workers -> Nat]
  /\ verdict \in [Workers -> {"processed", "failed"}]
  /\ after \in [Workers -> {"next", "loopError", "down"}]

\* The types, of the streams and of the workers.
LEMMA TypeParts == TypeOK <=> DataType /\ WorkerType
  BY DEF TypeOK, DataType, WorkerType

\* The same after a step.
LEMMA TypePartsPrime == TypeOK' <=> DataType' /\ WorkerType'
  BY DEF TypeOK, DataType, WorkerType

\* What an await of a worker may do to the services.
Effect(w) ==
  \/ NoEffect
  \/ \E s \in Streams : AppendEntry(s)
  \/ CreateGroup(on[w])
  \/ DeliverBatch(on[w])
  \/ pc[w] = "deadLetter" /\ PublishDeadLetter(w)
  \/ pc[w] = "record" /\ RecordProcessed(w)
  \/ pc[w] = "ack" /\ Acknowledge(w)

\* A read ends at or after the last delivered entry, and not past the stream.
LEMMA LastReadRange ==
  ASSUME TypeOK, Delivered, NEW s \in Streams
  PROVE  /\ LastRead(s) \in Nat
         /\ delivered[s] <= LastRead(s)
         /\ LastRead(s) <= appended[s]
         /\ delivered[s] < appended[s] => delivered[s] < LastRead(s)
  BY DEF TypeOK, Delivered, LastRead

\* An entry more keeps the types.
LEMMA AppendType ==
  ASSUME TypeOK, NEW s \in Streams, AppendEntry(s)
  PROVE  DataType'
  <1>1. appended[s] + 1 \in Nat
    BY DEF TypeOK
  <1>2. appended' \in [Streams -> Nat]
    BY <1>1 DEF AppendEntry, TypeOK
  <1>3. QED
    BY <1>2 DEF AppendEntry, TypeOK, DataType

\* Every effect keeps the types of what the services keep.
LEMMA EffectType ==
  ASSUME TypeOK, Delivered, NEW w \in Workers, Effect(w)
  PROVE  DataType'
  <1>1. CASE NoEffect
    BY <1>1 DEF NoEffect, redisVars, TypeOK, DataType
  <1>2. ASSUME NEW s \in Streams, AppendEntry(s)
        PROVE DataType'
    BY <1>2, AppendType
  <1>3. CASE CreateGroup(on[w])
    BY <1>3 DEF CreateGroup, TypeOK, DataType
  <1>4. CASE DeliverBatch(on[w])
    <2>1. LastRead(on[w]) \in Nat
      BY LastReadRange DEF TypeOK
    <2>2. pel' \subseteq Streams \X Nat
      BY <1>4, <2>1 DEF DeliverBatch, TypeOK
    <2>3. delivered' \in [Streams -> Nat]
      BY <1>4, <2>1 DEF DeliverBatch, TypeOK
    <2>4. QED
      BY <1>4, <2>2, <2>3 DEF DeliverBatch, TypeOK, DataType
  <1>5. CASE PublishDeadLetter(w)
    <2>1. Entry(w) \in Streams \X Nat
      BY DEF Entry, TypeOK
    <2>2. deadLetters' \subseteq Streams \X Nat
      BY <1>5, <2>1 DEF PublishDeadLetter, TypeOK
    <2>3. QED
      BY <1>5, <2>2 DEF PublishDeadLetter, TypeOK, DataType
  <1>6. CASE RecordProcessed(w)
    BY <1>6 DEF RecordProcessed, TypeOK, DataType
  <1>7. CASE Acknowledge(w)
    BY <1>7 DEF Acknowledge, TypeOK, DataType
  <1>8. QED
    BY <1>1, <1>2, <1>3, <1>4, <1>5, <1>6, <1>7 DEF Effect
-----------------------------------------------------------------------------
\* The steps of a worker, by what becomes of its batch.

\* The other workers keep what they hold.
OthersKeep(w) ==
  \A u \in Workers \ {w} :
    /\ pc'[u] = pc[u] /\ on'[u] = on[u] /\ cur'[u] = cur[u] /\ hi'[u] = hi[u]
    /\ verdict'[u] = verdict[u]

\* The worker holds nothing afterwards, whatever its await did.
HoldsNothing(w) ==
  /\ Effect(w)
  /\ OthersKeep(w)
  /\ pc'[w] \notin Busy
  /\ cur'[w] = 1 /\ hi'[w] = 0

\* The worker stays at its entry.
KeepsBatch(w) == on'[w] = on[w] /\ cur'[w] = cur[w] /\ hi'[w] = hi[w]

\* It goes on inside the try and except blocks.
GoesOn(w) ==
  /\ NoEffect \/ \E s \in Streams : AppendEntry(s)
  /\ OthersKeep(w) /\ KeepsBatch(w)
  /\ \/ pc[w] = "handle" /\ pc'[w] = "record"
     \/ pc[w] = "handle" /\ pc'[w] = "deadLetter" /\ verdict'[w] = "failed"
     \/ pc[w] \in {"deadLetter", "markFailed"} /\ pc'[w] = "record" /\ verdict'[w] = verdict[w]

\* It writes the dead letter.
Buries(w) ==
  /\ pc[w] = "deadLetter"
  /\ PublishDeadLetter(w)
  /\ OthersKeep(w) /\ KeepsBatch(w)
  /\ pc'[w] \in {"markFailed", "record"} /\ verdict'[w] = verdict[w]

\* It records the outcome.
Records(w) ==
  /\ pc[w] = "record"
  /\ RecordProcessed(w)
  /\ OthersKeep(w) /\ KeepsBatch(w)
  /\ pc'[w] = "ack" /\ verdict'[w] = verdict[w]

\* It acknowledges, and takes the next entry of its batch.
Advances(w) ==
  /\ pc[w] = "ack"
  /\ Acknowledge(w)
  /\ OthersKeep(w)
  /\ cur[w] < hi[w]
  /\ on'[w] = on[w] /\ cur'[w] = cur[w] + 1 /\ hi'[w] = hi[w]
  /\ pc'[w] = "handle"

\* It takes the entries it was handed out.
Takes(w) ==
  /\ pc[w] = "read"
  /\ delivered[on[w]] < appended[on[w]]
  /\ DeliverBatch(on[w])
  /\ OthersKeep(w)
  /\ on'[w] = on[w] /\ cur'[w] = delivered[on[w]] + 1 /\ hi'[w] = LastRead(on[w])
  /\ pc'[w] = "handle"

\* A request of the HTTP API appends an entry.
Appends == (\E s \in Streams : AppendEntry(s)) /\ UNCHANGED workerVars

WorkerMove(w) ==
  HoldsNothing(w) \/ GoesOn(w) \/ Buries(w) \/ Records(w) \/ Advances(w) \/ Takes(w)

Move == Appends \/ \E w \in Workers : WorkerMove(w)

\* An interrupted await had one of the effects above.
LEMMA InterruptedEffect ==
  ASSUME NEW w \in Workers, Interrupted(w)
  PROVE  Effect(w)
  BY DEF Interrupted, Effect

\* Every step a worker may take.
Acts(w) ==
  \/ Start(w) \/ Work(w) \/ HandlerRaises(w)
  \/ RedisFails(w) \/ RedisRefuses(w) \/ DbFails(w) \/ LoopErrorEndsTask(w)
  \/ Stop(w) \/ Crash(w)

\* A step of a worker is one of its moves.
LEMMA ActIsMove ==
  ASSUME TypeOK, HoldsWhileBusy, HeldIsUnrecorded, NEW w \in Workers, Acts(w)
  PROVE  WorkerMove(w)
  <1> USE DEF WorkerMove
  <1>1. ASSUME Start(w)
        PROVE HoldsNothing(w)
    BY <1>1 DEF Start, Goto, HoldsNothing, OthersKeep, Effect, HoldsWhileBusy, TypeOK, Busy
  <1>2. ASSUME EnsureGroup(w)
        PROVE HoldsNothing(w)
    BY <1>2 DEF EnsureGroup, Goto, HoldsNothing, OthersKeep, Effect, HoldsWhileBusy, TypeOK, Busy
  <1>3. ASSUME Read(w)
        PROVE Takes(w)
    BY <1>3 DEF Read, Goto, Takes, OthersKeep, TypeOK
  <1>4. ASSUME ReadNothing(w)
        PROVE HoldsNothing(w)
    BY <1>4 DEF ReadNothing, NextStream, Goto, HoldsNothing, OthersKeep, Effect, HoldsWhileBusy, TypeOK, Busy
  <1>5. ASSUME HandlerReturns(w) \/ HandlerRaises(w)
        PROVE GoesOn(w)
    BY <1>5 DEF HandlerReturns, HandlerRaises, Goto, GoesOn, OthersKeep, KeepsBatch, TypeOK
  <1>6. ASSUME DeadLetter(w)
        PROVE Buries(w)
    BY <1>6 DEF DeadLetter, Goto, Buries, OthersKeep, KeepsBatch, TypeOK
  <1>7. ASSUME MarkFailed(w)
        PROVE GoesOn(w)
    BY <1>7 DEF MarkFailed, Goto, GoesOn, OthersKeep, KeepsBatch, TypeOK
  <1>8. ASSUME Record(w)
        PROVE Records(w)
    <2>1. cur[w] <= hi[w] /\ cur[w] \in Nat
      BY <1>8 DEF Record, HoldsWhileBusy, Busy, TypeOK
    <2>2. ~ Recorded(Entry(w))
      BY <1>8, <2>1 DEF Record, HeldIsUnrecorded, Holds, Entry, TypeOK
    <2>3. QED
      BY <1>8, <2>2 DEF Record, Goto, Records, OthersKeep, KeepsBatch, TypeOK
  <1>9. ASSUME Ack(w)
        PROVE HoldsNothing(w) \/ Advances(w)
    <2>1. CASE after[w] = "next" /\ cur[w] < hi[w]
      BY <1>9, <2>1 DEF Ack, LeaveFinally, NextMessage, Goto, Advances, OthersKeep, TypeOK
    <2>2. CASE after[w] = "next" /\ ~ cur[w] < hi[w]
      BY <1>9, <2>2 DEF Ack, LeaveFinally, NextMessage, DropBatch, Goto, HoldsNothing, Effect,
                         OthersKeep, TypeOK, Busy
    <2>3. CASE after[w] # "next"
      BY <1>9, <2>3 DEF Ack, LeaveFinally, Escape, DropBatch, Goto, HoldsNothing, Effect,
                         OthersKeep, TypeOK, Busy
    <2>4. QED
      BY <2>1, <2>2, <2>3
  <1>10. ASSUME LoopError(w) \/ LoopErrorEndsTask(w)
        PROVE HoldsNothing(w)
    BY <1>10 DEF LoopError, LoopErrorEndsTask, Goto, HoldsNothing, OthersKeep, Effect,
                 HoldsWhileBusy, TypeOK, Busy
  <1>11. ASSUME RedisFails(w) \/ RedisRefuses(w) \/ DbFails(w)
        PROVE HoldsNothing(w) \/ GoesOn(w) \/ Buries(w)
    <2>1. Interrupted(w) /\ Raise(w)
      BY <1>11 DEF RedisFails, RedisRefuses, DbFails, Interrupted
    <2>2. CASE pc[w] = "handle"
      BY <2>1, <2>2 DEF Interrupted, Raise, Goto, GoesOn, OthersKeep, KeepsBatch, TypeOK
    <2>3. CASE pc[w] \in {"deadLetter", "markFailed"}
      BY <2>1, <2>3 DEF Interrupted, Raise, Goto, GoesOn, Buries, OthersKeep, KeepsBatch, TypeOK
    <2>4. CASE pc[w] \in {"ensure", "read", "record", "ack"}
      BY <2>1, <2>4, InterruptedEffect DEF Raise, Escape, DropBatch, Goto, HoldsNothing, OthersKeep, TypeOK, Busy
    <2>5. QED
      BY <2>1, <2>2, <2>3, <2>4 DEF Raise
  <1>12. ASSUME Stop(w)
        PROVE HoldsNothing(w) \/ GoesOn(w) \/ Buries(w)
    <2>1. CASE pc[w] \in {"handle", "deadLetter", "markFailed"}
      BY <1>12, <2>1 DEF Stop, Interrupted, Goto, GoesOn, Buries, OthersKeep, KeepsBatch, TypeOK
    <2>2. CASE pc[w] \notin {"handle", "deadLetter", "markFailed"}
      BY <1>12, <2>2, InterruptedEffect DEF Stop, DropBatch, Goto, HoldsNothing, OthersKeep, TypeOK, Busy
    <2>3. QED
      BY <2>1, <2>2
  <1>13. ASSUME Crash(w)
        PROVE HoldsNothing(w)
    BY <1>13, InterruptedEffect DEF Crash, DropBatch, Goto, HoldsNothing, OthersKeep, TypeOK, Busy
  <1>14. QED
    BY <1>1, <1>2, <1>3, <1>4, <1>5, <1>6, <1>7, <1>8, <1>9, <1>10, <1>11, <1>12, <1>13
       DEF Acts, Work

\* Every step is a move, or changes nothing.
LEMMA StepIsMove ==
  ASSUME TypeOK, HoldsWhileBusy, HeldIsUnrecorded, [Next]_streamVars
  PROVE  Move \/ UNCHANGED streamVars
  <1>1. ASSUME NEW s \in Streams, Publish(s)
        PROVE Move
    BY <1>1 DEF Publish, Appends, Move
  <1>2. ASSUME NEW w \in Workers, Acts(w)
        PROVE Move
    BY <1>2, ActIsMove DEF Move
  <1>3. QED
    BY <1>1, <1>2 DEF Next, Acts
-----------------------------------------------------------------------------
\* What the workers keep but for their links, which every action sets itself.
ControlType ==
  /\ pc \in [Workers -> PCs]
  /\ on \in [Workers -> Streams]
  /\ cur \in [Workers -> Nat]
  /\ hi \in [Workers -> Nat]
  /\ verdict \in [Workers -> {"processed", "failed"}]
  /\ after \in [Workers -> {"next", "loopError", "down"}]

\* Control goes to one of the awaits.
LEMMA GotoType ==
  ASSUME TypeOK, NEW w \in Workers, NEW label \in PCs, Goto(w, label)
  PROVE  pc' \in [Workers -> PCs]
  BY DEF Goto, TypeOK

\* The loop stays within its streams.
LEMMA OnType ==
  ASSUME TypeOK, NEW w \in Workers,
         \/ on[w] < NStreams /\ on' = [on EXCEPT ![w] = @ + 1]
         \/ on' = [on EXCEPT ![w] = 1]
  PROVE  on' \in [Workers -> Streams]
  <1>1. NStreams \in Nat /\ 1 <= NStreams /\ 1 \in Streams
    OBVIOUS
  <1>2. on \in [Workers -> Streams] /\ on[w] \in Streams
    BY DEF TypeOK
  <1>3. on[w] < NStreams => on[w] + 1 \in Streams
    BY <1>1, <1>2
  <1> HIDE DEF Streams
  <1>4. CASE on[w] < NStreams /\ on' = [on EXCEPT ![w] = on[w] + 1]
    BY <1>2, <1>3, <1>4
  <1>5. CASE on' = [on EXCEPT ![w] = 1]
    BY <1>1, <1>2, <1>5
  <1>6. QED
    BY <1>4, <1>5

\* A forgotten batch has the values of no batch.
LEMMA DropBatchType ==
  ASSUME TypeOK, NEW w \in Workers, DropBatch(w)
  PROVE  /\ cur' \in [Workers -> Nat]
         /\ hi' \in [Workers -> Nat]
         /\ verdict' \in [Workers -> {"processed", "failed"}]
         /\ after' \in [Workers -> {"next", "loopError", "down"}]
  BY DEF DropBatch, TypeOK

\* An exception that escapes keeps the types.
LEMMA EscapeType ==
  ASSUME TypeOK, NEW w \in Workers, Escape(w)
  PROVE  ControlType'
  <1>1. pc' \in [Workers -> PCs]
    <2>1. (IF after[w] = "down" THEN "down" ELSE "loopError") \in PCs
      BY DEF PCs
    <2>2. QED
      BY <2>1, GotoType DEF Escape
  <1>2. on' \in [Workers -> Streams]
    BY DEF Escape, TypeOK
  <1>3. QED
    BY <1>1, <1>2, DropBatchType DEF Escape, ControlType

\* So does the end of the finally block.
LEMMA LeaveFinallyType ==
  ASSUME TypeOK, NEW w \in Workers, LeaveFinally(w)
  PROVE  ControlType'
  <1>1. CASE after[w] = "next" /\ cur[w] < hi[w]
    <2>1. Goto(w, "handle") /\ cur' = [cur EXCEPT ![w] = @ + 1]
          /\ verdict' = [verdict EXCEPT ![w] = "processed"] /\ UNCHANGED <<on, hi, after>>
      BY <1>1 DEF LeaveFinally, NextMessage
    <2>2. pc' \in [Workers -> PCs]
      BY <2>1, GotoType DEF PCs
    <2>3. cur' \in [Workers -> Nat] /\ verdict' \in [Workers -> {"processed", "failed"}]
      BY <2>1 DEF TypeOK
    <2>4. QED
      BY <2>1, <2>2, <2>3 DEF TypeOK, ControlType
  <1>2. CASE after[w] = "next" /\ ~ cur[w] < hi[w]
    <2>1. /\ DropBatch(w)
          /\ IF on[w] < NStreams
             THEN on' = [on EXCEPT ![w] = @ + 1] /\ Goto(w, "read")
             ELSE on' = [on EXCEPT ![w] = 1] /\ Goto(w, "ensure")
      BY <1>2 DEF LeaveFinally, NextMessage
    <2>2. pc' \in [Workers -> PCs]
      BY <2>1, GotoType DEF PCs
    <2>3. on' \in [Workers -> Streams]
      BY <2>1, OnType
    <2>4. QED
      BY <2>1, <2>2, <2>3, DropBatchType DEF ControlType
  <1>3. CASE after[w] # "next"
    BY <1>3, EscapeType DEF LeaveFinally
  <1>4. QED
    BY <1>1, <1>2, <1>3

\* So does an exception, wherever it is raised.
LEMMA RaiseType ==
  ASSUME TypeOK, NEW w \in Workers, Raise(w)
  PROVE  ControlType'
  <1>1. CASE /\ Goto(w, "deadLetter")
             /\ verdict' = [verdict EXCEPT ![w] = "failed"]
             /\ UNCHANGED <<on, cur, hi, after>>
    <2>1. pc' \in [Workers -> PCs]
      BY <1>1, GotoType DEF PCs
    <2>2. QED
      BY <1>1, <2>1 DEF TypeOK, ControlType
  <1>2. CASE /\ Goto(w, "record")
             /\ after' = [after EXCEPT ![w] = "loopError"]
             /\ UNCHANGED <<on, cur, hi, verdict>>
    <2>1. pc' \in [Workers -> PCs]
      BY <1>2, GotoType DEF PCs
    <2>2. QED
      BY <1>2, <2>1 DEF TypeOK, ControlType
  <1>3. CASE Escape(w)
    BY <1>3, EscapeType
  <1>4. QED
    BY <1>1, <1>2, <1>3 DEF Raise

\* A step of a worker keeps the types of what the workers keep.
LEMMA WorkerTypeStep ==
  ASSUME TypeOK, Delivered, [Next]_streamVars
  PROVE  ControlType'
  <1>1. ASSUME NEW s \in Streams, Publish(s)
        PROVE ControlType'
    BY <1>1 DEF Publish, workerVars, TypeOK, ControlType
  <1>2. ASSUME NEW w \in Workers, NEW label \in PCs, Goto(w, label),
               UNCHANGED <<on, cur, hi, verdict, after>>
        PROVE ControlType'
    BY <1>2, GotoType DEF TypeOK, ControlType
  <1>3. ASSUME NEW w \in Workers,
               Start(w) \/ HandlerReturns(w) \/ DeadLetter(w) \/ MarkFailed(w)
               \/ LoopError(w) \/ LoopErrorEndsTask(w)
        PROVE ControlType'
    <2>1. {"ensure", "record", "markFailed", "dead"} \subseteq PCs
      BY DEF PCs
    <2>2. QED
      BY <1>2, <1>3, <2>1 DEF Start, HandlerReturns, DeadLetter, MarkFailed, LoopError, LoopErrorEndsTask
  <1>4. ASSUME NEW w \in Workers, HandlerRaises(w)
        PROVE ControlType'
    <2>1. pc' \in [Workers -> PCs]
      BY <1>4, GotoType DEF HandlerRaises, PCs
    <2>2. QED
      BY <1>4, <2>1 DEF HandlerRaises, TypeOK, ControlType
  <1>5. ASSUME NEW w \in Workers, EnsureGroup(w) \/ ReadNothing(w)
        PROVE ControlType'
    <2>1. /\ \/ on[w] < NStreams /\ on' = [on EXCEPT ![w] = @ + 1] /\ UNCHANGED pc
             \/ on' = [on EXCEPT ![w] = 1] /\ (Goto(w, "read") \/ Goto(w, "ensure"))
          /\ UNCHANGED <<cur, hi, verdict, after>>
      BY <1>5 DEF EnsureGroup, ReadNothing, NextStream
    <2>2. pc' \in [Workers -> PCs]
      <3>1. "read" \in PCs /\ "ensure" \in PCs
        BY DEF PCs
      <3>2. QED
        BY <2>1, <3>1, GotoType DEF TypeOK
    <2>3. on' \in [Workers -> Streams]
      BY <2>1, OnType
    <2>4. QED
      BY <2>1, <2>2, <2>3 DEF TypeOK, ControlType
  <1>6. ASSUME NEW w \in Workers, Read(w)
        PROVE ControlType'
    <2>1. on[w] \in Streams /\ delivered[on[w]] \in Nat
      BY DEF TypeOK
    <2>2. LastRead(on[w]) \in Nat
      BY <2>1, LastReadRange
    <2>3. pc' \in [Workers -> PCs]
      BY <1>6, GotoType DEF Read, PCs
    <2>4. cur' \in [Workers -> Nat] /\ hi' \in [Workers -> Nat]
      BY <1>6, <2>1, <2>2 DEF Read, TypeOK
    <2>5. QED
      BY <1>6, <2>3, <2>4 DEF Read, TypeOK, ControlType
  <1>7. ASSUME NEW w \in Workers, Record(w)
        PROVE ControlType'
    <2>1. "ack" \in PCs
      BY DEF PCs
    <2>2. QED
      BY <1>2, <1>7, <2>1, LeaveFinallyType DEF Record
  <1>8. ASSUME NEW w \in Workers, Ack(w)
        PROVE ControlType'
    BY <1>8, LeaveFinallyType DEF Ack
  <1>9. ASSUME NEW w \in Workers, RedisFails(w) \/ RedisRefuses(w) \/ DbFails(w)
        PROVE ControlType'
    BY <1>9, RaiseType DEF RedisFails, RedisRefuses, DbFails
  <1>10. ASSUME NEW w \in Workers, Stop(w) \/ Crash(w)
         PROVE ControlType'
    <2>1. CASE /\ Goto(w, "record")
               /\ after' = [after EXCEPT ![w] = "down"]
               /\ UNCHANGED <<on, cur, hi, verdict>>
      <3>1. pc' \in [Workers -> PCs]
        BY <2>1, GotoType DEF PCs
      <3>2. QED
        BY <2>1, <3>1 DEF TypeOK, ControlType
    <2>2. CASE Goto(w, "down") /\ DropBatch(w) /\ on' = [on EXCEPT ![w] = 1]
      <3>1. pc' \in [Workers -> PCs]
        BY <2>2, GotoType DEF PCs
      <3>2. on' \in [Workers -> Streams]
        BY <2>2 DEF TypeOK
      <3>3. QED
        BY <2>2, <3>1, <3>2, DropBatchType DEF ControlType
    <2>3. QED
      BY <1>10, <2>1, <2>2 DEF Stop, Crash
  <1>11. CASE UNCHANGED streamVars
    BY <1>11 DEF streamVars, workerVars, TypeOK, ControlType
  <1>12. QED
    BY <1>1, <1>3, <1>4, <1>5, <1>6, <1>7, <1>8, <1>9, <1>10, <1>11 DEF Next, Work

\* A step leaves every link up or broken.
LEMMA LinkTypeStep ==
  ASSUME TypeOK, [Next]_streamVars
  PROVE  link' \in [Workers -> {"up", "broken"}]
  <1>1. \/ UNCHANGED link
        \/ \E w \in Workers : link' = [link EXCEPT ![w] = "up"] \/ link' = [link EXCEPT ![w] = "broken"]
    BY DEF Next, Work, Publish, Start, EnsureGroup, Read, ReadNothing, HandlerReturns, HandlerRaises,
           DeadLetter, MarkFailed, Record, Ack, LoopError, LoopErrorEndsTask, RedisFails,
           RedisRefuses, DbFails, Stop, Crash, streamVars, workerVars
  <1>2. QED
    BY <1>1 DEF TypeOK

\* A move has an effect, or is a request's.
LEMMA MoveEffect ==
  ASSUME Move
  PROVE  Appends \/ \E w \in Workers : Effect(w)
  BY DEF Move, WorkerMove, HoldsNothing, GoesOn, Buries, Records, Advances, Takes, Effect

\* Every step keeps the types.
LEMMA TypeStep ==
  ASSUME TypeOK, Delivered, HoldsWhileBusy, HeldIsUnrecorded, [Next]_streamVars
  PROVE  TypeOK'
  <1>1. WorkerType'
    BY WorkerTypeStep, LinkTypeStep DEF WorkerType, ControlType
  <1>2. CASE UNCHANGED streamVars
    BY <1>2 DEF streamVars, redisVars, workerVars, TypeOK
  <1>3. CASE Appends
    <2>1. PICK s \in Streams : AppendEntry(s)
      BY <1>3 DEF Appends
    <2>2. DataType'
      BY <2>1, AppendType
    <2>3. QED
      BY <1>1, <2>2, TypePartsPrime
  <1>4. ASSUME NEW w \in Workers, Effect(w)
        PROVE TypeOK'
    BY <1>1, <1>4, EffectType, TypePartsPrime
  <1>5. QED
    BY <1>2, <1>3, <1>4, StepIsMove, MoveEffect
-----------------------------------------------------------------------------
\* What an append, or an await that failed before it took effect, does to the
\* entries: nothing but one more of them.
LEMMA DeliveredAppend ==
  ASSUME TypeOK, Delivered, NEW s \in Streams, AppendEntry(s)
  PROVE  Delivered'
  <1>1. \A q \in Streams : appended'[q] \in Nat /\ appended[q] <= appended'[q]
    BY DEF AppendEntry, TypeOK
  <1>2. \A q \in Streams : delivered[q] \in Nat /\ appended[q] \in Nat /\ delivered[q] <= appended[q]
    BY DEF TypeOK, Delivered
  <1>3. delivered' = delivered /\ pel' = pel /\ deadLetters' = deadLetters /\ records' = records
    BY DEF AppendEntry
  <1>4. \A q \in Streams : delivered'[q] <= appended'[q]
    BY <1>1, <1>2, <1>3
  <1>5. QED
    BY <1>3, <1>4 DEF Delivered, Recorded

\* Only the entries of the batch become pending, and they are delivered.
LEMMA DeliveredBatch ==
  ASSUME TypeOK, Delivered, NEW s \in Streams, DeliverBatch(s)
  PROVE  Delivered'
  <1>1. LastRead(s) \in Nat /\ delivered[s] \in Nat /\ delivered[s] <= LastRead(s) /\ LastRead(s) <= appended[s]
    BY LastReadRange DEF TypeOK
  <1>2. /\ delivered' = [delivered EXCEPT ![s] = LastRead(s)]
        /\ pel' = pel \cup {<<s, i>> : i \in (delivered[s] + 1)..LastRead(s)}
        /\ appended' = appended /\ deadLetters' = deadLetters /\ records' = records
    BY DEF DeliverBatch
  <1>3. ASSUME NEW q \in Streams
        PROVE  delivered'[q] <= appended'[q] /\ delivered[q] <= delivered'[q]
               /\ delivered[q] \in Nat /\ delivered'[q] \in Nat
    BY <1>1, <1>2 DEF TypeOK, Delivered
  <1>4. ASSUME NEW q \in Streams, NEW i \in Nat, <<q, i>> \in pel'
        PROVE  i <= delivered'[q]
    <2>1. CASE <<q, i>> \in pel
      BY <1>3, <2>1 DEF Delivered
    <2>2. CASE q = s /\ i \in (delivered[s] + 1)..LastRead(s)
      BY <1>1, <1>2, <2>2 DEF TypeOK
    <2>3. QED
      BY <1>2, <1>4, <2>1, <2>2
  <1>5. ASSUME NEW q \in Streams, NEW i \in Nat, Recorded(<<q, i>>)' \/ <<q, i>> \in deadLetters'
        PROVE  i <= delivered'[q]
    BY <1>2, <1>3, <1>5 DEF Delivered, Recorded
  <1>6. QED
    BY <1>3, <1>4, <1>5 DEF Delivered

\* Nothing an await does moves the group past its stream, or puts an entry
\* that was not delivered among the pending, the recorded or the dead.
LEMMA DeliveredStep ==
  ASSUME TypeOK, Delivered, HoldsWhileBusy, HeldIsPending, Move
  PROVE  Delivered'
  <1>1. CASE Appends
    BY <1>1, DeliveredAppend DEF Appends
  <1>2. ASSUME NEW w \in Workers, Effect(w)
        PROVE Delivered'
    <2>1. CASE NoEffect
      BY <2>1 DEF NoEffect, redisVars, Delivered, Recorded
    <2>2. CASE \E s \in Streams : AppendEntry(s)
      BY <2>2, DeliveredAppend
    <2>3. CASE CreateGroup(on[w])
      <3>1. /\ delivered' = IF grouped[on[w]] THEN delivered
                            ELSE [delivered EXCEPT ![on[w]] = appended[on[w]]]
            /\ appended' = appended /\ pel' = pel /\ deadLetters' = deadLetters /\ records' = records
        BY <2>3 DEF CreateGroup
      <3>2. ASSUME NEW q \in Streams
            PROVE  delivered'[q] <= appended'[q] /\ delivered[q] <= delivered'[q]
                   /\ delivered[q] \in Nat /\ delivered'[q] \in Nat
        BY <3>1 DEF TypeOK, Delivered
      <3>3. QED
        BY <3>1, <3>2 DEF Delivered, Recorded
    <2>4. CASE DeliverBatch(on[w])
      BY <2>4, DeliveredBatch DEF TypeOK
    <2>5. ASSUME pc[w] \in Busy
          PROVE  /\ Entry(w) \in Streams \X Nat
                 /\ cur[w] <= delivered[on[w]]
      <3>1. cur[w] \in Nat /\ hi[w] \in Nat /\ on[w] \in Streams /\ cur[w] <= hi[w]
        BY <2>5 DEF HoldsWhileBusy, TypeOK
      <3>2. <<on[w], cur[w]>> \in pel
        BY <3>1 DEF HeldIsPending, Holds
      <3>3. QED
        BY <3>1, <3>2 DEF Delivered, Entry
    <2>6. CASE pc[w] = "deadLetter" /\ PublishDeadLetter(w)
      BY <2>5, <2>6 DEF PublishDeadLetter, Entry, Delivered, Recorded, Busy
    <2>7. CASE pc[w] = "record" /\ RecordProcessed(w)
      <3>1. ASSUME NEW q \in Streams, NEW i \in Nat, Recorded(<<q, i>>)'
            PROVE  Recorded(<<q, i>>) \/ <<q, i>> = Entry(w)
        BY <2>7, <3>1 DEF RecordProcessed, Recorded, Entry
      <3>2. QED
        BY <2>5, <2>7, <3>1 DEF RecordProcessed, Entry, Delivered, Busy
    <2>8. CASE Acknowledge(w)
      BY <2>8 DEF Acknowledge, Delivered, Recorded
    <2>9. QED
      BY <1>2, <2>1, <2>2, <2>3, <2>4, <2>6, <2>7, <2>8 DEF Effect
  <1>3. QED
    BY <1>1, <1>2, MoveEffect
-----------------------------------------------------------------------------
\* What a move does to what a worker holds and to the entries.

\* A worker holds what it held before, or what it has just been handed out; the
\* entry it acknowledged is not among it.
LEMMA HeldBefore ==
  ASSUME TypeOK, NEW w \in Workers, WorkerMove(w),
         NEW u \in Workers, NEW s \in Streams, NEW i \in Nat, Holds(u, s, i)'
  PROVE  \/ Holds(u, s, i) /\ (u = w => ~ HoldsNothing(w) /\ ~ (Advances(w) /\ i = cur[w]))
         \/ u = w /\ Takes(w) /\ s = on[w] /\ delivered[s] < i /\ i <= LastRead(s)
  <1>1. CASE u # w
    <2>1. OthersKeep(w)
      BY DEF WorkerMove, HoldsNothing, GoesOn, Buries, Records, Advances, Takes
    <2>2. QED
      BY <1>1, <2>1 DEF OthersKeep, Holds
  <1>2. CASE u = w
    <2>1. on'[w] = s /\ cur'[w] <= i /\ i <= hi'[w]
      BY <1>2 DEF Holds
    <2>2. CASE HoldsNothing(w)
      BY <2>1, <2>2 DEF HoldsNothing
    <2>3. CASE KeepsBatch(w) /\ ~ HoldsNothing(w) /\ ~ Advances(w)
      BY <1>2, <2>1, <2>3 DEF KeepsBatch, Holds
    <2>4. CASE Advances(w) /\ ~ HoldsNothing(w)
      BY <1>2, <2>1, <2>4 DEF Advances, Holds, TypeOK
    <2>5. CASE Takes(w)
      BY <1>2, <2>1, <2>5 DEF Takes, TypeOK
    <2>6. QED
      BY <2>2, <2>3, <2>4, <2>5 DEF WorkerMove, GoesOn, Buries, Records
  <1>3. QED
    BY <1>1, <1>2

\* A busy worker holds the entry it is at.
LEMMA HoldsItsEntry ==
  ASSUME TypeOK, HoldsWhileBusy, NEW w \in Workers, pc[w] \in Busy
  PROVE  /\ on[w] \in Streams /\ cur[w] \in Nat
         /\ Entry(w) = <<on[w], cur[w]>>
         /\ Holds(w, on[w], cur[w])
  BY DEF TypeOK, HoldsWhileBusy, Holds, Entry

\* Only the entry a worker acknowledges stops being pending.
LEMMA PendingAfter ==
  ASSUME NEW w \in Workers, Effect(w), NEW e \in pel, pc[w] = "ack" => e # Entry(w)
  PROVE  e \in pel'
  BY DEF Effect, NoEffect, redisVars, AppendEntry, CreateGroup, DeliverBatch, PublishDeadLetter,
         RecordProcessed, Acknowledge

\* Records are for good, and only the entry a worker records gets one.
LEMMA RecordedAfter ==
  ASSUME TypeOK, NEW w \in Workers, Effect(w), NEW s \in Streams, NEW i \in Nat
  PROVE  /\ Recorded(<<s, i>>) => Recorded(<<s, i>>)'
         /\ Recorded(<<s, i>>)' =>
              \/ Recorded(<<s, i>>)
              \/ pc[w] = "record" /\ RecordProcessed(w) /\ s = on[w] /\ i = cur[w]
  <1>1. CASE records' = records
    <2>1. Recorded(<<s, i>>)' <=> Recorded(<<s, i>>)
      BY <1>1 DEF Recorded
    <2>2. QED
      BY <2>1
  <1>2. CASE pc[w] = "record" /\ RecordProcessed(w)
    <2>1. \/ records' = records
          \/ records' = records \cup {[stream |-> on[w], entry |-> cur[w], status |-> verdict[w]]}
      BY <1>2 DEF RecordProcessed
    <2>2. Recorded(<<s, i>>) => Recorded(<<s, i>>)'
      BY <2>1 DEF Recorded
    <2>3. Recorded(<<s, i>>)' => Recorded(<<s, i>>) \/ (s = on[w] /\ i = cur[w])
      BY <2>1 DEF Recorded
    <2>4. QED
      BY <1>2, <2>2, <2>3
  <1>3. QED
    BY <1>1, <1>2 DEF Effect, NoEffect, redisVars, AppendEntry, CreateGroup, DeliverBatch,
                      PublishDeadLetter, Acknowledge

\* Only the entry a worker failed to handle becomes a dead letter.
LEMMA DeadAfter ==
  ASSUME NEW w \in Workers, Effect(w), NEW e \in deadLetters'
  PROVE  e \in deadLetters \/ (pc[w] = "deadLetter" /\ PublishDeadLetter(w) /\ e = Entry(w))
  <1>1. CASE pc[w] = "deadLetter" /\ PublishDeadLetter(w)
    BY <1>1 DEF PublishDeadLetter
  <1>2. CASE deadLetters' = deadLetters
    BY <1>2
  <1>3. QED
    BY <1>1, <1>2 DEF Effect, NoEffect, redisVars, AppendEntry, CreateGroup, DeliverBatch,
                      RecordProcessed, Acknowledge

\* A worker's move has an effect.
LEMMA WorkerMoveEffect ==
  ASSUME NEW w \in Workers, WorkerMove(w)
  PROVE  Effect(w) /\ OthersKeep(w)
  BY DEF WorkerMove, HoldsNothing, GoesOn, Buries, Records, Advances, Takes, Effect

\* An appended entry changes nothing but the length of its stream.
LEMMA AppendsChange ==
  ASSUME Appends
  PROVE  UNCHANGED <<start, delivered, pel, deadLetters, records, workerVars>>
  BY DEF Appends, AppendEntry
-----------------------------------------------------------------------------
\* Every move keeps the parts of the invariant.

\* A worker that goes on has an entry, one that does not has none.
LEMMA HoldsWhileBusyStep ==
  ASSUME TypeOK, Delivered, HoldsWhileBusy, Move
  PROVE  HoldsWhileBusy'
  <1>1. CASE Appends
    BY <1>1, AppendsChange DEF workerVars, HoldsWhileBusy
  <1>2. ASSUME NEW w \in Workers, WorkerMove(w), NEW u \in Workers
        PROVE  IF pc'[u] \in Busy THEN cur'[u] <= hi'[u] ELSE cur'[u] = 1 /\ hi'[u] = 0
    <2>1. CASE u # w
      BY <1>2, <2>1, WorkerMoveEffect DEF OthersKeep, HoldsWhileBusy
    <2>2. CASE u = w /\ HoldsNothing(w)
      BY <2>2 DEF HoldsNothing
    <2>3. CASE u = w /\ (GoesOn(w) \/ Buries(w) \/ Records(w))
      BY <2>3 DEF GoesOn, Buries, Records, KeepsBatch, HoldsWhileBusy, Busy
    <2>4. CASE u = w /\ Advances(w)
      BY <2>4 DEF Advances, Busy, TypeOK
    <2>5. CASE u = w /\ Takes(w)
      <3>1. delivered[on[w]] < LastRead(on[w]) /\ delivered[on[w]] \in Nat /\ LastRead(on[w]) \in Nat
        BY <2>5, LastReadRange DEF Takes, TypeOK
      <3>2. QED
        BY <2>5, <3>1 DEF Takes, Busy
    <2>6. QED
      BY <1>2, <2>1, <2>2, <2>3, <2>4, <2>5 DEF WorkerMove
  <1>3. QED
    BY <1>1, <1>2 DEF Move, HoldsWhileBusy

\* A batch is pending and exclusive: what is handed out was not delivered before,
\* and an acknowledged entry is held no more.
LEMMA HeldIsPendingStep ==
  ASSUME TypeOK, Delivered, HoldsWhileBusy, HeldIsPending, Move
  PROVE  HeldIsPending'
  <1>1. CASE Appends
    BY <1>1, AppendsChange DEF workerVars, HeldIsPending, Holds
  <1>2. ASSUME NEW w \in Workers, WorkerMove(w),
               NEW u \in Workers, NEW s \in Streams, NEW i \in Nat, Holds(u, s, i)'
        PROVE  <<s, i>> \in pel' /\ \A v \in Workers \ {u} : ~ Holds(v, s, i)'
    <2>1. Effect(w)
      BY <1>2, WorkerMoveEffect
    <2>2. CASE Holds(u, s, i) /\ (u = w => ~ HoldsNothing(w) /\ ~ (Advances(w) /\ i = cur[w]))
      <3>1. <<s, i>> \in pel /\ \A v \in Workers \ {u} : ~ Holds(v, s, i)
        BY <2>2 DEF HeldIsPending
      <3>2. ASSUME pc[w] = "ack" PROVE <<s, i>> # Entry(w)
        <4>1. CASE u = w
          <5>1. Advances(w)
            BY <1>2, <2>2, <3>2, <4>1 DEF WorkerMove, GoesOn, Buries, Records, Takes
          <5>2. QED
            BY <2>2, <4>1, <5>1 DEF Entry
        <4>2. CASE u # w
          BY <3>1, <3>2, <4>2, HoldsItsEntry DEF Busy, Holds
        <4>3. QED
          BY <4>1, <4>2
      <3>3. <<s, i>> \in pel'
        BY <2>1, <3>1, <3>2, PendingAfter
      <3>4. i <= delivered[s]
        BY <3>1 DEF Delivered
      <3>5. delivered[s] \in Nat
        BY DEF TypeOK
      <3>6. \A v \in Workers \ {u} : ~ Holds(v, s, i)'
        BY <1>2, <3>1, <3>4, <3>5, HeldBefore
      <3>7. QED
        BY <3>3, <3>6
    <2>3. CASE u = w /\ Takes(w) /\ s = on[w] /\ delivered[s] < i /\ i <= LastRead(s)
      <3>1. LastRead(s) \in Nat /\ delivered[s] \in Nat
        BY LastReadRange DEF TypeOK
      <3>2. i \in (delivered[s] + 1)..LastRead(s)
        BY <2>3, <3>1
      <3>3. <<s, i>> \in pel'
        BY <2>3, <3>2 DEF Takes, DeliverBatch
      <3>4. <<s, i>> \notin pel
        BY <2>3, <3>1 DEF Delivered
      <3>5. \A v \in Workers : ~ Holds(v, s, i)
        BY <3>4 DEF HeldIsPending
      <3>6. \A v \in Workers \ {u} : ~ Holds(v, s, i)'
        BY <1>2, <2>3, <3>5, HeldBefore
      <3>7. QED
        BY <3>3, <3>6
    <2>4. QED
      BY <1>2, <2>2, <2>3, HeldBefore
  <1>3. ASSUME NEW w \in Workers, WorkerMove(w)
        PROVE  HeldIsPending'
    BY <1>2, <1>3 DEF HeldIsPending
  <1>4. QED
    BY <1>1, <1>3 DEF Move

\* An outcome is recorded once: by the worker that holds the entry, which
\* acknowledges it next.
LEMMA HeldIsUnrecordedStep ==
  ASSUME TypeOK, Delivered, HoldsWhileBusy, HeldIsPending, HeldIsUnrecorded, Move
  PROVE  HeldIsUnrecorded'
  <1>1. CASE Appends
    BY <1>1, AppendsChange DEF workerVars, HeldIsUnrecorded, Holds, Entry, Recorded
  <1>2. ASSUME NEW w \in Workers, WorkerMove(w), NEW u \in Workers, pc'[u] = "ack"
        PROVE  Recorded(Entry(u))'
    <2>1. CASE u # w
      <3>1. pc[u] = "ack" /\ Entry(u)' = Entry(u)
        BY <1>2, <2>1, WorkerMoveEffect DEF OthersKeep, Entry
      <3>2. Entry(u) = <<on[u], cur[u]>> /\ on[u] \in Streams /\ cur[u] \in Nat
        BY DEF Entry, TypeOK
      <3>3. Recorded(Entry(u))
        BY <3>1 DEF HeldIsUnrecorded
      <3>4. \E st \in {"processed", "failed"} :
              [stream |-> on[u], entry |-> cur[u], status |-> st] \in records'
        <4>1. records \subseteq records'
          BY <1>2, WorkerMoveEffect DEF Effect, NoEffect, redisVars, AppendEntry, CreateGroup,
             DeliverBatch, PublishDeadLetter, RecordProcessed, Acknowledge
        <4>2. QED
          BY <3>2, <3>3, <4>1 DEF Recorded
      <3>5. QED
        BY <3>1, <3>2, <3>4 DEF Recorded
    <2>2. CASE u = w
      <3>1. Records(w)
        BY <1>2, <2>2 DEF WorkerMove, HoldsNothing, GoesOn, Buries, Advances, Takes, Busy
      <3>2. Entry(w)' = <<on[w], cur[w]>> /\ Entry(w) = <<on[w], cur[w]>>
        BY <3>1 DEF Records, KeepsBatch, Entry
      <3>3. verdict[w] \in {"processed", "failed"}
        BY DEF TypeOK
      <3>4. \E st \in {"processed", "failed"} :
              [stream |-> on[w], entry |-> cur[w], status |-> st] \in records'
        BY <3>1, <3>2, <3>3 DEF Records, RecordProcessed, Recorded
      <3>5. QED
        BY <2>2, <3>2, <3>4 DEF Recorded
    <2>3. QED
      BY <2>1, <2>2
  <1>3. ASSUME NEW w \in Workers, WorkerMove(w), NEW u \in Workers, NEW s \in Streams, NEW i \in Nat,
               Holds(u, s, i)', Recorded(<<s, i>>)'
        PROVE  i = cur'[u] /\ pc'[u] = "ack"
    <2>1. Effect(w) /\ OthersKeep(w)
      BY <1>3, WorkerMoveEffect
    <2>2. CASE Takes(w) /\ u = w /\ s = on[w] /\ delivered[s] < i
      <3>1. ~ Recorded(<<s, i>>)
        BY <2>2 DEF Delivered, TypeOK
      <3>2. QED
        BY <1>3, <2>1, <2>2, <3>1, RecordedAfter DEF Takes
    <2>3. CASE Holds(u, s, i) /\ (u = w => ~ HoldsNothing(w) /\ ~ (Advances(w) /\ i = cur[w]))
      <3>1. CASE Recorded(<<s, i>>)
        <4>1. i = cur[u] /\ pc[u] = "ack"
          BY <2>3, <3>1 DEF HeldIsUnrecorded
        <4>2. u # w
          BY <1>3, <2>3, <4>1 DEF WorkerMove, GoesOn, Buries, Records, Takes
        <4>3. QED
          BY <2>1, <4>1, <4>2 DEF OthersKeep
      <3>2. CASE pc[w] = "record" /\ s = on[w] /\ i = cur[w]
        <4>1. Holds(w, s, i)
          BY <3>2, HoldsItsEntry DEF Busy
        <4>2. u = w
          BY <2>3, <4>1 DEF HeldIsPending
        <4>3. Records(w)
          BY <1>3, <2>3, <3>2, <4>2 DEF WorkerMove, GoesOn, Buries, Advances, Takes
        <4>4. QED
          BY <3>2, <4>2, <4>3 DEF Records, KeepsBatch
      <3>3. QED
        BY <1>3, <2>1, <3>1, <3>2, RecordedAfter
    <2>4. QED
      BY <1>3, <2>2, <2>3, HeldBefore
  <1>4. ASSUME NEW w \in Workers, WorkerMove(w)
        PROVE  HeldIsUnrecorded'
    BY <1>2, <1>3, <1>4 DEF HeldIsUnrecorded
  <1>5. QED
    BY <1>1, <1>4 DEF Move

\* A dead letter is written once its failure is decided, for the entry held.
LEMMA HeldIsAliveStep ==
  ASSUME TypeOK, Delivered, HoldsWhileBusy, HeldIsPending, HeldIsAlive, Move
  PROVE  HeldIsAlive'
  <1>1. CASE Appends
    BY <1>1, AppendsChange DEF workerVars, HeldIsAlive, Holds
  <1>2. ASSUME NEW w \in Workers, WorkerMove(w), NEW u \in Workers,
               pc'[u] \in {"deadLetter", "markFailed"}
        PROVE  verdict'[u] = "failed"
    <2>1. CASE u # w
      BY <1>2, <2>1, WorkerMoveEffect DEF OthersKeep, HeldIsAlive
    <2>2. CASE u = w
      BY <1>2, <2>2 DEF WorkerMove, HoldsNothing, GoesOn, Buries, Records, Advances, Takes, Busy,
                        HeldIsAlive
    <2>3. QED
      BY <2>1, <2>2
  <1>3. ASSUME NEW w \in Workers, WorkerMove(w), NEW u \in Workers, NEW s \in Streams, NEW i \in Nat,
               Holds(u, s, i)', <<s, i>> \in deadLetters'
        PROVE  i = cur'[u] /\ verdict'[u] = "failed" /\ pc'[u] \in {"markFailed", "record", "ack"}
    <2>1. Effect(w) /\ OthersKeep(w)
      BY <1>3, WorkerMoveEffect
    <2>2. CASE Takes(w) /\ u = w /\ s = on[w] /\ delivered[s] < i
      <3>1. <<s, i>> \notin deadLetters
        BY <2>2 DEF Delivered, TypeOK
      <3>2. QED
        BY <1>3, <2>1, <2>2, <3>1, DeadAfter DEF Takes
    <2>3. CASE Holds(u, s, i) /\ (u = w => ~ HoldsNothing(w) /\ ~ (Advances(w) /\ i = cur[w]))
      <3>1. CASE <<s, i>> \in deadLetters
        <4>1. i = cur[u] /\ verdict[u] = "failed" /\ pc[u] \in {"markFailed", "record", "ack"}
          BY <2>3, <3>1 DEF HeldIsAlive
        <4>2. CASE u # w
          BY <2>1, <4>1, <4>2 DEF OthersKeep
        <4>3. CASE u = w
          <5>1. (GoesOn(w) /\ pc[w] = "markFailed") \/ Records(w)
            BY <1>3, <2>3, <4>1, <4>3 DEF WorkerMove, GoesOn, Buries, Takes
          <5>2. QED
            BY <4>1, <4>3, <5>1 DEF GoesOn, Records, KeepsBatch
        <4>4. QED
          BY <4>2, <4>3
      <3>2. CASE pc[w] = "deadLetter" /\ <<s, i>> = Entry(w) /\ PublishDeadLetter(w)
        <4>1. Holds(w, s, i) /\ i = cur[w]
          BY <3>2, HoldsItsEntry DEF Busy
        <4>2. u = w
          BY <2>3, <4>1 DEF HeldIsPending
        <4>3. verdict[w] = "failed"
          BY <3>2 DEF HeldIsAlive
        <4>4. CASE Buries(w)
          BY <4>1, <4>2, <4>3, <4>4 DEF Buries, KeepsBatch
        <4>5. CASE GoesOn(w)
          BY <3>2, <4>1, <4>2, <4>3, <4>5 DEF GoesOn, KeepsBatch
        <4>6. QED
          BY <1>3, <2>3, <3>2, <4>2, <4>4, <4>5 DEF WorkerMove, Records, Advances, Takes
      <3>3. QED
        BY <1>3, <2>1, <3>1, <3>2, DeadAfter
    <2>4. QED
      BY <1>3, <2>2, <2>3, HeldBefore
  <1>4. ASSUME NEW w \in Workers, WorkerMove(w)
        PROVE  HeldIsAlive'
    BY <1>2, <1>3, <1>4 DEF HeldIsAlive
  <1>5. QED
    BY <1>1, <1>4 DEF Move

\* An acknowledged entry has an outcome on record already, and what a group made
\* anew leaves out was never handed out.
LEMMA AckedIsRecordedStep ==
  ASSUME TypeOK, Delivered, HeldIsUnrecorded, AckedIsRecorded, Move
  PROVE  AckedIsRecorded'
  <1>1. CASE Appends
    BY <1>1, AppendsChange DEF AckedIsRecorded, Recorded
  <1>2. ASSUME NEW w \in Workers, Effect(w), NEW s \in Streams, NEW i \in (start'[s] + 1)..delivered'[s]
        PROVE  <<s, i>> \in pel' \/ Recorded(<<s, i>>)'
    <2> USE DEF TypeOK
    <2>1. start[s] \in Nat /\ delivered[s] \in Nat /\ on[w] \in Streams
      OBVIOUS
    <2>2. CASE start'[s] = start[s] /\ delivered'[s] = delivered[s]
      <3>1. <<s, i>> \in pel \/ Recorded(<<s, i>>)
        BY <2>1, <2>2 DEF AckedIsRecorded
      <3>2. i \in Nat
        BY <1>2, <2>1, <2>2
      <3>3. CASE Recorded(<<s, i>>)
        BY <1>2, <3>2, <3>3, RecordedAfter
      <3>4. CASE <<s, i>> \in pel /\ ~ Recorded(<<s, i>>)
        <4>1. pc[w] = "ack" => <<s, i>> # Entry(w)
          BY <3>4 DEF HeldIsUnrecorded
        <4>2. QED
          BY <1>2, <3>4, <4>1, PendingAfter
      <3>5. QED
        BY <3>1, <3>3, <3>4
    <2>3. CASE CreateGroup(on[w]) /\ ~ (start'[s] = start[s] /\ delivered'[s] = delivered[s])
      <3>1. start'[s] = appended[s] /\ delivered'[s] = appended[s] /\ appended[s] \in Nat
        BY <2>3 DEF CreateGroup
      <3>2. QED
        BY <1>2, <3>1
    <2>4. CASE DeliverBatch(on[w]) /\ s = on[w]
      <3>1. LastRead(s) \in Nat
        BY LastReadRange
      <3>2. start' = start /\ delivered'[s] = LastRead(s) /\ records' = records
            /\ pel' = pel \cup {<<s, j>> : j \in (delivered[s] + 1)..LastRead(s)}
        BY <2>4 DEF DeliverBatch
      <3>3. CASE i \in (delivered[s] + 1)..LastRead(s)
        BY <3>2, <3>3
      <3>4. CASE i \in (start[s] + 1)..delivered[s]
        BY <3>2, <3>4 DEF AckedIsRecorded, Recorded
      <3>5. QED
        BY <1>2, <2>1, <3>1, <3>2, <3>3, <3>4
    <2>5. CASE DeliverBatch(on[w]) /\ s # on[w]
      BY <2>2, <2>5 DEF DeliverBatch
    <2>6. QED
      BY <1>2, <2>2, <2>3, <2>4, <2>5 DEF Effect, NoEffect, redisVars, AppendEntry, PublishDeadLetter,
                                          RecordProcessed, Acknowledge
  <1>3. ASSUME NEW w \in Workers, Effect(w)
        PROVE  AckedIsRecorded'
    BY <1>2, <1>3 DEF AckedIsRecorded
  <1>4. QED
    BY <1>1, <1>3, MoveEffect

\* A dead letter is of an entry without an outcome, and the outcome that is then
\* recorded for it is the failure.
LEMMA DeadLetterIsFailureStep ==
  ASSUME TypeOK, HoldsWhileBusy, HeldIsUnrecorded, HeldIsAlive, DeadLetterIsFailure, Move
  PROVE  DeadLetterIsFailure'
  <1>1. CASE Appends
    BY <1>1, AppendsChange DEF DeadLetterIsFailure
  <1>2. ASSUME NEW w \in Workers, Effect(w), NEW e \in deadLetters'
        PROVE  [stream |-> e[1], entry |-> e[2], status |-> "processed"] \notin records'
    <2>1. CASE pc[w] = "deadLetter" /\ PublishDeadLetter(w)
      <3>1. CASE e \in deadLetters
        BY <2>1, <3>1 DEF PublishDeadLetter, DeadLetterIsFailure
      <3>2. CASE e = Entry(w)
        <4>1. Entry(w) = <<on[w], cur[w]>> /\ Holds(w, on[w], cur[w])
              /\ on[w] \in Streams /\ cur[w] \in Nat
          BY <2>1, HoldsItsEntry DEF Busy
        <4>2. ~ Recorded(e)
          BY <2>1, <3>2, <4>1 DEF HeldIsUnrecorded
        <4>3. QED
          BY <2>1, <4>2 DEF Recorded, PublishDeadLetter
      <3>3. QED
        BY <1>2, <2>1, <3>1, <3>2 DEF PublishDeadLetter
    <2>2. CASE pc[w] = "record" /\ RecordProcessed(w)
      <3>1. e \in deadLetters /\ e \in Streams \X Nat
        BY <1>2, <2>2 DEF RecordProcessed, TypeOK
      <3>2. Entry(w) = <<on[w], cur[w]>> /\ Holds(w, on[w], cur[w])
            /\ on[w] \in Streams /\ cur[w] \in Nat
        BY <2>2, HoldsItsEntry DEF Busy
      <3>3. e = Entry(w) => verdict[w] = "failed"
        BY <3>1, <3>2 DEF HeldIsAlive
      <3>4. e[1] = on[w] /\ e[2] = cur[w] => e = Entry(w)
        BY <3>1, <3>2
      <3>5. [stream |-> e[1], entry |-> e[2], status |-> "processed"] \notin records
        BY <3>1 DEF DeadLetterIsFailure
      <3>6. \/ records' = records
            \/ records' = records \cup {[stream |-> on[w], entry |-> cur[w], status |-> verdict[w]]}
        BY <2>2 DEF RecordProcessed
      <3>7. QED
        BY <3>3, <3>4, <3>5, <3>6
    <2>3. CASE deadLetters' = deadLetters /\ records' = records
      BY <1>2, <2>3 DEF DeadLetterIsFailure
    <2>4. QED
      BY <1>2, <2>1, <2>2, <2>3 DEF Effect, NoEffect, redisVars, AppendEntry, CreateGroup, DeliverBatch,
                                    Acknowledge
  <1>3. ASSUME NEW w \in Workers, Effect(w)
        PROVE  DeadLetterIsFailure'
    BY <1>2, <1>3 DEF DeadLetterIsFailure
  <1>4. QED
    BY <1>1, <1>3, MoveEffect
-----------------------------------------------------------------------------
\* The inductive invariant holds at first.
LEMMA InitInv == Init => StreamInv
  <1> SUFFICES ASSUME Init PROVE StreamInv
    OBVIOUS
  <1>1. TypeOK
    BY InitType
  <1>2. Delivered /\ HoldsWhileBusy /\ HeldIsPending
    BY DEF Init, Delivered, Recorded, HoldsWhileBusy, Busy, HeldIsPending, Holds
  <1>3. HeldIsUnrecorded /\ HeldIsAlive
    BY DEF Init, HeldIsUnrecorded, HeldIsAlive, Recorded
  <1>4. AckedIsRecorded /\ DeadLetterIsFailure
    BY DEF Init, AckedIsRecorded, DeadLetterIsFailure
  <1>5. QED
    BY <1>1, <1>2, <1>3, <1>4 DEF StreamInv

\* Every step keeps it.
LEMMA StepInv == StreamInv /\ [Next]_streamVars => StreamInv'
  <1> SUFFICES ASSUME StreamInv, [Next]_streamVars PROVE StreamInv'
    OBVIOUS
  <1>1. CASE UNCHANGED streamVars
    <2> USE <1>1 DEF StreamInv, streamVars, redisVars, workerVars
    <2>1. TypeOK'
      BY TypeStep
    <2>2. Delivered' /\ HoldsWhileBusy'
      BY DEF Delivered, HoldsWhileBusy, Recorded
    <2>3. HeldIsPending'
      BY DEF HeldIsPending, Holds
    <2>4. HeldIsUnrecorded'
      BY DEF HeldIsUnrecorded, Holds, Recorded, Entry
    <2>5. HeldIsAlive'
      BY DEF HeldIsAlive, Holds
    <2>6. AckedIsRecorded' /\ DeadLetterIsFailure'
      BY DEF AckedIsRecorded, DeadLetterIsFailure, Recorded
    <2>7. QED
      BY <2>1, <2>2, <2>3, <2>4, <2>5, <2>6
  <1>2. CASE Move
    <2>1. TypeOK'
      BY TypeStep DEF StreamInv
    <2>2. QED
      BY <1>2, <2>1, DeliveredStep, HoldsWhileBusyStep, HeldIsPendingStep, HeldIsUnrecordedStep,
         HeldIsAliveStep, AckedIsRecordedStep, DeadLetterIsFailureStep DEF StreamInv
  <1>3. QED
    BY <1>1, <1>2, StepIsMove DEF StreamInv

\* So it always holds.
LEMMA AlwaysInv == Spec => []StreamInv
  BY InitInv, StepInv, PTL DEF Spec
-----------------------------------------------------------------------------
\* The variables keep to their ranges, whatever fails and however many workers run.
THEOREM StreamTypes == Spec => []TypeOK
  <1>1. StreamInv => TypeOK
    BY DEF StreamInv
  <1>2. QED
    BY <1>1, AlwaysInv, PTL

\* An acknowledged entry has its outcome on record: the finally block acknowledges
\* after its INSERT, and every interruption between the two leaves the entry pending.
THEOREM AckFollowsRecord == Spec => []AckedIsRecorded
  <1>1. StreamInv => AckedIsRecorded
    BY DEF StreamInv
  <1>2. QED
    BY <1>1, AlwaysInv, PTL

\* A failed handler's entry is never recorded as processed.
THEOREM DeadLettersFailed == Spec => []DeadLetterIsFailure
  <1>1. StreamInv => DeadLetterIsFailure
    BY DEF StreamInv
  <1>2. QED
    BY <1>1, AlwaysInv, PTL

\* The entries a worker has read are those it holds.
LEMMA BatchIsHeld ==
  ASSUME TypeOK, NEW w \in Workers
  PROVE  /\ Batch(w) \subseteq Streams \X Nat
         /\ \A s \in Streams, i \in Nat : <<s, i>> \in Batch(w) <=> Holds(w, s, i)
  <1>1. on[w] \in Streams /\ cur[w] \in Nat /\ hi[w] \in Nat
    BY DEF TypeOK
  <1> HIDE DEF Streams
  <1>2. Batch(w) \subseteq Streams \X Nat
    BY <1>1 DEF Batch
  <1>3. ASSUME NEW s \in Streams, NEW i \in Nat
        PROVE  <<s, i>> \in Batch(w) <=> Holds(w, s, i)
    <2>1. <<s, i>> \in Batch(w) <=> on[w] = s /\ i \in cur[w]..hi[w]
      BY DEF Batch
    <2>2. i \in cur[w]..hi[w] <=> cur[w] <= i /\ i <= hi[w]
      BY <1>1
    <2>3. QED
      BY <2>1, <2>2 DEF Holds
  <1>4. QED
    BY <1>2, <1>3

\* No entry is in the batches of two workers, and what they hold is pending:
\* XREADGROUP hands every entry out once, to the group and not to a worker.
THEOREM BatchesExclude == Spec => []BatchesAreExclusive
  <1>1. ASSUME StreamInv, NEW w \in Workers, NEW e \in Batch(w)
        PROVE  e \in pel /\ \A u \in Workers \ {w} : e \notin Batch(u)
    <2>1. PICK s \in Streams, i \in Nat : e = <<s, i>>
      BY <1>1, BatchIsHeld DEF StreamInv
    <2>2. QED
      BY <1>1, <2>1, BatchIsHeld DEF StreamInv, HeldIsPending
  <1>2. StreamInv => BatchesAreExclusive
    BY <1>1 DEF BatchesAreExclusive
  <1>3. QED
    BY <1>2, AlwaysInv, PTL

\* No handler runs twice for an entry: by the time an outcome is on record, only the
\* worker that is about to acknowledge it still holds the entry.
THEOREM HandledOnce == Spec => []NoEntryHandledTwice
  <1>1. ASSUME StreamInv, NEW w \in Workers, NEW e \in Batch(w), Recorded(e)
        PROVE  e = Entry(w) /\ pc[w] = "ack"
    <2>1. PICK s \in Streams, i \in Nat : e = <<s, i>>
      BY <1>1, BatchIsHeld DEF StreamInv
    <2>2. Holds(w, s, i)
      BY <1>1, <2>1, BatchIsHeld DEF StreamInv
    <2>3. QED
      BY <1>1, <2>1, <2>2 DEF StreamInv, HeldIsUnrecorded, Holds, Entry
  <1>2. StreamInv => NoEntryHandledTwice
    BY <1>1 DEF NoEntryHandledTwice
  <1>3. QED
    BY <1>2, AlwaysInv, PTL

\* A pending entry nobody holds stays so, and gets no outcome: nothing reads the
\* pending entries list, so an entry a worker dropped is never handled again.
THEOREM AbandonedStay == Spec => AbandonedForGood
  <1>1. ASSUME TypeOK, NEW s \in Streams, NEW i \in Nat
        PROVE  <<s, i>> \in Abandoned <=> <<s, i>> \in pel /\ \A u \in Workers : ~ Holds(u, s, i)
    BY <1>1, BatchIsHeld DEF Abandoned
  <1>2. ASSUME TypeOK', NEW s \in Streams, NEW i \in Nat
        PROVE  <<s, i>> \in Abandoned'
               <=> <<s, i>> \in pel' /\ \A u \in Workers : ~ Holds(u, s, i)'
    BY <1>2 DEF TypeOK, Abandoned, Batch, Holds
  <1>3. ASSUME StreamInv, StreamInv', [Next]_streamVars, NEW e \in Abandoned
        PROVE  e \in Abandoned' /\ Recorded(e)' = Recorded(e)
    <2> USE DEF StreamInv
    <2>1. PICK s \in Streams, i \in Nat : e = <<s, i>>
      BY <1>3 DEF Abandoned, TypeOK
    <2>2. <<s, i>> \in pel /\ \A u \in Workers : ~ Holds(u, s, i)
      BY <1>1, <1>3, <2>1
    <2>3. CASE UNCHANGED streamVars
      BY <2>3 DEF streamVars, redisVars, workerVars, Abandoned, Batch, Recorded
    <2>4. CASE Appends
      BY <1>3, <2>4, AppendsChange DEF workerVars, Abandoned, Batch, Recorded
    <2>5. ASSUME NEW w \in Workers, WorkerMove(w)
          PROVE  e \in Abandoned' /\ Recorded(e)' = Recorded(e)
      <3>1. Effect(w)
        BY <2>5, WorkerMoveEffect
      <3>2. pc[w] \in {"ack", "record"} => ~ (s = on[w] /\ i = cur[w])
        BY <1>3, <2>2, HoldsItsEntry DEF Busy
      <3>3. <<s, i>> \in pel'
        BY <2>2, <3>1, <3>2, PendingAfter DEF Entry
      <3>4. i <= delivered[s] /\ delivered[s] \in Nat
        BY <1>3, <2>2 DEF Delivered, TypeOK
      <3>5. \A u \in Workers : ~ Holds(u, s, i)'
        BY <1>3, <2>2, <2>5, <3>4, HeldBefore
      <3>6. <<s, i>> \in Abandoned'
        BY <1>2, <1>3, <3>3, <3>5
      <3>7. Recorded(<<s, i>>)' <=> Recorded(<<s, i>>)
        BY <1>3, <3>1, <3>2, RecordedAfter
      <3>8. Recorded(e)' = Recorded(e)
        BY <2>1, <3>7 DEF Recorded
      <3>9. QED
        BY <2>1, <3>6, <3>8
    <2>6. QED
      BY <1>3, <2>3, <2>4, <2>5, StepIsMove DEF Move
  <1>4. StreamInv /\ StreamInv' /\ [Next]_streamVars
        => [/\ Abandoned \subseteq Abandoned'
            /\ \A e \in Abandoned : Recorded(e)' = Recorded(e)]_streamVars
    BY <1>3
  <1>5. QED
    BY <1>4, AlwaysInv, PTL DEF Spec, AbandonedForGood
=============================================================================

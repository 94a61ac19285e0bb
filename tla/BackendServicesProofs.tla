------------------------ MODULE BackendServicesProofs ------------------------
(***************************************************************************)
(* What holds of document-, payment- and notification-service for any number *)
(* of calls.  The argument: a row is stored by one transaction, after its    *)
(* file is whole or its mail is out, and nobody is told "done" before it.    *)
(***************************************************************************)
EXTENDS BackendServices, TLAPS

USE BackendServicesAssumption

\* Where a handler is tells how far its row, its answer and its result have come:
\* before the transaction ends there is no row and nobody was told "done", and what
\* the row is about to say is true.
Stages ==
  \A c \in Calls :
    /\ at[c] # "over" => row[c] = "none" /\ answer[c] \in {"waiting", "error"}
    /\ at[c] = "idle" => answer[c] = "waiting"
    /\ at[c] = "writing" => c \in Documents
    /\ at[c] = "insert" /\ c \in Documents => result[c] = "done" /\ file[c] = "whole"
    /\ at[c] = "insert" => result[c] # "none"
    /\ at[c] = "insert" /\ c \in Notifications /\ result[c] = "done" => c \in mailed
    /\ at[c] = "over" => answer[c] # "waiting"

ServiceInv == TypeOK /\ Stages /\ RowsAreBacked

\* The invariant holds at first.
LEMMA InvInit == Init => ServiceInv
  <1> SUFFICES ASSUME Init PROVE ServiceInv
    OBVIOUS
  <1>1. TypeOK
    BY DEF Init, TypeOK, Calls
  <1>2. Stages
    BY DEF Init, Stages
  <1>3. RowsAreBacked
    BY DEF Init, RowsAreBacked, Calls
  <1>4. QED
    BY <1>1, <1>2, <1>3 DEF ServiceInv

\* Every step of a call keeps the types.
LEMMA TypeStep == ASSUME ServiceInv, NEW c \in Calls, Step(c) PROVE TypeOK'
  <1> USE DEF ServiceInv, TypeOK, Goto, Tell
  <1>1. /\ c \in Documents /\ at[c] = "insert" => result[c] = "done"
        /\ at[c] = "insert" => result[c] # "none"
    BY DEF Stages
  <1>2. \A d \in Documents : d \in Calls
    BY DEF Calls
  <1>3. CASE Arrive(c) \/ StartFile(c) \/ FinishFile(c)
    BY <1>3 DEF Arrive, StartFile, FinishFile
  <1>4. CASE GiveUp(c) \/ FileFails(c)
    BY <1>2, <1>4 DEF GiveUp, FileFails
  <1>5. CASE Dies(c) \/ StoreFails(c)
    <2>1. row' \in [Calls -> {"none", "done", "refused"}]
      BY <1>5 DEF Dies, StoreFails
    <2>2. QED
      BY <1>2, <1>5, <2>1 DEF Dies, StoreFails
  <1>6. CASE process_payment(c)
    BY <1>6 DEF process_payment
  <1>7. CASE send(c)
    <2>1. mailed' \subseteq Notifications
      BY <1>7 DEF send
    <2>2. result' \in [Calls -> {"none", "done", "refused"}]
      BY <1>7 DEF send
    <2>3. QED
      BY <1>7, <2>1, <2>2 DEF send
  <1>8. CASE Store(c)
    <2>1. answer' \in [Calls -> {"waiting", "done", "refused", "error"}]
      BY <1>1, <1>8 DEF Store
    <2>2. \A d \in Documents : answer'[d] # "refused"
      BY <1>1, <1>2, <1>8 DEF Store
    <2>3. QED
      BY <1>8, <2>1, <2>2 DEF Store
  <1>9. QED
    BY <1>3, <1>4, <1>5, <1>6, <1>7, <1>8 DEF Step

\* A step of one call leaves the others alone.
LEMMA OthersStay ==
  ASSUME ServiceInv, NEW c \in Calls, Step(c), NEW d \in Calls, d # c
  PROVE  /\ at'[d] = at[d] /\ result'[d] = result[d] /\ file'[d] = file[d]
         /\ row'[d] = row[d] /\ answer'[d] = answer[d]
         /\ d \in mailed' <=> d \in mailed
  <1> USE DEF ServiceInv, TypeOK, Goto, Tell
  <1>1. CASE Arrive(c) \/ GiveUp(c) \/ Dies(c)
    BY <1>1 DEF Arrive, GiveUp, Dies
  <1>2. CASE StartFile(c) \/ FinishFile(c) \/ FileFails(c)
    BY <1>2 DEF StartFile, FinishFile, FileFails
  <1>3. CASE process_payment(c) \/ send(c)
    BY <1>3 DEF process_payment, send
  <1>4. CASE Store(c) \/ StoreFails(c)
    BY <1>4 DEF Store, StoreFails
  <1>5. QED
    BY <1>1, <1>2, <1>3, <1>4 DEF Step

\* What Stages says of one call, and what RowsAreBacked says of it.
StagesOf(c) ==
  /\ at[c] # "over" => row[c] = "none" /\ answer[c] \in {"waiting", "error"}
  /\ at[c] = "idle" => answer[c] = "waiting"
  /\ at[c] = "writing" => c \in Documents
  /\ at[c] = "insert" /\ c \in Documents => result[c] = "done" /\ file[c] = "whole"
  /\ at[c] = "insert" => result[c] # "none"
  /\ at[c] = "insert" /\ c \in Notifications /\ result[c] = "done" => c \in mailed
  /\ at[c] = "over" => answer[c] # "waiting"

BackedOf(c) ==
  /\ c \in Documents /\ row[c] # "none" => file[c] = "whole"
  /\ c \in Notifications /\ row[c] = "done" => c \in mailed

\* RowsAreBacked, call by call.
LEMMA BackedByCall == RowsAreBacked <=> \A c \in Calls : BackedOf(c)
  BY DEF RowsAreBacked, BackedOf, download_document, Calls

\* The call that takes a step keeps its part of the invariant.
LEMMA CallStep ==
  ASSUME ServiceInv, NEW c \in Calls, Step(c)
  PROVE  StagesOf(c)' /\ BackedOf(c)'
  <1>1. StagesOf(c)
    BY DEF ServiceInv, Stages, StagesOf
  <1>2. BackedOf(c)
    BY BackedByCall DEF ServiceInv
  <1> USE <1>1, <1>2 DEF ServiceInv, TypeOK, StagesOf, BackedOf, Goto, Tell, Calls
  <1>3. CASE Arrive(c) \/ GiveUp(c)
    BY <1>3 DEF Arrive, GiveUp
  <1>4. CASE Dies(c)
    BY <1>4 DEF Dies
  <1>5. CASE StartFile(c) \/ FinishFile(c) \/ FileFails(c)
    BY <1>5 DEF StartFile, FinishFile, FileFails
  <1>6. CASE process_payment(c) \/ send(c)
    BY <1>6 DEF process_payment, send
  <1>7. CASE Store(c) \/ StoreFails(c)
    BY <1>7 DEF Store, StoreFails
  <1>8. QED
    BY <1>3, <1>4, <1>5, <1>6, <1>7 DEF Step

\* Every step keeps the invariant.
LEMMA InvStep == ServiceInv /\ [Next]_vars => ServiceInv'
  <1> SUFFICES ASSUME ServiceInv, [Next]_vars PROVE ServiceInv'
    OBVIOUS
  <1>1. CASE UNCHANGED vars
    BY <1>1 DEF ServiceInv, TypeOK, Stages, RowsAreBacked, download_document, vars
  <1>2. ASSUME NEW c \in Calls, Step(c) PROVE ServiceInv'
    <2>1. ASSUME NEW d \in Calls PROVE StagesOf(d)' /\ BackedOf(d)'
      <3>1. CASE d = c
        BY <1>2, <3>1, CallStep
      <3>2. CASE d # c
        <4>1. StagesOf(d) /\ BackedOf(d)
          BY BackedByCall DEF ServiceInv, Stages, StagesOf
        <4>2. QED
          BY <1>2, <3>2, <4>1, OthersStay DEF StagesOf, BackedOf
      <3>3. QED
        BY <3>1, <3>2
    <2>2. Stages'
      BY <2>1 DEF Stages, StagesOf
    <2>3. RowsAreBacked'
      BY <2>1 DEF RowsAreBacked, BackedOf, download_document, Calls
    <2>4. QED
      BY <1>2, <2>2, <2>3, TypeStep DEF ServiceInv
  <1>3. QED
    BY <1>1, <1>2 DEF Next

\* The invariant holds of every behaviour.
LEMMA Invariance == Spec => []ServiceInv
  BY InvInit, InvStep, PTL DEF Spec

\* The variables of the three services have the values TypeOK gives them.
THEOREM BackendTypes == Spec => []TypeOK
  <1>1. ServiceInv => TypeOK
    BY DEF ServiceInv
  <1>2. QED
    BY <1>1, Invariance, PTL

\* For any number of calls that fail, die or outlive their callers: a document that
\* can be found can be downloaded and is whole, and a mail that "was sent" was.
THEOREM RowsAlwaysBacked == Spec => []RowsAreBacked
  <1>1. ServiceInv => RowsAreBacked
    BY DEF ServiceInv
  <1>2. QED
    BY <1>1, Invariance, PTL

\* What a caller may take note of changes for one call at a time.
LEMMA SeenMoves ==
  ASSUME ServiceInv, NEW c \in Calls, Step(c)
  PROVE  /\ Seen' = [Seen EXCEPT ![c] = Effect(c)' /\ answer'[c] # "waiting"]
         /\ answer' = [answer EXCEPT ![c] = answer'[c]]
  <1>1. \A d \in Calls : d # c => Effect(d)' = Effect(d) /\ answer'[d] = answer[d]
    BY OthersStay DEF Effect
  <1>2. answer \in [Calls -> {"waiting", "done", "refused", "error"}]
        /\ answer' \in [Calls -> {"waiting", "done", "refused", "error"}]
    BY TypeStep DEF ServiceInv, TypeOK
  <1>3. Seen' = [d \in Calls |-> Effect(d)' /\ answer'[d] # "waiting"]
    BY DEF Seen
  <1>4. QED
    BY <1>1, <1>2, <1>3 DEF Seen

\* A call that nobody waits for any more: only its effect may still come.
LEMMA LateStep ==
  ASSUME ServiceInv, NEW c \in Calls, Step(c), answer[c] # "waiting"
  PROVE  answer'[c] = answer[c] /\ (Effect(c)' = Effect(c) \/ (~ Effect(c) /\ answer[c] = "error" /\ Effect(c)'))
  <1> USE DEF ServiceInv, TypeOK, Stages, Goto, Tell, Effect
  <1>1. CASE Arrive(c) \/ GiveUp(c) \/ StartFile(c) \/ FinishFile(c) \/ FileFails(c) \/ process_payment(c)
    BY <1>1 DEF Arrive, GiveUp, StartFile, FinishFile, FileFails, process_payment
  <1>2. CASE send(c)
    BY <1>2 DEF send
  <1>3. CASE Dies(c) \/ Store(c) \/ StoreFails(c)
    BY <1>3 DEF Dies, Store, StoreFails
  <1>4. QED
    BY <1>1, <1>2, <1>3 DEF Step

\* A call somebody waits for: it goes on, or its answer is backed by its effect.
LEMMA AnswerStep ==
  ASSUME ServiceInv, NEW c \in Calls, Step(c), answer[c] = "waiting"
  PROVE  \/ answer'[c] = "waiting"
         \/ answer'[c] = "error"
         \/ answer'[c] = "done" /\ Effect(c)'
         \/ answer'[c] = "refused" /\ (~ Effect(c)' \/ c \in Notifications)
  <1> USE DEF ServiceInv, TypeOK, Stages, Goto, Tell, Effect
  <1>1. CASE Arrive(c) \/ GiveUp(c) \/ Dies(c)
    BY <1>1 DEF Arrive, GiveUp, Dies
  <1>2. CASE StartFile(c) \/ FinishFile(c) \/ FileFails(c) \/ process_payment(c) \/ send(c)
    BY <1>2 DEF StartFile, FinishFile, FileFails, process_payment, send
  <1>3. CASE Store(c)
    BY <1>3 DEF Store
  <1>4. CASE StoreFails(c)
    BY <1>4 DEF StoreFails
  <1>5. QED
    BY <1>1, <1>2, <1>3, <1>4 DEF Step

\* Every step is one of the abstract call's, or a stutter.
LEMMA PromiseStep == ServiceInv /\ [Next]_vars => [Abstract!Next]_Abstract!vars
  <1> SUFFICES ASSUME ServiceInv, [Next]_vars PROVE [Abstract!Next]_Abstract!vars
    OBVIOUS
  <1>1. CASE UNCHANGED vars
    <2>1. Seen' = Seen
      BY <1>1 DEF vars, Seen, Effect
    <2>2. QED
      BY <1>1, <2>1 DEF vars, Abstract!vars
  <1>2. ASSUME NEW c \in Calls, Step(c) PROVE [Abstract!Next]_Abstract!vars
    <2> DEFINE said == answer'[c]
               took == Effect(c)'
    <2>1. /\ Seen' = [Seen EXCEPT ![c] = took /\ said # "waiting"]
          /\ answer' = [answer EXCEPT ![c] = said]
      BY <1>2, SeenMoves
    <2>2. /\ answer \in [Calls -> {"waiting", "done", "refused", "error"}]
          /\ Seen = [d \in Calls |-> Effect(d) /\ answer[d] # "waiting"]
      BY DEF ServiceInv, TypeOK, Seen
    <2>3. took \in BOOLEAN
      <3>1. CASE c \in Notifications
        BY <3>1 DEF Effect
      <3>2. CASE c \notin Notifications
        BY <3>2 DEF Effect
      <3>3. QED
        BY <3>1, <3>2
    <2>4. CASE answer[c] = "waiting"
      <3>1. CASE said = "waiting"
        <4>1. Seen' = Seen /\ answer' = answer
          BY <2>1, <2>2, <2>4, <3>1
        <4>2. QED
          BY <4>1 DEF Abstract!vars
      <3>2. CASE said # "waiting"
        <4>1. Abstract!Answer(c, said, took)
          BY <2>1, <2>3, <2>4, <3>2 DEF Abstract!Answer
        <4>2. \/ said = "error" \/ (said = "done" /\ took)
              \/ said = "refused" /\ (~ took \/ c \in Notifications)
          BY <1>2, <2>4, <3>2, AnswerStep
        <4>3. Abstract!Complete(c) \/ Abstract!Refuse(c) \/ Abstract!Fail(c)
          <5>1. CASE said = "error"
            BY <2>3, <4>1, <5>1 DEF Abstract!Fail
          <5>2. CASE said = "done" /\ took
            BY <2>3, <4>1, <5>2 DEF Abstract!Complete
          <5>3. CASE said = "refused" /\ (~ took \/ c \in Notifications)
            <6>1. took = TRUE \/ took = FALSE
              BY <2>3
            <6>2. QED
              BY <4>1, <5>3, <6>1 DEF Abstract!Refuse
          <5>4. QED
            BY <4>2, <5>1, <5>2, <5>3
        <4>4. QED
          BY <4>3 DEF Abstract!Next
      <3>3. QED
        BY <3>1, <3>2
    <2>5. CASE answer[c] # "waiting"
      <3>1. /\ said = answer[c]
            /\ took = Effect(c) \/ (~ Effect(c) /\ answer[c] = "error" /\ took)
        BY <1>2, <2>5, LateStep
      <3>2. answer' = answer
        BY <2>1, <2>2, <3>1
      <3>3. CASE took = Effect(c)
        <4>1. Seen' = Seen
          BY <2>1, <2>2, <2>5, <3>1, <3>3
        <4>2. QED
          BY <3>2, <4>1 DEF Abstract!vars
      <3>4. CASE ~ Effect(c) /\ answer[c] = "error" /\ took
        <4>1. ~ Seen[c] /\ Seen' = [Seen EXCEPT ![c] = TRUE]
          BY <2>1, <2>2, <2>3, <3>1, <3>4
        <4>2. Abstract!Late(c)
          BY <3>2, <3>4, <4>1 DEF Abstract!Late
        <4>3. QED
          BY <4>2 DEF Abstract!Next
      <3>5. QED
        BY <3>1, <3>3, <3>4
    <2>6. QED
      BY <2>4, <2>5
  <1>3. QED
    BY <1>1, <1>2 DEF Next

\* The three services keep the promise the workflow builds on, for any number of
\* calls: "done" means done, and only a call that failed takes effect late.
THEOREM ServicesKeepPromise == Spec => Promise
  <1>1. Init => Abstract!Init
    BY DEF Init, Abstract!Init, Seen, Effect
  <1>2. QED
    BY <1>1, PromiseStep, Invariance, PTL DEF Spec, Promise, Abstract!Spec
=============================================================================

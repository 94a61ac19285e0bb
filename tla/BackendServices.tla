--------------------------- MODULE BackendServices ---------------------------
(***************************************************************************)
(* document-, payment- and notification-service: the calls that make a       *)
(* document, charge an order or send a mail.  Each does something outside    *)
(* the database first (a PDF, the provider, the SMTP server) and then stores *)
(* a row, in one transaction, that says how it went.  Any step may fail, the *)
(* caller may stop waiting at any moment, and the pod may die between any    *)
(* two steps; what was done is never undone and never cleaned up.            *)
(*                                                                           *)
(* Ids are uuid4, so a call is named by the row and the file it makes.       *)
(***************************************************************************)
CONSTANTS Documents, Payments, Notifications     \* the calls each service gets

Calls == Documents \cup Payments \cup Notifications

ASSUME BackendServicesAssumption ==
  /\ Documents \cap Payments = {} /\ Documents \cap Notifications = {}
  /\ Payments \cap Notifications = {}

VARIABLES
  at,        \* where the handler is: idle | begin | writing | insert | over
  result,    \* how it went, for the row: none | done | refused
  file,      \* the PDF on the volume: none | partial | whole
  mailed,    \* the calls whose mail the SMTP server took
  row,       \* what the row says: none | done (generated, completed, sent) | refused (failed)
  answer     \* what the caller was told: waiting | done | refused | error

vars == <<at, result, file, mailed, row, answer>>

Init ==
  /\ at = [c \in Calls |-> "idle"]
  /\ result = [c \in Calls |-> "none"]
  /\ file = [c \in Calls |-> "none"]
  /\ mailed = {}
  /\ row = [c \in Calls |-> "none"]
  /\ answer = [c \in Calls |-> "waiting"]
-----------------------------------------------------------------------------
Goto(c, place) == at' = [at EXCEPT ![c] = place]

\* The answer of the handler, if its caller is still there.
Tell(c, what) == answer' = [answer EXCEPT ![c] = IF @ = "waiting" THEN what ELSE @]

Arrive(c) ==
  /\ at[c] = "idle"
  /\ Goto(c, "begin")
  /\ UNCHANGED <<result, file, mailed, row, answer>>

\* Canvas.save() opens the file ...
StartFile(c) ==
  /\ c \in Documents
  /\ at[c] = "begin"
  /\ file' = [file EXCEPT ![c] = "partial"]
  /\ Goto(c, "writing")
  /\ UNCHANGED <<result, mailed, row, answer>>

\* ... and writes it; then it is read again for its size and checksum.
FinishFile(c) ==
  /\ at[c] = "writing"
  /\ file' = [file EXCEPT ![c] = "whole"]
  /\ result' = [result EXCEPT ![c] = "done"]
  /\ Goto(c, "insert")
  /\ UNCHANGED <<mailed, row, answer>>

\* Mutant: a document that cannot be made is answered like a payment that fails.
FileFailsRefused(c) ==
  /\ c \in Documents
  /\ at[c] \in {"begin", "writing"}
  /\ Tell(c, "refused")
  /\ Goto(c, "over")
  /\ UNCHANGED <<result, file, mailed, row>>

\* The volume is full or gone: 500.
FileFails(c) ==
  /\ c \in Documents
  /\ at[c] \in {"begin", "writing"}
  /\ Tell(c, "error")
  /\ Goto(c, "over")
  /\ UNCHANGED <<result, file, mailed, row>>

\* The local provider answers by the scenario of the request, and keeps nothing.
process_payment(c) ==
  /\ c \in Payments
  /\ at[c] = "begin"
  /\ \E outcome \in {"done", "refused"} : result' = [result EXCEPT ![c] = outcome]
  /\ Goto(c, "insert")
  /\ UNCHANGED <<file, mailed, row, answer>>

\* provider.send never raises: any exception of the SMTP session, also one after
\* the message was accepted, makes the notification a failed one.
send(c) ==
  /\ c \in Notifications
  /\ at[c] = "begin"
  /\ \/ mailed' = mailed \cup {c} /\ result' = [result EXCEPT ![c] = "done"]
     \/ mailed' \in {mailed, mailed \cup {c}} /\ result' = [result EXCEPT ![c] = "refused"]
  /\ Goto(c, "insert")
  /\ UNCHANGED <<file, row, answer>>

\* Mutant: the row is stored first, the file is written when it is asked for.
StoreBeforeFile(c) ==
  /\ at[c] = "insert" \/ (c \in Documents /\ at[c] = "begin")
  /\ LET said == IF c \in Documents THEN "done" ELSE result[c]
     IN row' = [row EXCEPT ![c] = said] /\ Tell(c, said)
  /\ Goto(c, "over")
  /\ UNCHANGED <<result, file, mailed>>

\* Mutant: the failure of the insert is logged, and the answer is 201.
StoreFailsUnnoticed(c) ==
  /\ at[c] = "insert"
  /\ row' = row \/ row' = [row EXCEPT ![c] = result[c]]
  /\ Tell(c, result[c])
  /\ Goto(c, "over")
  /\ UNCHANGED <<result, file, mailed>>

\* The transaction that inserts the row; then the answer 201.
Store(c) ==
  /\ at[c] = "insert"
  /\ row' = [row EXCEPT ![c] = result[c]]
  /\ Tell(c, result[c])
  /\ Goto(c, "over")
  /\ UNCHANGED <<result, file, mailed>>

\* The insert or the commit fails; the commit may have been made: 500.
StoreFails(c) ==
  /\ at[c] = "insert"
  /\ row' = row \/ row' = [row EXCEPT ![c] = result[c]]
  /\ Tell(c, "error")
  /\ Goto(c, "over")
  /\ UNCHANGED <<result, file, mailed>>

\* The caller times out; the handler is not told.
GiveUp(c) ==
  /\ at[c] # "idle"
  /\ answer[c] = "waiting"
  /\ Tell(c, "error")
  /\ UNCHANGED <<at, result, file, mailed, row>>

\* The pod dies; a commit on its way may still be made.
Dies(c) ==
  /\ at[c] \in {"begin", "writing", "insert"}
  /\ \/ row' = row
     \/ at[c] = "insert" /\ row' = [row EXCEPT ![c] = result[c]]
  /\ Tell(c, "error")
  /\ Goto(c, "over")
  /\ UNCHANGED <<result, file, mailed>>

Step(c) ==
  \/ Arrive(c) \/ GiveUp(c) \/ Dies(c)
  \/ StartFile(c) \/ FinishFile(c) \/ FileFails(c)
  \/ process_payment(c) \/ send(c)
  \/ Store(c) \/ StoreFails(c)

Next == \E c \in Calls : Step(c)

Spec == Init /\ [][Next]_vars
-----------------------------------------------------------------------------
\* GET /documents/{id}/download: 404 without a row, and 404 without a file.
download_document(c) ==
  IF row[c] = "none" \/ file[c] = "none" THEN "404" ELSE file[c]

\* Whether the call has had its effect: a row for a document or a charge, the
\* mail itself for a notification.
Effect(c) == IF c \in Notifications THEN c \in mailed ELSE row[c] = "done"

\* The effect as a caller may take note of it: while it waits it sees none.
Seen == [c \in Calls |-> Effect(c) /\ answer[c] # "waiting"]

Abstract == INSTANCE ServiceCall WITH effect <- Seen

\* Every call keeps the promise CheckoutSaga builds on: answered "done" it had its
\* effect, and only a call whose caller was told of an error has it late.
Promise == Abstract!Spec

\* The values the variables range over; a refusal is never told of a document.
TypeOK ==
  /\ at \in [Calls -> {"idle", "begin", "writing", "insert", "over"}]
  /\ result \in [Calls -> {"none", "done", "refused"}]
  /\ file \in [Calls -> {"none", "partial", "whole"}]
  /\ mailed \subseteq Notifications
  /\ row \in [Calls -> {"none", "done", "refused"}]
  /\ answer \in [Calls -> {"waiting", "done", "refused", "error"}]
  /\ \A c \in Documents : answer[c] # "refused"

\* A row never says more than what was done: a document that can be found can be
\* downloaded and is whole, although files outlive failures and crashes that
\* keep their rows from being stored; a notification that says "sent" was sent.
RowsAreBacked ==
  /\ \A c \in Documents : row[c] # "none" => download_document(c) = "whole"
  /\ \A c \in Notifications : row[c] = "done" => c \in mailed
=============================================================================

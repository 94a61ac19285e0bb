----------------------------- MODULE ServiceCall -----------------------------
(***************************************************************************)
(* What a caller may rely on when it asks document-, payment- or             *)
(* notification-service for something, and all that CheckoutSaga and         *)
(* LegacyRoutes take for granted: a call that is answered "done" had its     *)
(* effect, a call that fails had it, has it later, or never (late), and a    *)
(* refusal tells nothing about a mail but everything about the rest.         *)
(***************************************************************************)
CONSTANTS
  Calls,
  Notifications     \* the calls among them that ask for a mail

VARIABLES
  effect,           \* whether the document, charge or mail is there
  answer            \* what the caller was told: waiting | done | refused | error

vars == <<effect, answer>>

Init ==
  /\ effect = [c \in Calls |-> FALSE]
  /\ answer = [c \in Calls |-> "waiting"]

Answer(c, told, done) ==
  /\ answer[c] = "waiting"
  /\ answer' = [answer EXCEPT ![c] = told]
  /\ effect' = [effect EXCEPT ![c] = done]

\* The call is made and answered.
Complete(c) == Answer(c, "done", TRUE)

\* A declined charge, or a mail that is reported as unsent.
Refuse(c) ==
  \/ Answer(c, "refused", FALSE)
  \/ c \in Notifications /\ Answer(c, "refused", TRUE)

\* The caller times out or is answered an error, and cannot tell which it was.
Fail(c) == \E done \in BOOLEAN : Answer(c, "error", done)

\* The service carried on, its caller gone.
Late(c) ==
  /\ answer[c] = "error" /\ ~ effect[c]
  /\ effect' = [effect EXCEPT ![c] = TRUE]
  /\ UNCHANGED answer

Next == \E c \in Calls : Complete(c) \/ Refuse(c) \/ Fail(c) \/ Late(c)

Spec == Init /\ [][Next]_vars
=============================================================================

------------------------------- MODULE Accounts -------------------------------
(***************************************************************************)
(* auth-service: registration, login, and the bearer tokens with which the   *)
(* gateway tells whose request it forwards.                                  *)
(*                                                                           *)
(* Registration looks the user name and the email up, then inserts; between  *)
(* the two anybody may register.  The INSERT makes an entry in the unique    *)
(* index of the names, then in that of the emails: it waits while another    *)
(* transaction holds the same value uncommitted, and fails when a committed  *)
(* row has it.  A transaction may be rolled back, and a commit may be made    *)
(* and its answer lost, as when the gateway stops waiting for it (504).      *)
(*                                                                           *)
(* Rows are inserted active and never change.  A password is verified as it  *)
(* was hashed; here each registration brings one of its own, named after it. *)
(***************************************************************************)
EXTENDS FiniteSets

CONSTANTS
  Registrations,     \* POST /auth/register requests
  Sessions,          \* POST /auth/login requests, and what is done with the token
  Names, Emails

ASSUME AccountsAssumption == Registrations # {} /\ Names # {} /\ Emails # {}

VARIABLES
  reg,               \* each registration: where it is, and its body
  reply,             \* what its caller was told
  users,             \* the committed rows of auth_users
  session            \* each login, and its token

vars == <<reg, reply, users, session>>

Passwords == Registrations
Users == [username : Names, email : Emails, password_hash : Passwords]
Refusals == {"Username already exists", "Email already exists",
             "Username or email already exists"}

Row(q) == [username |-> reg[q].username, email |-> reg[q].email, password_hash |-> q]

Init ==
  /\ reg = [q \in Registrations |-> [at |-> "idle", username |-> CHOOSE n \in Names : TRUE,
                                     email |-> CHOOSE e \in Emails : TRUE]]
  /\ reply = [q \in Registrations |-> "none"]
  /\ users = {}
  /\ session = [s \in Sessions |-> [at |-> "idle", username |-> CHOOSE n \in Names : TRUE,
                                    password |-> CHOOSE p \in Passwords : TRUE,
                                    known |-> FALSE, token |-> "none", user |-> {}]]
-----------------------------------------------------------------------------
Goto(q, place) == reg' = [reg EXCEPT ![q].at = place]

\* The request ends with an answer.
End(q, what) ==
  /\ Goto(q, "over")
  /\ reply' = [reply EXCEPT ![q] = what]

Arrive(q, n, e) ==
  /\ reg[q].at = "idle"
  /\ reg' = [reg EXCEPT ![q] = [at |-> "findName", username |-> n, email |-> e]]
  /\ UNCHANGED <<reply, users, session>>

find_user_by_username(q) ==
  /\ reg[q].at = "findName"
  /\ IF \E u \in users : u.username = reg[q].username
     THEN End(q, "Username already exists")
     ELSE Goto(q, "findEmail") /\ UNCHANGED reply
  /\ UNCHANGED <<users, session>>

find_user_by_email(q) ==
  /\ reg[q].at = "findEmail"
  /\ IF \E u \in users : u.email = reg[q].email
     THEN End(q, "Email already exists")
     ELSE Goto(q, "claimName") /\ UNCHANGED reply
  /\ UNCHANGED <<users, session>>

\* The transactions that hold a name, or an email, uncommitted.
HasName(q) == reg[q].at \in {"claimEmail", "commit"}
HasEmail(q) == reg[q].at = "commit"

\* Mutant: no unique index on the user name.
ClaimNameUnchecked(q) ==
  /\ reg[q].at = "claimName"
  /\ Goto(q, "claimEmail")
  /\ UNCHANGED <<reply, users, session>>

\* The entry in the unique index of the user names.  An IntegrityError is rolled
\* back and answered 409.
ClaimName(q) ==
  /\ reg[q].at = "claimName"
  /\ \A p \in Registrations : HasName(p) => reg[p].username # reg[q].username
  /\ IF \E u \in users : u.username = reg[q].username
     THEN End(q, "Username or email already exists")
     ELSE Goto(q, "claimEmail") /\ UNCHANGED reply
  /\ UNCHANGED <<users, session>>

\* Mutant: the conflict is not taken for an answer; the INSERT is tried again.
ClaimEmailRetried(q) ==
  /\ reg[q].at = "claimEmail"
  /\ \A p \in Registrations : HasEmail(p) => reg[p].email # reg[q].email
  /\ ~ \E u \in users : u.email = reg[q].email
  /\ Goto(q, "commit")
  /\ UNCHANGED <<reply, users, session>>

\* The entry in the unique index of the emails.
ClaimEmail(q) ==
  /\ reg[q].at = "claimEmail"
  /\ \A p \in Registrations : HasEmail(p) => reg[p].email # reg[q].email
  /\ IF \E u \in users : u.email = reg[q].email
     THEN End(q, "Username or email already exists")
     ELSE Goto(q, "commit") /\ UNCHANGED reply
  /\ UNCHANGED <<users, session>>

\* COMMIT, and the answer 201.
Commit(q) ==
  /\ reg[q].at = "commit"
  /\ users' = users \cup {Row(q)}
  /\ End(q, "created")
  /\ UNCHANGED session

CommitUnanswered(q) ==
  /\ reg[q].at = "commit"
  /\ users' = users \cup {Row(q)}
  /\ End(q, "error")
  /\ UNCHANGED session

\* Mutant: the session ends without a commit, and nobody notices.
AbortUnnoticed(q) ==
  /\ reg[q].at \in {"findName", "findEmail", "claimName", "claimEmail", "commit"}
  /\ End(q, IF reg[q].at = "commit" THEN "created" ELSE "error")
  /\ UNCHANGED <<users, session>>

\* The database fails, or the pod dies; a transaction under way is rolled back.
Abort(q) ==
  /\ reg[q].at \in {"findName", "findEmail", "claimName", "claimEmail", "commit"}
  /\ End(q, "error")
  /\ UNCHANGED <<users, session>>
-----------------------------------------------------------------------------
\* Somebody logs in; known: was that name registered with that password, and the
\* customer told so, before this request?
LogIn(s, n, p) ==
  /\ session[s].at = "idle"
  /\ session' = [session EXCEPT ![s] =
       [at |-> "find", username |-> n, password |-> p,
        known |-> reply[p] = "created" /\ reg[p].username = n, token |-> "none", user |-> {}]]
  /\ UNCHANGED <<reg, reply, users>>

verify_password(password, password_hash) == password = password_hash

\* login: the row with that name, verify_password, create_access_token.
login(s) ==
  /\ session[s].at = "find"
  /\ LET found == {u \in users : u.username = session[s].username}
     IN \/ found = {} /\ session' = [session EXCEPT ![s].at = "refused"]
        \/ \E u \in found :
             session' = [session EXCEPT ![s] =
               IF verify_password(@.password, u.password_hash)
               THEN [@ EXCEPT !.at = "in", !.token = "valid", !.user = {u}]
               ELSE [@ EXCEPT !.at = "refused"]]
  /\ UNCHANGED <<reg, reply, users>>

\* expires_at passes.
Expire(s) ==
  /\ session[s].token = "valid"
  /\ session' = [session EXCEPT ![s].token = "expired"]
  /\ UNCHANGED <<reg, reply, users>>

\* protected_user of the gateway asks /auth/me: decode_access_token ...
decode_access_token(s) ==
  /\ session[s].at \in {"in", "served"}
  /\ session' = [session EXCEPT ![s].at = IF session[s].token = "valid" THEN "lookup" ELSE "refused"]
  /\ UNCHANGED <<reg, reply, users>>

\* ... and find_user_by_id, by the id the token was made for.
me(s) ==
  /\ session[s].at = "lookup"
  /\ session' = [session EXCEPT ![s].at = IF session[s].user \subseteq users THEN "served" ELSE "refused"]
  /\ UNCHANGED <<reg, reply, users>>

\* A login, or /auth/me, fails or times out: 502 or 504.
SessionFails(s) ==
  /\ session[s].at \in {"find", "lookup"}
  /\ session' = [session EXCEPT ![s].at = IF @ = "find" THEN "failed" ELSE "in"]
  /\ UNCHANGED <<reg, reply, users>>
-----------------------------------------------------------------------------
\* What a registration does by itself.
Work(q) ==
  \/ find_user_by_username(q) \/ find_user_by_email(q)
  \/ ClaimName(q) \/ ClaimEmail(q) \/ Commit(q)

Next ==
  \/ \E q \in Registrations, n \in Names, e \in Emails : Arrive(q, n, e)
  \/ \E q \in Registrations : Work(q) \/ CommitUnanswered(q) \/ Abort(q)
  \/ \E s \in Sessions, n \in Names, p \in Passwords : LogIn(s, n, p)
  \/ \E s \in Sessions : login(s) \/ Expire(s) \/ decode_access_token(s) \/ me(s) \/ SessionFails(s)

\* A request that is under way is scheduled, and PostgreSQL wakes a transaction
\* whose value is free.
Fairness == \A q \in Registrations : WF_vars(Work(q))

Spec == Init /\ [][Next]_vars /\ Fairness
-----------------------------------------------------------------------------
\* The values the variables range over; the rows are keyed by name, and by email.
TypeOK ==
  /\ reg \in [Registrations -> [at : {"idle", "findName", "findEmail", "claimName", "claimEmail",
                                       "commit", "over"},
                                username : Names, email : Emails]]
  /\ reply \in [Registrations -> {"none", "created", "error"} \cup Refusals]
  /\ users \subseteq Users
  /\ \A u, v \in users : u.username = v.username \/ u.email = v.email => u = v
  /\ session \in [Sessions -> [at : {"idle", "find", "in", "lookup", "served", "refused", "failed"},
                               username : Names, password : Passwords, known : BOOLEAN,
                               token : {"none", "valid", "expired"}, user : SUBSET Users]]

\* What auth-service says is so, however registrations race and whatever fails: who
\* was told "created" has a row; who was told that a name or an email is taken finds
\* it in somebody else's row; a request that was let in is let in as the one whose
\* password the login gave.
AuthAnswersTrue ==
  /\ \A q \in Registrations :
       /\ reply[q] = "created" => Row(q) \in users
       /\ reply[q] = "Username already exists" =>
            \E u \in users : u.username = reg[q].username /\ u.password_hash # q
       /\ reply[q] = "Email already exists" =>
            \E u \in users : u.email = reg[q].email /\ u.password_hash # q
       /\ reply[q] = "Username or email already exists" =>
            \E u \in users : /\ u.username = reg[q].username \/ u.email = reg[q].email
                             /\ u.password_hash # q
  /\ \A s \in Sessions : session[s].at = "served" =>
       \E u \in users : /\ session[s].user = {u}
                        /\ u.username = session[s].username
                        /\ u.password_hash = session[s].password

\* Who was told that the account is there can log in: no race of registrations gives
\* the name to somebody else, who would be found in their place.
RegisteredCanLogIn ==
  \A s \in Sessions : session[s].known /\ session[s].at = "refused" => session[s].token = "expired"

\* Every registration comes to an end: those that wait for each other's names and
\* emails do not wait for ever.
EveryRegistrationAnswered ==
  \A q \in Registrations : reg[q].at = "findName" ~> reg[q].at = "over" /\ reply[q] # "none"
=============================================================================

---------------------------- MODULE AccountsProofs ----------------------------
(***************************************************************************)
(* What holds of auth-service for any number of registrations and logins.    *)
(* The lookups before the INSERT decide nothing; the argument rests on the   *)
(* two unique indexes: who has made an entry has it alone, and no committed  *)
(* row has the same.                                                         *)
(***************************************************************************)
EXTENDS Accounts, TLAPS

USE AccountsAssumption

\* Every row was stored by a registration that is over, and is what it asked for.
Origins ==
  \A u \in users :
    /\ reg[u.password_hash].at = "over"
    /\ u.username = reg[u.password_hash].username
    /\ u.email = reg[u.password_hash].email

\* What a transaction has in an index, it has alone.
Claims ==
  \A q \in Registrations :
    /\ HasName(q) =>
         /\ \A u \in users : u.username # reg[q].username
         /\ \A p \in Registrations : HasName(p) /\ p # q => reg[p].username # reg[q].username
    /\ HasEmail(q) =>
         /\ \A u \in users : u.email # reg[q].email
         /\ \A p \in Registrations : HasEmail(p) /\ p # q => reg[p].email # reg[q].email

Stored(q) == \E u \in users : u.password_hash = q

\* Only who is over was answered, and the answer is true.
ReplyTrue(q) ==
  /\ reg[q].at # "over" => reply[q] = "none"
  /\ reply[q] = "created" => Stored(q)
  /\ reply[q] = "Username already exists" =>
       \E u \in users : u.username = reg[q].username /\ u.password_hash # q
  /\ reply[q] = "Email already exists" =>
       \E u \in users : u.email = reg[q].email /\ u.password_hash # q
  /\ reply[q] = "Username or email already exists" =>
       \E u \in users : /\ u.username = reg[q].username \/ u.email = reg[q].email
                        /\ u.password_hash # q

RepliesTrue == \A q \in Registrations : ReplyTrue(q)

\* Whose session it is.
Owner(s, u) ==
  /\ session[s].user = {u}
  /\ u.username = session[s].username
  /\ u.password_hash = session[s].password

\* A session that has a token belongs to a row; who was known when logging in has one.
SessionsOwned ==
  \A s \in Sessions :
    /\ session[s].at \in {"in", "lookup", "served"} =>
         session[s].token # "none" /\ \E u \in users : Owner(s, u)
    /\ session[s].known =>
         Stored(session[s].password) /\ reg[session[s].password].username = session[s].username
    /\ session[s].known /\ session[s].at = "refused" => session[s].token = "expired"

AccountsInv == TypeOK /\ Origins /\ Claims /\ RepliesTrue /\ SessionsOwned

\* The invariant holds at first.
LEMMA InvInit == Init => AccountsInv
  <1> SUFFICES ASSUME Init PROVE AccountsInv
    OBVIOUS
  <1>1. /\ (CHOOSE n \in Names : TRUE) \in Names
        /\ (CHOOSE e \in Emails : TRUE) \in Emails
        /\ (CHOOSE p \in Passwords : TRUE) \in Passwords
    BY DEF Passwords
  <1>2. TypeOK
    BY <1>1 DEF Init, TypeOK, Users
  <1>3. Origins /\ Claims /\ RepliesTrue /\ SessionsOwned
    BY DEF Init, Origins, Claims, RepliesTrue, ReplyTrue, SessionsOwned, HasName, HasEmail
  <1>4. QED
    BY <1>2, <1>3 DEF AccountsInv

\* The steps of a registration.
Registers(q) ==
  \/ \E n \in Names, e \in Emails : Arrive(q, n, e)
  \/ Work(q) \/ CommitUnanswered(q) \/ Abort(q)

Places == {"idle", "findName", "findEmail", "claimName", "claimEmail", "commit", "over"}

Regs == [Registrations -> [at : Places, username : Names, email : Emails]]

\* Going to another place changes nothing else.
LEMMA GotoMoves ==
  ASSUME reg \in Regs, NEW q \in Registrations, NEW place \in Places, Goto(q, place)
  PROVE  /\ reg' \in Regs
         /\ reg'[q].at = place
         /\ reg'[q].username = reg[q].username /\ reg'[q].email = reg[q].email
         /\ \A p \in Registrations : p # q => reg'[p] = reg[p]
  <1>1. reg' = [reg EXCEPT ![q] = [reg[q] EXCEPT !.at = place]]
    BY DEF Goto
  <1>2. reg[q] \in [at : Places, username : Names, email : Emails]
    BY DEF Regs
  <1>3. /\ [reg[q] EXCEPT !.at = place] \in [at : Places, username : Names, email : Emails]
        /\ [reg[q] EXCEPT !.at = place].at = place
        /\ [reg[q] EXCEPT !.at = place].username = reg[q].username
        /\ [reg[q] EXCEPT !.at = place].email = reg[q].email
    BY <1>2
  <1>4. QED
    BY <1>1, <1>3 DEF Regs

\* The ways a registration goes on, and the ways it ends.
GoesOn(q, place) ==
  /\ users' = users /\ reply' = reply
  /\ \/ place \in {"findEmail", "claimName"}
     \/ /\ place = "claimEmail" /\ reg[q].at = "claimName"
        /\ \A p \in Registrations : HasName(p) => reg[p].username # reg[q].username
        /\ \A u \in users : u.username # reg[q].username
     \/ /\ place = "commit" /\ reg[q].at = "claimEmail"
        /\ \A p \in Registrations : HasEmail(p) => reg[p].email # reg[q].email
        /\ \A u \in users : u.email # reg[q].email

Ends(q, what) ==
  /\ reply' = [reply EXCEPT ![q] = what]
  /\ \/ users' = users /\ what = "error"
     \/ users' = users \cup {Row(q)} /\ reg[q].at = "commit" /\ what \in {"created", "error"}
     \/ /\ users' = users /\ what = "Username already exists"
        /\ \E u \in users : u.username = reg[q].username
     \/ /\ users' = users /\ what = "Email already exists"
        /\ \E u \in users : u.email = reg[q].email
     \/ /\ users' = users /\ what = "Username or email already exists"
        /\ \E u \in users : u.username = reg[q].username \/ u.email = reg[q].email

\* Every step of a registration after its arrival is one of these.
LEMMA RegisterShape ==
  ASSUME NEW q \in Registrations, Work(q) \/ CommitUnanswered(q) \/ Abort(q)
  PROVE  /\ session' = session /\ reg[q].at \notin {"idle", "over"}
         /\ \/ \E place \in Places \ {"idle", "over"} : Goto(q, place) /\ GoesOn(q, place)
            \/ Goto(q, "over") /\ \E what : Ends(q, what)
  <1> USE DEF End, GoesOn, Ends, Places
  <1>1. CASE find_user_by_username(q)
    BY <1>1 DEF find_user_by_username
  <1>2. CASE find_user_by_email(q)
    BY <1>2 DEF find_user_by_email
  <1>3. CASE ClaimName(q)
    BY <1>3 DEF ClaimName
  <1>4. CASE ClaimEmail(q)
    BY <1>4 DEF ClaimEmail
  <1>5. CASE Commit(q) \/ CommitUnanswered(q)
    BY <1>5 DEF Commit, CommitUnanswered
  <1>6. CASE Abort(q)
    BY <1>6 DEF Abort
  <1>7. QED
    BY <1>1, <1>2, <1>3, <1>4, <1>5, <1>6 DEF Work

\* What such a step may change: the registration's own place and answer, and one
\* row, its own, when it commits.
LEMMA RegisterFrame ==
  ASSUME AccountsInv, NEW q \in Registrations, Work(q) \/ CommitUnanswered(q) \/ Abort(q)
  PROVE  /\ session' = session
         /\ reg' \in Regs
         /\ reply' \in [Registrations -> {"none", "created", "error"} \cup Refusals]
         /\ reg'[q].username = reg[q].username /\ reg'[q].email = reg[q].email
         /\ \A p \in Registrations : p # q => reg'[p] = reg[p] /\ reply'[p] = reply[p]
         /\ \/ users' = users
            \/ reg[q].at = "commit" /\ reg'[q].at = "over" /\ users' = users \cup {Row(q)}
         /\ \A u \in users : /\ u.password_hash \in Registrations /\ u.password_hash # q
                             /\ reg'[u.password_hash] = reg[u.password_hash]
         /\ reply[q] = "none"
  <1>1. reg \in Regs /\ reply \in [Registrations -> {"none", "created", "error"} \cup Refusals]
    BY DEF AccountsInv, TypeOK, Regs, Places
  <1>2. session' = session /\ reg[q].at \notin {"idle", "over"}
    BY RegisterShape
  <1>3. \A u \in users : u.password_hash \in Registrations /\ u.password_hash # q
    BY <1>2 DEF AccountsInv, Origins, TypeOK, Users, Passwords
  <1>4. reply[q] = "none"
    BY <1>2 DEF AccountsInv, RepliesTrue, ReplyTrue
  <1>5. ASSUME NEW place \in Places \ {"idle", "over"}, Goto(q, place), GoesOn(q, place)
        PROVE  /\ reg' \in Regs /\ reply' = reply /\ users' = users
               /\ reg'[q].username = reg[q].username /\ reg'[q].email = reg[q].email
               /\ \A p \in Registrations : p # q => reg'[p] = reg[p]
    BY <1>1, <1>5, GotoMoves DEF GoesOn
  <1>6. ASSUME Goto(q, "over"), NEW what, Ends(q, what)
        PROVE  /\ reg' \in Regs
               /\ reply' \in [Registrations -> {"none", "created", "error"} \cup Refusals]
               /\ reg'[q].username = reg[q].username /\ reg'[q].email = reg[q].email
               /\ \A p \in Registrations : p # q => reg'[p] = reg[p] /\ reply'[p] = reply[p]
               /\ \/ users' = users
                  \/ reg[q].at = "commit" /\ reg'[q].at = "over" /\ users' = users \cup {Row(q)}
    <2>1. "over" \in Places
      BY DEF Places
    <2>2. /\ reg' \in Regs /\ reg'[q].at = "over"
          /\ reg'[q].username = reg[q].username /\ reg'[q].email = reg[q].email
          /\ \A p \in Registrations : p # q => reg'[p] = reg[p]
      BY <1>1, <1>6, <2>1, GotoMoves
    <2>3. /\ reply' \in [Registrations -> {"none", "created", "error"} \cup Refusals]
          /\ \A p \in Registrations : p # q => reply'[p] = reply[p]
      BY <1>1, <1>6 DEF Ends, Refusals
    <2>4. users' = users \/ (reg[q].at = "commit" /\ users' = users \cup {Row(q)})
      BY <1>6 DEF Ends
    <2>5. QED
      BY <2>2, <2>3, <2>4
  <1>7. QED
    BY <1>1, <1>2, <1>3, <1>4, <1>5, <1>6, RegisterShape

\* Such a step keeps the types, and every row is still what was asked for.
LEMMA RegisterRows ==
  ASSUME AccountsInv, NEW q \in Registrations, Work(q) \/ CommitUnanswered(q) \/ Abort(q)
  PROVE  TypeOK' /\ Origins'
  <1>1. TypeOK /\ Origins /\ Claims
    BY DEF AccountsInv
  <1>2. /\ session' = session /\ reg' \in Regs
        /\ reply' \in [Registrations -> {"none", "created", "error"} \cup Refusals]
        /\ \A u \in users : reg'[u.password_hash] = reg[u.password_hash]
        /\ reg'[q].username = reg[q].username /\ reg'[q].email = reg[q].email
    BY RegisterFrame
  <1>3. CASE users' = users
    <2>1. TypeOK'
      BY <1>1, <1>2, <1>3 DEF TypeOK, Regs, Places
    <2>2. Origins'
      BY <1>1, <1>2, <1>3 DEF Origins
    <2>3. QED
      BY <2>1, <2>2
  <1>4. CASE reg[q].at = "commit" /\ reg'[q].at = "over" /\ users' = users \cup {Row(q)}
    <2>1. Row(q) \in Users /\ Row(q).username = reg[q].username /\ Row(q).email = reg[q].email
          /\ Row(q).password_hash = q
      BY <1>1 DEF Row, Users, TypeOK, Passwords
    <2>2. \A u \in users : u.username # reg[q].username /\ u.email # reg[q].email
      BY <1>1, <1>4 DEF Claims, HasName, HasEmail
    <2>3. users' \subseteq Users
      BY <1>1, <1>4, <2>1 DEF TypeOK
    <2>4. \A u, v \in users' : u.username = v.username \/ u.email = v.email => u = v
      BY <1>1, <1>4, <2>1, <2>2 DEF TypeOK
    <2>5. TypeOK'
      BY <1>1, <1>2, <2>3, <2>4 DEF TypeOK, Regs, Places
    <2>7. Origins'
      BY <1>1, <1>2, <1>4, <2>1 DEF Origins
    <2>8. QED
      BY <2>5, <2>7
  <1>5. QED
    BY <1>3, <1>4, RegisterFrame

\* Such a step keeps the claims: an entry is made only when nobody has the value.
LEMMA RegisterClaims ==
  ASSUME AccountsInv, NEW q \in Registrations, Work(q) \/ CommitUnanswered(q) \/ Abort(q)
  PROVE  Claims'
  <1>1. /\ \A p \in Registrations : reg'[p].username = reg[p].username /\ reg'[p].email = reg[p].email
        /\ \A p \in Registrations : p # q => reg'[p] = reg[p]
        /\ reg \in Regs
    BY RegisterFrame DEF AccountsInv, TypeOK, Regs, Places
  <1>2. Claims
    BY DEF AccountsInv
  <1>3. ASSUME NEW place \in Places \ {"idle", "over"}, Goto(q, place), GoesOn(q, place)
        PROVE  Claims'
    <2>1. reg'[q].at = place
      BY <1>1, <1>3, GotoMoves
    <2>2. CASE place \in {"findEmail", "claimName"}
      BY <1>1, <1>2, <1>3, <2>1, <2>2 DEF Claims, HasName, HasEmail, GoesOn
    <2>3. CASE place = "claimEmail"
      BY <1>1, <1>2, <1>3, <2>1, <2>3 DEF Claims, HasName, HasEmail, GoesOn
    <2>4. CASE place = "commit"
      BY <1>1, <1>2, <1>3, <2>1, <2>4 DEF Claims, HasName, HasEmail, GoesOn
    <2>5. QED
      BY <1>3, <2>2, <2>3, <2>4 DEF GoesOn
  <1>4. ASSUME Goto(q, "over"), NEW what, Ends(q, what) PROVE Claims'
    <2>1. reg'[q].at = "over"
      BY <1>1, <1>4, GotoMoves DEF Places
    <2>2. CASE users' = users
      BY <1>1, <1>2, <2>1, <2>2 DEF Claims, HasName, HasEmail
    <2>3. CASE reg[q].at = "commit" /\ users' = users \cup {Row(q)}
      <3>1. Row(q).username = reg[q].username /\ Row(q).email = reg[q].email
        BY DEF Row
      <3>2. ASSUME NEW p \in Registrations, p # q
            PROVE  /\ HasName(p) => reg[p].username # reg[q].username
                   /\ HasEmail(p) => reg[p].email # reg[q].email
        BY <1>2, <2>3, <3>2 DEF Claims, HasName, HasEmail
      <3>3. QED
        BY <1>1, <1>2, <2>1, <2>3, <3>1, <3>2 DEF Claims, HasName, HasEmail
    <2>4. QED
      BY <1>4, <2>2, <2>3 DEF Ends
  <1>5. QED
    BY <1>3, <1>4, RegisterShape

\* Such a step answers nothing that is not so.
LEMMA RegisterReplies ==
  ASSUME AccountsInv, NEW q \in Registrations, Work(q) \/ CommitUnanswered(q) \/ Abort(q)
  PROVE  RepliesTrue'
  <1>1. /\ \A p \in Registrations : reg'[p].username = reg[p].username /\ reg'[p].email = reg[p].email
        /\ \A p \in Registrations : p # q => reg'[p] = reg[p] /\ reply'[p] = reply[p]
        /\ \A u \in users : u.password_hash # q
        /\ users \subseteq users'
        /\ reply[q] = "none"
    BY RegisterFrame
  <1>2. reg \in Regs /\ reply \in [Registrations -> {"none", "created", "error"} \cup Refusals]
    BY DEF AccountsInv, TypeOK, Regs, Places
  <1>3. RepliesTrue
    BY DEF AccountsInv
  <1>4. \A p \in Registrations : Stored(p) => Stored(p)'
    BY <1>1 DEF Stored
  <1>5. ASSUME NEW place \in Places \ {"idle", "over"}, Goto(q, place), GoesOn(q, place)
        PROVE  RepliesTrue'
    <2>1. reply' = reply /\ users' = users
      BY <1>5 DEF GoesOn
    <2>2. ASSUME NEW p \in Registrations PROVE ReplyTrue(p)'
      <3>1. ReplyTrue(p) /\ reg'[p].username = reg[p].username /\ reg'[p].email = reg[p].email
        BY <1>1, <1>3 DEF RepliesTrue
      <3>2. reg'[p].at # "over" => reply[p] = "none"
        <4>1. CASE p = q
          BY <1>1, <4>1
        <4>2. CASE p # q
          BY <1>1, <3>1, <4>2 DEF ReplyTrue
        <4>3. QED
          BY <4>1, <4>2
      <3>3. QED
        BY <2>1, <3>1, <3>2 DEF ReplyTrue, Stored
    <2>3. QED
      BY <2>2 DEF RepliesTrue
  <1>6. ASSUME Goto(q, "over"), NEW what, Ends(q, what) PROVE RepliesTrue'
    <2>1. reg'[q].at = "over"
      BY <1>2, <1>6, GotoMoves DEF Places
    <2>2. reply'[q] = what
      BY <1>2, <1>6 DEF Ends
    <2>3. ASSUME NEW p \in Registrations, p # q PROVE ReplyTrue(p)'
      <3>1. ReplyTrue(p) /\ reg'[p] = reg[p] /\ reply'[p] = reply[p]
        BY <1>1, <1>3, <2>3 DEF RepliesTrue
      <3>2. QED
        BY <1>1, <3>1 DEF ReplyTrue, Stored
    <2>4. Row(q).password_hash = q
      BY DEF Row
    <2>5. ReplyTrue(q)'
      BY <1>1, <1>6, <2>1, <2>2, <2>4 DEF Ends, ReplyTrue, Stored
    <2>6. QED
      BY <2>3, <2>5 DEF RepliesTrue
  <1>7. QED
    BY <1>5, <1>6, RegisterShape

\* Rows are never lost, so such a step leaves every session its owner.
LEMMA RegisterSessions ==
  ASSUME AccountsInv, NEW q \in Registrations, Work(q) \/ CommitUnanswered(q) \/ Abort(q)
  PROVE  SessionsOwned'
  <1>1. /\ session' = session /\ users \subseteq users'
        /\ \A p \in Registrations : reg'[p].username = reg[p].username /\ reg'[p].email = reg[p].email
    BY RegisterFrame
  <1>2. \A s \in Sessions : session[s].password \in Registrations
    BY DEF AccountsInv, TypeOK, Passwords
  <1>3. QED
    BY <1>1, <1>2 DEF AccountsInv, SessionsOwned, Owner, Stored

\* An arrival is the start of a registration nobody was told of yet.
LEMMA ArriveStep ==
  ASSUME AccountsInv, NEW q \in Registrations, NEW n \in Names, NEW e \in Emails, Arrive(q, n, e)
  PROVE  AccountsInv'
  <1>1. /\ reg \in Regs /\ reg[q].at = "idle"
        /\ reg' = [reg EXCEPT ![q] = [at |-> "findName", username |-> n, email |-> e]]
        /\ reply' = reply /\ users' = users /\ session' = session
    BY DEF Arrive, AccountsInv, TypeOK, Regs, Places
  <1>2. /\ reg' \in Regs /\ reg'[q].at = "findName"
        /\ \A p \in Registrations : p # q => reg'[p] = reg[p]
    BY <1>1 DEF Regs, Places
  <1>3. \A u \in users : u.password_hash \in Registrations /\ u.password_hash # q
    BY <1>1 DEF AccountsInv, Origins, TypeOK, Users, Passwords
  <1>4. TypeOK'
    BY <1>1, <1>2 DEF AccountsInv, TypeOK, Regs, Places
  <1>5. Origins'
    BY <1>1, <1>2, <1>3 DEF AccountsInv, Origins
  <1>6. Claims'
    BY <1>1, <1>2 DEF AccountsInv, Claims, HasName, HasEmail
  <1>7. RepliesTrue'
    <2>1. ASSUME NEW p \in Registrations, p # q PROVE ReplyTrue(p)'
      <3>1. ReplyTrue(p) /\ reg'[p] = reg[p]
        BY <1>2, <2>1 DEF AccountsInv, RepliesTrue
      <3>2. QED
        BY <1>1, <3>1 DEF ReplyTrue, Stored
    <2>2. ReplyTrue(q)'
      <3>1. reply'[q] = "none"
        BY <1>1 DEF AccountsInv, RepliesTrue, ReplyTrue
      <3>2. QED
        BY <3>1 DEF ReplyTrue
    <2>3. QED
      BY <2>1, <2>2 DEF RepliesTrue
  <1>8. SessionsOwned'
    BY <1>1, <1>2, <1>3 DEF AccountsInv, SessionsOwned, Owner, Stored
  <1>9. QED
    BY <1>4, <1>5, <1>6, <1>7, <1>8 DEF AccountsInv

SessionRecords ==
  [at : {"idle", "find", "in", "lookup", "served", "refused", "failed"},
   username : Names, password : Passwords, known : BOOLEAN,
   token : {"none", "valid", "expired"}, user : SUBSET Users]

\* What SessionsOwned says of one session x.
SessionOwned(x) ==
  /\ x.at \in {"in", "lookup", "served"} =>
       /\ x.token # "none"
       /\ \E u \in users : x.user = {u} /\ u.username = x.username /\ u.password_hash = x.password
  /\ x.known => Stored(x.password) /\ reg[x.password].username = x.username
  /\ x.known /\ x.at = "refused" => x.token = "expired"

\* The step of one session replaces its record by one that has the type and is owned.
LEMMA SessionMove ==
  ASSUME AccountsInv, NEW s \in Sessions, NEW x \in SessionRecords, SessionOwned(x),
         session' = [session EXCEPT ![s] = x], UNCHANGED <<reg, reply, users>>
  PROVE  AccountsInv'
  <1>1. TypeOK' /\ Origins' /\ Claims'
    BY DEF AccountsInv, TypeOK, Origins, Claims, HasName, HasEmail, SessionRecords
  <1>2. RepliesTrue'
    <2>1. ASSUME NEW p \in Registrations PROVE ReplyTrue(p)'
      BY DEF AccountsInv, RepliesTrue, ReplyTrue, Stored
    <2>2. QED
      BY <2>1 DEF RepliesTrue
  <1>3. SessionsOwned'
    <2>1. session'[s] = x /\ \A t \in Sessions : t # s => session'[t] = session[t]
      BY DEF AccountsInv, TypeOK
    <2>2. QED
      BY <2>1 DEF AccountsInv, SessionsOwned, SessionOwned, Owner, Stored
  <1>4. QED
    BY <1>1, <1>2, <1>3 DEF AccountsInv

\* The session a step starts from.
LEMMA SessionNow ==
  ASSUME AccountsInv, NEW s \in Sessions
  PROVE  session[s] \in SessionRecords /\ SessionOwned(session[s])
  BY DEF AccountsInv, TypeOK, SessionRecords, SessionsOwned, SessionOwned, Owner

\* Who was told "created" has a row, so a login that is known to be right is.
LEMMA LogInStep ==
  ASSUME AccountsInv, NEW s \in Sessions, NEW n \in Names, NEW p \in Passwords, LogIn(s, n, p)
  PROVE  AccountsInv'
  <1> DEFINE x == [at |-> "find", username |-> n, password |-> p,
                   known |-> reply[p] = "created" /\ reg[p].username = n,
                   token |-> "none", user |-> {}]
  <1>1. x \in SessionRecords
    BY DEF SessionRecords
  <1>2. SessionOwned(x)
    BY DEF AccountsInv, RepliesTrue, ReplyTrue, SessionOwned, Passwords
  <1>3. QED
    BY <1>1, <1>2, SessionMove DEF LogIn

\* The row that is found is the only one with that name, so a password that is known
\* to be right is verified.
LEMMA LoginStep ==
  ASSUME AccountsInv, NEW s \in Sessions, login(s)
  PROVE  AccountsInv'
  <1> DEFINE x == session[s]
  <1>1. x \in SessionRecords /\ SessionOwned(x) /\ x.at = "find"
    BY SessionNow DEF login
  <1>2. UNCHANGED <<reg, reply, users>> /\ users \subseteq Users
    BY DEF login, AccountsInv, TypeOK
  <1>3. ASSUME x.known
        PROVE  \E v \in users : v.username = x.username /\ v.password_hash = x.password
    BY <1>1, <1>3 DEF SessionOwned, Stored, AccountsInv, Origins
  <1>4. CASE {u \in users : u.username = x.username} = {} /\ session' = [session EXCEPT ![s].at = "refused"]
    <2> DEFINE y == [x EXCEPT !.at = "refused"]
    <2>1. ~ x.known
      BY <1>3, <1>4
    <2>2. y \in SessionRecords /\ SessionOwned(y)
      BY <1>1, <2>1 DEF SessionRecords, SessionOwned
    <2>3. session' = [session EXCEPT ![s] = y]
      BY <1>4
    <2>4. QED
      BY <1>2, <2>2, <2>3, SessionMove
  <1>5. ASSUME NEW u \in users, u.username = x.username,
               session' = [session EXCEPT ![s] =
                 IF verify_password(@.password, u.password_hash)
                 THEN [@ EXCEPT !.at = "in", !.token = "valid", !.user = {u}]
                 ELSE [@ EXCEPT !.at = "refused"]]
        PROVE  AccountsInv'
    <2>1. CASE x.password = u.password_hash
      <3> DEFINE y == [x EXCEPT !.at = "in", !.token = "valid", !.user = {u}]
      <3>1. y \in SessionRecords /\ SessionOwned(y)
        BY <1>1, <1>2, <1>5, <2>1 DEF SessionRecords, SessionOwned
      <3>2. session' = [session EXCEPT ![s] = y]
        BY <1>5, <2>1 DEF verify_password
      <3>3. QED
        BY <1>2, <3>1, <3>2, SessionMove
    <2>2. CASE x.password # u.password_hash
      <3> DEFINE y == [x EXCEPT !.at = "refused"]
      <3>1. ~ x.known
        BY <1>3, <1>5, <2>2 DEF AccountsInv, TypeOK
      <3>2. y \in SessionRecords /\ SessionOwned(y)
        BY <1>1, <3>1 DEF SessionRecords, SessionOwned
      <3>3. session' = [session EXCEPT ![s] = y]
        BY <1>5, <2>2 DEF verify_password
      <3>4. QED
        BY <1>2, <3>2, <3>3, SessionMove
    <2>3. QED
      BY <2>1, <2>2
  <1>6. QED
    BY <1>4, <1>5 DEF login

\* A token is refused only when it has expired: its row is never gone.
LEMMA TokenStep ==
  ASSUME AccountsInv, NEW s \in Sessions,
         Expire(s) \/ decode_access_token(s) \/ me(s) \/ SessionFails(s)
  PROVE  AccountsInv'
  <1> DEFINE x == session[s]
  <1>1. x \in SessionRecords /\ SessionOwned(x)
    BY SessionNow
  <1>2. UNCHANGED <<reg, reply, users>>
    BY DEF Expire, decode_access_token, me, SessionFails
  <1>3. CASE Expire(s)
    <2> DEFINE y == [x EXCEPT !.token = "expired"]
    <2>1. y \in SessionRecords /\ SessionOwned(y)
      BY <1>1 DEF SessionRecords, SessionOwned
    <2>2. session' = [session EXCEPT ![s] = y]
      BY <1>3 DEF Expire
    <2>3. QED
      BY <1>2, <2>1, <2>2, SessionMove
  <1>4. CASE decode_access_token(s)
    <2> DEFINE y == [x EXCEPT !.at = IF x.token = "valid" THEN "lookup" ELSE "refused"]
    <2>1. y \in SessionRecords
      BY <1>1 DEF SessionRecords
    <2>2. SessionOwned(y)
      BY <1>1, <1>4 DEF SessionRecords, SessionOwned, decode_access_token
    <2>3. session' = [session EXCEPT ![s] = y]
      BY <1>4 DEF decode_access_token
    <2>4. QED
      BY <1>2, <2>1, <2>2, <2>3, SessionMove
  <1>5. CASE me(s)
    <2> DEFINE y == [x EXCEPT !.at = "served"]
    <2>1. x.at = "lookup" /\ x.user \subseteq users
      BY <1>1, <1>5 DEF me, SessionOwned
    <2>2. y \in SessionRecords /\ SessionOwned(y)
      BY <1>1, <2>1 DEF SessionRecords, SessionOwned
    <2>3. session' = [session EXCEPT ![s] = y]
      BY <1>5, <2>1 DEF me
    <2>4. QED
      BY <1>2, <2>2, <2>3, SessionMove
  <1>6. CASE SessionFails(s)
    <2> DEFINE y == [x EXCEPT !.at = IF x.at = "find" THEN "failed" ELSE "in"]
    <2>1. y \in SessionRecords
      BY <1>1 DEF SessionRecords
    <2>2. SessionOwned(y)
      BY <1>1, <1>6 DEF SessionRecords, SessionOwned, SessionFails
    <2>3. session' = [session EXCEPT ![s] = y]
      BY <1>6 DEF SessionFails
    <2>4. QED
      BY <1>2, <2>1, <2>2, <2>3, SessionMove
  <1>7. QED
    BY <1>3, <1>4, <1>5, <1>6

\* Every step keeps the invariant.
LEMMA InvStep == AccountsInv /\ [Next]_vars => AccountsInv'
  <1> SUFFICES ASSUME AccountsInv, [Next]_vars PROVE AccountsInv'
    OBVIOUS
  <1>1. CASE UNCHANGED vars
    <2>1. TypeOK' /\ Origins' /\ Claims' /\ SessionsOwned'
      BY <1>1 DEF AccountsInv, TypeOK, Origins, Claims, HasName, HasEmail, SessionsOwned, Owner,
                  Stored, vars
    <2>2. ASSUME NEW p \in Registrations PROVE ReplyTrue(p)'
      BY <1>1 DEF AccountsInv, RepliesTrue, ReplyTrue, Stored, vars
    <2>3. QED
      BY <2>1, <2>2 DEF AccountsInv, RepliesTrue
  <1>2. ASSUME NEW q \in Registrations, Work(q) \/ CommitUnanswered(q) \/ Abort(q)
        PROVE  AccountsInv'
    BY <1>2, RegisterRows, RegisterClaims, RegisterReplies, RegisterSessions DEF AccountsInv
  <1>3. QED
    BY <1>1, <1>2, ArriveStep, LogInStep, LoginStep, TokenStep DEF Next

\* The invariant holds of every behaviour.
LEMMA Invariance == Spec => []AccountsInv
  BY InvInit, InvStep, PTL DEF Spec

\* The variables have the values TypeOK gives them, and no two rows of auth_users
\* share a user name or an email.
THEOREM AccountTypes == Spec => []TypeOK
  <1>1. AccountsInv => TypeOK
    BY DEF AccountsInv
  <1>2. QED
    BY <1>1, Invariance, PTL

\* For any number of registrations and logins: "created" means a row, "already
\* exists" somebody else's row, and who is let in is who logged in.
THEOREM AuthAlwaysTrue == Spec => []AuthAnswersTrue
  <1>1. AccountsInv => AuthAnswersTrue
    <2> SUFFICES ASSUME AccountsInv PROVE AuthAnswersTrue
      OBVIOUS
    <2>1. ASSUME NEW q \in Registrations, reply[q] = "created" PROVE Row(q) \in users
      <3>1. PICK u \in users : u.password_hash = q
        BY <2>1 DEF AccountsInv, RepliesTrue, ReplyTrue, Stored
      <3>2. u.username = reg[q].username /\ u.email = reg[q].email /\ u \in Users
        BY <3>1 DEF AccountsInv, Origins, TypeOK
      <3>3. u = Row(q)
        BY <3>1, <3>2 DEF Row, Users
      <3>4. QED
        BY <3>3
    <2>2. QED
      BY <2>1 DEF AccountsInv, RepliesTrue, ReplyTrue, SessionsOwned, Owner, AuthAnswersTrue
  <1>2. QED
    BY <1>1, Invariance, PTL

\* For any number of registrations and logins: who was told "created" is never
\* refused afterwards, unless the token has expired.
THEOREM RegisteredAlwaysIn == Spec => []RegisteredCanLogIn
  <1>1. AccountsInv => RegisteredCanLogIn
    BY DEF AccountsInv, SessionsOwned, RegisteredCanLogIn
  <1>2. QED
    BY <1>1, Invariance, PTL
=============================================================================

--------------------------- MODULE Accounts_proofs ---------------------------
(***************************************************************************)
(* Type correctness of Accounts, the sessions that hold, the bootstrap     *)
(* token, accounts that come from one setup and one invite each, and reset *)
(* tokens used once, for any people, invites, clients and lifetimes.       *)
(***************************************************************************)
EXTENDS Accounts, TLAPS

USE AccountsAssumption DEF State, Time

-----------------------------------------------------------------------------
(* Types.                                                                  *)

\* Which requests carry a user or an invite, and a lifetime is not negative.
Carries(q) ==
  /\ q.pc \in {"clear", "mark", "finish", "issue"} => q.user \in User
  /\ q.pc = "join" => q.token \in Invite /\ q.email \in Email

Carried == \A c \in Client : Carries(req[c])

Lives == \A i \in Invite : db.invite[i].made <= db.invite[i].expires

Typed == AccountsTypeOK /\ Carried /\ Lives

\* A row written to one of the tables leaves them typed.
LEMMA UserWritten ==
  ASSUME NEW d \in Tables, NEW u \in User, NEW a \in Account
  PROVE  [d EXCEPT !.user[u] = a] \in Tables
BY DEF Tables

LEMMA InviteWritten ==
  ASSUME NEW d \in Tables, NEW i \in Invite, NEW v \in Invitation
  PROVE  [d EXCEPT !.invite[i] = v] \in Tables
BY DEF Tables

LEMMA ResetWritten ==
  ASSUME NEW d \in Tables, NEW r \in Reset, NEW t \in ResetToken
  PROVE  [d EXCEPT !.reset[r] = t] \in Tables
BY DEF Tables

LEMMA SetupWritten ==
  ASSUME NEW d \in Tables, NEW s \in Setup
  PROVE  [d EXCEPT !.setup = s] \in Tables
BY DEF Tables

\* The flags of an invitation are set.
LEMMA Flagged ==
  ASSUME NEW v \in Invitation
  PROVE  /\ [v EXCEPT !.revoked = TRUE] \in Invitation
         /\ [v EXCEPT !.consumed = TRUE] \in Invitation
BY DEF Invitation

\* The rows the actions make are rows.
LEMMA NoRows ==
  /\ NoAccount \in Account /\ [NoAccount EXCEPT !.state = "gone"] \in Account
  /\ NoInvite \in Invitation /\ [NoInvite EXCEPT !.state = "gone"] \in Invitation
  /\ NoReset \in ResetToken /\ [NoReset EXCEPT !.state = "gone"] \in ResetToken
<1>1. NoAccount \in Account /\ [NoAccount EXCEPT !.state = "gone"] \in Account
  BY DEF NoAccount, Account
<1>2. NoInvite \in Invitation /\ [NoInvite EXCEPT !.state = "gone"] \in Invitation
  <2>1. NoInvite \in Invitation
    BY DEF NoInvite, Invitation
  <2>2. \A v \in Invitation : [v EXCEPT !.state = "gone"] \in Invitation
    BY DEF Invitation
  <2>3. QED
    BY <2>1, <2>2
<1>3. NoReset \in ResetToken /\ [NoReset EXCEPT !.state = "gone"] \in ResetToken
  BY DEF NoReset, ResetToken
<1>4. QED
  BY <1>1, <1>2, <1>3

LEMMA NewRows ==
  ASSUME NEW u \in User, NEW e \in Email \cup {None}, NEW from \in Invite \cup {None},
         NEW at \in Time, now \in Time, NEW life \in Nat
  PROVE  NewUser(u, e, from, at) \in Account /\ Invited(e, life) \in Invitation
<1>1. NewUser(u, e, from, at) \in Account
  BY DEF NewUser, Account
<1>2. Invited(e, life) \in Invitation
  BY DEF Invited, Invitation
<1>3. QED
  BY <1>1, <1>2

\* Whatever EnsureForEmptyUsers leaves in its row is one.
LEMMA EnsuredType ==
  ASSUME db.setup \in Setup, NEW t \in Token
  PROVE  Ensured(t) \in Setup
<1>1. [token |-> t, consumed |-> FALSE] \in Setup
  BY DEF Setup
<1>2. QED
  BY <1>1 DEF Ensured

\* Every step keeps the tables typed.
LEMMA TablesNext == Typed /\ [Next]_vars => db' \in Tables
<1> SUFFICES ASSUME Typed, [Next]_vars PROVE db' \in Tables
  OBVIOUS
<1>0. /\ db \in Tables /\ now \in Time /\ req \in [Client -> Request]
      /\ cookie \in [Client -> Session \cup {None}]
  BY DEF Typed, AccountsTypeOK
<1> USE <1>0 DEF Typed
<1>1. ASSUME NEW c \in Client, NEW pc \in {"status", "ensure"}, EnsureCount(c, pc)
      PROVE  db' \in Tables
  BY <1>1 DEF EnsureCount
<1>2. ASSUME NEW c \in Client, EnsureLoad(c) PROVE db' \in Tables
  <2>1. CASE \E t \in Fresh : db' = [db EXCEPT !.setup = Ensured(t)]
    BY <2>1, EnsuredType, SetupWritten DEF Tables, Fresh
  <2>2. CASE UNCHANGED db
    BY <2>2
  <2>3. QED
    BY <1>2, <2>1, <2>2 DEF EnsureLoad
<1>3. ASSUME NEW c \in Client, SetupForm(c) PROVE db' \in Tables
  BY <1>3 DEF SetupForm
<1>4. ASSUME NEW c \in Client, SetupCount(c) PROVE db' \in Tables
  BY <1>4 DEF SetupCount
<1>5. ASSUME NEW c \in Client, NEW u \in User, NEW e \in Email, SetupCommit(c, u, e)
      PROVE  db' \in Tables
  <2>1. NewUser(u, e, None, req[c].at) \in Account
    BY NewRows DEF Request
  <2>2. QED
    BY <1>5, <2>1, UserWritten DEF SetupCommit
<1>6. ASSUME NEW c \in Client, SetupClear(c) PROVE db' \in Tables
  BY <1>6 DEF SetupClear
<1>7. ASSUME NEW c \in Client, SetupMark(c) PROVE db' \in Tables
  <2>1. CASE db' = [db EXCEPT !.setup.consumed = (db.setup.token # None)]
    <3>1. [db.setup EXCEPT !.consumed = (db.setup.token # None)] \in Setup
      BY DEF Tables, Setup
    <3>2. db' = [db EXCEPT !.setup = [db.setup EXCEPT !.consumed = (db.setup.token # None)]]
      BY <2>1 DEF Tables
    <3>3. QED
      BY <3>1, <3>2, SetupWritten
  <2>2. CASE UNCHANGED db
    BY <2>2
  <2>3. QED
    BY <1>7, <2>1, <2>2 DEF SetupMark
<1>8. ASSUME NEW c \in Client, NEW i \in Invite, RevokeInvite(c, i) PROVE db' \in Tables
  <2>1. [db.invite[i] EXCEPT !.revoked = TRUE] \in Invitation
    BY Flagged DEF Tables
  <2>2. db' = [db EXCEPT !.invite[i] = [db.invite[i] EXCEPT !.revoked = TRUE]]
    BY <1>8 DEF RevokeInvite, Tables
  <2>3. QED
    BY <2>1, <2>2, InviteWritten
<1>9. ASSUME NEW c \in Client, NEW i \in Invite, NEW j \in Invite, ResendInvite(c, i, j)
      PROVE  db' \in Tables
  <2> DEFINE d == [db EXCEPT !.invite[i] = [db.invite[i] EXCEPT !.revoked = TRUE]]
  <2> DEFINE v == Invited(db.invite[i].email, db.invite[i].expires - db.invite[i].made)
  <2>1. d \in Tables
    BY Flagged, InviteWritten DEF Tables
  <2>2. v \in Invitation
    <3>1. db.invite[i].expires - db.invite[i].made \in Nat
      BY DEF Tables, Invitation, Lives
    <3>2. db.invite[i].email \in Email \cup {None}
      BY DEF Tables, Invitation
    <3>3. QED
      BY <3>1, <3>2 DEF Invited, Invitation
  <2>3. db' = [d EXCEPT !.invite[j] = v]
    BY <1>9 DEF ResendInvite, Tables
  <2>4. QED
    BY <2>1, <2>2, <2>3, InviteWritten
<1>10. ASSUME NEW c \in Client, NEW i \in Invite, NEW e \in Email \cup {None}, CreateInvite(c, i, e)
      PROVE  db' \in Tables
  <2>1. \A life \in InviteLife : Invited(e, life) \in Invitation
    BY DEF Invited, Invitation
  <2>2. QED
    BY <1>10, <2>1, InviteWritten DEF CreateInvite
<1>11. ASSUME NEW c \in Client, NEW i \in Invite, NEW e \in Email, JoinStart(c, i, e)
      PROVE  db' \in Tables
  BY <1>11 DEF JoinStart
<1>12. ASSUME NEW c \in Client, NEW r \in Reset, ConfirmReset(c, r) PROVE db' \in Tables
  BY <1>12, NoRows, ResetWritten DEF ConfirmReset, Consumed
<1>13. ASSUME NEW c \in Client, NEW e \in Email, CliReset(c, e) PROVE db' \in Tables
  BY <1>13 DEF CliReset
<1>14. ASSUME NEW c \in Client, ChangePassword(c) PROVE db' \in Tables
  BY <1>14 DEF ChangePassword
<1>15. ASSUME NEW c \in Client, Write(c) PROVE db' \in Tables
  <2>1. ASSUME NEW u \in User, Set(c, u) PROVE db' \in Tables
    <3>1. PICK at \in req[c].at..now :
            db' = [db EXCEPT !.user[u].password = @ + 1, !.user[u].changed = at]
      BY <2>1 DEF Set
    <3>2. at \in Time
      BY DEF Request
    <3> DEFINE a == [db.user[u] EXCEPT !.password = @ + 1]
    <3> DEFINE b == [a EXCEPT !.changed = at]
    <3>3. a \in Account /\ b \in Account
      <4>1. db.user[u] \in Account
        BY DEF Tables
      <4>2. a \in Account
        BY <4>1 DEF Account
      <4>3. b \in Account
        BY <3>2, <4>2 DEF Account
      <4>4. QED
        BY <4>2, <4>3
    <3>4. db' = [db EXCEPT !.user = [db.user EXCEPT ![u] = b]]
      <4>1. db.user \in [User -> Account] /\ DOMAIN db = DOMAIN [db EXCEPT !.user = db.user]
        BY DEF Tables
      <4>2. db'.user = [db.user EXCEPT ![u] = b]
        BY <3>1, <4>1 DEF Tables, Account
      <4>3. QED
        BY <3>1, <4>2 DEF Tables
    <3>5. QED
      BY <3>3, <3>4 DEF Tables
  <2>2. QED
    BY <1>15, <2>1 DEF Write, Users, With
<1>16. ASSUME NEW c \in Client, NEW u \in User, Login(c, u) PROVE db' \in Tables
  BY <1>16 DEF Login
<1>17. ASSUME NEW c \in Client, NEW u \in User, JoinCommit(c, u) PROVE db' \in Tables
  <2>1. CASE /\ At(c, "join")
             /\ db' = [db EXCEPT !.user[u] = NewUser(u, req[c].email, req[c].token, req[c].at),
                                !.invite[req[c].token].consumed = TRUE]
    <3> DEFINE i == req[c].token
    <3> DEFINE d == [db EXCEPT !.user[u] = NewUser(u, req[c].email, i, req[c].at)]
    <3>1. i \in Invite /\ req[c].email \in Email
      BY <2>1 DEF At, Carried, Carries
    <3>2. NewUser(u, req[c].email, i, req[c].at) \in Account
      BY <3>1, NewRows DEF Request
    <3>3. d \in Tables
      BY <3>2, UserWritten
    <3>4. [db.invite[i] EXCEPT !.consumed = TRUE] \in Invitation
      BY <3>1, Flagged DEF Tables
    <3>5. db' = [d EXCEPT !.invite[i] = [db.invite[i] EXCEPT !.consumed = TRUE]]
      BY <2>1, <3>1 DEF Tables
    <3>6. QED
      BY <3>1, <3>3, <3>4, <3>5, InviteWritten
  <2>2. CASE UNCHANGED db
    BY <2>2
  <2>3. QED
    BY <1>17, <2>1, <2>2 DEF JoinCommit
<1>18. ASSUME NEW c \in Client, NEW e \in Email, UpdateProfile(c, e)
      PROVE  db' \in Tables
  <2>1. cookie[c].user \in User
    BY <1>18 DEF UpdateProfile, Valid, Session
  <2>2. [db.user[cookie[c].user] EXCEPT !.email = e] \in Account
    BY <2>1 DEF Tables, Account
  <2>3. db' = [db EXCEPT !.user[cookie[c].user] = [db.user[cookie[c].user] EXCEPT !.email = e]]
    BY <1>18, <2>1 DEF UpdateProfile, Tables
  <2>4. QED
    BY <2>1, <2>2, <2>3, UserWritten
<1>19. ASSUME NEW c \in Client, Issue(c) PROVE db' \in Tables
  BY <1>19 DEF Issue
<1>20. ASSUME NEW c \in Client, Logout(c) PROVE db' \in Tables
  BY <1>20 DEF Logout
<1>21. ASSUME NEW e \in Email, NEW r \in Reset, RequestReset(e, r) PROVE db' \in Tables
  <2>1. PICK u \in User :
           db' = [db EXCEPT !.reset[r] = [state |-> "there", user |-> u, expires |-> now + ResetLife]]
    BY <1>21 DEF RequestReset, With, Users
  <2>2. [state |-> "there", user |-> u, expires |-> now + ResetLife] \in ResetToken
    BY DEF ResetToken
  <2>3. QED
    BY <2>1, <2>2, ResetWritten
<1>22. CASE Tick
  BY <1>22 DEF Tick
<1>23. CASE Janitor
  <2>1. db'.reset \in [Reset -> ResetToken]
    BY <1>23, NoRows DEF Janitor, Swept, Tables
  <2>2. db'.invite \in [Invite -> Invitation]
    BY <1>23, NoRows DEF Janitor, Swept, Tables
  <2>3. db' = [db EXCEPT !.reset = db'.reset, !.invite = db'.invite]
    BY <1>23 DEF Janitor, Swept, Tables
  <2>4. QED
    BY <2>1, <2>2, <2>3 DEF Tables
<1>24. CASE ClearUsers
  <2>1. db'.user \in [User -> Account]
    BY <1>24, NoRows DEF ClearUsers, Gone, Tables
  <2>2. db'.invite \in [Invite -> Invitation]
    BY <1>24, NoRows DEF ClearUsers, Gone, Tables
  <2>3. db'.reset \in [Reset -> ResetToken]
    BY <1>24, NoRows DEF ClearUsers, Gone, Tables
  <2>4. db' = [db EXCEPT !.user = db'.user, !.invite = db'.invite, !.reset = db'.reset]
    BY <1>24 DEF ClearUsers, Tables
  <2>5. QED
    BY <2>1, <2>2, <2>3, <2>4 DEF Tables
<1>25. CASE Boot
  <2>1. CASE \E t \in Fresh : db' = [db EXCEPT !.setup = Ensured(t)]
    BY <2>1, EnsuredType, SetupWritten DEF Tables, Fresh
  <2>2. CASE UNCHANGED db
    BY <2>2
  <2>3. QED
    BY <1>25, <2>1, <2>2 DEF Boot
<1>26. CASE Crash
  BY <1>26 DEF Crash
<1>27. CASE UNCHANGED vars
  BY <1>27 DEF vars
<1>28. QED
  BY <1>1, <1>2, <1>3, <1>4, <1>5, <1>6, <1>7, <1>8, <1>9, <1>10, <1>11, <1>12, <1>13,
  <1>14, <1>15, <1>16, <1>17, <1>18, <1>19, <1>20, <1>21, <1>22, <1>23, <1>24, <1>25,
  <1>26, <1>27
     DEF Next, SetupStep, InviteStep, PasswordStep, SessionStep
\* A request that goes on for a user and its password.
LEMMA LeadsType ==
  ASSUME req \in [Client -> Request], Carried, NEW c \in Client, NEW u \in User,
         NEW pc \in {"clear", "issue"}, NEW n \in Nat, Leads(c, pc, u, n)
  PROVE  req' \in [Client -> Request] /\ Carried'
<1> DEFINE q == [Idle EXCEPT !.pc = pc, !.user = u, !.password = n]
<1>1. Idle \in Request
  BY DEF Idle, Request
<1>2. q \in Request /\ q.pc = pc /\ q.user = u
  <2>1. [Idle EXCEPT !.pc = pc] \in Request /\ [Idle EXCEPT !.pc = pc].pc = pc
    BY <1>1 DEF Request
  <2> DEFINE q2 == [[Idle EXCEPT !.pc = pc] EXCEPT !.user = u]
  <2>2. q2 \in Request /\ q2.pc = pc /\ q2.user = u
    BY <2>1 DEF Request
  <2>3. q = [q2 EXCEPT !.password = n]
    OBVIOUS
  <2> HIDE DEF q, q2
  <2>4. QED
    BY <2>2, <2>3 DEF Request
<1>3. req' = [req EXCEPT ![c] = q]
  BY DEF Leads
<1> HIDE DEF q
<1>4. QED
  BY <1>2, <1>3 DEF Carried, Carries

\* Every step keeps the requests typed, with what they carry.
LEMMA RequestsNext ==
  Typed /\ [Next]_vars => req' \in [Client -> Request] /\ Carried'
<1> SUFFICES ASSUME Typed, [Next]_vars
             PROVE  req' \in [Client -> Request] /\ Carried'
  OBVIOUS
<1>0. /\ db \in Tables /\ now \in Time /\ req \in [Client -> Request] /\ Carried
      /\ cookie \in [Client -> Session \cup {None}]
  BY DEF Typed, AccountsTypeOK
<1> USE <1>0 DEF Carried
<1>1. ASSUME NEW c \in Client, NEW pc \in {"status", "ensure"}, EnsureCount(c, pc)
      PROVE  req' \in [Client -> Request] /\ Carried'
  BY <1>1
     DEF EnsureCount, Asks, Goto, Ends, Leads, At, Idle, Request, Carried, Carries,
     Another
<1>2. ASSUME NEW c \in Client, EnsureLoad(c)
      PROVE  req' \in [Client -> Request] /\ Carried'
  <2>1. CASE Ends(c)
    BY <2>1 DEF Ends, Idle, Request, Carries
  <2>2. CASE Goto(c, "form")
    BY <2>2 DEF Goto, Request, Carries
  <2>3. QED
    BY <1>2, <2>1, <2>2 DEF EnsureLoad
<1>3. ASSUME NEW c \in Client, SetupForm(c)
      PROVE  req' \in [Client -> Request] /\ Carried'
  BY <1>3
     DEF SetupForm, Asks, Goto, Ends, Leads, At, Idle, Request, Carried, Carries,
     Another
<1>4. ASSUME NEW c \in Client, SetupCount(c)
      PROVE  req' \in [Client -> Request] /\ Carried'
  BY <1>4
     DEF SetupCount, Asks, Goto, Ends, Leads, At, Idle, Request, Carried, Carries,
     Another
<1>5. ASSUME NEW c \in Client, NEW u \in User, NEW e \in Email, SetupCommit(c, u, e)
      PROVE  req' \in [Client -> Request] /\ Carried'
  <2>1. CASE Ends(c)
    BY <2>1 DEF Ends, Idle, Request, Carries
  <2>2. CASE Leads(c, "clear", u, 1)
    BY <2>2, LeadsType
  <2>3. QED
    BY <1>5, <2>1, <2>2 DEF SetupCommit
<1>6. ASSUME NEW c \in Client, SetupClear(c)
      PROVE  req' \in [Client -> Request] /\ Carried'
  BY <1>6
     DEF SetupClear, Asks, Goto, Ends, Leads, At, Idle, Request, Carried, Carries,
     Another
<1>7. ASSUME NEW c \in Client, SetupMark(c)
      PROVE  req' \in [Client -> Request] /\ Carried'
  BY <1>7
     DEF SetupMark, Asks, Goto, Ends, Leads, At, Idle, Request, Carried, Carries,
     Another
<1>8. ASSUME NEW c \in Client, NEW i \in Invite, RevokeInvite(c, i)
      PROVE  req' \in [Client -> Request] /\ Carried'
  BY <1>8 DEF RevokeInvite
<1>9. ASSUME NEW c \in Client, NEW i \in Invite, NEW j \in Invite, ResendInvite(c, i, j)
      PROVE  req' \in [Client -> Request] /\ Carried'
  BY <1>9 DEF ResendInvite
<1>10. ASSUME NEW c \in Client, NEW i \in Invite, NEW e \in Email \cup {None}, CreateInvite(c, i, e)
      PROVE  req' \in [Client -> Request] /\ Carried'
  BY <1>10 DEF CreateInvite
<1>11. ASSUME NEW c \in Client, NEW i \in Invite, NEW e \in Email, JoinStart(c, i, e)
      PROVE  req' \in [Client -> Request] /\ Carried'
  BY <1>11
     DEF JoinStart, Asks, Goto, Ends, Leads, At, Idle, Request, Carried, Carries,
     Another
<1>12. ASSUME NEW c \in Client, NEW r \in Reset, ConfirmReset(c, r)
      PROVE  req' \in [Client -> Request] /\ Carried'
  BY <1>12
     DEF ConfirmReset, Tables, ResetToken, Asks, Goto, Ends, Leads, At, Idle, Request,
     Carried, Carries, Another
<1>13. ASSUME NEW c \in Client, NEW e \in Email, CliReset(c, e)
      PROVE  req' \in [Client -> Request] /\ Carried'
  BY <1>13
     DEF CliReset, Asks, Goto, Ends, Leads, At, Idle, Request, Carried, Carries, Another
<1>14. ASSUME NEW c \in Client, ChangePassword(c)
      PROVE  req' \in [Client -> Request] /\ Carried'
  BY <1>14
     DEF ChangePassword, Valid, Session, Asks, Goto, Ends, Leads, At, Idle, Request,
     Carried, Carries, Another
<1>15. ASSUME NEW c \in Client, Write(c) PROVE req' \in [Client -> Request] /\ Carried'
  <2>1. CASE Ends(c)
    BY <2>1 DEF Ends, Idle, Request, Carries
  <2>2. ASSUME NEW u \in User, Leads(c, "issue", u, db.user[u].password + 1)
        PROVE  req' \in [Client -> Request] /\ Carried'
    <3>1. db.user[u].password + 1 \in Nat
      BY DEF Tables, Account
    <3>2. QED
      BY <2>2, <3>1, LeadsType
  <2>3. QED
    BY <1>15, <2>1, <2>2 DEF Write, Users
<1>16. ASSUME NEW c \in Client, NEW u \in User, Login(c, u)
      PROVE  req' \in [Client -> Request] /\ Carried'
  BY <1>16
     DEF Login, Tables, Account, Users, Asks, Goto, Ends, Leads, At, Idle, Request,
     Carried, Carries, Another
<1>17. ASSUME NEW c \in Client, NEW u \in User, JoinCommit(c, u)
      PROVE  req' \in [Client -> Request] /\ Carried'
  <2>1. CASE Ends(c)
    BY <2>1 DEF Ends, Idle, Request, Carries
  <2>2. CASE Leads(c, "issue", u, 1)
    BY <2>2, LeadsType
  <2>3. QED
    BY <1>17, <2>1, <2>2 DEF JoinCommit
<1>18. ASSUME NEW c \in Client, NEW e \in Email, UpdateProfile(c, e)
      PROVE  req' \in [Client -> Request] /\ Carried'
  BY <1>18 DEF UpdateProfile
<1>19. ASSUME NEW c \in Client, Issue(c) PROVE req' \in [Client -> Request] /\ Carried'
  BY <1>19
     DEF Issue, Asks, Goto, Ends, Leads, At, Idle, Request, Carried, Carries, Another
<1>20. ASSUME NEW c \in Client, Logout(c) PROVE req' \in [Client -> Request] /\ Carried'
  BY <1>20 DEF Logout
<1>21. ASSUME NEW e \in Email, NEW r \in Reset, RequestReset(e, r)
      PROVE  req' \in [Client -> Request] /\ Carried'
  BY <1>21 DEF RequestReset
<1>22. CASE Tick
  BY <1>22 DEF Tick
<1>23. CASE Janitor
  BY <1>23 DEF Janitor
<1>24. CASE ClearUsers
  BY <1>24 DEF ClearUsers
<1>25. CASE Boot
  BY <1>25 DEF Boot
<1>26. CASE Crash
  BY <1>26
     DEF Crash, Asks, Goto, Ends, Leads, At, Idle, Request, Carried, Carries, Another
<1>27. CASE UNCHANGED vars
  BY <1>27 DEF vars
<1>28. QED
  BY <1>1, <1>2, <1>3, <1>4, <1>5, <1>6, <1>7, <1>8, <1>9, <1>10, <1>11, <1>12, <1>13,
  <1>14, <1>15, <1>16, <1>17, <1>18, <1>19, <1>20, <1>21, <1>22, <1>23, <1>24, <1>25,
  <1>26, <1>27
     DEF Next, SetupStep, InviteStep, PasswordStep, SessionStep

\* Every step keeps the lifetimes of the invitations.
LEMMA LivesNext == Typed /\ [Next]_vars => Lives'
<1> SUFFICES ASSUME Typed, [Next]_vars PROVE Lives'
  OBVIOUS
<1>0. db \in Tables /\ now \in Time /\ Lives
  BY DEF Typed, AccountsTypeOK
<1> USE <1>0 DEF Lives
<1>1. ASSUME NEW c \in Client, NEW pc \in {"status", "ensure"}, EnsureCount(c, pc)
      PROVE  Lives'
  BY <1>1 DEF EnsureCount
<1>2. ASSUME NEW c \in Client, EnsureLoad(c) PROVE Lives'
  BY <1>2 DEF EnsureLoad, Tables
<1>3. ASSUME NEW c \in Client, SetupForm(c) PROVE Lives'
  BY <1>3 DEF SetupForm
<1>4. ASSUME NEW c \in Client, SetupCount(c) PROVE Lives'
  BY <1>4 DEF SetupCount
<1>5. ASSUME NEW c \in Client, NEW u \in User, NEW e \in Email, SetupCommit(c, u, e)
      PROVE  Lives'
  BY <1>5 DEF SetupCommit, Tables
<1>6. ASSUME NEW c \in Client, SetupClear(c) PROVE Lives'
  BY <1>6 DEF SetupClear
<1>7. ASSUME NEW c \in Client, SetupMark(c) PROVE Lives'
  BY <1>7 DEF SetupMark, Tables
<1>8. ASSUME NEW c \in Client, NEW i \in Invite, RevokeInvite(c, i) PROVE Lives'
  BY <1>8 DEF RevokeInvite, Tables
<1>9. ASSUME NEW c \in Client, NEW i \in Invite, NEW j \in Invite, ResendInvite(c, i, j)
      PROVE  Lives'
  BY <1>9 DEF ResendInvite, Invited, Tables, Invitation
<1>10. ASSUME NEW c \in Client, NEW i \in Invite, NEW e \in Email \cup {None}, CreateInvite(c, i, e)
      PROVE  Lives'
  BY <1>10 DEF CreateInvite, Invited, Tables
<1>11. ASSUME NEW c \in Client, NEW i \in Invite, NEW e \in Email, JoinStart(c, i, e)
      PROVE  Lives'
  BY <1>11 DEF JoinStart
<1>12. ASSUME NEW c \in Client, NEW r \in Reset, ConfirmReset(c, r) PROVE Lives'
  BY <1>12 DEF ConfirmReset, Consumed, Tables
<1>13. ASSUME NEW c \in Client, NEW e \in Email, CliReset(c, e) PROVE Lives'
  BY <1>13 DEF CliReset
<1>14. ASSUME NEW c \in Client, ChangePassword(c) PROVE Lives'
  BY <1>14 DEF ChangePassword
<1>15. ASSUME NEW c \in Client, Write(c) PROVE Lives'
  BY <1>15 DEF Write, Set, Tables
<1>16. ASSUME NEW c \in Client, NEW u \in User, Login(c, u) PROVE Lives'
  BY <1>16 DEF Login
<1>17. ASSUME NEW c \in Client, NEW u \in User, JoinCommit(c, u) PROVE Lives'
  <2>1. CASE db' = [db EXCEPT !.user[u] = NewUser(u, req[c].email, req[c].token, req[c].at),
                             !.invite[req[c].token].consumed = TRUE]
    <3>1. db'.invite = [db.invite EXCEPT ![req[c].token].consumed = TRUE]
      BY <2>1 DEF Tables
    <3>2. QED
      BY <3>1 DEF Tables
  <2>2. CASE UNCHANGED db
    BY <2>2
  <2>3. QED
    BY <1>17, <2>1, <2>2 DEF JoinCommit
<1>18. ASSUME NEW c \in Client, NEW e \in Email, UpdateProfile(c, e) PROVE Lives'
  BY <1>18 DEF UpdateProfile, Tables
<1>19. ASSUME NEW c \in Client, Issue(c) PROVE Lives'
  BY <1>19 DEF Issue
<1>20. ASSUME NEW c \in Client, Logout(c) PROVE Lives'
  BY <1>20 DEF Logout
<1>21. ASSUME NEW e \in Email, NEW r \in Reset, RequestReset(e, r) PROVE Lives'
  BY <1>21 DEF RequestReset, Tables
<1>22. CASE Tick
  BY <1>22 DEF Tick
<1>23. CASE Janitor
  BY <1>23 DEF Janitor, Swept, NoInvite, Tables
<1>24. CASE ClearUsers
  BY <1>24 DEF ClearUsers, Gone, NoInvite, Tables
<1>25. CASE Boot
  BY <1>25 DEF Boot, Tables
<1>26. CASE Crash
  BY <1>26 DEF Crash
<1>27. CASE UNCHANGED vars
  BY <1>27 DEF vars
<1>28. QED
  BY <1>1, <1>2, <1>3, <1>4, <1>5, <1>6, <1>7, <1>8, <1>9, <1>10, <1>11, <1>12, <1>13,
  <1>14, <1>15, <1>16, <1>17, <1>18, <1>19, <1>20, <1>21, <1>22, <1>23, <1>24, <1>25,
  <1>26, <1>27
     DEF Next, SetupStep, InviteStep, PasswordStep, SessionStep

\* What the process, the clients and the clock hold is typed.
RestTyped ==
  /\ server \in Process /\ now \in Time /\ asked \in 0..MaxRequests
  /\ cookie \in [Client -> Session \cup {None}]

LEMMA EnsuredToken ==
  ASSUME db.setup \in Setup, NEW t \in Token
  PROVE  Ensured(t).token \in Token
BY DEF Ensured, Setup

LEMMA RestNext == Typed /\ [Next]_vars => RestTyped'
<1> SUFFICES ASSUME Typed, [Next]_vars PROVE RestTyped'
  OBVIOUS
<1>0. /\ RestTyped /\ db.setup \in Setup /\ req \in [Client -> Request] /\ Carried
  BY DEF Typed, AccountsTypeOK, RestTyped, Tables
<1> USE <1>0 DEF RestTyped
<1>1. ASSUME NEW c \in Client, NEW pc \in {"status", "ensure"}, EnsureCount(c, pc)
      PROVE  RestTyped'
  BY <1>1 DEF EnsureCount, Asks, Another, Process
<1>2. ASSUME NEW c \in Client, EnsureLoad(c) PROVE RestTyped'
  BY <1>2, EnsuredToken DEF EnsureLoad, Process, Fresh
<1>3. ASSUME NEW c \in Client, SetupForm(c) PROVE RestTyped'
  BY <1>3 DEF SetupForm, Another, Asks
<1>4. ASSUME NEW c \in Client, SetupCount(c) PROVE RestTyped'
  BY <1>4 DEF SetupCount, Another, Asks
<1>5. ASSUME NEW c \in Client, NEW u \in User, NEW e \in Email, SetupCommit(c, u, e)
      PROVE  RestTyped'
  BY <1>5 DEF SetupCommit, Another, Asks
<1>6. ASSUME NEW c \in Client, SetupClear(c) PROVE RestTyped'
  BY <1>6 DEF SetupClear, Process
<1>7. ASSUME NEW c \in Client, SetupMark(c) PROVE RestTyped'
  BY <1>7 DEF SetupMark, Another, Asks
<1>8. ASSUME NEW c \in Client, NEW i \in Invite, RevokeInvite(c, i) PROVE RestTyped'
  BY <1>8 DEF RevokeInvite, Another, Asks
<1>9. ASSUME NEW c \in Client, NEW i \in Invite, NEW j \in Invite, ResendInvite(c, i, j)
      PROVE  RestTyped'
  BY <1>9 DEF ResendInvite, Another, Asks
<1>10. ASSUME NEW c \in Client, NEW i \in Invite, NEW e \in Email \cup {None}, CreateInvite(c, i, e)
      PROVE  RestTyped'
  BY <1>10 DEF CreateInvite, Another, Asks
<1>11. ASSUME NEW c \in Client, NEW i \in Invite, NEW e \in Email, JoinStart(c, i, e)
      PROVE  RestTyped'
  BY <1>11 DEF JoinStart, Another, Asks
<1>12. ASSUME NEW c \in Client, NEW r \in Reset, ConfirmReset(c, r) PROVE RestTyped'
  BY <1>12 DEF ConfirmReset, Another, Asks
<1>13. ASSUME NEW c \in Client, NEW e \in Email, CliReset(c, e) PROVE RestTyped'
  BY <1>13 DEF CliReset, Another, Asks
<1>14. ASSUME NEW c \in Client, ChangePassword(c) PROVE RestTyped'
  BY <1>14 DEF ChangePassword, Another, Asks
<1>15. ASSUME NEW c \in Client, Write(c) PROVE RestTyped'
  BY <1>15 DEF Write, Another, Asks
<1>16. ASSUME NEW c \in Client, NEW u \in User, Login(c, u) PROVE RestTyped'
  BY <1>16 DEF Login, Another, Asks
<1>17. ASSUME NEW c \in Client, NEW u \in User, JoinCommit(c, u) PROVE RestTyped'
  BY <1>17 DEF JoinCommit, Another, Asks
<1>18. ASSUME NEW c \in Client, NEW e \in Email, UpdateProfile(c, e) PROVE RestTyped'
  BY <1>18 DEF UpdateProfile, Another, Asks
<1>19. ASSUME NEW c \in Client, Issue(c) PROVE RestTyped'
  <2>1. req[c].user \in User /\ req[c].password \in Nat
    BY <1>19 DEF Issue, At, Carried, Carries, Request
  <2>2. QED
    BY <1>19, <2>1 DEF Issue, Session
<1>20. ASSUME NEW c \in Client, Logout(c) PROVE RestTyped'
  BY <1>20 DEF Logout
<1>21. ASSUME NEW e \in Email, NEW r \in Reset, RequestReset(e, r) PROVE RestTyped'
  BY <1>21 DEF RequestReset, Another, Asks
<1>22. CASE Tick
  BY <1>22 DEF Tick
<1>23. CASE Janitor
  BY <1>23 DEF Janitor
<1>24. CASE ClearUsers
  BY <1>24 DEF ClearUsers
<1>25. CASE Boot
  BY <1>25, EnsuredToken DEF Boot, Down, Process, Fresh
<1>26. CASE Crash
  BY <1>26 DEF Crash, Down, Process
<1>27. CASE UNCHANGED vars
  BY <1>27 DEF vars
<1>28. QED
  BY <1>1, <1>2, <1>3, <1>4, <1>5, <1>6, <1>7, <1>8, <1>9, <1>10, <1>11, <1>12, <1>13,
  <1>14, <1>15, <1>16, <1>17, <1>18, <1>19, <1>20, <1>21, <1>22, <1>23, <1>24, <1>25,
  <1>26, <1>27
     DEF Next, SetupStep, InviteStep, PasswordStep, SessionStep

LEMMA TypedInit == Init => Typed
<1> SUFFICES ASSUME Init PROVE Typed
  OBVIOUS
<1>1. db \in Tables
  <2>1. [token |-> None, consumed |-> FALSE] \in Setup
    BY DEF Setup
  <2>2. QED
    BY <2>1, NoRows DEF Init, Tables
<1>2. req \in [Client -> Request] /\ Carried
  BY DEF Init, Idle, Request, Carried, Carries
<1>3. RestTyped
  BY DEF Init, RestTyped, Down, Process
<1>4. Lives
  BY DEF Init, Lives, NoInvite
<1>5. QED
  BY <1>1, <1>2, <1>3, <1>4 DEF Typed, AccountsTypeOK, RestTyped

THEOREM AlwaysTyped == Spec => []Typed
<1>1. Typed /\ [Next]_vars => Typed'
  BY TablesNext, RequestsNext, LivesNext, RestNext DEF Typed, AccountsTypeOK, RestTyped
<1>2. QED
  BY TypedInit, <1>1, PTL DEF Spec

-----------------------------------------------------------------------------
(* One account for each setup and invite, one password for each token.     *)

\* An invitation that is not there was not used.
Quiet == \A i \in Invite : db.invite[i].state # "there" => ~db.invite[i].consumed

OneEachInv == OneEach /\ Quiet

\* Whom OneEach is about, which most steps leave alone.
SamePeople ==
  /\ \A u \in User : /\ db'.user[u].state = db.user[u].state
                     /\ db'.user[u].email = db.user[u].email
                     /\ db'.user[u].from = db.user[u].from
  /\ \A i \in Invite : /\ db'.invite[i].consumed = db.invite[i].consumed
                       /\ db.invite[i].state = "there" => db'.invite[i].state = "there"

LEMMA SamePeopleKeeps == db \in Tables /\ OneEachInv /\ SamePeople => OneEachInv'
<1> SUFFICES ASSUME db \in Tables, OneEachInv, SamePeople PROVE OneEachInv'
  OBVIOUS
<1>1. Users' = Users
  BY DEF Users, SamePeople
<1>2. Users \subseteq User
  BY DEF Users
<1>3. OneEach'
  <2>1. \A u, v \in Users : db'.user[u].from = db'.user[v].from
                             \/ db'.user[u].email = db'.user[v].email => u = v
    BY <1>2 DEF OneEachInv, OneEach, SamePeople
  <2>2. \A u \in Users : db'.user[u].from # None => db'.invite[db'.user[u].from].consumed
    <3>1. \A u \in Users : db.user[u].from # None => db.user[u].from \in Invite
      BY DEF Users, Tables, Account
    <3>2. QED
      BY <1>2, <3>1 DEF OneEachInv, OneEach, SamePeople
  <2>3. \A i \in Invite : db'.invite[i].consumed => \E u \in Users : db'.user[u].from = i
    BY <1>2 DEF OneEachInv, OneEach, SamePeople
  <2>4. QED
    BY <1>1, <2>1, <2>2, <2>3 DEF OneEach
<1>4. Quiet'
  BY DEF OneEachInv, Quiet, SamePeople
<1>5. QED
  BY <1>3, <1>4 DEF OneEachInv

\* An invitation just made, and one that was deleted.
LEMMA JustInvited ==
  ASSUME NEW e, NEW life
  PROVE  Invited(e, life).state = "there" /\ Invited(e, life).consumed = FALSE
BY DEF Invited

LEMMA DeletedInvite == ~[NoInvite EXCEPT !.state = "gone"].consumed
BY DEF NoInvite

LEMMA OneEachNext == Typed /\ OneEachInv /\ [Next]_vars => OneEachInv'
<1> SUFFICES ASSUME Typed, OneEachInv, [Next]_vars PROVE OneEachInv'
  OBVIOUS
<1>0. db \in Tables /\ req \in [Client -> Request] /\ Carried
  BY DEF Typed, AccountsTypeOK
<1> USE <1>0
<1>1. ASSUME NEW c \in Client, NEW pc \in {"status", "ensure"}, EnsureCount(c, pc)
      PROVE  OneEachInv'
  <2>1. SamePeople
    BY <1>1 DEF EnsureCount, SamePeople, Tables
  <2>2. QED
    BY <2>1, SamePeopleKeeps
<1>2. ASSUME NEW c \in Client, EnsureLoad(c) PROVE OneEachInv'
  <2>1. SamePeople
    BY <1>2 DEF EnsureLoad, SamePeople, Tables
  <2>2. QED
    BY <2>1, SamePeopleKeeps
<1>3. ASSUME NEW c \in Client, SetupForm(c) PROVE OneEachInv'
  <2>1. SamePeople
    BY <1>3 DEF SetupForm, SamePeople, Tables
  <2>2. QED
    BY <2>1, SamePeopleKeeps
<1>4. ASSUME NEW c \in Client, SetupCount(c) PROVE OneEachInv'
  <2>1. SamePeople
    BY <1>4 DEF SetupCount, SamePeople, Tables
  <2>2. QED
    BY <2>1, SamePeopleKeeps
<1>5. ASSUME NEW c \in Client, NEW u \in User, NEW e \in Email, SetupCommit(c, u, e)
      PROVE  OneEachInv'
  <2>1. ASSUME db.user[u].state = "absent", Users = {},
               db' = [db EXCEPT !.user[u] = NewUser(u, e, None, req[c].at)]
        PROVE  OneEachInv'
    BY <2>1 DEF NewUser, Tables, OneEachInv, OneEach, Quiet, Users
  <2>2. CASE UNCHANGED db
    BY <2>2 DEF OneEachInv, OneEach, Quiet, Users
  <2>3. QED
    BY <1>5, <2>1, <2>2 DEF SetupCommit
<1>6. ASSUME NEW c \in Client, SetupClear(c) PROVE OneEachInv'
  <2>1. SamePeople
    BY <1>6 DEF SetupClear, SamePeople, Tables
  <2>2. QED
    BY <2>1, SamePeopleKeeps
<1>7. ASSUME NEW c \in Client, SetupMark(c) PROVE OneEachInv'
  <2>1. SamePeople
    BY <1>7 DEF SetupMark, SamePeople, Tables
  <2>2. QED
    BY <2>1, SamePeopleKeeps
<1>8. ASSUME NEW c \in Client, NEW i \in Invite, RevokeInvite(c, i) PROVE OneEachInv'
  <2>1. SamePeople
    BY <1>8 DEF RevokeInvite, SamePeople, Tables, Invitation
  <2>2. QED
    BY <2>1, SamePeopleKeeps
<1>9. ASSUME NEW c \in Client, NEW i \in Invite, NEW j \in Invite, ResendInvite(c, i, j)
      PROVE  OneEachInv'
  <2>1. PICK v : /\ db' = [db EXCEPT !.invite[i].revoked = TRUE, !.invite[j] = v]
               /\ v.state = "there" /\ v.consumed = FALSE
               /\ db.invite[i].state = "there" /\ db.invite[j].state = "absent"
    <3>1. /\ db' = [db EXCEPT !.invite[i].revoked = TRUE,
                              !.invite[j] = Invited(db.invite[i].email,
                                                    db.invite[i].expires - db.invite[i].made)]
          /\ db.invite[i].state = "there" /\ db.invite[j].state = "absent"
      BY <1>9 DEF ResendInvite
    <3>2. QED
      BY <3>1, JustInvited
  <2>2. /\ db'.user = db.user /\ db'.invite[j] = v /\ i # j
        /\ db'.invite[i] = [db.invite[i] EXCEPT !.revoked = TRUE]
        /\ \A k \in Invite \ {i, j} : db'.invite[k] = db.invite[k]
    BY <2>1 DEF Tables
  <2>3. /\ db'.invite[i].consumed = db.invite[i].consumed
        /\ db'.invite[i].state = db.invite[i].state
    BY <2>2 DEF Tables, Invitation
  <2>4. db.invite[j].consumed = FALSE
    BY <2>1 DEF OneEachInv, Quiet, Tables, Invitation
  <2>5. SamePeople
    BY <2>1, <2>2, <2>3, <2>4 DEF SamePeople
  <2>6. QED
    BY <2>5, SamePeopleKeeps
<1>10. ASSUME NEW c \in Client, NEW i \in Invite, NEW e \in Email \cup {None}, CreateInvite(c, i, e)
      PROVE  OneEachInv'
  <2>1. PICK v : /\ db' = [db EXCEPT !.invite[i] = v]
               /\ v.state = "there" /\ v.consumed = FALSE
               /\ db.invite[i].state = "absent"
    <3>1. PICK life \in InviteLife : db' = [db EXCEPT !.invite[i] = Invited(e, life)]
      BY <1>10 DEF CreateInvite
    <3>2. db.invite[i].state = "absent"
      BY <1>10 DEF CreateInvite
    <3>3. QED
      BY <3>1, <3>2, JustInvited
  <2>2. /\ db'.user = db.user /\ db'.invite[i] = v
        /\ \A k \in Invite \ {i} : db'.invite[k] = db.invite[k]
    BY <2>1 DEF Tables
  <2>3. db.invite[i].consumed = FALSE
    BY <2>1 DEF OneEachInv, Quiet, Tables, Invitation
  <2>4. SamePeople
    BY <2>1, <2>2, <2>3 DEF SamePeople
  <2>5. QED
    BY <2>4, SamePeopleKeeps
<1>11. ASSUME NEW c \in Client, NEW i \in Invite, NEW e \in Email, JoinStart(c, i, e)
      PROVE  OneEachInv'
  <2>1. SamePeople
    BY <1>11 DEF JoinStart, SamePeople, Tables
  <2>2. QED
    BY <2>1, SamePeopleKeeps
<1>12. ASSUME NEW c \in Client, NEW r \in Reset, ConfirmReset(c, r) PROVE OneEachInv'
  <2>1. SamePeople
    BY <1>12 DEF ConfirmReset, SamePeople, Consumed, Tables
  <2>2. QED
    BY <2>1, SamePeopleKeeps
<1>13. ASSUME NEW c \in Client, NEW e \in Email, CliReset(c, e) PROVE OneEachInv'
  <2>1. SamePeople
    BY <1>13 DEF CliReset, SamePeople, Tables
  <2>2. QED
    BY <2>1, SamePeopleKeeps
<1>14. ASSUME NEW c \in Client, ChangePassword(c) PROVE OneEachInv'
  <2>1. SamePeople
    BY <1>14 DEF ChangePassword, SamePeople, Tables
  <2>2. QED
    BY <2>1, SamePeopleKeeps
<1>15. ASSUME NEW c \in Client, Write(c) PROVE OneEachInv'
  <2>1. ASSUME NEW u \in User, Set(c, u) PROVE SamePeople
    <3>1. PICK at \in req[c].at..now :
            db' = [db EXCEPT !.user[u].password = @ + 1, !.user[u].changed = at]
      BY <2>1 DEF Set
    <3>2. QED
      BY <3>1 DEF SamePeople, Tables, Account
  <2>2. ASSUME UNCHANGED db PROVE SamePeople
    BY <2>2 DEF SamePeople
  <2>3. SamePeople
    BY <1>15, <2>1, <2>2 DEF Write, Users, With
  <2>4. QED
    BY <2>3, SamePeopleKeeps
<1>16. ASSUME NEW c \in Client, NEW u \in User, Login(c, u) PROVE OneEachInv'
  <2>1. SamePeople
    BY <1>16 DEF Login, SamePeople, Tables
  <2>2. QED
    BY <2>1, SamePeopleKeeps
<1>17. ASSUME NEW c \in Client, NEW u \in User, JoinCommit(c, u) PROVE OneEachInv'
  <2> DEFINE q == req[c]
  <2>1. ASSUME Usable(q.token, q.email, q.at), With(q.email) = {}, db.user[u].state = "absent",
               q.token \in Invite,
               db' = [db EXCEPT !.user[u] = NewUser(u, q.email, q.token, q.at),
                                !.invite[q.token].consumed = TRUE]
        PROVE  OneEachInv'
    <3>1. /\ db'.user = [db.user EXCEPT ![u] = NewUser(u, q.email, q.token, q.at)]
          /\ db'.invite = [db.invite EXCEPT ![q.token].consumed = TRUE]
      BY <2>1 DEF Tables
    <3>2. ~db.invite[q.token].consumed /\ db.invite[q.token].state = "there"
      BY <2>1 DEF Usable
    <3>3. Users' = Users \cup {u} /\ u \notin Users
      BY <2>1, <3>1 DEF Users, NewUser, Tables
    <3>4. \A v \in Users : db'.user[v] = db.user[v]
      BY <3>1, <3>3 DEF Tables
    <3>5. db'.user[u].from = q.token /\ db'.user[u].email = q.email
      BY <3>1 DEF NewUser, Tables
    <3>6. \A v \in Users : db.user[v].from # q.token /\ db.user[v].email # q.email
      BY <2>1, <3>2 DEF OneEachInv, OneEach, With
    <3>7. /\ db'.invite[q.token].consumed /\ db'.invite[q.token].state = "there"
          /\ \A i \in Invite \ {q.token} : db'.invite[i] = db.invite[i]
      BY <2>1, <3>1, <3>2 DEF Tables, Invitation
    <3>8. OneEach'
      <4>1. \A x, y \in Users' : db'.user[x].from = db'.user[y].from
                               \/ db'.user[x].email = db'.user[y].email => x = y
        BY <3>3, <3>4, <3>5, <3>6 DEF OneEachInv, OneEach
      <4>2. \A x \in Users' : db'.user[x].from # None => db'.invite[db'.user[x].from].consumed
        <5>1. \A x \in Users : db.user[x].from # None => db.user[x].from \in Invite
          BY DEF Users, Tables, Account
        <5>2. QED
          BY <3>3, <3>4, <3>5, <3>7, <5>1 DEF OneEachInv, OneEach
      <4>3. \A i \in Invite : db'.invite[i].consumed => \E x \in Users' : db'.user[x].from = i
        BY <3>3, <3>4, <3>5, <3>7 DEF OneEachInv, OneEach
      <4>4. QED
        BY <4>1, <4>2, <4>3 DEF OneEach
    <3>9. Quiet'
      BY <3>7 DEF OneEachInv, Quiet
    <3>10. QED
      BY <3>8, <3>9 DEF OneEachInv
  <2>2. CASE UNCHANGED db
    BY <2>2 DEF OneEachInv, OneEach, Quiet, Users
  <2>3. QED
    BY <1>17, <2>1, <2>2 DEF JoinCommit, At, Carried, Carries
<1>18. ASSUME NEW c \in Client, NEW e \in Email, UpdateProfile(c, e) PROVE OneEachInv'
  <2> DEFINE v == cookie[c].user
  <2>1. v \in Users /\ With(e) = {}
    BY <1>18 DEF UpdateProfile, Valid
  <2>2. db'.user = [db.user EXCEPT ![v].email = e] /\ db'.invite = db.invite
    BY <1>18 DEF UpdateProfile, Tables
  <2>3. \A u \in User : db'.user[u].state = db.user[u].state /\ db'.user[u].from = db.user[u].from
    BY <2>1, <2>2 DEF Tables, Account, Users
  <2>4. db'.user[v].email = e /\ \A u \in User \ {v} : db'.user[u] = db.user[u]
    BY <2>1, <2>2 DEF Tables, Account, Users
  <2>5. Users' = Users
    BY <2>3 DEF Users
  <2>6. \A u \in Users : db.user[u].email # e
    BY <2>1 DEF With
  <2>7. OneEach'
    <3>1. \A x, y \in Users : db'.user[x].from = db'.user[y].from
                            \/ db'.user[x].email = db'.user[y].email => x = y
      BY <2>3, <2>4, <2>6 DEF OneEachInv, OneEach, Users
    <3>2. \A x \in Users : db'.user[x].from = db.user[x].from
      BY <2>3 DEF Users
    <3>3. \A x \in Users' : db'.user[x].from # None => db'.invite[db'.user[x].from].consumed
      BY <2>2, <2>5, <3>2 DEF OneEachInv, OneEach
    <3>4. \A i \in Invite : db'.invite[i].consumed => \E x \in Users' : db'.user[x].from = i
      BY <2>2, <2>5, <3>2 DEF OneEachInv, OneEach
    <3>5. QED
      BY <2>5, <3>1, <3>3, <3>4 DEF OneEach
  <2>8. Quiet'
    BY <2>2 DEF OneEachInv, Quiet
  <2>9. QED
    BY <2>7, <2>8 DEF OneEachInv
<1>19. ASSUME NEW c \in Client, Issue(c) PROVE OneEachInv'
  <2>1. SamePeople
    BY <1>19 DEF Issue, SamePeople, Tables
  <2>2. QED
    BY <2>1, SamePeopleKeeps
<1>20. ASSUME NEW c \in Client, Logout(c) PROVE OneEachInv'
  <2>1. SamePeople
    BY <1>20 DEF Logout, SamePeople, Tables
  <2>2. QED
    BY <2>1, SamePeopleKeeps
<1>21. ASSUME NEW e \in Email, NEW r \in Reset, RequestReset(e, r) PROVE OneEachInv'
  <2>1. SamePeople
    BY <1>21 DEF RequestReset, SamePeople, Tables
  <2>2. QED
    BY <2>1, SamePeopleKeeps
<1>22. CASE Tick
  <2>1. SamePeople
    BY <1>22 DEF Tick, SamePeople, Tables
  <2>2. QED
    BY <2>1, SamePeopleKeeps
<1>23. CASE Janitor
  <2>1. ASSUME NEW i \in Invite
        PROVE  \/ db'.invite[i] = db.invite[i]
               \/ db'.invite[i] = [NoInvite EXCEPT !.state = "gone"] /\ ~db.invite[i].consumed
    BY <1>23 DEF Janitor, Swept, Tables
  <2>2. ASSUME NEW i \in Invite
        PROVE  \/ db'.invite[i] = db.invite[i]
               \/ ~db'.invite[i].consumed /\ ~db.invite[i].consumed
    <3>1. CASE db'.invite[i] = [NoInvite EXCEPT !.state = "gone"] /\ ~db.invite[i].consumed
      <4>1. db'.invite[i].consumed = [NoInvite EXCEPT !.state = "gone"].consumed
        BY <3>1
      <4>2. QED
        BY <3>1, <4>1, DeletedInvite, Zenon
    <3>2. QED
      BY <2>1, <3>1
  <2>3. db'.user = db.user
    BY <1>23 DEF Janitor, Swept, Tables
  <2>4. Users' = Users
    BY <2>3 DEF Users
  <2>5. OneEach'
    <3>1. \A x \in Users : db.user[x].from # None => db.user[x].from \in Invite
      BY DEF Users, Tables, Account
    <3>2. QED
      BY <2>2, <2>3, <2>4, <3>1 DEF OneEachInv, OneEach
  <2>6. Quiet'
    BY <2>2 DEF OneEachInv, Quiet
  <2>7. QED
    BY <2>5, <2>6 DEF OneEachInv
<1>24. CASE ClearUsers
  <2>1. Users' = {}
    BY <1>24 DEF ClearUsers, Users, Gone, NoAccount, Tables
  <2>2. \A i \in Invite : ~db'.invite[i].consumed
    BY <1>24 DEF ClearUsers, Gone, NoInvite, Tables, OneEachInv, Quiet
  <2>3. QED
    BY <2>1, <2>2 DEF OneEachInv, OneEach, Quiet
<1>25. CASE Boot
  <2>1. SamePeople
    BY <1>25 DEF Boot, SamePeople, Tables
  <2>2. QED
    BY <2>1, SamePeopleKeeps
<1>26. CASE Crash
  <2>1. SamePeople
    BY <1>26 DEF Crash, SamePeople, Tables
  <2>2. QED
    BY <2>1, SamePeopleKeeps
<1>27. CASE UNCHANGED vars
  <2>1. SamePeople
    BY <1>27 DEF vars, SamePeople, Tables
  <2>2. QED
    BY <2>1, SamePeopleKeeps
<1>28. QED
  BY <1>1, <1>2, <1>3, <1>4, <1>5, <1>6, <1>7, <1>8, <1>9, <1>10, <1>11, <1>12, <1>13,
  <1>14, <1>15, <1>16, <1>17, <1>18, <1>19, <1>20, <1>21, <1>22, <1>23, <1>24, <1>25,
  <1>26, <1>27
     DEF Next, SetupStep, InviteStep, PasswordStep, SessionStep

\* No step but a confirmation hands out a reset token, and none brings one back.
NoTokenOut ==
  /\ \A c \in Client : req'[c].token = req[c].token \/ req'[c].token \notin Reset
  /\ \A r \in Reset : db.reset[r].state = "gone" => db'.reset[r].state = "gone"

LEMMA NoTokenOutKeeps == ResetOnce /\ NoTokenOut => ResetOnce'
BY DEF ResetOnce, NoTokenOut

LEMMA ResetOnceNext == Typed /\ ResetOnce /\ [Next]_vars => ResetOnce'
<1> SUFFICES ASSUME Typed, ResetOnce, [Next]_vars PROVE ResetOnce'
  OBVIOUS
<1>0. db \in Tables /\ req \in [Client -> Request]
  BY DEF Typed, AccountsTypeOK
<1> USE <1>0
<1>1. ASSUME NEW c \in Client, NEW pc \in {"status", "ensure"}, EnsureCount(c, pc)
      PROVE  ResetOnce'
  <2>1. NoTokenOut
    BY <1>1 DEF EnsureCount, NoTokenOut, Asks, Goto, Ends, Leads, Idle, Request, Tables
  <2>2. QED
    BY <2>1, NoTokenOutKeeps
<1>2. ASSUME NEW c \in Client, EnsureLoad(c) PROVE ResetOnce'
  <2>1. \A r \in Reset : db'.reset[r] = db.reset[r]
    BY <1>2 DEF EnsureLoad, Tables
  <2>2. \A d \in Client : req'[d].token = req[d].token \/ req'[d].token \notin Reset
    <3>1. CASE Ends(c)
      BY <3>1 DEF Ends, Idle
    <3>2. CASE Goto(c, "form")
      BY <3>2 DEF Goto, Idle
    <3>3. QED
      BY <1>2, <3>1, <3>2 DEF EnsureLoad
  <2>3. QED
    BY <2>1, <2>2, NoTokenOutKeeps DEF NoTokenOut
<1>3. ASSUME NEW c \in Client, SetupForm(c) PROVE ResetOnce'
  <2>1. NoTokenOut
    BY <1>3 DEF SetupForm, NoTokenOut, Asks, Goto, Ends, Leads, Idle, Request, Tables
  <2>2. QED
    BY <2>1, NoTokenOutKeeps
<1>4. ASSUME NEW c \in Client, SetupCount(c) PROVE ResetOnce'
  <2>1. NoTokenOut
    BY <1>4 DEF SetupCount, NoTokenOut, Ends, Idle, Request
  <2>2. QED
    BY <2>1, NoTokenOutKeeps
<1>5. ASSUME NEW c \in Client, NEW u \in User, NEW e \in Email, SetupCommit(c, u, e)
      PROVE  ResetOnce'
  <2>1. \A r \in Reset : db'.reset[r] = db.reset[r]
    BY <1>5 DEF SetupCommit, Tables
  <2>2. \A d \in Client : req'[d].token = req[d].token \/ req'[d].token \notin Reset
    <3>1. CASE Ends(c)
      BY <3>1 DEF Ends, Idle
    <3>2. CASE Leads(c, "clear", u, 1)
      BY <3>2 DEF Leads, Idle
    <3>3. QED
      BY <1>5, <3>1, <3>2 DEF SetupCommit
  <2>3. QED
    BY <2>1, <2>2, NoTokenOutKeeps DEF NoTokenOut
<1>6. ASSUME NEW c \in Client, SetupClear(c) PROVE ResetOnce'
  <2>1. NoTokenOut
    BY <1>6 DEF SetupClear, NoTokenOut, Asks, Goto, Ends, Leads, Idle, Request, Tables
  <2>2. QED
    BY <2>1, NoTokenOutKeeps
<1>7. ASSUME NEW c \in Client, SetupMark(c) PROVE ResetOnce'
  <2>1. NoTokenOut
    BY <1>7 DEF SetupMark, NoTokenOut, Asks, Goto, Ends, Leads, Idle, Request, Tables
  <2>2. QED
    BY <2>1, NoTokenOutKeeps
<1>8. ASSUME NEW c \in Client, NEW i \in Invite, RevokeInvite(c, i) PROVE ResetOnce'
  <2>1. NoTokenOut
    BY <1>8 DEF RevokeInvite, NoTokenOut, Asks, Goto, Ends, Leads, Idle, Request, Tables
  <2>2. QED
    BY <2>1, NoTokenOutKeeps
<1>9. ASSUME NEW c \in Client, NEW i \in Invite, NEW j \in Invite, ResendInvite(c, i, j)
      PROVE  ResetOnce'
  <2>1. NoTokenOut
    BY <1>9 DEF ResendInvite, NoTokenOut, Asks, Goto, Ends, Leads, Idle, Request, Tables
  <2>2. QED
    BY <2>1, NoTokenOutKeeps
<1>10. ASSUME NEW c \in Client, NEW i \in Invite, NEW e \in Email \cup {None}, CreateInvite(c, i, e)
      PROVE  ResetOnce'
  <2>1. NoTokenOut
    BY <1>10 DEF CreateInvite, NoTokenOut, Asks, Goto, Ends, Leads, Idle, Request, Tables
  <2>2. QED
    BY <2>1, NoTokenOutKeeps
<1>11. ASSUME NEW c \in Client, NEW i \in Invite, NEW e \in Email, JoinStart(c, i, e)
      PROVE  ResetOnce'
  <2>1. NoTokenOut
    BY <1>11 DEF JoinStart, NoTokenOut, Asks, Goto, Ends, Leads, Idle, Request, Tables
  <2>2. QED
    BY <2>1, NoTokenOutKeeps
<1>12. ASSUME NEW c \in Client, NEW r \in Reset, ConfirmReset(c, r) PROVE ResetOnce'
  <2>1. /\ db.reset[r].state = "there" /\ db'.reset[r].state = "gone"
        /\ \A s \in Reset \ {r} : db'.reset[s] = db.reset[s]
    BY <1>12 DEF ConfirmReset, Consumed, NoReset, Tables
  <2>2. /\ req'[c].token = r /\ \A d \in Client \ {c} : req'[d] = req[d]
    BY <1>12 DEF ConfirmReset, Asks, Idle
  <2>3. \A d \in Client : req[d].token # r
    BY <2>1 DEF ResetOnce
  <2>4. QED
    BY <2>1, <2>2, <2>3 DEF ResetOnce
<1>13. ASSUME NEW c \in Client, NEW e \in Email, CliReset(c, e) PROVE ResetOnce'
  <2>1. NoTokenOut
    BY <1>13 DEF CliReset, NoTokenOut, Asks, Goto, Ends, Leads, Idle, Request, Tables
  <2>2. QED
    BY <2>1, NoTokenOutKeeps
<1>14. ASSUME NEW c \in Client, ChangePassword(c) PROVE ResetOnce'
  <2>1. NoTokenOut
    BY <1>14 DEF ChangePassword, NoTokenOut, Asks, Goto, Ends, Leads, Idle, Request, Tables
  <2>2. QED
    BY <2>1, NoTokenOutKeeps
<1>15. ASSUME NEW c \in Client, Write(c) PROVE ResetOnce'
  <2>1. \A r \in Reset : db'.reset[r] = db.reset[r]
    BY <1>15 DEF Write, Set, Tables
  <2>2. \A d \in Client : req'[d].token = req[d].token \/ req'[d].token \notin Reset
    <3>1. CASE Ends(c)
      BY <3>1 DEF Ends, Idle
    <3>2. CASE \E u \in User : Leads(c, "issue", u, db.user[u].password + 1)
      BY <3>2 DEF Leads, Idle
    <3>3. QED
      BY <1>15, <3>1, <3>2 DEF Write, Users
  <2>3. QED
    BY <2>1, <2>2, NoTokenOutKeeps DEF NoTokenOut
<1>16. ASSUME NEW c \in Client, NEW u \in User, Login(c, u) PROVE ResetOnce'
  <2>1. NoTokenOut
    BY <1>16 DEF Login, NoTokenOut, Asks, Goto, Ends, Leads, Idle, Request, Tables
  <2>2. QED
    BY <2>1, NoTokenOutKeeps
<1>17. ASSUME NEW c \in Client, NEW u \in User, JoinCommit(c, u) PROVE ResetOnce'
  <2>1. \A r \in Reset : db'.reset[r] = db.reset[r]
    BY <1>17 DEF JoinCommit, Tables
  <2>2. \A d \in Client : req'[d].token = req[d].token \/ req'[d].token \notin Reset
    <3>1. CASE Ends(c)
      BY <3>1 DEF Ends, Idle
    <3>2. CASE Leads(c, "issue", u, 1)
      BY <3>2 DEF Leads, Idle
    <3>3. QED
      BY <1>17, <3>1, <3>2 DEF JoinCommit
  <2>3. QED
    BY <2>1, <2>2, NoTokenOutKeeps DEF NoTokenOut
<1>18. ASSUME NEW c \in Client, NEW e \in Email, UpdateProfile(c, e) PROVE ResetOnce'
  <2>1. NoTokenOut
    BY <1>18 DEF UpdateProfile, NoTokenOut, Asks, Goto, Ends, Leads, Idle, Request, Tables
  <2>2. QED
    BY <2>1, NoTokenOutKeeps
<1>19. ASSUME NEW c \in Client, Issue(c) PROVE ResetOnce'
  <2>1. NoTokenOut
    BY <1>19 DEF Issue, NoTokenOut, Asks, Goto, Ends, Leads, Idle, Request, Tables
  <2>2. QED
    BY <2>1, NoTokenOutKeeps
<1>20. ASSUME NEW c \in Client, Logout(c) PROVE ResetOnce'
  <2>1. NoTokenOut
    BY <1>20 DEF Logout, NoTokenOut, Asks, Goto, Ends, Leads, Idle, Request, Tables
  <2>2. QED
    BY <2>1, NoTokenOutKeeps
<1>21. ASSUME NEW e \in Email, NEW r \in Reset, RequestReset(e, r) PROVE ResetOnce'
  <2>1. NoTokenOut
    BY <1>21 DEF RequestReset, NoTokenOut, Tables
  <2>2. QED
    BY <2>1, NoTokenOutKeeps
<1>22. CASE Tick
  <2>1. NoTokenOut
    BY <1>22 DEF Tick, NoTokenOut, Asks, Goto, Ends, Leads, Idle, Request, Tables
  <2>2. QED
    BY <2>1, NoTokenOutKeeps
<1>23. CASE Janitor
  <2>1. NoTokenOut
    BY <1>23 DEF Janitor, NoTokenOut, Swept, NoReset, Tables
  <2>2. QED
    BY <2>1, NoTokenOutKeeps
<1>24. CASE ClearUsers
  <2>1. NoTokenOut
    BY <1>24 DEF ClearUsers, NoTokenOut, Gone, NoReset, Tables
  <2>2. QED
    BY <2>1, NoTokenOutKeeps
<1>25. CASE Boot
  <2>1. NoTokenOut
    BY <1>25 DEF Boot, NoTokenOut, Asks, Goto, Ends, Leads, Idle, Request, Tables
  <2>2. QED
    BY <2>1, NoTokenOutKeeps
<1>26. CASE Crash
  <2>1. NoTokenOut
    BY <1>26 DEF Crash, NoTokenOut, Idle
  <2>2. QED
    BY <2>1, NoTokenOutKeeps
<1>27. CASE UNCHANGED vars
  <2>1. NoTokenOut
    BY <1>27 DEF vars, NoTokenOut, Asks, Goto, Ends, Leads, Idle, Request, Tables
  <2>2. QED
    BY <2>1, NoTokenOutKeeps
<1>28. QED
  BY <1>1, <1>2, <1>3, <1>4, <1>5, <1>6, <1>7, <1>8, <1>9, <1>10, <1>11, <1>12, <1>13,
  <1>14, <1>15, <1>16, <1>17, <1>18, <1>19, <1>20, <1>21, <1>22, <1>23, <1>24, <1>25,
  <1>26, <1>27
     DEF Next, SetupStep, InviteStep, PasswordStep, SessionStep

\* For any people, invites, reset tokens and clients: the types; one account for
\* setup and one for each used invite, with addresses of their own; and a reset
\* token serves one confirmation.
THEOREM AccountsAreSound == Spec => []AccountsSound
<1>1. Init => OneEachInv /\ ResetOnce
  <2>1. ASSUME Init PROVE OneEachInv
    <3>1. Users = {} /\ \A i \in Invite : ~db.invite[i].consumed
      BY <2>1 DEF Init, Users, NoAccount, NoInvite
    <3>2. QED
      BY <3>1 DEF OneEachInv, OneEach, Quiet
  <2>2. ASSUME Init PROVE ResetOnce
    BY <2>2 DEF Init, ResetOnce, Idle
  <2>3. QED
    BY <2>1, <2>2
<1>2. Typed /\ OneEachInv /\ ResetOnce /\ [Next]_vars => (OneEachInv /\ ResetOnce)'
  BY OneEachNext, ResetOnceNext
<1>3. Typed /\ OneEachInv /\ ResetOnce => AccountsSound
  BY DEF Typed, OneEachInv, AccountsSound
<1>4. QED
  BY AlwaysTyped, <1>1, <1>2, <1>3, PTL DEF Spec

-----------------------------------------------------------------------------
(* The token an operator has pasted stays good.                            *)

\* What a step may not do to the row of the bootstrap token.
TokenKept ==
  /\ db.setup.token # None /\ ~db.setup.consumed
  /\ \A c \in Client : ~At(c, "mark")
  => db'.setup = db.setup

\* For any clients and tokens: while there are no users, a pending token is
\* neither replaced nor used up, over any number of calls and restarts.
THEOREM TokenIsStable == Spec => TokenStable
<1>1. ASSUME Typed, [Next]_vars PROVE TokenKept
  <2>0. db \in Tables
    BY <1>1 DEF Typed, AccountsTypeOK
  <2> USE <2>0, <1>1
  <2>1. ASSUME NEW c \in Client, NEW pc \in {"status", "ensure"}, EnsureCount(c, pc)
        PROVE  TokenKept
    BY <2>1 DEF EnsureCount, TokenKept, Tables
  <2>2. ASSUME NEW c \in Client, EnsureLoad(c) PROVE TokenKept
    <3>1. CASE \E t \in Fresh : db' = [db EXCEPT !.setup = Ensured(t)]
      BY <3>1 DEF Ensured, TokenKept, Tables
    <3>2. CASE UNCHANGED db
      BY <3>2 DEF TokenKept
    <3>3. QED
      BY <2>2, <3>1, <3>2 DEF EnsureLoad
  <2>3. ASSUME NEW c \in Client, SetupForm(c) PROVE TokenKept
    BY <2>3 DEF SetupForm, TokenKept, Tables
  <2>4. ASSUME NEW c \in Client, SetupCount(c) PROVE TokenKept
    BY <2>4 DEF SetupCount, TokenKept, Tables
  <2>5. ASSUME NEW c \in Client, NEW u \in User, NEW e \in Email, SetupCommit(c, u, e)
        PROVE  TokenKept
    BY <2>5 DEF SetupCommit, TokenKept, Tables
  <2>6. ASSUME NEW c \in Client, SetupClear(c) PROVE TokenKept
    BY <2>6 DEF SetupClear, TokenKept, Tables
  <2>7. ASSUME NEW c \in Client, SetupMark(c) PROVE TokenKept
    BY <2>7 DEF SetupMark, TokenKept
  <2>8. ASSUME NEW c \in Client, NEW i \in Invite, RevokeInvite(c, i) PROVE TokenKept
    BY <2>8 DEF RevokeInvite, TokenKept, Tables
  <2>9. ASSUME NEW c \in Client, NEW i \in Invite, NEW j \in Invite, ResendInvite(c, i, j)
        PROVE  TokenKept
    BY <2>9 DEF ResendInvite, TokenKept, Tables
  <2>10. ASSUME NEW c \in Client, NEW i \in Invite, NEW e \in Email \cup {None}, CreateInvite(c, i, e)
        PROVE  TokenKept
    BY <2>10 DEF CreateInvite, TokenKept, Tables
  <2>11. ASSUME NEW c \in Client, NEW i \in Invite, NEW e \in Email, JoinStart(c, i, e)
        PROVE  TokenKept
    BY <2>11 DEF JoinStart, TokenKept, Tables
  <2>12. ASSUME NEW c \in Client, NEW r \in Reset, ConfirmReset(c, r) PROVE TokenKept
    BY <2>12 DEF ConfirmReset, Consumed, TokenKept, Tables
  <2>13. ASSUME NEW c \in Client, NEW e \in Email, CliReset(c, e) PROVE TokenKept
    BY <2>13 DEF CliReset, TokenKept, Tables
  <2>14. ASSUME NEW c \in Client, ChangePassword(c) PROVE TokenKept
    BY <2>14 DEF ChangePassword, TokenKept, Tables
  <2>15. ASSUME NEW c \in Client, Write(c) PROVE TokenKept
    BY <2>15 DEF Write, Set, TokenKept, Tables
  <2>16. ASSUME NEW c \in Client, NEW u \in User, Login(c, u) PROVE TokenKept
    BY <2>16 DEF Login, TokenKept, Tables
  <2>17. ASSUME NEW c \in Client, NEW u \in User, JoinCommit(c, u) PROVE TokenKept
    BY <2>17 DEF JoinCommit, TokenKept, Tables
  <2>18. ASSUME NEW c \in Client, NEW e \in Email, UpdateProfile(c, e) PROVE TokenKept
    BY <2>18 DEF UpdateProfile, TokenKept, Tables
  <2>19. ASSUME NEW c \in Client, Issue(c) PROVE TokenKept
    BY <2>19 DEF Issue, TokenKept, Tables
  <2>20. ASSUME NEW c \in Client, Logout(c) PROVE TokenKept
    BY <2>20 DEF Logout, TokenKept, Tables
  <2>21. ASSUME NEW e \in Email, NEW r \in Reset, RequestReset(e, r) PROVE TokenKept
    BY <2>21 DEF RequestReset, TokenKept, Tables
  <2>22. CASE Tick
    BY <2>22 DEF Tick, TokenKept, Tables
  <2>23. CASE Janitor
    BY <2>23 DEF Janitor, Swept, TokenKept, Tables
  <2>24. CASE ClearUsers
    BY <2>24 DEF ClearUsers, TokenKept, Tables
  <2>25. CASE Boot
    <3>1. CASE \E t \in Fresh : db' = [db EXCEPT !.setup = Ensured(t)]
      BY <3>1 DEF Ensured, TokenKept, Tables
    <3>2. CASE UNCHANGED db
      BY <3>2 DEF TokenKept
    <3>3. QED
      BY <2>25, <3>1, <3>2 DEF Boot
  <2>26. CASE Crash
    BY <2>26 DEF Crash, TokenKept, Tables
  <2>27. CASE UNCHANGED vars
    BY <2>27 DEF vars, TokenKept
  <2>28. QED
    BY <2>1, <2>2, <2>3, <2>4, <2>5, <2>6, <2>7, <2>8, <2>9, <2>10, <2>11, <2>12, <2>13,
    <2>14, <2>15, <2>16, <2>17, <2>18, <2>19, <2>20, <2>21, <2>22, <2>23, <2>24, <2>25,
    <2>26, <2>27
       DEF Next, SetupStep, InviteStep, PasswordStep, SessionStep
<1>2. Typed /\ [Next]_vars
      => [/\ Users = {} /\ Users' = {} /\ db.setup.token # None /\ ~db.setup.consumed
          /\ \A c \in Client : ~At(c, "mark")
          => db'.setup = db.setup]_vars
  BY <1>1 DEF TokenKept
<1>3. QED
  BY AlwaysTyped, <1>2, PTL DEF Spec, TokenStable

-----------------------------------------------------------------------------
(* The session of the password that holds is let in.                       *)

\* A session or a request was given a password that was the account's once.
Behind(u, p) ==
  /\ db.user[u].state # "absent"
  /\ db.user[u].state = "there" => p <= db.user[u].password

Leading == {"clear", "mark", "finish", "issue"}

\* No change lies ahead of the clock or of a session with its password.
ChangesBehind ==
  /\ \A u \in User : db.user[u].changed <= now
  /\ \A c \in Client : req[c].at <= now
  /\ \A c \in Client : req[c].pc \in Leading => Behind(req[c].user, req[c].password)
  /\ \A c \in Client : cookie[c] # None =>
       /\ Behind(cookie[c].user, cookie[c].password)
       /\ (/\ db.user[cookie[c].user].state = "there"
           /\ cookie[c].password = db.user[cookie[c].user].password)
          => db.user[cookie[c].user].changed <= cookie[c].iat

\* Most steps leave alone what ChangesBehind is about.
SamePasswords ==
  \A u \in User : /\ db'.user[u].state = db.user[u].state
                 /\ db'.user[u].password = db.user[u].password
                 /\ db'.user[u].changed = db.user[u].changed

FollowsOn ==
  \A c \in Client :
    /\ req'[c].at <= now'
    /\ req'[c].pc \in Leading => /\ req[c].pc \in Leading
                                 /\ req'[c].user = req[c].user
                                 /\ req'[c].password = req[c].password

SameCookies == \A c \in Client : cookie'[c] = cookie[c] \/ cookie'[c] = None

\* What the others may do: an account is made, given its next password or
\* deleted; a request comes to lead to a session; a session is issued.
AccountMoves(u) ==
  \/ /\ db'.user[u].state = db.user[u].state
     /\ db'.user[u].password = db.user[u].password
     /\ db'.user[u].changed = db.user[u].changed
  \/ /\ db'.user[u].state = "there" /\ db'.user[u].changed <= now
     /\ \/ db.user[u].state = "absent"
        \/ /\ db.user[u].state = "there"
           /\ db'.user[u].password = db.user[u].password + 1
  \/ db.user[u].state = "there" /\ db'.user[u].state = "gone" /\ db'.user[u].changed = 0

RequestMoves(c) ==
  /\ req'[c].at <= now'
  /\ req'[c].pc \in Leading =>
       \/ /\ req[c].pc \in Leading /\ req'[c].user = req[c].user
          /\ req'[c].password = req[c].password
       \/ Behind(req[c].user, req[c].password)'

CookieMoves(c) ==
  \/ cookie'[c] = cookie[c] \/ cookie'[c] = None
  \/ /\ req[c].pc \in Leading
     /\ cookie'[c] = [user |-> req[c].user, password |-> req[c].password, iat |-> now]

LEMMA ChangesBehindMoved ==
  ASSUME Typed, ChangesBehind, db' \in Tables, now' = now \/ now' = now + 1,
         \A u \in User : AccountMoves(u),
         \A c \in Client : RequestMoves(c) /\ CookieMoves(c)
  PROVE  ChangesBehind'
<1>0. /\ db \in Tables /\ now \in Nat /\ cookie \in [Client -> Session \cup {None}]
      /\ Carried /\ req \in [Client -> Request]
  BY DEF Typed, AccountsTypeOK
<1>1. \A u \in User : /\ db.user[u].changed \in Nat /\ db.user[u].password \in Nat
                     /\ db.user[u].changed <= now
  BY <1>0 DEF ChangesBehind, Tables, Account
<1>2. \A u \in User : db'.user[u].changed <= now /\ db'.user[u].changed <= now'
  <2>1. \A u \in User : \/ db'.user[u].changed = db.user[u].changed
                       \/ db'.user[u].changed <= now \/ db'.user[u].changed = 0
    BY DEF AccountMoves
  <2>2. \A u \in User : db'.user[u].changed <= now
    BY <1>0, <1>1, <2>1
  <2>3. \A u \in User : db'.user[u].changed \in Nat
    BY DEF Tables, Account
  <2>4. QED
    BY <1>0, <2>2, <2>3
<1>3. ASSUME NEW u \in User, NEW p \in Nat, Behind(u, p)
      PROVE  /\ Behind(u, p)'
             /\ db'.user[u].state = "there" /\ p = db'.user[u].password =>
                  db'.user[u].changed = db.user[u].changed /\ db.user[u].state = "there"
                    /\ p = db.user[u].password
  BY <1>1, <1>3 DEF Behind, AccountMoves
<1>4. \A c \in Client : req'[c].at <= now'
  BY DEF RequestMoves
<1>5. \A c \in Client : req[c].pc \in Leading =>
        /\ req[c].user \in User /\ req[c].password \in Nat
        /\ Behind(req[c].user, req[c].password)
  BY <1>0 DEF Carried, Carries, Leading, Request, ChangesBehind
<1>6. ASSUME NEW c \in Client, req'[c].pc \in Leading
      PROVE  Behind(req[c].user, req[c].password)'
  <2>1. CASE /\ req[c].pc \in Leading /\ req'[c].user = req[c].user
             /\ req'[c].password = req[c].password
    <3>1. Behind(req[c].user, req[c].password)
      BY <1>5, <2>1
    <3> DEFINE u == req[c].user
    <3> DEFINE p == req[c].password
    <3>2. db'.user[u].state # "absent" /\ (db'.user[u].state = "there" => p <= db'.user[u].password)
      <4>1. u \in User /\ p \in Nat /\ Behind(u, p)
        BY <1>5, <2>1, <3>1
      <4> HIDE DEF u, p
      <4>2. QED
        BY <4>1, <1>3 DEF Behind
    <3>3. QED
      BY <2>1, <3>2 DEF Behind
  <2>2. QED
    BY <1>6, <2>1 DEF RequestMoves
<1>7. ASSUME NEW c \in Client, cookie'[c] # None
      PROVE  /\ Behind(cookie[c].user, cookie[c].password)'
             /\ (/\ db'.user[cookie'[c].user].state = "there"
                 /\ cookie'[c].password = db'.user[cookie'[c].user].password)
                => db'.user[cookie'[c].user].changed <= cookie'[c].iat
  <2> DEFINE u == cookie'[c].user
  <2> DEFINE p == cookie'[c].password
  <2>1. /\ u \in User /\ p \in Nat /\ Behind(u, p)
        /\ \/ cookie'[c].iat = now
           \/ db.user[u].state = "there" /\ p = db.user[u].password
                => db.user[u].changed <= cookie'[c].iat
    <3>1. CASE cookie'[c] = cookie[c]
      BY <1>0, <1>7, <3>1 DEF ChangesBehind, Session
    <3>2. CASE /\ req[c].pc \in Leading
               /\ cookie'[c] = [user |-> req[c].user, password |-> req[c].password, iat |-> now]
      BY <1>5, <3>2
    <3>3. QED
      BY <1>7, <3>1, <3>2 DEF CookieMoves
  <2> HIDE DEF u, p
  <2>2. /\ db'.user[u].state # "absent"
        /\ db'.user[u].state = "there" => p <= db'.user[u].password
        /\ db'.user[u].state = "there" /\ p = db'.user[u].password
             => db'.user[u].changed <= cookie'[c].iat
    BY <2>1, <1>2, <1>3 DEF Behind
  <2>3. QED
    BY <2>2 DEF Behind, u, p
<1>8. QED
  BY <1>2, <1>4, <1>6, <1>7 DEF ChangesBehind

LEMMA ChangesBehindKept ==
  ASSUME Typed, ChangesBehind, SamePasswords, FollowsOn, SameCookies,
         db' \in Tables, now' = now \/ now' = now + 1
  PROVE  ChangesBehind'
<1>1. \A u \in User : AccountMoves(u)
  BY DEF SamePasswords, AccountMoves
<1>2. \A c \in Client : RequestMoves(c) /\ CookieMoves(c)
  BY DEF FollowsOn, SameCookies, RequestMoves, CookieMoves
<1>3. QED
  BY <1>1, <1>2, ChangesBehindMoved

LEMMA ChangesBehindNext == Typed /\ ChangesBehind /\ [Next]_vars => ChangesBehind'
<1> SUFFICES ASSUME Typed, ChangesBehind, [Next]_vars PROVE ChangesBehind'
  OBVIOUS
<1>0. db \in Tables /\ now \in Nat /\ req \in [Client -> Request] /\ cookie \in [Client -> Session \cup {None}]
  BY DEF Typed, AccountsTypeOK
<1>tables. db' \in Tables
  BY TablesNext
<1> USE <1>0, <1>tables
<1>1. ASSUME NEW c \in Client, NEW pc \in {"status", "ensure"}, EnsureCount(c, pc)
      PROVE  ChangesBehind'
  <2>1. SamePasswords
    BY <1>1 DEF EnsureCount, SamePasswords, Tables
  <2>2. FollowsOn
    BY <1>1 DEF EnsureCount, FollowsOn, ChangesBehind, Leading, Idle, Request, Time, Asks
  <2>3. SameCookies /\ now' = now
    BY <1>1 DEF EnsureCount, SameCookies
  <2>4. QED
    BY <2>1, <2>2, <2>3, ChangesBehindKept
<1>2. ASSUME NEW c \in Client, EnsureLoad(c) PROVE ChangesBehind'
  <2>1. SamePasswords
    BY <1>2 DEF EnsureLoad, SamePasswords, Tables
  <2>2. FollowsOn
    <3>0. now' = now
      BY <1>2 DEF EnsureLoad
    <3>1. CASE Ends(c)
      BY <3>0, <3>1 DEF FollowsOn, ChangesBehind, Ends, Leading, Idle, Request
    <3>2. CASE Goto(c, "form")
      BY <3>0, <3>2 DEF FollowsOn, ChangesBehind, Goto, Leading, Request
    <3>3. QED
      BY <1>2, <3>1, <3>2 DEF EnsureLoad
  <2>3. SameCookies /\ now' = now
    BY <1>2 DEF EnsureLoad, SameCookies
  <2>4. QED
    BY <2>1, <2>2, <2>3, ChangesBehindKept
<1>3. ASSUME NEW c \in Client, SetupForm(c) PROVE ChangesBehind'
  <2>1. SamePasswords
    BY <1>3 DEF SetupForm, SamePasswords, Tables
  <2>2. FollowsOn
    BY <1>3 DEF SetupForm, FollowsOn, ChangesBehind, Leading, Idle, Request, Time, Asks
  <2>3. SameCookies /\ now' = now
    BY <1>3 DEF SetupForm, SameCookies
  <2>4. QED
    BY <2>1, <2>2, <2>3, ChangesBehindKept
<1>4. ASSUME NEW c \in Client, SetupCount(c) PROVE ChangesBehind'
  <2>1. SamePasswords
    BY <1>4 DEF SetupCount, SamePasswords, Tables
  <2>2. FollowsOn
    BY <1>4 DEF SetupCount, FollowsOn, ChangesBehind, Leading, Idle, Request, Time, At, Ends
  <2>3. SameCookies /\ now' = now
    BY <1>4 DEF SetupCount, SameCookies
  <2>4. QED
    BY <2>1, <2>2, <2>3, ChangesBehindKept
<1>5. ASSUME NEW c \in Client, NEW u \in User, NEW e \in Email, SetupCommit(c, u, e)
      PROVE  ChangesBehind'
  <2>1. \A v \in User : AccountMoves(v)
    <3>1. CASE UNCHANGED db
      BY <3>1 DEF AccountMoves
    <3>2. CASE /\ db.user[u].state = "absent"
               /\ db'.user = [db.user EXCEPT ![u] = NewUser(u, e, None, req[c].at)]
      BY <3>2 DEF NewUser, AccountMoves, ChangesBehind, Tables
    <3>3. QED
      BY <1>5, <3>1, <3>2 DEF SetupCommit, Tables
  <2>2. \A d \in Client : RequestMoves(d)
    <3>1. CASE Ends(c)
      BY <1>5, <3>1 DEF SetupCommit, Ends, RequestMoves, ChangesBehind, Leading, Idle, Request
    <3>2. CASE /\ Leads(c, "clear", u, 1)
               /\ db'.user = [db.user EXCEPT ![u] = NewUser(u, e, None, req[c].at)]
      <4>1. /\ req'[c].user = u /\ req'[c].password = 1 /\ req'[c].at = 0
            /\ \A d \in Client \ {c} : req'[d] = req[d]
        BY <3>2 DEF Leads, Idle
      <4>2. db'.user[u].state = "there" /\ db'.user[u].password = 1
        BY <3>2 DEF NewUser, Tables
      <4>3. QED
        BY <1>5, <4>1, <4>2 DEF SetupCommit, Behind, RequestMoves, ChangesBehind
    <3>3. QED
      BY <1>5, <3>1, <3>2 DEF SetupCommit, Tables
  <2>3. (\A d \in Client : CookieMoves(d)) /\ now' = now
    BY <1>5 DEF SetupCommit, CookieMoves
  <2>4. QED
    BY <2>1, <2>2, <2>3, ChangesBehindMoved
<1>6. ASSUME NEW c \in Client, SetupClear(c) PROVE ChangesBehind'
  <2>1. SamePasswords
    BY <1>6 DEF SetupClear, SamePasswords, Tables
  <2>2. FollowsOn
    BY <1>6 DEF SetupClear, FollowsOn, ChangesBehind, Leading, Idle, Request, Time, At, Goto
  <2>3. SameCookies /\ now' = now
    BY <1>6 DEF SetupClear, SameCookies
  <2>4. QED
    BY <2>1, <2>2, <2>3, ChangesBehindKept
<1>7. ASSUME NEW c \in Client, SetupMark(c) PROVE ChangesBehind'
  <2>1. SamePasswords
    BY <1>7 DEF SetupMark, SamePasswords, Tables
  <2>2. FollowsOn
    BY <1>7 DEF SetupMark, FollowsOn, ChangesBehind, Leading, Idle, Request, Time, At, Goto
  <2>3. SameCookies /\ now' = now
    BY <1>7 DEF SetupMark, SameCookies
  <2>4. QED
    BY <2>1, <2>2, <2>3, ChangesBehindKept
<1>8. ASSUME NEW c \in Client, NEW i \in Invite, RevokeInvite(c, i) PROVE ChangesBehind'
  <2>1. SamePasswords
    BY <1>8 DEF RevokeInvite, SamePasswords, Tables
  <2>2. FollowsOn
    BY <1>8 DEF RevokeInvite, FollowsOn, ChangesBehind, Leading, Idle, Request, Time
  <2>3. SameCookies /\ now' = now
    BY <1>8 DEF RevokeInvite, SameCookies
  <2>4. QED
    BY <2>1, <2>2, <2>3, ChangesBehindKept
<1>9. ASSUME NEW c \in Client, NEW i \in Invite, NEW j \in Invite, ResendInvite(c, i, j)
      PROVE  ChangesBehind'
  <2>1. SamePasswords
    BY <1>9 DEF ResendInvite, SamePasswords, Tables
  <2>2. FollowsOn
    BY <1>9 DEF ResendInvite, FollowsOn, ChangesBehind, Leading, Idle, Request, Time
  <2>3. SameCookies /\ now' = now
    BY <1>9 DEF ResendInvite, SameCookies
  <2>4. QED
    BY <2>1, <2>2, <2>3, ChangesBehindKept
<1>10. ASSUME NEW c \in Client, NEW i \in Invite, NEW e \in Email \cup {None}, CreateInvite(c, i, e)
      PROVE  ChangesBehind'
  <2>1. SamePasswords
    BY <1>10 DEF CreateInvite, SamePasswords, Tables
  <2>2. FollowsOn
    BY <1>10 DEF CreateInvite, FollowsOn, ChangesBehind, Leading, Idle, Request, Time
  <2>3. SameCookies /\ now' = now
    BY <1>10 DEF CreateInvite, SameCookies
  <2>4. QED
    BY <2>1, <2>2, <2>3, ChangesBehindKept
<1>11. ASSUME NEW c \in Client, NEW i \in Invite, NEW e \in Email, JoinStart(c, i, e)
      PROVE  ChangesBehind'
  <2>1. SamePasswords
    BY <1>11 DEF JoinStart, SamePasswords, Tables
  <2>2. FollowsOn
    BY <1>11 DEF JoinStart, FollowsOn, ChangesBehind, Leading, Idle, Request, Time, Asks
  <2>3. SameCookies /\ now' = now
    BY <1>11 DEF JoinStart, SameCookies
  <2>4. QED
    BY <2>1, <2>2, <2>3, ChangesBehindKept
<1>12. ASSUME NEW c \in Client, NEW r \in Reset, ConfirmReset(c, r) PROVE ChangesBehind'
  <2>1. SamePasswords
    BY <1>12 DEF ConfirmReset, SamePasswords, Tables, Consumed
  <2>2. FollowsOn
    BY <1>12 DEF ConfirmReset, FollowsOn, ChangesBehind, Leading, Idle, Request, Time, Asks
  <2>3. SameCookies /\ now' = now
    BY <1>12 DEF ConfirmReset, SameCookies
  <2>4. QED
    BY <2>1, <2>2, <2>3, ChangesBehindKept
<1>13. ASSUME NEW c \in Client, NEW e \in Email, CliReset(c, e) PROVE ChangesBehind'
  <2>1. SamePasswords
    BY <1>13 DEF CliReset, SamePasswords, Tables
  <2>2. FollowsOn
    BY <1>13 DEF CliReset, FollowsOn, ChangesBehind, Leading, Idle, Request, Time, Asks
  <2>3. SameCookies /\ now' = now
    BY <1>13 DEF CliReset, SameCookies
  <2>4. QED
    BY <2>1, <2>2, <2>3, ChangesBehindKept
<1>14. ASSUME NEW c \in Client, ChangePassword(c) PROVE ChangesBehind'
  <2>1. SamePasswords
    BY <1>14 DEF ChangePassword, SamePasswords, Tables
  <2>2. FollowsOn
    BY <1>14 DEF ChangePassword, FollowsOn, ChangesBehind, Leading, Idle, Request, Time, Asks
  <2>3. SameCookies /\ now' = now
    BY <1>14 DEF ChangePassword, SameCookies
  <2>4. QED
    BY <2>1, <2>2, <2>3, ChangesBehindKept
<1>15. ASSUME NEW c \in Client, Write(c) PROVE ChangesBehind'
  <2>0. now' = now /\ cookie' = cookie
    BY <1>15 DEF Write
  <2>1. ASSUME NEW u \in Users, Set(c, u)
        PROVE  /\ \A v \in User : AccountMoves(v)
               /\ db'.user[u].state = "there" /\ db'.user[u].password = db.user[u].password + 1
    <3>1. PICK at \in req[c].at..now :
            db' = [db EXCEPT !.user[u].password = @ + 1, !.user[u].changed = at]
      BY <2>1 DEF Set
    <3>2. /\ db'.user[u].state = "there" /\ db'.user[u].password = db.user[u].password + 1
          /\ db'.user[u].changed = at /\ \A v \in User \ {u} : db'.user[v] = db.user[v]
      BY <3>1 DEF Users, Tables, Account
    <3>3. at <= now
      BY DEF Request
    <3>4. QED
      BY <3>2, <3>3 DEF AccountMoves, Users
  <2>2. \A v \in User : AccountMoves(v)
    <3>1. CASE UNCHANGED db
      BY <3>1 DEF AccountMoves
    <3>2. QED
      BY <1>15, <2>1, <3>1 DEF Write, Users, With
  <2>3. \A d \in Client : RequestMoves(d)
    <3>1. CASE Ends(c)
      BY <2>0, <3>1 DEF Ends, RequestMoves, ChangesBehind, Leading, Idle, Request
    <3>2. ASSUME NEW u \in Users, Set(c, u), Leads(c, "issue", u, db.user[u].password + 1)
          PROVE  \A d \in Client : RequestMoves(d)
      <4>1. /\ req'[c].user = u /\ req'[c].password = db.user[u].password + 1 /\ req'[c].at = 0
            /\ \A d \in Client \ {c} : req'[d] = req[d]
        BY <3>2 DEF Leads, Idle
      <4>2. Behind(req[c].user, req[c].password)'
        <5>1. db.user[u].password + 1 \in Nat
          BY DEF Users, Tables, Account
        <5>2. QED
          BY <2>1, <3>2, <4>1, <5>1 DEF Behind
      <4>3. QED
        BY <2>0, <4>1, <4>2 DEF RequestMoves, ChangesBehind
    <3>3. QED
      BY <1>15, <3>1, <3>2 DEF Write
  <2>4. \A d \in Client : CookieMoves(d)
    BY <2>0 DEF CookieMoves
  <2>5. QED
    BY <2>0, <2>2, <2>3, <2>4, ChangesBehindMoved
<1>16. ASSUME NEW c \in Client, NEW u \in User, Login(c, u) PROVE ChangesBehind'
  <2>1. \A v \in User : AccountMoves(v)
    BY <1>16 DEF Login, AccountMoves
  <2>2. \A d \in Client : RequestMoves(d)
    <3>1. Behind(u, db.user[u].password)'
      BY <1>16 DEF Login, Users, Behind, Tables, Account
    <3>2. /\ req'[c].user = u /\ req'[c].password = db.user[u].password /\ req'[c].at = 0
          /\ \A d \in Client \ {c} : req'[d] = req[d]
      BY <1>16 DEF Login, Asks, Idle
    <3>3. QED
      BY <1>16, <3>1, <3>2 DEF Login, Behind, RequestMoves, ChangesBehind
  <2>3. (\A d \in Client : CookieMoves(d)) /\ now' = now
    BY <1>16 DEF Login, CookieMoves
  <2>4. QED
    BY <2>1, <2>2, <2>3, ChangesBehindMoved
<1>17. ASSUME NEW c \in Client, NEW u \in User, JoinCommit(c, u) PROVE ChangesBehind'
  <2>1. \A v \in User : AccountMoves(v)
    <3>1. CASE UNCHANGED db
      BY <3>1 DEF AccountMoves
    <3>2. CASE /\ db.user[u].state = "absent"
               /\ db'.user = [db.user EXCEPT ![u] = NewUser(u, req[c].email, req[c].token, req[c].at)]
      BY <3>2 DEF NewUser, AccountMoves, ChangesBehind, Tables
    <3>3. QED
      BY <1>17, <3>1, <3>2 DEF JoinCommit, Tables
  <2>2. \A d \in Client : RequestMoves(d)
    <3>1. CASE Ends(c)
      BY <1>17, <3>1 DEF JoinCommit, Ends, RequestMoves, ChangesBehind, Leading, Idle, Request
    <3>2. CASE /\ Leads(c, "issue", u, 1)
               /\ db'.user = [db.user EXCEPT ![u] = NewUser(u, req[c].email, req[c].token, req[c].at)]
      <4>1. /\ req'[c].user = u /\ req'[c].password = 1 /\ req'[c].at = 0
            /\ \A d \in Client \ {c} : req'[d] = req[d]
        BY <3>2 DEF Leads, Idle
      <4>2. db'.user[u].state = "there" /\ db'.user[u].password = 1
        BY <3>2 DEF NewUser, Tables
      <4>3. QED
        BY <1>17, <4>1, <4>2 DEF JoinCommit, Behind, RequestMoves, ChangesBehind
    <3>3. QED
      BY <1>17, <3>1, <3>2 DEF JoinCommit, Tables
  <2>3. (\A d \in Client : CookieMoves(d)) /\ now' = now
    BY <1>17 DEF JoinCommit, CookieMoves
  <2>4. QED
    BY <2>1, <2>2, <2>3, ChangesBehindMoved
<1>18. ASSUME NEW c \in Client, NEW e \in Email, UpdateProfile(c, e)
      PROVE  ChangesBehind'
  <2>1. SamePasswords
    BY <1>18 DEF UpdateProfile, SamePasswords, Tables, Account
  <2>2. FollowsOn
    BY <1>18 DEF UpdateProfile, FollowsOn, ChangesBehind, Leading, Idle, Request, Time
  <2>3. SameCookies /\ now' = now
    BY <1>18 DEF UpdateProfile, SameCookies
  <2>4. QED
    BY <2>1, <2>2, <2>3, ChangesBehindKept
<1>19. ASSUME NEW c \in Client, Issue(c) PROVE ChangesBehind'
  <2>1. (\A u \in User : AccountMoves(u)) /\ now' = now
    BY <1>19 DEF Issue, AccountMoves
  <2>2. \A d \in Client : RequestMoves(d)
    BY <1>19 DEF Issue, Ends, RequestMoves, ChangesBehind, Leading, Idle, Request
  <2>3. \A d \in Client : CookieMoves(d)
    BY <1>19 DEF Issue, At, CookieMoves, Leading
  <2>4. QED
    BY <2>1, <2>2, <2>3, ChangesBehindMoved
<1>20. ASSUME NEW c \in Client, Logout(c) PROVE ChangesBehind'
  <2>1. SamePasswords
    BY <1>20 DEF Logout, SamePasswords, Tables
  <2>2. FollowsOn
    BY <1>20 DEF Logout, FollowsOn, ChangesBehind, Leading, Idle, Request, Time
  <2>3. SameCookies /\ now' = now
    BY <1>20 DEF Logout, SameCookies
  <2>4. QED
    BY <2>1, <2>2, <2>3, ChangesBehindKept
<1>21. ASSUME NEW e \in Email, NEW r \in Reset, RequestReset(e, r) PROVE ChangesBehind'
  <2>1. SamePasswords
    BY <1>21 DEF RequestReset, SamePasswords, Tables
  <2>2. FollowsOn
    BY <1>21 DEF RequestReset, FollowsOn, ChangesBehind, Leading, Idle, Request, Time
  <2>3. SameCookies /\ now' = now
    BY <1>21 DEF RequestReset, SameCookies
  <2>4. QED
    BY <2>1, <2>2, <2>3, ChangesBehindKept
<1>22. CASE Tick
  <2>1. SamePasswords /\ SameCookies /\ now' = now + 1
    BY <1>22 DEF Tick, SamePasswords, SameCookies
  <2>2. FollowsOn
    <3>1. \A d \in Client : req[d].at \in Nat
      BY DEF Request
    <3>2. QED
      BY <1>22, <2>1, <3>1 DEF Tick, FollowsOn, ChangesBehind
  <2>3. QED
    BY <2>1, <2>2, ChangesBehindKept
<1>23. CASE Janitor
  <2>1. SamePasswords
    BY <1>23 DEF Janitor, SamePasswords, Tables, Swept
  <2>2. FollowsOn
    BY <1>23 DEF Janitor, FollowsOn, ChangesBehind, Leading, Idle, Request, Time
  <2>3. SameCookies /\ now' = now
    BY <1>23 DEF Janitor, SameCookies
  <2>4. QED
    BY <2>1, <2>2, <2>3, ChangesBehindKept
<1>24. CASE ClearUsers
  <2>1. \A u \in User : AccountMoves(u)
    BY <1>24 DEF ClearUsers, AccountMoves, Gone, NoAccount, Tables
  <2>2. /\ \A d \in Client : RequestMoves(d) /\ CookieMoves(d)
        /\ now' = now
    <3>1. \A d \in Client : req[d].at <= now /\ req'[d] = req[d] /\ cookie'[d] = None /\ now' = now
      BY <1>24 DEF ClearUsers, ChangesBehind
    <3>2. QED
      BY <1>24, <3>1 DEF ClearUsers, RequestMoves, CookieMoves
  <2>3. QED
    BY <2>1, <2>2, ChangesBehindMoved
<1>25. CASE Boot
  <2>1. SamePasswords
    BY <1>25 DEF Boot, SamePasswords, Tables
  <2>2. FollowsOn
    BY <1>25 DEF Boot, FollowsOn, ChangesBehind, Leading, Idle, Request, Time
  <2>3. SameCookies /\ now' = now
    BY <1>25 DEF Boot, SameCookies
  <2>4. QED
    BY <2>1, <2>2, <2>3, ChangesBehindKept
<1>26. CASE Crash
  <2>1. SamePasswords
    BY <1>26 DEF Crash, SamePasswords, Tables
  <2>2. FollowsOn
    BY <1>26 DEF Crash, FollowsOn, ChangesBehind, Leading, Idle, Request, Time
  <2>3. SameCookies /\ now' = now
    BY <1>26 DEF Crash, SameCookies
  <2>4. QED
    BY <2>1, <2>2, <2>3, ChangesBehindKept
<1>27. CASE UNCHANGED vars
  <2>1. SamePasswords /\ FollowsOn /\ SameCookies /\ now' = now
    BY <1>27 DEF vars, SamePasswords, FollowsOn, SameCookies, ChangesBehind
  <2>2. QED
    BY <2>1, ChangesBehindKept
<1>28. QED
  BY <1>1, <1>2, <1>3, <1>4, <1>5, <1>6, <1>7, <1>8, <1>9, <1>10, <1>11, <1>12, <1>13,
  <1>14, <1>15, <1>16, <1>17, <1>18, <1>19, <1>20, <1>21, <1>22, <1>23, <1>24, <1>25,
  <1>26, <1>27
     DEF Next, SetupStep, InviteStep, PasswordStep, SessionStep

\* For any people, clients and clock: who has logged in, joined, set up or set
\* a password is let in until the password is set again.
THEOREM SessionsDoHold == Spec => []SessionsHold
<1>1. Init => ChangesBehind
  BY DEF Init, ChangesBehind, NoAccount, Idle, Leading
<1>2. Typed /\ ChangesBehind => SessionsHold
  BY DEF Typed, AccountsTypeOK, Tables, Account, Session, ChangesBehind, SessionsHold, Valid, Users
<1>3. QED
  BY AlwaysTyped, ChangesBehindNext, <1>1, <1>2, PTL DEF Spec

-----------------------------------------------------------------------------
(* The token the server holds is the row's, and goes with the first user.  *)

\* Who makes a token has the lock, and finds no token held.  With users there is
\* a setup on its way to clear the token.  Without users nobody can join.
TokenHeld ==
  /\ server.lock # None => server.held = None
  /\ \A c \in Client : At(c, "status") \/ At(c, "ensure") => server.lock = c
  /\ server.held # None => server.held = db.setup.token
  /\ (server.lock # None \/ server.held # None) /\ Users # {}
       => \E c \in Client : At(c, "clear")
  /\ Users = {} => \A i \in Invite : db.invite[i].state # "there"
  /\ ~server.up => server.held = None /\ server.lock = None

\* Most steps leave alone what TokenHeld is about.
SameToken == server' = server /\ db'.setup.token = db.setup.token

SameUsers ==
  \/ Users # {} /\ Users' # {}
  \/ /\ Users' = Users
     /\ \A i \in Invite : db'.invite[i].state = "there" => db.invite[i].state = "there"

SameCallers ==
  \A c \in Client :
    /\ At(c, "clear") => At(c, "clear")'
    /\ At(c, "status")' \/ At(c, "ensure")' => At(c, "status") \/ At(c, "ensure")

LEMMA TokenHeldKept == TokenHeld /\ SameToken /\ SameUsers /\ SameCallers => TokenHeld'
<1> SUFFICES ASSUME TokenHeld, SameToken, SameUsers, SameCallers PROVE TokenHeld'
  OBVIOUS
<1>1. \A c \in Client : (At(c, "status") \/ At(c, "ensure"))' => server'.lock = c
  BY DEF TokenHeld, SameToken, SameCallers
<1>2. (server'.lock # None \/ server'.held # None) /\ Users' # {}
        => \E c \in Client : At(c, "clear")'
  BY DEF TokenHeld, SameToken, SameUsers, SameCallers
<1>3. Users' = {} => \A i \in Invite : db'.invite[i].state # "there"
  BY DEF TokenHeld, SameUsers
<1>4. QED
  BY <1>1, <1>2, <1>3 DEF TokenHeld, SameToken

LEMMA TokenHeldNext == Typed /\ TokenHeld /\ [Next]_vars => TokenHeld'
<1> SUFFICES ASSUME Typed, TokenHeld, [Next]_vars PROVE TokenHeld'
  OBVIOUS
<1>0. /\ db \in Tables /\ server \in Process /\ req \in [Client -> Request] /\ Carried
      /\ cookie \in [Client -> Session \cup {None}]
  BY DEF Typed, AccountsTypeOK
<1> USE <1>0
<1>1. ASSUME NEW c \in Client, NEW pc \in {"status", "ensure"}, EnsureCount(c, pc)
      PROVE  TokenHeld'
  <2>1. /\ server' = [server EXCEPT !.lock = c] /\ server.held = None /\ server.lock = None
        /\ db' = db /\ Users = {} /\ server.up
    BY <1>1 DEF EnsureCount, Asks
  <2>2. \A d \in Client \ {c} : req'[d] = req[d]
    BY <1>1 DEF EnsureCount, Asks
  <2>3. server'.lock = c /\ server'.held = None /\ server'.up
    BY <2>1 DEF Process
  <2>4. QED
    BY <2>1, <2>2, <2>3 DEF TokenHeld, At, Users
<1>2. ASSUME NEW c \in Client, EnsureLoad(c) PROVE TokenHeld'
  <2>1. server.lock = c /\ server.held = None
    BY <1>2 DEF EnsureLoad, TokenHeld
  <2>2. \A d \in Client \ {c} : ~At(d, "status") /\ ~At(d, "ensure") /\ req'[d] = req[d]
    <3>1. \A d \in Client \ {c} : req'[d] = req[d]
      BY <1>2 DEF EnsureLoad, Ends, Goto
    <3>2. QED
      BY <2>1, <3>1 DEF TokenHeld
  <2>3. ~At(c, "clear") /\ ~At(c, "status")' /\ ~At(c, "ensure")'
    <3>1. CASE Ends(c)
      BY <1>2, <3>1 DEF EnsureLoad, Ends, Idle, At
    <3>2. CASE Goto(c, "form")
      BY <1>2, <3>2 DEF EnsureLoad, Goto, At, Request
    <3>3. QED
      BY <1>2, <3>1, <3>2 DEF EnsureLoad
  <2>4. /\ server'.lock = None /\ server'.up = server.up
        /\ server'.held = None \/ server'.held = db'.setup.token
    <3>1. CASE \E t \in Fresh : /\ db' = [db EXCEPT !.setup = Ensured(t)]
                               /\ server' = [server EXCEPT !.held = Ensured(t).token, !.lock = None]
      BY <3>1 DEF Process, Tables
    <3>2. CASE server' = [server EXCEPT !.lock = None]
      BY <2>1, <3>2 DEF Process
    <3>3. QED
      BY <1>2, <3>1, <3>2 DEF EnsureLoad
  <2>5. db'.user = db.user /\ db'.invite = db.invite /\ Users' = Users
    BY <1>2 DEF EnsureLoad, Tables, Users
  <2>6. server.up
    BY <2>1 DEF TokenHeld
  <2>7. server.lock # None
    BY <2>1
  <2>8. QED
    <3>1. \A d \in Client : ~(At(d, "status") \/ At(d, "ensure"))'
      BY <2>2, <2>3 DEF At
    <3>2. Users' # {} => \E d \in Client : At(d, "clear")'
      BY <2>2, <2>3, <2>5, <2>7 DEF TokenHeld, At
    <3>3. Users' = {} => \A i \in Invite : db'.invite[i].state # "there"
      BY <2>5 DEF TokenHeld
    <3>4. QED
      BY <2>4, <2>6, <3>1, <3>2, <3>3 DEF TokenHeld
<1>3. ASSUME NEW c \in Client, SetupForm(c) PROVE TokenHeld'
  <2>1. SameToken
    BY <1>3 DEF SetupForm, SameToken, Tables
  <2>2. SameUsers
    BY <1>3 DEF SetupForm, SameUsers, Users, Tables
  <2>3. SameCallers
    BY <1>3 DEF SetupForm, SameCallers, At, Asks, Idle
  <2>4. QED
    BY <2>1, <2>2, <2>3, TokenHeldKept
<1>4. ASSUME NEW c \in Client, SetupCount(c) PROVE TokenHeld'
  <2>1. SameToken
    BY <1>4 DEF SetupCount, SameToken, Tables
  <2>2. SameUsers
    BY <1>4 DEF SetupCount, SameUsers, Users, Tables
  <2>3. SameCallers
    <3>1. At(c, "form")
      BY <1>4 DEF SetupCount
    <3>2. CASE Ends(c)
      BY <3>1, <3>2 DEF SameCallers, At, Ends, Idle
    <3>3. CASE req' = [req EXCEPT ![c].pc = "hash", ![c].at = now]
      <4>1. req'[c].pc = "hash" /\ \A d \in Client \ {c} : req'[d] = req[d]
        BY <3>3 DEF Request
      <4>2. QED
        BY <3>1, <4>1 DEF SameCallers, At
    <3>4. QED
      BY <1>4, <3>2, <3>3 DEF SetupCount
  <2>4. QED
    BY <2>1, <2>2, <2>3, TokenHeldKept
<1>5. ASSUME NEW c \in Client, NEW u \in User, NEW e \in Email, SetupCommit(c, u, e)
      PROVE  TokenHeld'
  <2>1. SameToken
    BY <1>5 DEF SetupCommit, SameToken, Tables
  <2>2. SameCallers
    <3>1. CASE Ends(c)
      BY <1>5, <3>1 DEF SetupCommit, SameCallers, At, Ends, Idle
    <3>2. CASE Leads(c, "clear", u, 1)
      BY <1>5, <3>2 DEF SetupCommit, SameCallers, At, Leads, Idle
    <3>3. QED
      BY <1>5, <3>1, <3>2 DEF SetupCommit
  <2>3. CASE UNCHANGED db
    BY <2>1, <2>2, <2>3, TokenHeldKept DEF SameUsers, Users
  <2>4. CASE /\ db' = [db EXCEPT !.user[u] = NewUser(u, e, None, req[c].at)]
             /\ Leads(c, "clear", u, 1)
    <3>1. u \in Users' /\ At(c, "clear")'
      BY <2>4 DEF Users, NewUser, Tables, Leads, Idle, At
    <3>2. \A d \in Client : (At(d, "status") \/ At(d, "ensure"))' => At(d, "status") \/ At(d, "ensure")
      BY <2>2 DEF SameCallers
    <3>3. QED
      BY <2>1, <3>1, <3>2 DEF TokenHeld, SameToken
  <2>5. QED
    BY <1>5, <2>3, <2>4 DEF SetupCommit
<1>6. ASSUME NEW c \in Client, SetupClear(c) PROVE TokenHeld'
  <2>1. server'.held = None /\ server'.lock = None /\ server'.up = server.up
    BY <1>6 DEF SetupClear, Process
  <2>2. \A d \in Client : (At(d, "status") \/ At(d, "ensure"))' => At(d, "status") \/ At(d, "ensure")
    BY <1>6 DEF SetupClear, Goto, At
  <2>3. server.lock = None /\ db' = db /\ Users' = Users
    BY <1>6 DEF SetupClear, Users
  <2>4. QED
    BY <2>1, <2>2, <2>3 DEF TokenHeld
<1>7. ASSUME NEW c \in Client, SetupMark(c) PROVE TokenHeld'
  <2>1. SameToken
    <3>1. CASE UNCHANGED db
      BY <1>7, <3>1 DEF SetupMark, SameToken
    <3>2. CASE db' = [db EXCEPT !.setup.consumed = (db.setup.token # None)]
      <4>1. db'.setup = [db.setup EXCEPT !.consumed = (db.setup.token # None)]
        BY <3>2 DEF Tables
      <4>2. db'.setup.token = db.setup.token
        BY <4>1 DEF Tables, Setup
      <4>3. QED
        BY <1>7, <4>2 DEF SetupMark, SameToken
    <3>3. QED
      BY <1>7, <3>1, <3>2 DEF SetupMark
  <2>2. SameUsers
    BY <1>7 DEF SetupMark, SameUsers, Users, Tables
  <2>3. SameCallers
    BY <1>7 DEF SetupMark, SameCallers, At, Goto
  <2>4. QED
    BY <2>1, <2>2, <2>3, TokenHeldKept
<1>8. ASSUME NEW c \in Client, NEW i \in Invite, RevokeInvite(c, i) PROVE TokenHeld'
  <2>1. SameToken
    BY <1>8 DEF RevokeInvite, SameToken, Tables
  <2>2. SameUsers
    BY <1>8 DEF RevokeInvite, SameUsers, Users, Tables, Invitation
  <2>3. SameCallers
    BY <1>8 DEF RevokeInvite, SameCallers, At
  <2>4. QED
    BY <2>1, <2>2, <2>3, TokenHeldKept
<1>9. ASSUME NEW c \in Client, NEW i \in Invite, NEW j \in Invite, ResendInvite(c, i, j)
      PROVE  TokenHeld'
  <2>0. Users # {} /\ Users' = Users
    BY <1>9 DEF ResendInvite, Valid, Users, Tables
  <2>1. SameToken
    BY <1>9 DEF ResendInvite, SameToken, Tables
  <2>2. SameUsers
    BY <2>0 DEF SameUsers
  <2>3. SameCallers
    BY <1>9 DEF ResendInvite, SameCallers, At
  <2>4. QED
    BY <2>1, <2>2, <2>3, TokenHeldKept
<1>10. ASSUME NEW c \in Client, NEW i \in Invite, NEW e \in Email \cup {None}, CreateInvite(c, i, e)
      PROVE  TokenHeld'
  <2>0. Users # {} /\ Users' = Users
    BY <1>10 DEF CreateInvite, Valid, Users, Tables
  <2>1. SameToken
    BY <1>10 DEF CreateInvite, SameToken, Tables
  <2>2. SameUsers
    BY <2>0 DEF SameUsers
  <2>3. SameCallers
    BY <1>10 DEF CreateInvite, SameCallers, At
  <2>4. QED
    BY <2>1, <2>2, <2>3, TokenHeldKept
<1>11. ASSUME NEW c \in Client, NEW i \in Invite, NEW e \in Email, JoinStart(c, i, e)
      PROVE  TokenHeld'
  <2>1. SameToken
    BY <1>11 DEF JoinStart, SameToken, Tables
  <2>2. SameUsers
    BY <1>11 DEF JoinStart, SameUsers, Users, Tables
  <2>3. SameCallers
    BY <1>11 DEF JoinStart, SameCallers, At, Asks, Idle
  <2>4. QED
    BY <2>1, <2>2, <2>3, TokenHeldKept
<1>12. ASSUME NEW c \in Client, NEW r \in Reset, ConfirmReset(c, r) PROVE TokenHeld'
  <2>1. SameToken
    BY <1>12 DEF ConfirmReset, SameToken, Tables, Consumed
  <2>2. SameUsers
    BY <1>12 DEF ConfirmReset, SameUsers, Users, Tables, Consumed
  <2>3. SameCallers
    BY <1>12 DEF ConfirmReset, SameCallers, At, Asks, Idle
  <2>4. QED
    BY <2>1, <2>2, <2>3, TokenHeldKept
<1>13. ASSUME NEW c \in Client, NEW e \in Email, CliReset(c, e) PROVE TokenHeld'
  <2>1. SameToken
    BY <1>13 DEF CliReset, SameToken, Tables
  <2>2. SameUsers
    BY <1>13 DEF CliReset, SameUsers, Users, Tables
  <2>3. SameCallers
    BY <1>13 DEF CliReset, SameCallers, At, Asks, Idle
  <2>4. QED
    BY <2>1, <2>2, <2>3, TokenHeldKept
<1>14. ASSUME NEW c \in Client, ChangePassword(c) PROVE TokenHeld'
  <2>1. SameToken
    BY <1>14 DEF ChangePassword, SameToken, Tables
  <2>2. SameUsers
    BY <1>14 DEF ChangePassword, SameUsers, Users, Tables
  <2>3. SameCallers
    BY <1>14 DEF ChangePassword, SameCallers, At, Asks, Idle
  <2>4. QED
    BY <2>1, <2>2, <2>3, TokenHeldKept
<1>15. ASSUME NEW c \in Client, Write(c) PROVE TokenHeld'
  <2>1. SameToken
    BY <1>15 DEF Write, Set, SameToken, Tables
  <2>2. SameUsers
    <3>1. ASSUME NEW u \in User, Set(c, u) PROVE SameUsers
      <4>1. PICK at \in req[c].at..now :
              db' = [db EXCEPT !.user[u].password = @ + 1, !.user[u].changed = at]
        BY <3>1 DEF Set
      <4>2. \A v \in User : db'.user[v].state = db.user[v].state
        BY <4>1 DEF Tables, Account
      <4>3. db'.invite = db.invite
        BY <4>1 DEF Tables
      <4>4. QED
        BY <4>2, <4>3 DEF SameUsers, Users
    <3>2. ASSUME UNCHANGED db PROVE SameUsers
      BY <3>2 DEF SameUsers, Users
    <3>3. QED
      BY <1>15, <3>1, <3>2 DEF Write, Users, With
  <2>3. SameCallers
    <3>1. At(c, "set") \/ At(c, "cli")
      BY <1>15 DEF Write
    <3>2. ASSUME Ends(c) PROVE SameCallers
      BY <3>1, <3>2 DEF SameCallers, At, Ends, Idle
    <3>3. ASSUME NEW u \in User, NEW n, Leads(c, "issue", u, n) PROVE SameCallers
      BY <3>1, <3>3 DEF SameCallers, At, Leads, Idle
    <3>4. QED
      BY <1>15, <3>2, <3>3 DEF Write, Users
  <2>4. QED
    BY <2>1, <2>2, <2>3, TokenHeldKept
<1>16. ASSUME NEW c \in Client, NEW u \in User, Login(c, u) PROVE TokenHeld'
  <2>1. SameToken
    BY <1>16 DEF Login, SameToken, Tables
  <2>2. SameUsers
    BY <1>16 DEF Login, SameUsers, Users, Tables
  <2>3. SameCallers
    BY <1>16 DEF Login, SameCallers, At, Asks, Idle
  <2>4. QED
    BY <2>1, <2>2, <2>3, TokenHeldKept
<1>17. ASSUME NEW c \in Client, NEW u \in User, JoinCommit(c, u) PROVE TokenHeld'
  <2>1. SameToken
    BY <1>17 DEF JoinCommit, SameToken, Tables
  <2>2. SameCallers
    <3>1. CASE Ends(c)
      BY <1>17, <3>1 DEF JoinCommit, SameCallers, At, Ends, Idle
    <3>2. CASE Leads(c, "issue", u, 1)
      BY <1>17, <3>2 DEF JoinCommit, SameCallers, At, Leads, Idle
    <3>3. QED
      BY <1>17, <3>1, <3>2 DEF JoinCommit
  <2>3. SameUsers
    <3>1. CASE UNCHANGED db
      BY <3>1 DEF SameUsers, Users
    <3>2. CASE /\ Usable(req[c].token, req[c].email, req[c].at) /\ req[c].token \in Invite
               /\ db'.user = [db.user EXCEPT ![u] = NewUser(u, req[c].email, req[c].token, req[c].at)]
      <4>1. Users # {}
        BY <3>2 DEF Usable, TokenHeld
      <4>2. u \in Users'
        BY <3>2 DEF Users, NewUser, Tables
      <4>3. QED
        BY <4>1, <4>2 DEF SameUsers
    <3>3. QED
      BY <1>17, <3>1, <3>2 DEF JoinCommit, Tables, At, Carried, Carries
  <2>4. QED
    BY <2>1, <2>2, <2>3, TokenHeldKept
<1>18. ASSUME NEW c \in Client, NEW e \in Email, UpdateProfile(c, e) PROVE TokenHeld'
  <2>1. SameToken
    BY <1>18 DEF UpdateProfile, SameToken, Tables
  <2>2. SameUsers
    BY <1>18 DEF UpdateProfile, SameUsers, Users, Tables, Account
  <2>3. SameCallers
    BY <1>18 DEF UpdateProfile, SameCallers, At
  <2>4. QED
    BY <2>1, <2>2, <2>3, TokenHeldKept
<1>19. ASSUME NEW c \in Client, Issue(c) PROVE TokenHeld'
  <2>1. SameToken
    BY <1>19 DEF Issue, SameToken, Tables
  <2>2. SameUsers
    BY <1>19 DEF Issue, SameUsers, Users, Tables
  <2>3. SameCallers
    BY <1>19 DEF Issue, SameCallers, At, Ends, Idle
  <2>4. QED
    BY <2>1, <2>2, <2>3, TokenHeldKept
<1>20. ASSUME NEW c \in Client, Logout(c) PROVE TokenHeld'
  <2>1. SameToken
    BY <1>20 DEF Logout, SameToken, Tables
  <2>2. SameUsers
    BY <1>20 DEF Logout, SameUsers, Users, Tables
  <2>3. SameCallers
    BY <1>20 DEF Logout, SameCallers, At
  <2>4. QED
    BY <2>1, <2>2, <2>3, TokenHeldKept
<1>21. ASSUME NEW e \in Email, NEW r \in Reset, RequestReset(e, r) PROVE TokenHeld'
  <2>1. SameToken
    BY <1>21 DEF RequestReset, SameToken, Tables
  <2>2. SameUsers
    BY <1>21 DEF RequestReset, SameUsers, Users, Tables
  <2>3. SameCallers
    BY <1>21 DEF RequestReset, SameCallers, At
  <2>4. QED
    BY <2>1, <2>2, <2>3, TokenHeldKept
<1>22. CASE Tick
  <2>1. SameToken
    BY <1>22 DEF Tick, SameToken, Tables
  <2>2. SameUsers
    BY <1>22 DEF Tick, SameUsers, Users, Tables
  <2>3. SameCallers
    BY <1>22 DEF Tick, SameCallers, At
  <2>4. QED
    BY <2>1, <2>2, <2>3, TokenHeldKept
<1>23. CASE Janitor
  <2>1. SameToken
    BY <1>23 DEF Janitor, SameToken, Tables, Swept
  <2>2. SameUsers
    BY <1>23 DEF Janitor, SameUsers, Users, Tables, Swept, NoInvite
  <2>3. SameCallers
    BY <1>23 DEF Janitor, SameCallers, At
  <2>4. QED
    BY <2>1, <2>2, <2>3, TokenHeldKept
<1>24. CASE ClearUsers
  <2>1. Users' = {} /\ server' = server /\ req' = req
    BY <1>24 DEF ClearUsers, Users, Gone, NoAccount, Tables
  <2>2. /\ db'.setup = db.setup
        /\ \A i \in Invite : db'.invite[i].state # "there"
    BY <1>24 DEF ClearUsers, Gone, NoInvite, Tables
  <2>3. QED
    BY <2>1, <2>2 DEF TokenHeld, At
<1>25. CASE Boot
  <2>1. server.lock = None /\ req' = req
    BY <1>25 DEF Boot, TokenHeld
  <2>2. \A d \in Client : ~At(d, "status") /\ ~At(d, "ensure")
    BY <2>1 DEF TokenHeld
  <2>3. /\ server'.up /\ server'.lock = None /\ db'.invite = db.invite /\ Users' = Users
        /\ server'.held = None \/ (Users = {} /\ server'.held = db'.setup.token)
    <3>1. CASE Users # {}
      BY <1>25, <3>1 DEF Boot, Down, Users
    <3>2. CASE Users = {}
      <4>1. PICK t \in Fresh : /\ db' = [db EXCEPT !.setup = Ensured(t)]
                               /\ server' = [Down EXCEPT !.up = TRUE, !.held = Ensured(t).token]
        BY <1>25, <3>2 DEF Boot
      <4>2. db'.user = db.user /\ db'.invite = db.invite /\ db'.setup = Ensured(t)
        BY <4>1 DEF Tables
      <4>3. server'.up /\ server'.lock = None /\ server'.held = Ensured(t).token
        BY <4>1 DEF Down
      <4>4. QED
        BY <3>2, <4>2, <4>3 DEF Users
    <3>3. QED
      BY <3>1, <3>2
  <2>4. QED
    BY <2>1, <2>2, <2>3 DEF TokenHeld, At
<1>26. CASE Crash
  <2>1. server' = Down /\ db' = db /\ Users' = Users
    BY <1>26 DEF Crash, Users
  <2>2. \A d \in Client : ~(At(d, "status") \/ At(d, "ensure"))'
    BY <1>26 DEF Crash, At, Idle
  <2>3. QED
    BY <2>1, <2>2 DEF TokenHeld, Down
<1>27. CASE UNCHANGED vars
  <2>1. SameToken
    BY <1>27 DEF vars, SameToken, Tables
  <2>2. SameUsers
    BY <1>27 DEF vars, SameUsers, Users, Tables
  <2>3. SameCallers
    BY <1>27 DEF vars, SameCallers, At
  <2>4. QED
    BY <2>1, <2>2, <2>3, TokenHeldKept
<1>28. QED
  BY <1>1, <1>2, <1>3, <1>4, <1>5, <1>6, <1>7, <1>8, <1>9, <1>10, <1>11, <1>12, <1>13,
  <1>14, <1>15, <1>16, <1>17, <1>18, <1>19, <1>20, <1>21, <1>22, <1>23, <1>24, <1>25,
  <1>26, <1>27
     DEF Next, SetupStep, InviteStep, PasswordStep, SessionStep

\* For any clients, tokens and people: the server holds the token of the row, and
\* beside a user only while the setup that made the first is on its way to clear it.
THEOREM BootstrapIsHonest == Spec => []BootstrapHonest
<1>1. Init => TokenHeld
  BY DEF Init, TokenHeld, Down, Users, NoAccount, NoInvite, Idle, At
<1>2. TokenHeld => BootstrapHonest
  BY DEF TokenHeld, BootstrapHonest
<1>3. QED
  BY AlwaysTyped, TokenHeldNext, <1>1, <1>2, PTL DEF Spec

=============================================================================

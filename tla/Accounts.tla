------------------------------ MODULE Accounts ------------------------------
(***************************************************************************)
(* Accounts: the setup of the first user and its bootstrap token, invites, *)
(* password resets and changes, and the sessions they leave                *)
(* (internal/api/bootstrap.go, auth.go, invites.go, password.go,           *)
(* internal/auth, cmd/server/password.go, internal/db/janitor.go).         *)
(*                                                                         *)
(* A transaction or a single statement is one step; what a handler does    *)
(* between two of them, bcrypt among it, takes time.  Ids and tokens are   *)
(* random, so none comes twice.  A password is the number of times it was  *)
(* written.  Clients are browsers with a cookie, or an operator's shell.   *)
(* Who is an admin is left out: any session may invite.  So are the        *)
(* throttles of POST /password/..., which only refuse.                     *)
(***************************************************************************)
EXTENDS Naturals

CONSTANTS User, Email, Invite, Reset, Token, Client,
          InviteLife,  \* the ttl an invite may be asked for, in seconds
          ResetLife,   \* thirty minutes
          MaxTime,     \* bound on the clock
          MaxRequests, \* bound on what is asked of the server and the command
          None

ASSUME AccountsAssumption ==
  /\ InviteLife \subseteq Nat \ {0} /\ ResetLife \in Nat \ {0}
  /\ MaxTime \in Nat /\ MaxRequests \in Nat
  /\ None \notin User \cup Email \cup Invite \cup Reset \cup Token \cup Client
  /\ Invite \cap Reset = {}

VARIABLES
  db,      \* users, invite_links, user_tokens, bootstrap_token
  server,  \* Bootstrap, in the memory of the process
  req,     \* the request each client has under way
  cookie,  \* the session each client holds
  now,     \* the clock, in seconds
  asked    \* how many requests there have been

vars == <<db, server, req, cookie, now, asked>>

Time == 0..MaxTime

\* A row that was deleted is not inserted again.
State == {"absent", "there", "gone"}

Account == [state : State, email : Email \cup {None}, password : Nat,
            changed : Time, from : Invite \cup {None}]

Invitation == [state : State, email : Email \cup {None}, made : Time,
               expires : Nat, consumed : BOOLEAN, revoked : BOOLEAN]

ResetToken == [state : State, user : User \cup {None}, expires : Nat]

Setup == [token : Token \cup {None}, consumed : BOOLEAN]

Tables == [user : [User -> Account], invite : [Invite -> Invitation],
           reset : [Reset -> ResetToken], setup : Setup]

\* lock: who is in EnsureForEmptyUsers' critical section.
Process == [up : BOOLEAN, held : Token \cup {None}, lock : Client \cup {None}]

Down == [up |-> FALSE, held |-> None, lock |-> None]

Request == [pc : {"idle", "status", "ensure", "form", "hash", "clear", "mark", "finish",
                  "join", "set", "cli", "issue"},
            user : User \cup {None}, password : Nat, email : Email \cup {None},
            token : Invite \cup Reset \cup {None}, at : Time]

Idle == [pc |-> "idle", user |-> None, password |-> 0, email |-> None, token |-> None,
         at |-> 0]

Session == [user : User, password : Nat, iat : Time]

NoAccount == [state |-> "absent", email |-> None, password |-> 0, changed |-> 0,
              from |-> None]
NoInvite == [state |-> "absent", email |-> None, made |-> 0, expires |-> 0,
             consumed |-> FALSE, revoked |-> FALSE]
NoReset == [state |-> "absent", user |-> None, expires |-> 0]

Init ==
  /\ db = [user |-> [u \in User |-> NoAccount], invite |-> [i \in Invite |-> NoInvite],
           reset |-> [r \in Reset |-> NoReset],
           setup |-> [token |-> None, consumed |-> FALSE]]
  /\ server = Down
  /\ req = [c \in Client |-> Idle]
  /\ cookie = [c \in Client |-> None]
  /\ now = 0 /\ asked = 0

-----------------------------------------------------------------------------

Users == {u \in User : db.user[u].state = "there"}
With(e) == {u \in Users : db.user[u].email = e}

Another == asked < MaxRequests /\ asked' = asked + 1
Asks(c, r) == server.up /\ req[c] = Idle /\ req' = [req EXCEPT ![c] = r] /\ Another
At(c, pc) == req[c].pc = pc
Goto(c, pc) == req' = [req EXCEPT ![c].pc = pc]
Ends(c) == req' = [req EXCEPT ![c] = Idle]
Leads(c, pc, u, password) ==
  req' = [req EXCEPT ![c] = [Idle EXCEPT !.pc = pc, !.user = u, !.password = password]]

\* Mutant of Valid: a session of the second of the change is older than it.
ValidLater(s) ==
  s # None /\ s.user \in Users /\ db.user[s.user].changed < s.iat

(* ValidateSession, for the middleware and the query token.                *)
Valid(s) ==
  s # None /\ s.user \in Users /\ ~(db.user[s.user].changed > s.iat)

NewUser(u, e, from, at) ==
  [state |-> "there", email |-> e, password |-> 1, changed |-> at, from |-> from]

(* CreateAuthToken and SetAuthCookie: the last thing a handler does.       *)
Issue(c) ==
  /\ At(c, "issue") \/ At(c, "finish")
  /\ cookie' = [cookie EXCEPT ![c] =
                  [user |-> req[c].user, password |-> req[c].password, iat |-> now]]
  /\ Ends(c)
  /\ UNCHANGED <<db, server, now, asked>>

Logout(c) ==
  /\ server.up /\ cookie[c] # None
  /\ cookie' = [cookie EXCEPT ![c] = None]
  /\ UNCHANGED <<db, server, req, now, asked>>

-----------------------------------------------------------------------------
(* EnsureForEmptyUsers, at boot, for GET /status and for POST /setup.      *)

\* Mutant of Ensured: every call makes a token.
EnsuredAnew(t) == [token |-> t, consumed |-> FALSE]

(* The token the row holds when the call is done: one that is pending      *)
(* stays.                                                                  *)
Ensured(t) ==
  IF db.setup.token # None /\ ~db.setup.consumed THEN db.setup
  ELSE [token |-> t, consumed |-> FALSE]

Fresh == Token \ {db.setup.token}

\* Mutant of EnsureCount: the users are counted before the lock is taken.
EnsureCountUnlocked(c, pc) ==
  /\ Asks(c, [Idle EXCEPT !.pc = pc])
  /\ server.held = None /\ Users = {}
  /\ UNCHANGED <<db, server, cookie, now>>

(* Nothing held and no users, so the lock is kept and a token made.        *)
EnsureCount(c, pc) ==
  /\ Asks(c, [Idle EXCEPT !.pc = pc])
  /\ server.held = None /\ server.lock = None /\ Users = {}
  /\ server' = [server EXCEPT !.lock = c]
  /\ UNCHANGED <<db, cookie, now>>

(* The statements may fail, the one that reads the token back among them.  *)
EnsureLoad(c) ==
  /\ At(c, "status") \/ At(c, "ensure")
  /\ \/ \E t \in Fresh :
          /\ db' = [db EXCEPT !.setup = Ensured(t)]
          /\ \/ /\ server' = [server EXCEPT !.held = Ensured(t).token, !.lock = None]
                /\ IF At(c, "ensure") THEN Goto(c, "form") ELSE Ends(c)
             \/ server' = [server EXCEPT !.lock = None] /\ Ends(c)
     \/ server' = [server EXCEPT !.lock = None] /\ Ends(c) /\ UNCHANGED db
  /\ UNCHANGED <<cookie, now, asked>>

-----------------------------------------------------------------------------
(* POST /setup.                                                            *)

(* A token is held or a user is there: setup goes on to its form, with the *)
(* token or without.                                                       *)
SetupForm(c) ==
  /\ Asks(c, [Idle EXCEPT !.pc = "form"])
  /\ server.held # None \/ (server.lock = None /\ Users # {})
  /\ UNCHANGED <<db, server, cookie, now>>

(* setupMu is held until the handler returns.                              *)
SetupMu == {c \in Client : req[c].pc \in {"hash", "clear", "mark", "finish"}}

SetupCount(c) ==
  /\ At(c, "form") /\ SetupMu = {}
  /\ IF Users = {} THEN req' = [req EXCEPT ![c].pc = "hash", ![c].at = now]
     ELSE Ends(c)
  /\ UNCHANGED <<db, server, cookie, now, asked>>

(* A write since the count fails the transaction's first.                  *)
SetupCommit(c, u, e) ==
  /\ At(c, "hash")
  /\ \/ /\ db.user[u].state = "absent" /\ Users = {}
        /\ db' = [db EXCEPT !.user[u] = NewUser(u, e, None, req[c].at)]
        /\ Leads(c, "clear", u, 1)
     \/ Ends(c) /\ UNCHANGED db
  /\ UNCHANGED <<server, cookie, now, asked>>

(* MarkConsumed: the memory, under the lock, then the row, best effort.    *)
SetupClear(c) ==
  /\ At(c, "clear") /\ server.lock = None
  /\ server' = [server EXCEPT !.held = None]
  /\ Goto(c, "mark")
  /\ UNCHANGED <<db, cookie, now, asked>>

SetupMark(c) ==
  /\ At(c, "mark")
  /\ Goto(c, "finish")
  /\ \/ db' = [db EXCEPT !.setup.consumed = (db.setup.token # None)]
     \/ UNCHANGED db
  /\ UNCHANGED <<server, cookie, now, asked>>

-----------------------------------------------------------------------------
(* POST /login: the row is read and the password checked against it.       *)
Login(c, u) ==
  /\ u \in Users
  /\ Asks(c, [Idle EXCEPT !.pc = "issue", !.user = u, !.password = db.user[u].password])
  /\ UNCHANGED <<db, server, cookie, now>>

(* PUT /profile; the address is unique.                                    *)
UpdateProfile(c, e) ==
  /\ server.up /\ req[c] = Idle /\ Valid(cookie[c]) /\ Another
  /\ With(e) = {}
  /\ db' = [db EXCEPT !.user[cookie[c].user].email = e]
  /\ UNCHANGED <<server, req, cookie, now>>

-----------------------------------------------------------------------------
(* Invites.                                                                *)

Invited(e, life) == [state |-> "there", email |-> e, made |-> now,
                     expires |-> now + life, consumed |-> FALSE, revoked |-> FALSE]

CreateInvite(c, i, e) ==
  /\ server.up /\ req[c] = Idle /\ Valid(cookie[c]) /\ Another
  /\ db.invite[i].state = "absent"
  /\ \E life \in InviteLife : db' = [db EXCEPT !.invite[i] = Invited(e, life)]
  /\ UNCHANGED <<server, req, cookie, now>>

RevokeInvite(c, i) ==
  /\ server.up /\ req[c] = Idle /\ Valid(cookie[c]) /\ Another
  /\ db.invite[i].state = "there" /\ ~db.invite[i].revoked
  /\ db' = [db EXCEPT !.invite[i].revoked = TRUE]
  /\ UNCHANGED <<server, req, cookie, now>>

(* Revokes i, used or not, and invites the address again for as long.      *)
ResendInvite(c, i, j) ==
  /\ server.up /\ req[c] = Idle /\ Valid(cookie[c]) /\ Another
  /\ db.invite[i].state = "there" /\ db.invite[i].email # None
  /\ db.invite[j].state = "absent"
  /\ db' = [db EXCEPT
              !.invite[i].revoked = TRUE,
              !.invite[j] = Invited(db.invite[i].email,
                                    db.invite[i].expires - db.invite[i].made)]
  /\ UNCHANGED <<server, req, cookie, now>>

(* POST /join takes the time, hashes, and only then opens its transaction. *)
JoinStart(c, i, e) ==
  /\ db.invite[i].state # "absent"
  /\ Asks(c, [Idle EXCEPT !.pc = "join", !.token = i, !.email = e, !.at = now])
  /\ UNCHANGED <<db, server, cookie, now>>

\* Mutant of Usable: consumed_at is not looked at.
UsableAgain(i, e, at) ==
  /\ db.invite[i].state = "there" /\ db.invite[i].expires > at
  /\ ~db.invite[i].revoked /\ db.invite[i].email \in {None, e}

(* What Join finds the invite by.                                          *)
Usable(i, e, at) ==
  /\ db.invite[i].state = "there" /\ db.invite[i].expires > at
  /\ ~db.invite[i].consumed /\ ~db.invite[i].revoked
  /\ db.invite[i].email \in {None, e}

JoinCommit(c, u) ==
  LET q == req[c] IN
  /\ At(c, "join")
  /\ \/ /\ Usable(q.token, q.email, q.at) /\ With(q.email) = {}
        /\ db.user[u].state = "absent"
        /\ db' = [db EXCEPT !.user[u] = NewUser(u, q.email, q.token, q.at),
                            !.invite[q.token].consumed = TRUE]
        /\ Leads(c, "issue", u, 1)
     \/ /\ ~(Usable(q.token, q.email, q.at) /\ With(q.email) = {})
        /\ Ends(c) /\ UNCHANGED db
  /\ UNCHANGED <<server, cookie, now, asked>>

-----------------------------------------------------------------------------
(* Passwords.                                                              *)

(* POST /password/reset/request: the goroutine that finds a user.          *)
RequestReset(e, r) ==
  /\ server.up /\ Another
  /\ \E u \in With(e) :
       /\ db.reset[r].state = "absent"
       /\ db' = [db EXCEPT !.reset[r] = [state |-> "there", user |-> u,
                                         expires |-> now + ResetLife]]
  /\ UNCHANGED <<server, req, cookie, now>>

(* ConsumeToken deletes what it has found.                                 *)
Consumed(d, r) == [d EXCEPT !.reset[r] = [NoReset EXCEPT !.state = "gone"]]

(* POST /password/reset/confirm.                                           *)
ConfirmReset(c, r) ==
  /\ db.reset[r].state = "there" /\ db.reset[r].expires > now
  /\ Asks(c, [Idle EXCEPT !.pc = "set", !.user = db.reset[r].user, !.token = r, !.at = now])
  /\ db' = Consumed(db, r)
  /\ UNCHANGED <<server, cookie, now>>

(* POST /password/change, with the right password.                         *)
ChangePassword(c) ==
  /\ Valid(cookie[c])
  /\ Asks(c, [Idle EXCEPT !.pc = "set", !.user = cookie[c].user, !.at = now])
  /\ UNCHANGED <<db, server, cookie, now>>

(* The command reset-password, which needs no server.                      *)
CliReset(c, e) ==
  /\ req[c] = Idle /\ Another
  /\ req' = [req EXCEPT ![c] = [Idle EXCEPT !.pc = "cli", !.email = e, !.at = now]]
  /\ UNCHANGED <<db, server, cookie, now>>

(* password_changed_at is computed at some moment before the statement is  *)
(* run.                                                                    *)
Set(c, u) ==
  \E at \in req[c].at..now :
    db' = [db EXCEPT !.user[u].password = @ + 1, !.user[u].changed = at]

(* The handlers go on to a session, the command does not.                  *)
Write(c) ==
  /\ \/ At(c, "set") /\ \E u \in {req[c].user} \cap Users :
                           Set(c, u) /\ Leads(c, "issue", u, db.user[u].password + 1)
     \/ At(c, "cli") /\ Ends(c) /\ \E u \in With(req[c].email) : Set(c, u)
     \/ (At(c, "set") \/ At(c, "cli")) /\ Ends(c) /\ UNCHANGED db
  /\ UNCHANGED <<server, cookie, now, asked>>

-----------------------------------------------------------------------------
(* Time, the janitor, the operator and the process.                        *)

Tick ==
  /\ now < MaxTime
  /\ now' = now + 1
  /\ UNCHANGED <<db, server, req, cookie, asked>>

Swept(d) ==
  [d EXCEPT
     !.reset = [r \in Reset |->
       IF @[r].state = "there" /\ @[r].expires < now
       THEN [NoReset EXCEPT !.state = "gone"] ELSE @[r]],
     !.invite = [i \in Invite |->
       IF @[i].state = "there" /\ @[i].expires < now /\ ~@[i].consumed
       THEN [NoInvite EXCEPT !.state = "gone"] ELSE @[i]]]

Janitor ==
  /\ server.up /\ db' = Swept(db)
  /\ UNCHANGED <<server, req, cookie, now, asked>>

Gone(row, none) == IF row.state = "there" THEN [none EXCEPT !.state = "gone"] ELSE row

(* "users are empty again, e.g. if the users table was cleared during      *)
(* self-hosted recovery": an operator with an SQL shell.  What sessions    *)
(* there are stay refused.                                                 *)
ClearUsers ==
  /\ Users # {}
  /\ db' = [db EXCEPT
              !.user = [u \in User |-> Gone(@[u], NoAccount)],
              !.invite = [i \in Invite |-> Gone(@[i], NoInvite)],
              !.reset = [r \in Reset |-> Gone(@[r], NoReset)]]
  /\ cookie' = [c \in Client |-> None]
  /\ UNCHANGED <<server, req, now, asked>>

Boot ==
  /\ ~server.up
  /\ IF Users # {}
     THEN server' = [Down EXCEPT !.up = TRUE] /\ UNCHANGED db
     ELSE \E t \in Fresh :
            /\ db' = [db EXCEPT !.setup = Ensured(t)]
            /\ server' = [Down EXCEPT !.up = TRUE, !.held = Ensured(t).token]
  /\ UNCHANGED <<req, cookie, now, asked>>

Crash ==
  /\ server.up
  /\ server' = Down
  /\ req' = [c \in Client |-> IF At(c, "cli") THEN req[c] ELSE Idle]
  /\ UNCHANGED <<db, cookie, now, asked>>

-----------------------------------------------------------------------------

SetupStep(c) ==
  \/ \E pc \in {"status", "ensure"} : EnsureCount(c, pc)
  \/ EnsureLoad(c) \/ SetupForm(c) \/ SetupCount(c)
  \/ \E u \in User, e \in Email : SetupCommit(c, u, e)
  \/ SetupClear(c) \/ SetupMark(c)

InviteStep(c) ==
  \E i \in Invite :
    \/ RevokeInvite(c, i) \/ \E j \in Invite : ResendInvite(c, i, j)
    \/ \E e \in Email \cup {None} : CreateInvite(c, i, e)
    \/ \E e \in Email : JoinStart(c, i, e)

PasswordStep(c) ==
  \/ \E r \in Reset : ConfirmReset(c, r)
  \/ \E e \in Email : CliReset(c, e)
  \/ ChangePassword(c) \/ Write(c)

SessionStep(c) ==
  \/ \E u \in User : Login(c, u) \/ JoinCommit(c, u)
  \/ \E e \in Email : UpdateProfile(c, e)
  \/ Issue(c) \/ Logout(c)

Next ==
  \/ \E c \in Client : SetupStep(c) \/ InviteStep(c) \/ PasswordStep(c) \/ SessionStep(c)
  \/ \E e \in Email, r \in Reset : RequestReset(e, r)
  \/ Tick \/ Janitor \/ ClearUsers \/ Boot \/ Crash

Spec == Init /\ [][Next]_vars

-----------------------------------------------------------------------------

AccountsTypeOK ==
  /\ db \in Tables /\ server \in Process /\ now \in Time
  /\ asked \in 0..MaxRequests
  /\ req \in [Client -> Request] /\ cookie \in [Client -> Session \cup {None}]

(* Whatever comes together, one account is made by setup and one by each   *)
(* used invite, and no two share an address.                               *)
OneEach ==
  /\ \A u, v \in Users :
       db.user[u].from = db.user[v].from \/ db.user[u].email = db.user[v].email => u = v
  /\ \A u \in Users : db.user[u].from # None => db.invite[db.user[u].from].consumed
  /\ \A i \in Invite : db.invite[i].consumed => \E u \in Users : db.user[u].from = i

(* A reset token is with the user, or with the one confirmation that may   *)
(* set a password for it, or with nobody.                                  *)
ResetOnce ==
  \A c, d \in Client :
    req[c].token \in Reset =>
      /\ db.reset[req[c].token].state = "gone"
      /\ req[d].token = req[c].token => c = d

AccountsSound == AccountsTypeOK /\ OneEach /\ ResetOnce

(* The server holds the token of the row, and holds it while there are     *)
(* users only until the setup that made the first is through, though the   *)
(* check for users, the setup and the clearing of the token are apart.     *)
BootstrapHonest ==
  server.held # None =>
    /\ server.held = db.setup.token
    /\ Users # {} => \E c \in Client : At(c, "clear")

(* Who has logged in, joined, set up or set a password is let in until the *)
(* password is set again, though session times and change times are whole  *)
(* seconds taken at different moments.                                     *)
SessionsHold ==
  \A c \in Client :
    cookie[c] # None /\ cookie[c].user \in Users
      /\ cookie[c].password = db.user[cookie[c].user].password
    => Valid(cookie[c])

(* "restarts don't invalidate an already-pasted URL": as long as there are *)
(* no users, a pending token is neither replaced nor used up, but by a     *)
(* setup whose user was cleared before it was through.                     *)
TokenStable ==
  [][/\ Users = {} /\ Users' = {} /\ db.setup.token # None /\ ~db.setup.consumed
     /\ \A c \in Client : ~At(c, "mark")
     => db'.setup = db.setup]_vars

(* "rejects JWTs issued before the user's password was last changed".      *)
OldSessionsEnd ==
  \A c \in Client :
    Valid(cookie[c]) => cookie[c].password = db.user[cookie[c].user].password
=============================================================================

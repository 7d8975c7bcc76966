------------------------------ MODULE ListLock ------------------------------
(***************************************************************************)
(* The edit lock of a shopping list: the store (internal/locks/locks.go),  *)
(* its endpoints and requireLock (internal/api/lists_lock.go), the write   *)
(* handlers as far as they ask for it (internal/api/lists.go), and what a  *)
(* tab believes about it (web/src/hooks/useListLock.ts).  Lists have       *)
(* nothing in common, so there is one.                                     *)
(***************************************************************************)
EXTENDS Naturals, FiniteSets

CONSTANTS
    User, NoUser,
    Tab,
    Owner,       \* the user of each tab
    Request,     \* requests that may be in progress at a time
    NoTab,
    TTL,         \* LOCK_INACTIVITY_TTL in ticks; 0 is never, as in the code
    Offered,     \* what people do, besides opening and leaving the list
    MaxWrites,   \* up to which writes are counted
    MaxRestarts  \* restarts of the server

ASSUME LockAssumption ==
    /\ NoUser \notin User
    /\ NoTab \notin Tab
    /\ Owner \in [Tab -> User]
    /\ TTL \in Nat
    /\ Offered \subseteq {"takeOver", "edit", "rename", "purge", "drop"}
    /\ MaxWrites \in Nat
    /\ MaxRestarts \in Nat

VARIABLES
    there,    \* the list exists
    writes,   \* how many writes it has had
    hold,     \* the store's entry
    req,      \* the requests in progress
    tab,      \* what each tab believes and does
    told,     \* the holder named by the lock event that the hub was given last
    crossed,  \* history: see AnnouncedHolder
    restarts  \* how often the server has been restarted

dbVars == <<there, writes>>
vars == <<dbVars, hold, req, tab, told, crossed, restarts>>

LockOp == {"acquire", "heartbeat", "release", "takeOver"}

\* The writes: "edit" is any handler that calls requireLock once it has found
\* the list (AddItem, BulkAddItems, UpdateItem, DeleteItem, ReorderItems,
\* BulkUpdateItems); "rename" is Update, which looks for it afterwards; "purge"
\* is BulkDeleteItems, which never asks; "drop" is Delete, which does not either.
Op == LockOp \cup {"edit", "rename", "purge", "drop"}

PC == {"idle", "check", "touch", "acquire", "take", "look", "release", "tell",
       "write", "answer"}

\* "listens": the mount that asked is still there.  "own": ReleaseLock has seen
\* its user as the holder.  "code": the answer as far as it is written.
NoRequest == [pc |-> "idle", op |-> "heartbeat", by |-> NoTab, code |-> "ok",
              listens |-> FALSE, own |-> FALSE]

RequestState == [pc : PC, op : Op, by : Tab \cup {NoTab}, listens : BOOLEAN,
                 code : {"ok", "missing", "conflict"}, own : BOOLEAN]

\* A tab elsewhere.  "mine": it takes the lock for its own; "beats": the
\* heartbeat's interval runs.
Away == [open |-> FALSE, mine |-> FALSE, beats |-> FALSE]
TabState == [open : BOOLEAN, mine : BOOLEAN, beats : BOOLEAN]

\* To a tab, an acquired and a taken over event say the same: who holds the
\* lock.  A released event says that nobody does.
Event == {{u} : u \in User \cup {NoUser}}
Silence == {}

LockTypeOK ==
    /\ there \in BOOLEAN
    /\ writes \in 0..MaxWrites
    /\ hold \in [user : User \cup {NoUser}, age : 0..(TTL + 1)]
    /\ req \in [Request -> RequestState]
    /\ \A q \in Request : req[q].pc # "idle" => req[q].by \in Tab
    /\ tab \in [Tab -> TabState]
    /\ told \in Event \cup {Silence}
    /\ crossed \in BOOLEAN
    /\ restarts \in 0..MaxRestarts

NoHold == [user |-> NoUser, age |-> 0]

LockInit ==
    /\ there = TRUE
    /\ writes = 0
    /\ hold = NoHold
    /\ req = [q \in Request |-> NoRequest]
    /\ tab = [t \in Tab |-> Away]
    /\ told = Silence
    /\ crossed = FALSE
    /\ restarts = 0

-----------------------------------------------------------------------------
(* locks.Store: every method is one section of its mutex.                  *)

Expired == TTL > 0 /\ hold.age > TTL
Holder == IF Expired THEN NoUser ELSE hold.user

Touched(u) == IF Holder = u THEN [hold EXCEPT !.age = 0] ELSE hold

Granted(u) == Holder \in {NoUser, u}
Acquired(u) == IF Granted(u) THEN [user |-> u, age |-> 0] ELSE hold

TakenOver(u) == [user |-> u, age |-> 0]

ReleasedAnyone(u) == NoHold

\* An expired entry of the user goes too.
Released(u) == IF hold.user = u THEN NoHold ELSE hold

Sweep ==
    /\ hold.user # NoUser /\ Expired
    /\ hold' = NoHold
    /\ UNCHANGED <<dbVars, req, tab, told, crossed, restarts>>

\* Beyond TTL + 1 nothing changes any more, so ages end there.
Tick ==
    /\ hold.user # NoUser /\ hold.age <= TTL
    /\ hold' = [hold EXCEPT !.age = @ + 1]
    /\ UNCHANGED <<dbVars, req, tab, told, crossed, restarts>>

-----------------------------------------------------------------------------
(* The handlers.                                                           *)

At(q, pc) == req[q].pc = pc
Goto(q, pc) == req' = [req EXCEPT ![q] = IF pc = "idle" THEN NoRequest ELSE [@ EXCEPT !.pc = pc]]
By(q) == Owner[req[q].by]

\* The first answer written is the one that is sent.
Written(q, code) == IF req[q].code = "ok" THEN code ELSE req[q].code
GotoWith(q, pc, code) == req' = [req EXCEPT ![q].pc = pc, ![q].code = Written(q, code)]

First(op) == CASE op = "rename" -> "touch"
               [] op = "drop"   -> "write"
               [] OTHER         -> "check"

Asked(q, t, op) ==
    [req EXCEPT ![q] = [NoRequest EXCEPT !.pc = First(op), !.op = op, !.by = t,
                                         !.listens = op \in {"acquire", "heartbeat", "takeOver"}]]

Found(op) == CASE op \in {"heartbeat", "edit"} -> "touch"
               [] op = "purge"     -> "write"
               [] op = "acquire"   -> "acquire"
               [] op = "takeOver"  -> "take"
               [] op = "release"   -> "look"

\* A write ends with 404 if the list is gone.  verifyListInHousehold, which the
\* lock endpoints use, writes the 404 and returns what c.JSON returns, nil: they
\* go on.
Check(q) ==
    LET op == req[q].op IN
    /\ At(q, "check")
    /\ IF there THEN Goto(q, Found(op)) ELSE
       IF op \in LockOp THEN GotoWith(q, Found(op), "missing") ELSE Goto(q, "idle")
    /\ UNCHANGED <<dbVars, hold, tab, told, crossed, restarts>>

\* What the tab makes of the answer to a release or a write is not about the
\* lock, so these end with what they do.
Proceed(op) == CASE op = "release"  -> "idle"
                 [] op \in LockOp   -> "answer"
                 [] OTHER           -> "write"

\* TouchLock, and the fast path of requireLock.
Touch(q) ==
    LET op == req[q].op IN
    /\ At(q, "touch")
    /\ hold' = Touched(By(q))
    /\ IF Holder = By(q) THEN Goto(q, Proceed(op))
       ELSE IF op = "heartbeat" THEN GotoWith(q, "answer", "conflict")
       ELSE Goto(q, "acquire")
    /\ UNCHANGED <<dbVars, tab, told, crossed, restarts>>

\* A section that changes the hold while another request has still to announce
\* what it did, or to release what it has looked up.
Crosses(q) ==
    crossed' = \/ crossed /\ UNCHANGED hold
               \/ \E o \in Request \ {q} : req[o].pc \in {"tell", "release"}

\* AcquireLock, and the slow path of requireLock.  That too returns what c.JSON
\* returns, nil, with the 409 written: the write goes on.
AfterRefusal(op) == Proceed(op)

Acquire(q) ==
    LET op == req[q].op IN
    /\ At(q, "acquire")
    /\ hold' = Acquired(By(q))
    /\ IF Granted(By(q)) THEN Goto(q, "tell") /\ Crosses(q)
       ELSE GotoWith(q, AfterRefusal(op), "conflict") /\ UNCHANGED crossed
    /\ UNCHANGED <<dbVars, tab, told, restarts>>

\* The holder in the answer is looked up in a section of its own; it is only
\* the banner's text.
TakeOver(q) ==
    /\ At(q, "take")
    /\ hold' = TakenOver(By(q))
    /\ Goto(q, "tell")
    /\ Crosses(q)
    /\ UNCHANGED <<dbVars, tab, told, restarts>>

\* ReleaseLock looks at the holder and releases in two sections.
Look(q) ==
    /\ At(q, "look")
    /\ req' = [req EXCEPT ![q].pc = "release", ![q].own = (Holder = By(q))]
    /\ UNCHANGED <<dbVars, hold, tab, told, crossed, restarts>>

ReleaseTells(q) == "tell"
AfterRelease(q) == IF req[q].own THEN "tell" ELSE "idle"

Release(q) ==
    /\ At(q, "release")
    /\ hold' = Released(By(q))
    /\ Goto(q, AfterRelease(q))
    /\ Crosses(q)
    /\ UNCHANGED <<dbVars, tab, told, restarts>>

\* The event is handed to the hub after the section that it is about.
Tell(q) ==
    /\ At(q, "tell")
    /\ told' = {IF req[q].op = "release" THEN NoUser ELSE By(q)}
    /\ Goto(q, Proceed(req[q].op))
    /\ UNCHANGED <<dbVars, hold, tab, crossed, restarts>>

\* The statement or transaction of the handler, whatever it has answered; what
\* it does to the items is ListSync's.
Write(q) ==
    /\ At(q, "write")
    /\ writes' = IF there /\ writes < MaxWrites THEN writes + 1 ELSE writes
    /\ there' = (there /\ req[q].op # "drop")
    /\ Goto(q, "idle")
    /\ UNCHANGED <<hold, tab, told, crossed, restarts>>

-----------------------------------------------------------------------------
(* The tab.                                                                *)

\* Opening the list asks for the lock.
Mount(t, q) ==
    /\ ~tab[t].open /\ At(q, "idle")
    /\ tab' = [tab EXCEPT ![t] = [Away EXCEPT !.open = TRUE]]
    /\ req' = Asked(q, t, "acquire")
    /\ UNCHANGED <<dbVars, hold, told, crossed, restarts>>

\* Leaving it stops the heartbeat and releases a lock that the tab believes in.
Unmount(t, q) ==
    LET deaf == [o \in Request |-> IF req[o].by = t THEN [req[o] EXCEPT !.listens = FALSE]
                                   ELSE req[o]]
    IN
    /\ tab[t].open
    /\ IF tab[t].mine
       THEN /\ At(q, "idle")
            /\ req' = [deaf EXCEPT ![q] =
                 [NoRequest EXCEPT !.pc = First("release"), !.op = "release", !.by = t]]
       ELSE req' = deaf
    /\ tab' = [tab EXCEPT ![t] = Away]
    /\ UNCHANGED <<dbVars, hold, told, crossed, restarts>>

\* The interval of a mount that has acquired the lock.
Beat(t, q) ==
    /\ tab[t].open /\ tab[t].beats /\ At(q, "idle")
    /\ req' = Asked(q, t, "heartbeat")
    /\ UNCHANGED <<dbVars, hold, tab, told, crossed, restarts>>

\* People edit the list, whatever their tab believes, or take the lock over.
Use(t, q) ==
    /\ tab[t].open /\ At(q, "idle")
    /\ \E op \in Offered : req' = Asked(q, t, op)
    /\ UNCHANGED <<dbVars, hold, tab, told, crossed, restarts>>

\* The answer reaches the tab, and a 200 for the lock makes it the tab's own,
\* whoever holds it by now.
Heard(t, op, code) ==
    CASE op = "acquire" /\ code = "ok"         -> [t EXCEPT !.mine = TRUE, !.beats = TRUE]
      [] op = "acquire" /\ code = "conflict"   -> [t EXCEPT !.mine = FALSE]
      [] op = "heartbeat" /\ code = "conflict" -> [t EXCEPT !.mine = FALSE, !.beats = FALSE]
      [] op = "takeOver" /\ code = "ok"        -> [t EXCEPT !.mine = TRUE]
      [] OTHER                                 -> t

Answer(q) ==
    LET r == req[q] IN
    /\ At(q, "answer")
    /\ req' = [req EXCEPT ![q] = NoRequest]
    /\ tab' = IF r.listens THEN [tab EXCEPT ![r.by] = Heard(@, r.op, r.code)] ELSE tab
    /\ UNCHANGED <<dbVars, hold, told, crossed, restarts>>

\* A tab hears an event late or not at all (see WsHub), and starts no heartbeat.
Notice(t) ==
    /\ tab[t].open
    /\ told # Silence
    /\ tab' = [tab EXCEPT ![t].mine = told = {Owner[t]}]
    /\ UNCHANGED <<dbVars, hold, req, told, crossed, restarts>>

\* Locks and requests live in the process.
Restart ==
    /\ restarts < MaxRestarts
    /\ restarts' = restarts + 1
    /\ hold' = NoHold
    /\ req' = [q \in Request |-> NoRequest]
    /\ told' = Silence
    /\ crossed' = FALSE
    /\ UNCHANGED <<dbVars, tab>>

RequestStep(q) ==
    \/ Check(q) \/ Touch(q) \/ Acquire(q) \/ TakeOver(q) \/ Look(q) \/ Release(q)
    \/ Tell(q) \/ Write(q) \/ Answer(q)

LockNext ==
    \/ \E q \in Request : RequestStep(q)
    \/ \E t \in Tab, q \in Request : Mount(t, q) \/ Unmount(t, q) \/ Beat(t, q) \/ Use(t, q)
    \/ \E t \in Tab : Notice(t)
    \/ Tick \/ Sweep \/ Restart

\* Handlers end; the interval of a mounted tab fires again and again, and a
\* browser has a connection for it now and then.
LockFairness ==
    /\ \A q \in Request : WF_vars(RequestStep(q))
    /\ \A t \in Tab : SF_vars(\E q \in Request : Beat(t, q))

LockSpec == LockInit /\ [][LockNext]_vars /\ LockFairness

-----------------------------------------------------------------------------
\* A live hold ends early only by a take-over, or by a release that a tab of its
\* own user has asked for: no other user's acquire, write or late release takes
\* it away ("stale releases from old sessions must not clobber a fresh holder").
HoldLostRightly ==
    [][\A u \in User :
         Holder = u /\ Holder' # u /\ ~Expired' /\ restarts' = restarts =>
             \E q \in Request :
                 \/ At(q, "release") /\ By(q) = u
                 \/ At(q, "take") /\ By(q) = Holder']_vars

\* Lock changes that do not overlap are announced truthfully: when no handler
\* has one to announce, the event that was told last names the holder.
AnnouncedHolder ==
    (~crossed /\ Holder # NoUser /\ \A q \in Request : req[q].pc \notin {"tell", "release"})
        => told = {Holder}

\* Both of them.
LockSound == LockTypeOK /\ AnnouncedHolder

\* A write that is refused the lock with a 409 changes nothing: "Another user
\* holds: 409 with the current holder, returns a non-nil error"
\* (lists_lock.go:170).
RefusedWritesNothing ==
    [][\A q \in Request :
         At(q, "write") /\ req'[q].pc # "write" /\ req[q].code = "conflict"
             => UNCHANGED dbVars]_vars

\* "Heartbeat while mounted and owner" (useListLock.ts:78).
OwnerBeats == \A t \in Tab : tab[t].open /\ tab[t].mine => tab[t].beats
=============================================================================

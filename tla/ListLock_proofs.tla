--------------------------- MODULE ListLock_proofs ---------------------------
(***************************************************************************)
(* That a live hold is lost rightly, and that lock changes which do not    *)
(* overlap are announced truthfully (ListLock), and that the hub closes no *)
(* channel twice and the tabs see all that is committed (WsHub, ListSync), *)
(* for any users, tabs, requests, inactivity limit and buffers.            *)
(***************************************************************************)
EXTENDS ListLock, ListSync, TLAPS

USE LockAssumption

-----------------------------------------------------------------------------
(* Which operation can be where.                                           *)

Fits(r) ==
  /\ r.pc = "check" => r.op \notin {"rename", "drop"}
  /\ r.pc = "touch" => r.op \in {"heartbeat", "edit", "rename"}
  /\ r.pc = "acquire" => r.op \in {"acquire", "edit", "rename"}
  /\ r.pc = "take" => r.op = "takeOver"
  /\ r.pc \in {"look", "release"} => r.op = "release"

Requested(r) == r \in RequestState /\ (r.pc # "idle" => r.by \in Tab) /\ Fits(r)

LTyped ==
  /\ there \in BOOLEAN /\ writes \in 0..MaxWrites
  /\ hold \in [user : User \cup {NoUser}, age : 0..(TTL + 1)]
  /\ \A q \in Request : Requested(req[q])
  /\ req \in [Request -> RequestState]
  /\ tab \in [Tab -> TabState]
  /\ told \in Event \cup {Silence} /\ crossed \in BOOLEAN
  /\ restarts \in 0..MaxRestarts

(* A request that has seen its user as the holder finds it still so, or    *)
(* nobody, unless changes have crossed.                                    *)
OwnStands ==
  ~crossed => \A q \in Request : At(q, "release") /\ req[q].own
                                   => hold.user \in {By(q), NoUser}

(* The holder has been announced, or is going to be, and nobody is going   *)
(* to announce another.                                                    *)
ToldOrTelling ==
  ~crossed /\ Holder # NoUser =>
    /\ \A q \in Request : At(q, "tell") => req[q].op # "release" /\ By(q) = Holder
    /\ told = {Holder} \/ \E q \in Request : At(q, "tell")

LInv == LTyped /\ OwnStands /\ ToldOrTelling

-----------------------------------------------------------------------------
(* The requests.                                                           *)

LEMMA NoRequestFits == NoRequest \in RequestState /\ Requested(NoRequest)
BY DEF NoRequest, RequestState, Requested, Fits, PC, Op, LockOp

LEMMA NoHoldType == NoHold \in [user : User \cup {NoUser}, age : 0..(TTL + 1)]
<1>1. 0 \in 0..(TTL + 1)
  OBVIOUS
<1>2. QED
  BY <1>1 DEF NoHold

LEMMA HolderType ==
  ASSUME LTyped
  PROVE  /\ Holder \in User \cup {NoUser} /\ hold.user \in User \cup {NoUser}
         /\ hold.age \in 0..(TTL + 1)
         /\ Holder # NoUser => Holder = hold.user
         /\ \A q \in Request : req[q].pc # "idle" => By(q) \in User
BY DEF LTyped, Holder, By, Requested

\* One request gets another state, the rest stay what they are.
LEMMA OneMoves ==
  ASSUME LTyped, NEW q \in Request, NEW r \in RequestState, Fits(r),
         r.pc = "idle" \/ r.by \in Tab, req' = [req EXCEPT ![q] = r]
  PROVE  /\ req' \in [Request -> RequestState] /\ \A o \in Request : Requested(req'[o])
         /\ req'[q] = r /\ \A o \in Request \ {q} : req'[o] = req[o]
BY DEF LTyped, Requested

\* What a request is once its handler has gone on, with an answer written or not.
GoesOn(q, pc, r) ==
  /\ req' = [req EXCEPT ![q] = r] /\ r.pc = pc
  /\ pc # "idle" => r.op = req[q].op /\ r.by = req[q].by /\ r.own = req[q].own

LEMMA Goes ==
  ASSUME LTyped, NEW q \in Request, NEW pc \in PC, Goto(q, pc)
  PROVE  \E r \in RequestState : GoesOn(q, pc, r) /\ (pc = "idle" => r = NoRequest)
<1>1. req \in [Request -> RequestState] /\ req[q] \in RequestState
  BY DEF LTyped
<1>2. CASE pc = "idle"
  <2>1. req' = [req EXCEPT ![q] = NoRequest] /\ NoRequest.pc = "idle"
    BY <1>2 DEF Goto, NoRequest
  <2>2. QED
    BY <1>2, <2>1, NoRequestFits DEF GoesOn
<1>3. CASE pc # "idle"
  <2>1. PICK r : r = [req[q] EXCEPT !.pc = pc]
    OBVIOUS
  <2>2. r \in RequestState /\ r.pc = pc /\ r.op = req[q].op /\ r.by = req[q].by /\ r.own = req[q].own
    BY <1>1, <2>1 DEF RequestState
  <2>3. req' = [req EXCEPT ![q] = r]
    BY <1>3, <2>1 DEF Goto
  <2>4. QED
    BY <1>3, <2>2, <2>3 DEF GoesOn
<1>4. QED
  BY <1>2, <1>3

LEMMA GoesWith ==
  ASSUME LTyped, NEW q \in Request, NEW pc \in PC, NEW code \in {"missing", "conflict"},
         GotoWith(q, pc, code)
  PROVE  \E r \in RequestState : GoesOn(q, pc, r)
<1>1. req \in [Request -> RequestState] /\ req[q] \in RequestState
  BY DEF LTyped
<1>2. PICK w \in {"ok", "missing", "conflict"} : w = Written(q, code)
  BY <1>1 DEF Written, RequestState
<1>3. PICK r : r = [req[q] EXCEPT !.pc = pc, !.code = w]
  OBVIOUS
<1>4. /\ r \in RequestState /\ r.pc = pc
      /\ r.op = req[q].op /\ r.by = req[q].by /\ r.own = req[q].own
  BY <1>1, <1>3 DEF RequestState
<1>5. req' = [req EXCEPT ![q] = r]
  BY <1>1, <1>2, <1>3 DEF GotoWith
<1>6. QED
  BY <1>4, <1>5 DEF GoesOn

\* The lock is as it was, or its hold has grown older or gone: what will be told
\* is still right if no request comes to a release or to its event.
LEMMA QuietKeeps ==
  ASSUME LInv, LTyped', UNCHANGED <<told, crossed>>,
         hold'.user \in {hold.user, NoUser}, Holder' \in {Holder, NoUser},
         \A q \in Request :
           req'[q].pc \in {"tell", "release"} \/ req[q].pc = "tell" =>
             /\ req'[q].pc = req[q].pc /\ req'[q].op = req[q].op
             /\ req'[q].by = req[q].by /\ req'[q].own = req[q].own
  PROVE  LInv'
<1>1. OwnStands'
  BY DEF LInv, OwnStands, At, By
<1>2. ToldOrTelling'
  BY DEF LInv, ToldOrTelling, At, By
<1>3. QED
  BY <1>1, <1>2 DEF LInv

\* The same of a handler that goes on to something else.
LEMMA QuietGoes ==
  ASSUME LInv, NEW q \in Request, NEW pc \in PC \ {"tell", "release"}, req[q].pc \notin {"tell", "idle"},
         NEW r \in RequestState, GoesOn(q, pc, r), Fits(r),
         hold' \in [user : User \cup {NoUser}, age : 0..(TTL + 1)],
         hold'.user \in {hold.user, NoUser}, Holder' \in {Holder, NoUser},
         there' \in BOOLEAN, writes' \in 0..MaxWrites, tab' \in [Tab -> TabState],
         UNCHANGED <<told, crossed, restarts>>
  PROVE  LInv'
<1>1. r.pc = "idle" \/ r.by \in Tab
  BY DEF LInv, LTyped, Requested, GoesOn
<1>2. /\ req' \in [Request -> RequestState] /\ \A o \in Request : Requested(req'[o])
      /\ req'[q] = r /\ \A o \in Request \ {q} : req'[o] = req[o]
  BY <1>1, OneMoves DEF LInv, GoesOn
<1>3. LTyped'
  BY <1>2 DEF LInv, LTyped
<1>4. \A o \in Request :
        req'[o].pc \in {"tell", "release"} \/ req[o].pc = "tell" =>
          /\ req'[o].pc = req[o].pc /\ req'[o].op = req[o].op
          /\ req'[o].by = req[o].by /\ req'[o].own = req[o].own
  BY <1>2 DEF GoesOn
<1>5. QED
  BY <1>3, <1>4, QuietKeeps

\* A tab asks for something: a new request.
LEMMA AskedKeeps ==
  ASSUME LInv, NEW q \in Request, NEW t \in Tab, NEW op \in Op,
         At(q, "idle"), req' = Asked(q, t, op), tab' \in [Tab -> TabState],
         UNCHANGED <<dbVars, hold, told, crossed, restarts>>
  PROVE  LInv'
<1>0. (op \in {"acquire", "heartbeat", "takeOver"}) \in BOOLEAN
  OBVIOUS
<1>1. PICK b \in BOOLEAN : b = (op \in {"acquire", "heartbeat", "takeOver"})
  BY <1>0, Zenon
<1>2. PICK r : r = [NoRequest EXCEPT !.pc = First(op), !.op = op, !.by = t, !.listens = b]
  OBVIOUS
<1>3. r = [pc |-> First(op), op |-> op, by |-> t, code |-> "ok", listens |-> b, own |-> FALSE]
  BY <1>2 DEF NoRequest
<1>4. First(op) \in {"touch", "write", "check"}
  BY DEF First
<1>5. r \in RequestState /\ r.pc \in {"touch", "write", "check"} /\ r.by = t /\ Fits(r)
  <2>1. op \in Op
    BY DEF Op, LockOp
  <2>2. r \in RequestState /\ r.pc \in {"touch", "write", "check"} /\ r.by = t
    BY <1>3, <1>4, <2>1 DEF RequestState, PC
  <2>3. Fits(r)
    BY <1>3, <2>1 DEF Fits, First, Op, LockOp
  <2>4. QED
    BY <2>2, <2>3
<1>6. req' = [req EXCEPT ![q] = r]
  BY <1>1, <1>2 DEF Asked
<1>7. /\ req' \in [Request -> RequestState] /\ \A o \in Request : Requested(req'[o])
      /\ req'[q] = r /\ \A o \in Request \ {q} : req'[o] = req[o]
  BY <1>5, <1>6, OneMoves DEF LInv
<1>8. LTyped'
  BY <1>7 DEF LInv, LTyped, dbVars
<1>9. Holder' = Holder
  BY DEF Holder, Expired
<1>10. QED
  BY <1>5, <1>7, <1>8, <1>9, QuietKeeps DEF At

-----------------------------------------------------------------------------
(* The handlers.                                                           *)

LEMMA CheckKeeps ==
  ASSUME LInv, NEW q \in Request, Check(q)
  PROVE  LInv'
<1>1. PICK op : op = req[q].op
  OBVIOUS
<1>2. /\ req[q].pc = "check" /\ op \in Op \ {"rename", "drop"}
      /\ UNCHANGED <<dbVars, hold, tab, told, crossed, restarts>>
  BY <1>1 DEF LInv, LTyped, Requested, Fits, RequestState, Check, At
<1>3. Found(op) \in {"touch", "write", "acquire", "take", "look"}
  BY <1>2 DEF Found, Op, LockOp
<1>4. Holder' = Holder
  BY <1>2 DEF Holder, Expired
<1>5. ASSUME NEW pc \in {"idle", "touch", "write", "acquire", "take", "look"},
             NEW r \in RequestState, GoesOn(q, pc, r), pc = "idle" \/ pc = Found(op)
      PROVE  LInv'
  <2>1. Fits(r)
    BY <1>1, <1>2, <1>5 DEF Fits, GoesOn, Found, Op, LockOp
  <2>2. pc \in PC \ {"tell", "release"}
    BY DEF PC
  <2>3. QED
    BY <1>2, <1>4, <1>5, <2>1, <2>2, QuietGoes DEF LInv, LTyped, dbVars
<1>6. CASE Goto(q, Found(op))
  <2>1. \E r \in RequestState : GoesOn(q, Found(op), r)
    BY <1>3, <1>6, Goes DEF LInv, PC
  <2>2. QED
    BY <1>3, <1>5, <2>1
<1>7. CASE GotoWith(q, Found(op), "missing")
  <2>1. \E r \in RequestState : GoesOn(q, Found(op), r)
    BY <1>3, <1>7, GoesWith DEF LInv, PC
  <2>2. QED
    BY <1>3, <1>5, <2>1
<1>8. CASE Goto(q, "idle")
  <2>1. \E r \in RequestState : GoesOn(q, "idle", r)
    BY <1>8, Goes DEF LInv, PC
  <2>2. QED
    BY <1>5, <2>1
<1>9. QED
  BY <1>1, <1>6, <1>7, <1>8 DEF Check

\* A hold that is touched is its holder's still.
LEMMA TouchedHolds ==
  ASSUME LTyped, NEW u \in User, hold' = Touched(u)
  PROVE  /\ hold' \in [user : User \cup {NoUser}, age : 0..(TTL + 1)]
         /\ hold'.user = hold.user /\ Holder' = Holder
<1>1. hold \in [user : User \cup {NoUser}, age : 0..(TTL + 1)]
  BY DEF LTyped
<1>2. CASE Holder = u
  <2>1. hold' = [hold EXCEPT !.age = 0] /\ hold.user = u
    BY <1>2, HolderType DEF Touched
  <2>2. hold'.age = 0 /\ hold'.user = u
    BY <1>1, <2>1
  <2>3. ~Expired'
    BY <2>2 DEF Expired
  <2>4. QED
    BY <1>1, <1>2, <2>1, <2>2, <2>3 DEF Holder
<1>3. CASE Holder # u
  BY <1>1, <1>3 DEF Touched, Holder, Expired
<1>4. QED
  BY <1>2, <1>3

LEMMA TouchKeeps ==
  ASSUME LInv, NEW q \in Request, Touch(q)
  PROVE  LInv'
<1>1. PICK op : op = req[q].op
  OBVIOUS
<1>2. /\ req[q].pc = "touch" /\ op \in {"heartbeat", "edit", "rename"}
      /\ hold' = Touched(By(q)) /\ UNCHANGED <<dbVars, tab, told, crossed, restarts>>
  BY <1>1 DEF LInv, LTyped, Requested, Fits, Touch, At
<1>3. By(q) \in User
  BY <1>2, HolderType DEF LInv
<1>4. /\ hold' \in [user : User \cup {NoUser}, age : 0..(TTL + 1)]
      /\ hold'.user = hold.user /\ Holder' = Holder
  BY <1>2, <1>3, TouchedHolds DEF LInv
<1>5. Proceed(op) \in {"answer", "write"}
  BY <1>2 DEF Proceed, LockOp
<1>6. ASSUME NEW pc \in {"answer", "write", "acquire"}, NEW r \in RequestState, GoesOn(q, pc, r),
             pc = "acquire" => op # "heartbeat"
      PROVE  LInv'
  <2>1. Fits(r)
    BY <1>1, <1>2, <1>6 DEF Fits, GoesOn
  <2>2. pc \in PC \ {"tell", "release"}
    BY DEF PC
  <2>3. QED
    BY <1>2, <1>4, <1>6, <2>1, <2>2, QuietGoes DEF LInv, LTyped, dbVars
<1>7. CASE Goto(q, Proceed(op))
  <2>1. \E r \in RequestState : GoesOn(q, Proceed(op), r)
    BY <1>5, <1>7, Goes DEF LInv, PC
  <2>2. QED
    BY <1>5, <1>6, <2>1
<1>8. CASE GotoWith(q, "answer", "conflict")
  <2>1. \E r \in RequestState : GoesOn(q, "answer", r)
    BY <1>8, GoesWith DEF LInv, PC
  <2>2. QED
    BY <1>6, <2>1
<1>9. CASE Goto(q, "acquire") /\ op # "heartbeat"
  <2>1. \E r \in RequestState : GoesOn(q, "acquire", r)
    BY <1>9, Goes DEF LInv, PC
  <2>2. QED
    BY <1>6, <1>9, <2>1
<1>10. QED
  BY <1>1, <1>7, <1>8, <1>9 DEF Touch

\* One that takes the lock has it to announce, and nobody else has anything,
\* unless changes cross.
LEMMA TakenKeeps ==
  ASSUME LInv, NEW q \in Request, req[q].pc # "idle", req[q].op # "release",
         hold' = [user |-> By(q), age |-> 0], Goto(q, "tell"), Crosses(q),
         UNCHANGED <<dbVars, tab, told, restarts>>
  PROVE  LInv'
<1>1. PICK r \in RequestState : GoesOn(q, "tell", r)
  BY Goes DEF LInv, PC
<1>2. Fits(r) /\ r.by \in Tab /\ r.pc = "tell" /\ r.by = req[q].by /\ r.op = req[q].op
  BY <1>1 DEF GoesOn, Fits, LInv, LTyped, Requested
<1>3. /\ req' \in [Request -> RequestState] /\ \A o \in Request : Requested(req'[o])
      /\ req'[q] = r /\ \A o \in Request \ {q} : req'[o] = req[o]
  BY <1>1, <1>2, OneMoves DEF LInv, GoesOn
<1>4. By(q) \in User
  BY HolderType DEF LInv
<1>5. LTyped'
  <2>1. hold' \in [user : User \cup {NoUser}, age : 0..(TTL + 1)]
    BY <1>4
  <2>2. crossed' \in BOOLEAN
    BY DEF Crosses
  <2>3. QED
    BY <1>3, <2>1, <2>2 DEF LInv, LTyped, dbVars
<1>6. Holder' = By(q)
  BY DEF Holder, Expired
<1>7. ~crossed' => \A o \in Request \ {q} : req'[o].pc \notin {"tell", "release"}
  BY <1>3 DEF Crosses
<1>8. OwnStands' /\ ToldOrTelling'
  BY <1>2, <1>3, <1>6, <1>7 DEF OwnStands, ToldOrTelling, At, By
<1>9. QED
  BY <1>5, <1>8 DEF LInv

LEMMA AcquireKeeps ==
  ASSUME LInv, NEW q \in Request, Acquire(q)
  PROVE  LInv'
<1>1. PICK op : op = req[q].op
  OBVIOUS
<1>2. /\ req[q].pc = "acquire" /\ op \in {"acquire", "edit", "rename"}
      /\ hold' = Acquired(By(q)) /\ UNCHANGED <<dbVars, tab, told, restarts>>
  BY <1>1 DEF LInv, LTyped, Requested, Fits, Acquire, At
<1>3. CASE Granted(By(q))
  <2>1. Goto(q, "tell") /\ Crosses(q) /\ hold' = [user |-> By(q), age |-> 0]
    BY <1>2, <1>3 DEF Acquire, Acquired
  <2>2. QED
    BY <1>1, <1>2, <2>1, TakenKeeps
<1>4. CASE ~Granted(By(q))
  <2>1. GotoWith(q, Proceed(op), "conflict") /\ UNCHANGED crossed /\ hold' = hold
    BY <1>1, <1>2, <1>4 DEF Acquire, Acquired, AfterRefusal
  <2>2. Proceed(op) \in {"answer", "write"}
    BY <1>2 DEF Proceed, LockOp
  <2>3. Proceed(op) \in PC \ {"tell", "release", "idle"}
    BY <2>2 DEF PC
  <2>4. PICK r \in RequestState : GoesOn(q, Proceed(op), r)
    BY <2>1, <2>3, GoesWith DEF LInv
  <2>5. Fits(r)
    BY <2>2, <2>4 DEF Fits, GoesOn
  <2>6. Holder' = Holder
    BY <2>1 DEF Holder, Expired
  <2>7. QED
    BY <1>2, <2>1, <2>3, <2>4, <2>5, <2>6, QuietGoes DEF LInv, LTyped, dbVars
<1>5. QED
  BY <1>3, <1>4

LEMMA TakeOverKeeps ==
  ASSUME LInv, NEW q \in Request, TakeOver(q)
  PROVE  LInv'
<1>1. req[q].pc = "take" /\ req[q].op = "takeOver"
  BY DEF LInv, LTyped, Requested, Fits, TakeOver, At
<1>2. QED
  BY <1>1, TakenKeeps DEF TakeOver, TakenOver

LEMMA LookKeeps ==
  ASSUME LInv, NEW q \in Request, Look(q)
  PROVE  LInv'
<1>1. /\ req[q].pc = "look" /\ req[q].op = "release" /\ By(q) \in User
      /\ UNCHANGED <<dbVars, hold, tab, told, crossed, restarts>>
  BY HolderType DEF LInv, LTyped, Requested, Fits, Look, At
<1>2. req[q] \in RequestState /\ req[q].by \in Tab
  BY <1>1 DEF LInv, LTyped, Requested
<1>3. (Holder = By(q)) \in BOOLEAN
  OBVIOUS
<1>4. PICK b \in BOOLEAN : b = (Holder = By(q))
  BY <1>3, Zenon
<1>5. PICK r : r = [req[q] EXCEPT !.pc = "release", !.own = b]
  OBVIOUS
<1>6. /\ r \in RequestState /\ r.pc = "release" /\ r.own = b
      /\ r.op = "release" /\ r.by = req[q].by
  BY <1>1, <1>2, <1>5 DEF RequestState, PC
<1>7. req' = [req EXCEPT ![q] = r]
  BY <1>4, <1>5 DEF Look, LInv, LTyped
<1>8. /\ req' \in [Request -> RequestState] /\ \A o \in Request : Requested(req'[o])
      /\ req'[q] = r /\ \A o \in Request \ {q} : req'[o] = req[o]
  <2>1. Fits(r)
    BY <1>6 DEF Fits
  <2>2. QED
    BY <1>2, <1>6, <1>7, <2>1, OneMoves DEF LInv
<1>9. LTyped'
  BY <1>1, <1>8 DEF LInv, LTyped, dbVars
<1>10. b => hold.user = By(q)
  BY <1>1, <1>4, HolderType DEF LInv
<1>11. OwnStands'
  <2>1. ASSUME ~crossed, NEW o \in Request, req'[o].pc = "release", req'[o].own
        PROVE  hold.user \in {Owner[req'[o].by], NoUser}
    <3>1. CASE o = q
      BY <1>6, <1>8, <1>10, <2>1, <3>1 DEF By
    <3>2. CASE o # q
      BY <1>8, <2>1, <3>2 DEF LInv, OwnStands, At, By
    <3>3. QED
      BY <3>1, <3>2
  <2>2. QED
    BY <1>1, <2>1 DEF OwnStands, At, By
<1>12. ToldOrTelling'
  <2>1. Holder' = Holder
    BY <1>1 DEF Holder, Expired
  <2>2. \A o \in Request : req'[o].pc = "tell" <=> req[o].pc = "tell"
    BY <1>1, <1>6, <1>8
  <2>3. \A o \in Request : req'[o].op = req[o].op /\ req'[o].by = req[o].by
    BY <1>1, <1>6, <1>8
  <2>4. QED
    BY <1>1, <2>1, <2>2, <2>3 DEF LInv, ToldOrTelling, At, By
<1>13. QED
  BY <1>9, <1>11, <1>12 DEF LInv

\* A release that was looked up as one's own still is, or nobody holds the lock.
LEMMA ReleaseKeeps ==
  ASSUME LInv, NEW q \in Request, Release(q)
  PROVE  LInv'
<1>1. /\ req[q].pc = "release" /\ req[q].op = "release" /\ By(q) \in User
      /\ hold' = Released(By(q)) /\ Goto(q, AfterRelease(q)) /\ Crosses(q)
      /\ UNCHANGED <<dbVars, tab, told, restarts>>
  BY HolderType DEF LInv, LTyped, Requested, Fits, Release, At
<1>2. PICK pc : pc = AfterRelease(q)
  OBVIOUS
<1>3. pc = (IF req[q].own THEN "tell" ELSE "idle") /\ pc \in {"tell", "idle"}
  BY <1>2 DEF AfterRelease
<1>4. PICK r \in RequestState : GoesOn(q, pc, r)
  BY <1>1, <1>2, <1>3, Goes DEF LInv, PC
<1>5. r.pc = pc /\ Fits(r) /\ (pc = "idle" \/ r.by \in Tab)
  BY <1>1, <1>3, <1>4 DEF GoesOn, Fits, LInv, LTyped, Requested
<1>6. /\ req' \in [Request -> RequestState] /\ \A o \in Request : Requested(req'[o])
      /\ req'[q] = r /\ \A o \in Request \ {q} : req'[o] = req[o]
  BY <1>4, <1>5, OneMoves DEF LInv, GoesOn
<1>7. LTyped'
  <2>1. hold' \in [user : User \cup {NoUser}, age : 0..(TTL + 1)]
    BY <1>1 DEF Released, NoHold, LInv, LTyped
  <2>2. crossed' \in BOOLEAN
    BY <1>1 DEF Crosses
  <2>3. QED
    BY <1>1, <1>6, <2>1, <2>2 DEF LInv, LTyped, dbVars
<1>8. ~crossed' => \A o \in Request \ {q} : req[o].pc \notin {"tell", "release"}
  BY <1>1 DEF Crosses
<1>9. OwnStands'
  BY <1>3, <1>5, <1>6, <1>8 DEF OwnStands, At
<1>10. ASSUME ~crossed', Holder' # NoUser
       PROVE  told = {Holder'} /\ \A o \in Request : req'[o].pc # "tell"
  <2>1. hold.user # By(q)
    <3>1. ASSUME hold.user = By(q) PROVE FALSE
      <4>1. hold'.user = NoUser
        BY <1>1, <3>1 DEF Released, NoHold
      <4>2. QED
        BY <1>10, <4>1 DEF Holder
    <3>2. QED
      BY <3>1
  <2>2. hold' = hold /\ Holder' = Holder /\ Holder # NoUser
    BY <1>1, <1>10, <2>1 DEF Released, Holder, Expired
  <2>3. ~crossed
    BY <1>1, <1>10, <2>2 DEF Crosses
  <2>4. told = {Holder}
    BY <1>1, <1>8, <1>10, <2>2, <2>3 DEF LInv, ToldOrTelling, At
  <2>5. ~req[q].own
    <3>1. Holder = hold.user
      BY <2>2, HolderType DEF LInv
    <3>2. QED
      BY <1>1, <2>1, <2>2, <2>3, <3>1 DEF LInv, OwnStands, At
  <2>6. QED
    BY <1>3, <1>5, <1>6, <1>8, <1>10, <2>2, <2>4, <2>5
<1>11. ToldOrTelling'
  BY <1>1, <1>10 DEF ToldOrTelling, At
<1>12. QED
  BY <1>7, <1>9, <1>11 DEF LInv

LEMMA TellKeeps ==
  ASSUME LInv, NEW q \in Request, Tell(q)
  PROVE  LInv'
<1>1. PICK op \in Op : op = req[q].op
  BY DEF LInv, LTyped, RequestState
<1>2. /\ req[q].pc = "tell" /\ By(q) \in User /\ Goto(q, Proceed(op))
      /\ told' = {IF op = "release" THEN NoUser ELSE By(q)}
      /\ UNCHANGED <<dbVars, hold, tab, crossed, restarts>>
  BY <1>1, HolderType DEF LInv, Tell, At
<1>3. Proceed(op) \in {"idle", "answer", "write"}
  BY DEF Proceed
<1>4. PICK r \in RequestState : GoesOn(q, Proceed(op), r)
  BY <1>2, <1>3, Goes DEF LInv, PC
<1>5. r.pc \in {"idle", "answer", "write"} /\ Fits(r) /\ (r.pc = "idle" \/ r.by \in Tab)
  BY <1>2, <1>3, <1>4 DEF GoesOn, Fits, LInv, LTyped, Requested
<1>6. /\ req' \in [Request -> RequestState] /\ \A o \in Request : Requested(req'[o])
      /\ req'[q] = r /\ \A o \in Request \ {q} : req'[o] = req[o]
  BY <1>4, <1>5, OneMoves DEF LInv, GoesOn
<1>7. LTyped'
  <2>1. told' \in Event
    BY <1>2 DEF Event
  <2>2. QED
    BY <1>2, <1>6, <2>1 DEF LInv, LTyped, dbVars
<1>8. OwnStands'
  BY <1>2, <1>5, <1>6 DEF LInv, OwnStands, At, By
<1>9. ToldOrTelling'
  <2>1. Holder' = Holder
    BY <1>2 DEF Holder, Expired
  <2>2. ASSUME ~crossed, Holder # NoUser
        PROVE  /\ told' = {Holder}
               /\ \A o \in Request : req'[o].pc = "tell" =>
                    req'[o].op # "release" /\ Owner[req'[o].by] = Holder
    <3>1. op # "release" /\ By(q) = Holder
      BY <1>1, <1>2, <2>2 DEF LInv, ToldOrTelling, At
    <3>2. \A o \in Request : req'[o].pc = "tell" => req'[o] = req[o] /\ At(o, "tell")
      BY <1>5, <1>6 DEF At
    <3>3. \A o \in Request : At(o, "tell") => req[o].op # "release" /\ Owner[req[o].by] = Holder
      BY <2>2 DEF LInv, ToldOrTelling, By
    <3>4. QED
      BY <1>2, <3>1, <3>2, <3>3
  <2>3. QED
    BY <1>2, <2>1, <2>2 DEF ToldOrTelling, At, By
<1>10. QED
  BY <1>7, <1>8, <1>9 DEF LInv

LEMMA WriteKeeps ==
  ASSUME LInv, NEW q \in Request, Write(q)
  PROVE  LInv'
<1>1. PICK r \in RequestState : GoesOn(q, "idle", r)
  BY Goes DEF LInv, PC, Write
<1>2. Fits(r)
  BY <1>1 DEF GoesOn, Fits
<1>3. writes' \in 0..MaxWrites /\ there' \in BOOLEAN
  BY DEF LInv, LTyped, Write
<1>4. Holder' = Holder
  BY DEF Write, Holder, Expired
<1>5. req[q].pc = "write" /\ "idle" \in PC \ {"tell", "release"}
  BY DEF Write, At, PC
<1>6. QED
  BY <1>1, <1>2, <1>3, <1>4, <1>5, QuietGoes DEF LInv, LTyped, Write

LEMMA AnswerKeeps ==
  ASSUME LInv, NEW q \in Request, Answer(q)
  PROVE  LInv'
<1>1. req[q].pc = "answer" /\ req' = [req EXCEPT ![q] = NoRequest]
      /\ UNCHANGED <<dbVars, hold, told, crossed, restarts>>
  BY DEF Answer, At
<1>2. GoesOn(q, "idle", NoRequest) /\ Fits(NoRequest) /\ NoRequest \in RequestState
  BY <1>1, NoRequestFits DEF GoesOn, NoRequest, Fits
<1>3. tab' \in [Tab -> TabState]
  <2>1. req[q].by \in Tab /\ tab \in [Tab -> TabState]
    BY <1>1 DEF LInv, LTyped, Requested
  <2>2. \A t \in TabState : \A op, code : Heard(t, op, code) \in TabState
    BY DEF Heard, TabState
  <2>3. QED
    BY <2>1, <2>2 DEF Answer
<1>4. Holder' = Holder
  BY <1>1 DEF Holder, Expired
<1>5. "idle" \in PC \ {"tell", "release"}
  BY DEF PC
<1>6. QED
  BY <1>1, <1>2, <1>3, <1>4, <1>5, QuietGoes DEF LInv, LTyped, dbVars

-----------------------------------------------------------------------------
(* The tabs, time and restarts.                                            *)

LEMMA MountKeeps ==
  ASSUME LInv, NEW t \in Tab, NEW q \in Request, Mount(t, q)
  PROVE  LInv'
<1>1. tab' \in [Tab -> TabState]
  BY DEF Mount, Away, TabState, LInv, LTyped
<1>2. "acquire" \in Op
  BY DEF Op, LockOp
<1>3. QED
  BY <1>1, <1>2, AskedKeeps DEF Mount

LEMMA UnmountKeeps ==
  ASSUME LInv, NEW t \in Tab, NEW q \in Request, Unmount(t, q)
  PROVE  LInv'
<1> DEFINE deaf == [o \in Request |-> IF req[o].by = t THEN [req[o] EXCEPT !.listens = FALSE]
                                      ELSE req[o]]
<1> DEFINE ask == [NoRequest EXCEPT !.pc = First("release"), !.op = "release", !.by = t]
<1>1. \A o \in Request :
        /\ deaf[o] \in RequestState /\ Requested(deaf[o])
        /\ deaf[o].pc = req[o].pc /\ deaf[o].op = req[o].op
        /\ deaf[o].by = req[o].by /\ deaf[o].own = req[o].own
  <2>1. ASSUME NEW o \in Request, NEW r, r = req[o] \/ r = [req[o] EXCEPT !.listens = FALSE]
        PROVE  /\ r \in RequestState /\ r.pc = req[o].pc /\ r.op = req[o].op
               /\ r.by = req[o].by /\ r.own = req[o].own
    BY <2>1 DEF LInv, LTyped, Requested, RequestState
  <2>2. ASSUME NEW o \in Request PROVE deaf[o] = req[o] \/ deaf[o] = [req[o] EXCEPT !.listens = FALSE]
    OBVIOUS
  <2>3. \A o \in Request : Requested(req[o])
    BY DEF LInv, LTyped
  <2>4. QED
    BY <2>1, <2>2, <2>3 DEF Requested, Fits
<1>2. ask \in RequestState /\ Requested(ask) /\ ask.pc = "check"
  <2>1. ask = [pc |-> "check", op |-> "release", by |-> t, code |-> "ok",
               listens |-> FALSE, own |-> FALSE]
    <3>1. First("release") = "check"
      BY DEF First
    <3>2. ask = [NoRequest EXCEPT !.pc = "check", !.op = "release", !.by = t]
      BY <3>1
    <3> HIDE DEF ask
    <3>3. QED
      BY <3>2 DEF NoRequest
  <2>2. QED
    BY <2>1 DEF Requested, RequestState, Fits, PC, Op, LockOp
<1>3. deaf \in [Request -> RequestState]
  BY <1>1
<1>4. \/ At(q, "idle") /\ req' = [deaf EXCEPT ![q] = ask]
      \/ req' = deaf
  BY DEF Unmount
<1> HIDE DEF deaf, ask
<1>5. /\ req' \in [Request -> RequestState] /\ \A o \in Request : Requested(req'[o])
      /\ \A o \in Request : req'[o].pc \in {"tell", "release"} \/ req[o].pc = "tell" =>
           /\ req'[o].pc = req[o].pc /\ req'[o].op = req[o].op
           /\ req'[o].by = req[o].by /\ req'[o].own = req[o].own
  BY <1>1, <1>2, <1>3, <1>4 DEF At
<1>6. tab' \in [Tab -> TabState] /\ UNCHANGED <<dbVars, hold, told, crossed, restarts>>
  BY DEF Unmount, Away, TabState, LInv, LTyped
<1>7. LTyped'
  BY <1>5, <1>6 DEF LInv, LTyped, dbVars
<1>8. Holder' = Holder
  BY <1>6 DEF Holder, Expired
<1>9. QED
  BY <1>5, <1>6, <1>7, <1>8, QuietKeeps

LEMMA AskingKeeps ==
  ASSUME LInv, NEW t \in Tab, NEW q \in Request, Beat(t, q) \/ Use(t, q)
  PROVE  LInv'
<1>1. tab' \in [Tab -> TabState]
  BY DEF Beat, Use, LInv, LTyped
<1>2. PICK op \in Op : At(q, "idle") /\ req' = Asked(q, t, op)
  BY DEF Beat, Use, Op, LockOp
<1>3. QED
  BY <1>1, <1>2, AskedKeeps DEF Beat, Use

\* Nothing happens to the requests, and the hold gets older, at most.
LEMMA TimeKeeps ==
  ASSUME LInv, (\E t \in Tab : Notice(t)) \/ Tick \/ Sweep \/ UNCHANGED vars
  PROVE  LInv'
<1>1. UNCHANGED <<dbVars, req, told, crossed, restarts>>
  BY DEF Notice, Tick, Sweep, vars
<1>2. hold \in [user : User \cup {NoUser}, age : 0..(TTL + 1)]
  BY DEF LInv, LTyped
<1>3. /\ hold' \in [user : User \cup {NoUser}, age : 0..(TTL + 1)]
      /\ hold'.user \in {hold.user, NoUser} /\ Holder' \in {Holder, NoUser}
  <2>1. CASE hold' = hold
    BY <1>2, <2>1 DEF Holder, Expired
  <2>2. CASE Tick
    <3>1. /\ hold' = [hold EXCEPT !.age = hold.age + 1] /\ hold.age \in 0..TTL
          /\ hold.age + 1 \in 0..(TTL + 1)
      BY <1>2, <2>2 DEF Tick
    <3>2. hold'.user = hold.user /\ hold'.age = hold.age + 1
      BY <1>2, <3>1
    <3>3. hold' \in [user : User \cup {NoUser}, age : 0..(TTL + 1)]
      BY <1>2, <3>1
    <3>4. ~Expired
      BY <3>1 DEF Expired
    <3>5. QED
      BY <3>2, <3>3, <3>4 DEF Holder
  <2>3. CASE Sweep
    <3>1. hold' = NoHold
      BY <2>3 DEF Sweep
    <3>2. QED
      BY <3>1 DEF NoHold, Holder
  <2>4. QED
    BY <2>1, <2>2, <2>3 DEF Notice, vars
<1>4. tab' \in [Tab -> TabState]
  <2>1. ASSUME NEW t \in Tab, Notice(t) PROVE tab' \in [Tab -> TabState]
    <3>0. (told = {Owner[t]}) \in BOOLEAN
      OBVIOUS
    <3>1. PICK b \in BOOLEAN : b = (told = {Owner[t]})
      BY <3>0, Zenon
    <3>2. tab' = [tab EXCEPT ![t].mine = b]
      BY <2>1, <3>1 DEF Notice
    <3>3. QED
      BY <3>2 DEF LInv, LTyped, TabState
  <2>2. QED
    BY <2>1 DEF Tick, Sweep, vars, LInv, LTyped
<1>5. LTyped'
  BY <1>1, <1>3, <1>4 DEF LInv, LTyped, dbVars
<1>6. QED
  BY <1>1, <1>3, <1>5, QuietKeeps

LEMMA RestartKeeps ==
  ASSUME LInv, Restart
  PROVE  LInv'
<1>1. /\ hold' = NoHold /\ req' = [q \in Request |-> NoRequest] /\ told' = Silence
      /\ crossed' = FALSE /\ restarts' \in 0..MaxRestarts /\ UNCHANGED <<dbVars, tab>>
  BY DEF Restart, LInv, LTyped
<1>2. LTyped'
  <2>1. hold' \in [user : User \cup {NoUser}, age : 0..(TTL + 1)]
    BY <1>1, NoHoldType
  <2>2. req' \in [Request -> RequestState] /\ \A q \in Request : Requested(req'[q])
    BY <1>1, NoRequestFits
  <2>3. QED
    BY <1>1, <2>1, <2>2 DEF LInv, LTyped, dbVars
<1>3. \A q \in Request : req'[q].pc = "idle"
  BY <1>1 DEF NoRequest
<1>4. Holder' = NoUser
  BY <1>1 DEF Holder, NoHold
<1>5. QED
  BY <1>2, <1>3, <1>4 DEF LInv, OwnStands, ToldOrTelling, At

-----------------------------------------------------------------------------

LEMMA LockStep == LInv /\ [LockNext]_vars => LInv'
<1> SUFFICES ASSUME LInv, [LockNext]_vars PROVE LInv'
  OBVIOUS
<1>1. ASSUME NEW q \in Request, RequestStep(q) PROVE LInv'
  BY <1>1, CheckKeeps, TouchKeeps, AcquireKeeps, TakeOverKeeps, LookKeeps, ReleaseKeeps,
     TellKeeps, WriteKeeps, AnswerKeeps DEF RequestStep
<1>2. ASSUME NEW t \in Tab, NEW q \in Request,
             Mount(t, q) \/ Unmount(t, q) \/ Beat(t, q) \/ Use(t, q)
      PROVE  LInv'
  BY <1>2, MountKeeps, UnmountKeeps, AskingKeeps
<1>3. CASE (\E t \in Tab : Notice(t)) \/ Tick \/ Sweep \/ UNCHANGED vars
  BY <1>3, TimeKeeps
<1>4. CASE Restart
  BY <1>4, RestartKeeps
<1>5. QED
  BY <1>1, <1>2, <1>3, <1>4 DEF LockNext

LEMMA LockAlways == LockSpec => []LInv
<1>1. LockInit => LInv
  <2> SUFFICES ASSUME LockInit PROVE LInv
    OBVIOUS
  <2>1. LTyped
    <3>1. hold \in [user : User \cup {NoUser}, age : 0..(TTL + 1)]
      BY NoHoldType DEF LockInit
    <3>2. req \in [Request -> RequestState] /\ \A q \in Request : Requested(req[q])
      BY NoRequestFits DEF LockInit
    <3>3. tab \in [Tab -> TabState]
      BY DEF LockInit, Away, TabState
    <3>4. there \in BOOLEAN /\ writes \in 0..MaxWrites /\ restarts \in 0..MaxRestarts
      BY DEF LockInit
    <3>5. told \in Event \cup {Silence} /\ crossed \in BOOLEAN
      BY DEF LockInit
    <3>6. QED
      BY <3>1, <3>2, <3>3, <3>4, <3>5 DEF LTyped
  <2>2. Holder = NoUser /\ \A q \in Request : req[q].pc = "idle"
    BY DEF LockInit, Holder, NoHold, NoRequest
  <2>3. QED
    BY <2>1, <2>2 DEF LInv, OwnStands, ToldOrTelling, At
<1>2. QED
  BY <1>1, LockStep, PTL DEF LockSpec

(* The types; and when no change of the lock crosses another and none has  *)
(* still to be announced, the event told last names the holder.            *)
THEOREM LockIsSound == LockSpec => []LockSound
<1>1. LInv => LockSound
  <2> SUFFICES ASSUME LInv PROVE LockSound
    OBVIOUS
  <2>1. LockTypeOK
    BY DEF LInv, LTyped, LockTypeOK, Requested
  <2>2. AnnouncedHolder
    BY DEF LInv, ToldOrTelling, AnnouncedHolder, At
  <2>3. QED
    BY <2>1, <2>2 DEF LockSound
<1>2. QED
  BY <1>1, LockAlways, PTL

HoldKept ==
  \A u \in User :
    Holder = u /\ Holder' # u /\ ~Expired' /\ restarts' = restarts =>
      \E q \in Request : \/ At(q, "release") /\ By(q) = u
                         \/ At(q, "take") /\ By(q) = Holder'

(* Nobody loses a live hold but to a take-over or to a release that a tab  *)
(* of their own has asked for, whatever else is under way.                 *)
THEOREM HoldsAreLostRightly == LockSpec => HoldLostRightly
<1>1. ASSUME LInv, [LockNext]_vars PROVE HoldKept
  <2>0. LTyped
    BY <1>1 DEF LInv
  <2>1. CASE hold' = hold
    BY <2>1 DEF HoldKept, Holder, Expired
  <2>2. ASSUME NEW q \in Request, Touch(q) PROVE HoldKept
    BY <2>0, <2>2, TouchedHolds, HolderType DEF Touch, At, HoldKept
  <2>3. ASSUME NEW q \in Request, Acquire(q) PROVE HoldKept
    <3>1. CASE Granted(By(q))
      <4>1. hold' = [user |-> By(q), age |-> 0] /\ Holder \in {NoUser, By(q)}
        BY <2>3, <3>1 DEF Acquire, Acquired, Granted
      <4>2. Holder' = By(q)
        BY <4>1 DEF Holder, Expired
      <4>3. QED
        BY <4>1, <4>2 DEF HoldKept
    <3>2. CASE ~Granted(By(q))
      BY <2>1, <2>3, <3>2 DEF Acquire, Acquired
    <3>3. QED
      BY <3>1, <3>2
  <2>4. ASSUME NEW q \in Request, TakeOver(q) PROVE HoldKept
    <3>1. Holder' = By(q) /\ At(q, "take")
      BY <2>4 DEF TakeOver, TakenOver, Holder, Expired
    <3>2. QED
      BY <3>1 DEF HoldKept
  <2>5. ASSUME NEW q \in Request, Release(q) PROVE HoldKept
    <3>1. CASE hold.user = By(q)
      BY <2>0, <2>5, <3>1, HolderType DEF Release, HoldKept
    <3>2. CASE hold.user # By(q)
      BY <2>1, <2>5, <3>2 DEF Release, Released
    <3>3. QED
      BY <3>1, <3>2
  <2>6. CASE Tick
    <3>1. hold'.user = hold.user
      BY <2>0, <2>6 DEF Tick, LTyped
    <3>2. QED
      BY <2>0, <3>1, HolderType DEF HoldKept, Holder
  <2>7. CASE Sweep
    BY <2>7 DEF Sweep, HoldKept, Holder
  <2>8. CASE Restart
    BY <2>0, <2>8 DEF Restart, LTyped, HoldKept
  <2>9. QED
    BY <1>1, <2>1, <2>2, <2>3, <2>4, <2>5, <2>6, <2>7, <2>8
       DEF LockNext, RequestStep, Check, Look, Tell, Write, Answer, Mount, Unmount, Beat, Use,
           Notice, vars
<1>2. LInv /\ [LockNext]_vars
      => [\A u \in User :
            Holder = u /\ Holder' # u /\ ~Expired' /\ restarts' = restarts =>
                \E q \in Request :
                    \/ At(q, "release") /\ By(q) = u
                    \/ At(q, "take") /\ By(q) = Holder']_vars
  BY <1>1 DEF HoldKept
<1>3. QED
  BY <1>2, LockAlways, PTL DEF LockSpec, HoldLostRightly


HIDE LockAssumption

-----------------------------------------------------------------------------
(* The hub (WsHub).                                                        *)

\* A client that waits to be registered has missed nothing yet, and its send
\* channel is open.
HubInv ==
    /\ HubTypeOK
    /\ ClosedOnce
    /\ NoSilentGap
    /\ \A c \in Client : socket[c] = "joining" => c \notin missed /\ closes[c] = 0

LEMMA HubInitInv == HubInit => HubInv
BY HubAssumption DEF HubInit, HubInv, HubTypeOK, SocketState, ClosedOnce, NoSilentGap

\* What each step changes keeps its type.
LEMMA AppendWithin ==
    ASSUME NEW S, NEW s \in Seq(S), NEW e \in S, NEW n \in Nat, Len(s) < n
    PROVE  Append(s, e) \in Seq(S) /\ Len(Append(s, e)) <= n
OBVIOUS

LEMMA TailWithin ==
    ASSUME NEW S, NEW s \in Seq(S), s # <<>>, NEW n \in Nat, Len(s) <= n
    PROVE  /\ Tail(s) \in Seq(S) /\ Len(Tail(s)) <= n /\ Head(s) \in S
OBVIOUS

LEMMA PublishInv == ASSUME HubInv, NEW m \in Message, Publish(m) PROVE HubInv'
<1>1. broadcast \in Seq(Message) /\ Len(broadcast) < BroadcastCap /\ broadcast' = Append(broadcast, m)
  BY HubAssumption DEF HubInv, HubTypeOK, Publish, CanPublish
<1>2. broadcast' \in Seq(Message) /\ Len(broadcast') <= BroadcastCap
  BY <1>1, HubAssumption, AppendWithin
<1>3. UNCHANGED <<clients, send, closes, socket, evicting, wire, missed>>
  BY DEF Publish
<1>4. QED
  BY <1>2, <1>3 DEF HubInv, HubTypeOK, ClosedOnce, NoSilentGap

LEMMA ConnectInv == ASSUME HubInv, NEW c \in Client, Connect(c) PROVE HubInv'
<1>1. /\ socket[c] = "none" /\ socket' = [socket EXCEPT ![c] = "joining"]
      /\ send' = [send EXCEPT ![c] = <<>>] /\ closes' = [closes EXCEPT ![c] = 0]
      /\ missed' = missed \ {c} /\ UNCHANGED <<broadcast, clients, evicting, wire>>
  BY DEF Connect
<1>2. /\ socket \in [Client -> SocketState] /\ send \in [Client -> Seq(Message)]
      /\ closes \in [Client -> Nat] /\ missed \subseteq Client
      /\ \A d \in Client : Len(send[d]) <= SendCap
  BY DEF HubInv, HubTypeOK
<1>3. c \notin clients
  BY <1>1 DEF HubInv, ClosedOnce
<1>4. HubTypeOK'
  <2>1. socket' \in [Client -> SocketState] /\ closes' \in [Client -> Nat] /\ missed' \subseteq Client
    BY <1>1, <1>2 DEF SocketState
  <2>2. send' \in [Client -> Seq(Message)] /\ \A d \in Client : Len(send'[d]) <= SendCap
    BY <1>1, <1>2, HubAssumption
  <2>3. QED
    BY <1>1, <2>1, <2>2 DEF HubInv, HubTypeOK
<1>5. ClosedOnce'
  <2>1. \A d \in Client : /\ closes'[d] = (IF d = c THEN 0 ELSE closes[d])
                          /\ socket'[d] = (IF d = c THEN "joining" ELSE socket[d])
    BY <1>1, <1>2
  <2>2. QED
    BY <1>1, <1>3, <2>1 DEF HubInv, ClosedOnce
<1>6. NoSilentGap'
  BY <1>1 DEF HubInv, NoSilentGap
<1>7. \A d \in Client : socket'[d] = "joining" => d \notin missed' /\ closes'[d] = 0
  BY <1>1, <1>2 DEF HubInv
<1>8. QED
  BY <1>4, <1>5, <1>6, <1>7 DEF HubInv

LEMMA RegisterInv == ASSUME HubInv, NEW c \in Client, Register(c) PROVE HubInv'
<1>1. /\ socket[c] = "joining" /\ socket' = [socket EXCEPT ![c] = "open"]
      /\ clients' = clients \cup {c}
      /\ UNCHANGED <<broadcast, send, closes, evicting, wire, missed>>
  BY DEF Register
<1>2. /\ socket \in [Client -> SocketState] /\ clients \subseteq Client
      /\ closes \in [Client -> Nat]
  BY DEF HubInv, HubTypeOK
<1>3. \A d \in Client : socket'[d] = (IF d = c THEN "open" ELSE socket[d])
  BY <1>1, <1>2
<1>4. HubTypeOK'
  <2>1. socket' \in [Client -> SocketState]
    BY <1>1, <1>2 DEF SocketState
  <2>2. QED
    BY <1>1, <2>1 DEF HubInv, HubTypeOK
<1>5. closes[c] = 0 /\ c \notin missed
  BY <1>1 DEF HubInv
<1>6. ClosedOnce'
  BY <1>1, <1>3, <1>5 DEF HubInv, ClosedOnce
<1>7. NoSilentGap'
  BY <1>1, <1>5 DEF HubInv, NoSilentGap
<1>8. QED
  BY <1>1, <1>3, <1>4, <1>6, <1>7 DEF HubInv

\* The removal of a client, whoever asks for it, whatever becomes of its socket.
LEMMA RemovedInv ==
    ASSUME HubInv, NEW c \in Client, Removed(c),
           socket' = socket \/ (socket[c] = "broken" /\ socket' = [socket EXCEPT ![c] = "none"]),
           evicting' \in {evicting, evicting \ {c}},
           UNCHANGED <<broadcast, send, wire, missed>>
    PROVE  HubInv'
<1>1. /\ socket \in [Client -> SocketState] /\ clients \subseteq Client
      /\ closes \in [Client -> Nat] /\ evicting \subseteq Client
  BY DEF HubInv, HubTypeOK
<1>2. /\ clients' = clients \ {c}
      /\ closes' \in [Client -> Nat]
      /\ \A d \in Client : closes'[d] = IF d = c /\ c \in clients THEN closes[d] + 1 ELSE closes[d]
  <2>1. CASE c \in clients
    BY <1>1, <2>1 DEF Removed
  <2>2. CASE c \notin clients
    BY <1>1, <2>2 DEF Removed
  <2>3. QED
    BY <2>1, <2>2
<1>3. socket' \in [Client -> SocketState]
      /\ \A d \in Client : socket'[d] = socket[d] \/ (d = c /\ socket'[d] = "none")
  BY <1>1 DEF SocketState
<1>4. HubTypeOK'
  <2>1. clients' \subseteq Client /\ evicting' \subseteq Client
    BY <1>1, <1>2
  <2>2. QED
    BY <1>2, <1>3, <2>1 DEF HubInv, HubTypeOK
<1>5. ClosedOnce'
  <2>1. ASSUME NEW d \in Client
        PROVE  closes'[d] <= 1 /\ (d \in clients' => closes'[d] = 0 /\ socket'[d] \in {"open", "broken"})
    <3>1. closes[d] <= 1 /\ (d \in clients => closes[d] = 0 /\ socket[d] \in {"open", "broken"})
          /\ closes[d] \in Nat
      BY <1>1 DEF HubInv, ClosedOnce
    <3>2. QED
      BY <1>2, <1>3, <3>1
  <2>2. QED
    BY <2>1 DEF ClosedOnce
<1>6. NoSilentGap'
  BY <1>2 DEF HubInv, NoSilentGap
<1>7. ASSUME NEW d \in Client, socket'[d] = "joining" PROVE d \notin missed' /\ closes'[d] = 0
  <2>1. socket[d] = "joining" /\ d \notin clients
    BY <1>3, <1>7 DEF HubInv, ClosedOnce
  <2>2. QED
    BY <1>2, <2>1 DEF HubInv
<1>8. QED
  BY <1>4, <1>5, <1>6, <1>7 DEF HubInv

LEMMA UnregisterInv ==
    ASSUME HubInv, NEW c \in Client, UnregisterEvicted(c) \/ UnregisterReader(c)
    PROVE  HubInv'
BY RemovedInv DEF UnregisterEvicted, UnregisterReader

\* A broadcast goes to those that have room for it.
LEMMA DistributeSends ==
    ASSUME HubInv, Distribute
    PROVE  /\ broadcast # <<>> /\ broadcast \in Seq(Message) /\ Head(broadcast) \in Message
           /\ broadcast' = Tail(broadcast)
           /\ \A d \in Client : d \in clients /\ ~Full(d) => send'[d] = Append(send[d], Head(broadcast))
           /\ \A d \in Client : d \notin clients \/ Full(d) => send'[d] = send[d]
           /\ evicting' = evicting \cup {d \in clients : Full(d)}
           /\ missed' = missed \cup {d \in clients : Full(d)}
           /\ UNCHANGED <<clients, closes, socket, wire>>
BY DEF HubInv, HubTypeOK, Distribute, Evicted

LEMMA DistributeInv == ASSUME HubInv, Distribute PROVE HubInv'
<1> DEFINE full == {d \in clients : Full(d)}
<1>1. /\ broadcast # <<>> /\ broadcast \in Seq(Message) /\ Head(broadcast) \in Message
      /\ broadcast' = Tail(broadcast)
      /\ \A d \in Client : d \in clients /\ ~Full(d) => send'[d] = Append(send[d], Head(broadcast))
      /\ \A d \in Client : d \notin clients \/ Full(d) => send'[d] = send[d]
      /\ evicting' = evicting \cup full /\ missed' = missed \cup full
      /\ UNCHANGED <<clients, closes, socket, wire>>
  BY DistributeSends
<1>2. /\ Len(broadcast) <= BroadcastCap /\ send \in [Client -> Seq(Message)] /\ clients \subseteq Client
      /\ evicting \subseteq Client /\ missed \subseteq Client
      /\ \A d \in Client : Len(send[d]) <= SendCap
  BY DEF HubInv, HubTypeOK
<1>3. broadcast' \in Seq(Message) /\ Len(broadcast') <= BroadcastCap
  BY <1>1, <1>2, HubAssumption, TailWithin
<1>4. ASSUME NEW d \in Client PROVE send'[d] \in Seq(Message) /\ Len(send'[d]) <= SendCap
  <2>1. CASE d \in clients /\ ~Full(d)
    <3>1. Len(send[d]) < SendCap /\ send[d] \in Seq(Message)
      BY <1>2, <2>1, HubAssumption DEF Full
    <3>2. QED
      BY <1>1, <2>1, <3>1, HubAssumption, AppendWithin
  <2>2. CASE ~(d \in clients /\ ~Full(d))
    BY <1>1, <1>2, <2>2
  <2>3. QED
    BY <2>1, <2>2
<1>5. send' \in [Client -> Seq(Message)]
  BY <1>4 DEF Distribute
<1>6. evicting' \subseteq Client /\ missed' \subseteq Client
  BY <1>1, <1>2
<1>7. HubTypeOK'
  BY <1>1, <1>3, <1>4, <1>5, <1>6 DEF HubInv, HubTypeOK
<1>8. ClosedOnce' /\ NoSilentGap'
  BY <1>1 DEF HubInv, ClosedOnce, NoSilentGap
<1>9. ASSUME NEW d \in Client, socket'[d] = "joining" PROVE d \notin missed' /\ closes'[d] = 0
  <2>1. d \notin clients /\ d \notin missed /\ closes[d] = 0
    BY <1>1, <1>9 DEF HubInv, ClosedOnce
  <2>2. QED
    BY <1>1, <2>1
<1>10. QED
  BY <1>7, <1>8, <1>9 DEF HubInv

LEMMA WriteFrameInv == ASSUME HubInv, NEW c \in Client, WriteFrame(c) PROVE HubInv'
<1>1. /\ wire' = [wire EXCEPT ![c] = Append(wire[c], send[c])] /\ Len(wire[c]) < WireCap
      /\ send' = [send EXCEPT ![c] = <<>>]
      /\ UNCHANGED <<broadcast, clients, closes, socket, evicting, missed>>
  BY DEF WriteFrame
<1>2. /\ wire \in [Client -> Seq(Seq(Message))] /\ send \in [Client -> Seq(Message)]
      /\ \A d \in Client : Len(wire[d]) <= WireCap /\ Len(send[d]) <= SendCap
  BY DEF HubInv, HubTypeOK
<1>3. send' \in [Client -> Seq(Message)] /\ \A d \in Client : Len(send'[d]) <= SendCap
  BY <1>1, <1>2, HubAssumption
<1>4. Append(wire[c], send[c]) \in Seq(Seq(Message)) /\ Len(Append(wire[c], send[c])) <= WireCap
  <2>1. wire[c] \in Seq(Seq(Message)) /\ send[c] \in Seq(Message)
    BY <1>2
  <2>2. QED
    BY <1>1, <2>1, HubAssumption, AppendWithin
<1>5. wire' \in [Client -> Seq(Seq(Message))] /\ \A d \in Client : Len(wire'[d]) <= WireCap
  BY <1>1, <1>2, <1>4
<1>6. QED
  BY <1>1, <1>3, <1>5 DEF HubInv, HubTypeOK, ClosedOnce, NoSilentGap

LEMMA BreakInv == ASSUME HubInv, NEW c \in Client, Break(c) PROVE HubInv'
<1>1. /\ socket[c] = "open" /\ socket' = [socket EXCEPT ![c] = "broken"]
      /\ wire' = wire \/ wire' = [wire EXCEPT ![c] = <<>>]
      /\ UNCHANGED <<broadcast, clients, send, closes, evicting, missed>>
  BY DEF Break
<1>2. /\ wire \in [Client -> Seq(Seq(Message))] /\ socket \in [Client -> SocketState]
      /\ \A d \in Client : Len(wire[d]) <= WireCap
  BY DEF HubInv, HubTypeOK
<1>3. wire' \in [Client -> Seq(Seq(Message))] /\ \A d \in Client : Len(wire'[d]) <= WireCap
  <2>1. CASE wire' = wire
    BY <1>2, <2>1
  <2>2. CASE wire' = [wire EXCEPT ![c] = <<>>]
    BY <1>2, <2>2, HubAssumption
  <2>3. QED
    BY <1>1, <2>1, <2>2
<1>4. socket' \in [Client -> SocketState]
      /\ \A d \in Client : socket'[d] = IF d = c THEN "broken" ELSE socket[d]
  BY <1>1, <1>2 DEF SocketState
<1>5. QED
  BY <1>1, <1>3, <1>4 DEF HubInv, HubTypeOK, ClosedOnce, NoSilentGap

LEMMA TakeFrameInv == ASSUME HubInv, NEW c \in Client, TakeFrame(c) PROVE HubInv'
<1>1. /\ wire[c] # <<>> /\ wire' = [wire EXCEPT ![c] = Tail(wire[c])]
      /\ UNCHANGED <<broadcast, clients, send, closes, socket, evicting, missed>>
  BY DEF TakeFrame
<1>2. /\ wire \in [Client -> Seq(Seq(Message))]
      /\ \A d \in Client : Len(wire[d]) <= WireCap
  BY DEF HubInv, HubTypeOK
<1>3. Tail(wire[c]) \in Seq(Seq(Message)) /\ Len(Tail(wire[c])) <= WireCap
  BY <1>1, <1>2, HubAssumption, TailWithin
<1>4. wire' \in [Client -> Seq(Seq(Message))] /\ \A d \in Client : Len(wire'[d]) <= WireCap
  BY <1>1, <1>2, <1>3
<1>5. QED
  BY <1>1, <1>4 DEF HubInv, HubTypeOK, ClosedOnce, NoSilentGap

LEMMA HubRestartInv == ASSUME HubRestart PROVE HubInv'
BY HubAssumption DEF HubRestart, HubInv, HubTypeOK, SocketState, ClosedOnce, NoSilentGap

LEMMA HubStutterInv == ASSUME HubInv, UNCHANGED hubVars PROVE HubInv'
BY DEF hubVars, HubInv, HubTypeOK, ClosedOnce, NoSilentGap

\* The hub of internal/ws/hub.go, whatever is broadcast: a client that a message
\* has skipped does not stay registered, and no send channel is closed twice or
\* sent on when it is closed.
THEOREM HubIsSound == HubSpec => [](ClosedOnce /\ NoSilentGap)
<1>1. HubInv /\ [HubNext]_hubVars => HubInv'
  <2> SUFFICES ASSUME HubInv, [HubNext]_hubVars PROVE HubInv'
    OBVIOUS
  <2>1. ASSUME NEW c \in Client,
               \/ Connect(c) \/ Register(c) \/ UnregisterEvicted(c)
               \/ UnregisterReader(c) \/ WriteFrame(c) \/ Break(c) \/ TakeFrame(c)
        PROVE  HubInv'
    BY <2>1, ConnectInv, RegisterInv, UnregisterInv, WriteFrameInv, BreakInv, TakeFrameInv
  <2>2. QED
    BY <2>1, PublishInv, DistributeInv, HubRestartInv, HubStutterInv DEF HubNext
<1>2. HubInv => ClosedOnce /\ NoSilentGap
  BY DEF HubInv
<1>3. QED
  BY <1>1, <1>2, HubInitInv, PTL DEF HubSpec

-----------------------------------------------------------------------------
(* The tabs (ListSync).                                                    *)

\* An update of one row puts a row that is there into a state in which it is
\* there still.
CallOK(r) ==
    r.pc # "idle" =>
        /\ r.op = "setItem" => (\E i \in Item : r.on = {i}) /\ r.to \in {"open", "done"}
        /\ r.op = "patchItems" => r.to = "done"

CallsOK == calls \in [Call -> CallState] /\ \A q \in Call : CallOK(calls[q])

RowsOK == list \in {"there", "gone"} /\ items \in [Item -> ItemState]

TabsOK ==
    /\ page \in [Client -> PageState]
    /\ view \in [Client -> {"none", "old", "fresh"}]
    /\ fetch \in [Client -> {"none", "asked", "old", "fresh"}]
    /\ toggling \subseteq Client
    /\ steady \subseteq Client
    /\ untold \subseteq steady
    /\ \A c \in toggling : page[c] # "away" /\ view[c] # "none"
    /\ \A c \in steady : InTouch(c) /\ page[c] # "away"

\* What is sure to be announced: not the update of a row that was deleted before
\* it could be read back.
Announcing(q) == \/ calls[q].pc = "announce"
                 \/ calls[q].pc = "readback" /\ \A i \in calls[q].on : Present(i)

OnItsWay(c) == \/ \E q \in Call : Announcing(q)
               \/ broadcast # <<>> \/ send[c] # <<>> \/ wire[c] # <<>>

UpToDate(c) == \/ c \in toggling
               \/ fetch[c] \in {"asked", "fresh"}
               \/ fetch[c] = "none" /\ view[c] = "fresh"

\* A listening tab in touch shows the list as it is, will read it anew, or has an
\* event coming.
KeptUp(c) == page[c] = "listening" => UpToDate(c) \/ OnItsWay(c)

Reaches == list = "there" => \A c \in steady \ untold : KeptUp(c)

SyncInv == HubInv /\ CallsOK /\ RowsOK /\ TabsOK /\ Reaches

LEMMA SyncInitInv == SyncInit => SyncInv
<1> SUFFICES ASSUME SyncInit PROVE SyncInv
  OBVIOUS
<1>1. HubInv
  BY HubInitInv DEF SyncInit
<1>2. CallsOK
  <2>1. NoCall \in CallState /\ NoCall.pc = "idle"
    BY DEF NoCall, CallState, CallOp, ItemState
  <2>2. calls = [q \in Call |-> NoCall]
    BY DEF SyncInit
  <2>3. QED
    BY <2>1, <2>2 DEF CallsOK, CallOK
<1>3. RowsOK /\ TabsOK /\ Reaches
  BY DEF SyncInit, RowsOK, TabsOK, Reaches, ItemState, PageState
<1>4. QED
  BY <1>1, <1>2, <1>3 DEF SyncInv

-----------------------------------------------------------------------------
(* How a request moves.                                                    *)

LEMMA CallChanges ==
    ASSUME CallsOK, NEW q \in Call, NEW r \in CallState, CallOK(r), calls' = [calls EXCEPT ![q] = r]
    PROVE  /\ CallsOK' /\ calls'[q] = r
           /\ \A o \in Call \ {q} : calls'[o] = calls[o]
<1>1. calls \in [Call -> CallState] /\ calls' \in [Call -> CallState] /\ calls'[q] = r
      /\ \A o \in Call \ {q} : calls'[o] = calls[o]
  BY DEF CallsOK
<1>2. \A o \in Call : CallOK(calls'[o])
  BY <1>1 DEF CallsOK
<1>3. \A o \in Call : CallOK(calls[o])'
  BY <1>2 DEF CallOK
<1>4. QED
  BY <1>1, <1>3 DEF CallsOK

LEMMA EnterChanges ==
    ASSUME CallsOK, NEW q \in Call, calls[q].pc # "idle",
           NEW pc \in {"check", "validate", "commit", "readback", "announce"}, Enter(q, pc)
    PROVE  /\ CallsOK' /\ calls'[q].pc = pc /\ calls'[q].on = calls[q].on
           /\ \A o \in Call \ {q} : calls'[o] = calls[o]
<1> DEFINE r == [calls[q] EXCEPT !.pc = pc]
<1>1. r \in CallState /\ r.pc = pc /\ r.op = calls[q].op /\ r.on = calls[q].on /\ r.to = calls[q].to
  BY DEF CallsOK, CallState
<1>2. CallOK(r)
  BY <1>1 DEF CallsOK, CallOK
<1>3. calls' = [calls EXCEPT ![q] = r]
  BY DEF CallsOK, Enter
<1> HIDE DEF r
<1>4. QED
  BY <1>1, <1>2, <1>3, CallChanges

LEMMA EndChanges ==
    ASSUME CallsOK, NEW q \in Call, End(q)
    PROVE  /\ CallsOK' /\ calls'[q].pc = "idle"
           /\ \A o \in Call \ {q} : calls'[o] = calls[o]
<1>1. NoCall \in CallState /\ NoCall.pc = "idle"
  BY DEF NoCall, CallState, CallOp, ItemState
<1>2. CallOK(NoCall)
  BY <1>1 DEF CallOK
<1>3. QED
  BY <1>1, <1>2, CallChanges DEF End

LEMMA AskChanges ==
    ASSUME CallsOK, NEW q \in Call, NEW op \in CallOp, NEW on \in SUBSET Item, NEW to \in ItemState,
           op = "setItem" => (\E i \in Item : on = {i}) /\ to \in {"open", "done"},
           op = "patchItems" => to = "done", Ask(q, op, on, to)
    PROVE  /\ CallsOK' /\ calls'[q].pc \in {"commit", "check"}
           /\ \A o \in Call \ {q} : calls'[o] = calls[o]
<1> DEFINE r == [pc |-> IF op \in {"dropList", "updateList"} THEN "commit" ELSE "check", op |-> op, on |-> on, to |-> to]
<1>1. r \in CallState /\ r.pc \in {"commit", "check"}
  BY DEF CallState
<1>2. CallOK(r)
  BY DEF CallOK
<1>3. calls' = [calls EXCEPT ![q] = r]
  BY DEF Ask
<1> HIDE DEF r
<1>4. QED
  BY <1>1, <1>2, <1>3, CallChanges

\* A request that was not to announce anything may move as it likes; what the
\* tabs show is not touched.
LEMMA QuietCall ==
    ASSUME SyncInv, NEW q \in Call, ~Announcing(q) \/ Announcing(q)', CallsOK',
           \A o \in Call \ {q} : calls'[o] = calls[o],
           UNCHANGED <<hubVars, rowVars, tabVars>>
    PROVE  SyncInv'
<1>1. HubInv'
  BY HubStutterInv DEF SyncInv
<1>2. UNCHANGED <<list, items, page, view, fetch, toggling, steady, untold>>
  BY DEF rowVars, tabVars
<1>3. UNCHANGED <<broadcast, clients, send, socket, wire, missed>>
  BY DEF hubVars
<1>4. RowsOK' /\ TabsOK'
  BY <1>2, <1>3 DEF SyncInv, RowsOK, TabsOK, InTouch
<1>5. \A o \in Call : Announcing(o) => Announcing(o)'
  BY <1>2 DEF Announcing, Present
<1>6. ASSUME NEW c \in Client, KeptUp(c) PROVE KeptUp(c)'
  BY <1>2, <1>3, <1>5, <1>6 DEF KeptUp, UpToDate, OnItsWay
<1>7. Reaches'
  BY <1>2, <1>6 DEF SyncInv, Reaches, TabsOK
<1>8. QED
  BY <1>1, <1>4, <1>7 DEF SyncInv

LEMMA BeginCallInv == ASSUME SyncInv, NEW q \in Call, BeginCall(q) PROVE SyncInv'
<1>1. calls[q].pc = "idle" /\ UNCHANGED <<hubVars, rowVars, tabVars>> /\ CallsOK
  BY DEF BeginCall, Reached, SyncInv
<1>2. PICK op \in CallOp, on \in SUBSET Item, to \in ItemState :
        /\ Ask(q, op, on, to)
        /\ op = "setItem" => (\E i \in Item : on = {i}) /\ to \in {"open", "done"}
        /\ op = "patchItems" => to = "done"
  <2> USE DEF CallOp, ItemState
  <2>1. CASE Ask(q, "dropList", {}, "none") \/ Ask(q, "updateList", {}, "none")
    BY <2>1
  <2>2. CASE \E i \in Item : \/ \E to \in {"open", "done"} : Ask(q, "setItem", {i}, to)
                             \/ Ask(q, "removeItem", {i}, "deleted")
    <3>1. PICK i \in Item : \/ \E to \in {"open", "done"} : Ask(q, "setItem", {i}, to)
                            \/ Ask(q, "removeItem", {i}, "deleted")
      BY <2>2
    <3>2. CASE Ask(q, "removeItem", {i}, "deleted")
      BY <3>2
    <3>3. ASSUME NEW to \in {"open", "done"}, Ask(q, "setItem", {i}, to)
          PROVE  \E op \in CallOp, on \in SUBSET Item, to2 \in ItemState :
                   /\ Ask(q, op, on, to2)
                   /\ op = "setItem" => (\E j \in Item : on = {j}) /\ to2 \in {"open", "done"}
                   /\ op = "patchItems" => to2 = "done"
      <4>1. "setItem" \in CallOp /\ {i} \in SUBSET Item /\ to \in ItemState
        OBVIOUS
      <4>2. QED
        BY <3>3, <4>1
    <3>4. QED
      BY <3>1, <3>2, <3>3
  <2>3. CASE \E S \in (SUBSET Item) \ {{}} : \/ Ask(q, "patchItems", S, "done")
                                             \/ Ask(q, "removeItems", S, "deleted")
                                             \/ Ask(q, "reorderItems", S, "none")
                                             \/ Ask(q, "addItems", S, "open")
    BY <2>3
  <2>4. QED
    BY <2>1, <2>2, <2>3 DEF BeginCall
<1>3. CallsOK' /\ calls'[q].pc \in {"commit", "check"} /\ \A o \in Call \ {q} : calls'[o] = calls[o]
  BY <1>1, <1>2, AskChanges
<1>4. ~Announcing(q)
  BY <1>1 DEF Announcing
<1>5. QED
  BY <1>1, <1>3, <1>4, QuietCall

LEMMA CheckListInv == ASSUME SyncInv, NEW q \in Call, CheckList(q) PROVE SyncInv'
<1>1. calls[q].pc = "check" /\ UNCHANGED <<hubVars, rowVars, tabVars>> /\ CallsOK
  BY DEF CheckList, Reached, SyncInv
<1>2. End(q) \/ \E pc \in {"validate", "commit"} : Enter(q, pc)
  BY DEF CheckList
<1>3. CallsOK' /\ \A o \in Call \ {q} : calls'[o] = calls[o]
  BY <1>1, <1>2, EndChanges, EnterChanges
<1>4. ~Announcing(q)
  BY <1>1 DEF Announcing
<1>5. QED
  BY <1>1, <1>3, <1>4, QuietCall

LEMMA ValidateInv == ASSUME SyncInv, NEW q \in Call, Validate(q) PROVE SyncInv'
<1>1. calls[q].pc = "validate" /\ UNCHANGED <<hubVars, rowVars, tabVars>> /\ CallsOK
  BY DEF Validate, Reached, SyncInv
<1>2. End(q) \/ Enter(q, "commit")
  BY DEF Validate
<1>3. CallsOK' /\ \A o \in Call \ {q} : calls'[o] = calls[o]
  BY <1>1, <1>2, EndChanges, EnterChanges
<1>4. ~Announcing(q)
  BY <1>1 DEF Announcing
<1>5. QED
  BY <1>1, <1>3, <1>4, QuietCall

LEMMA ReadBackInv == ASSUME SyncInv, NEW q \in Call, ReadBack(q) PROVE SyncInv'
<1>1. calls[q].pc = "readback" /\ UNCHANGED <<hubVars, rowVars, tabVars>> /\ CallsOK
  BY DEF ReadBack, Reached, SyncInv
<1>2. CASE \A i \in calls[q].on : Present(i)
  <2>1. Enter(q, "announce")
    BY <1>2 DEF ReadBack
  <2>2. CallsOK' /\ calls'[q].pc = "announce" /\ \A o \in Call \ {q} : calls'[o] = calls[o]
    BY <1>1, <2>1, EnterChanges
  <2>3. Announcing(q)'
    BY <2>2 DEF Announcing
  <2>4. QED
    BY <1>1, <2>2, <2>3, QuietCall
<1>3. CASE ~\A i \in calls[q].on : Present(i)
  <2>1. End(q)
    BY <1>3 DEF ReadBack
  <2>2. CallsOK' /\ \A o \in Call \ {q} : calls'[o] = calls[o]
    BY <1>1, <2>1, EndChanges
  <2>3. ~Announcing(q)
    BY <1>1, <1>3 DEF Announcing
  <2>4. QED
    BY <1>1, <2>2, <2>3, QuietCall
<1>4. QED
  BY <1>2, <1>3

-----------------------------------------------------------------------------
(* Commits and announcements.                                              *)

\* A commit that touches no row leaves the tabs' data alone; none brings data
\* into a tab or takes it away.
LEMMA OutdatedChange ==
    ASSUME TabsOK, Outdated
    PROVE  /\ view' \in [Client -> {"none", "old", "fresh"}]
           /\ fetch' \in [Client -> {"none", "asked", "old", "fresh"}]
           /\ \A c \in Client : view[c] # "none" => view'[c] # "none"
<1>1. /\ view \in [Client -> {"none", "old", "fresh"}]
      /\ fetch \in [Client -> {"none", "asked", "old", "fresh"}]
  BY DEF TabsOK
<1>2. /\ view' = [c \in Client |-> IF view[c] = "fresh" THEN "old" ELSE view[c]]
      /\ fetch' = [c \in Client |-> IF fetch[c] = "fresh" THEN "old" ELSE fetch[c]]
  BY DEF Outdated
<1>3. QED
  BY <1>1, <1>2

LEMMA RowsChange ==
    ASSUME TabsOK, RowsOK, NEW T, NEW to \in ItemState, Rows(T, to)
    PROVE  /\ items' \in [Item -> ItemState]
           /\ \A i \in Item : items'[i] = IF i \in T THEN to ELSE items[i]
           /\ view' \in [Client -> {"none", "old", "fresh"}]
           /\ fetch' \in [Client -> {"none", "asked", "old", "fresh"}]
           /\ \A c \in Client : view[c] # "none" => view'[c] # "none"
           /\ T = {} => items' = items /\ view' = view /\ fetch' = fetch
<1>1. items \in [Item -> ItemState]
  BY DEF RowsOK
<1>2. items' \in [Item -> ItemState] /\ \A i \in Item : items'[i] = IF i \in T THEN to ELSE items[i]
  BY <1>1 DEF Rows
<1>3. T # {} => Outdated
  BY DEF Rows
<1>4. T = {} => items' = items /\ view' = view /\ fetch' = fetch
  BY <1>1, <1>2 DEF Rows
<1>5. CASE T = {}
  BY <1>2, <1>4, <1>5 DEF TabsOK
<1>6. CASE T # {}
  BY <1>2, <1>3, <1>6, OutdatedChange
<1>7. QED
  BY <1>5, <1>6

\* After a commit a request is to announce what it changed, or the list is gone,
\* or nothing has changed, or no tab is told.
LEMMA CommitTells ==
    ASSUME SyncInv, NEW q \in Call, Commit(q)
    PROVE  /\ CallsOK' /\ RowsOK'
           /\ \A o \in Call \ {q} : calls'[o] = calls[o]
           /\ \/ Announcing(q)'
              \/ list' # "there"
              \/ items' = items /\ view' = view /\ fetch' = fetch
              \/ untold' = steady
           /\ untold' \in {untold, steady}
           /\ view' \in [Client -> {"none", "old", "fresh"}]
           /\ fetch' \in [Client -> {"none", "asked", "old", "fresh"}]
           /\ \A c \in Client : view[c] # "none" => view'[c] # "none"
<1>1. calls[q].pc = "commit" /\ CallsOK /\ RowsOK /\ TabsOK
  BY DEF Commit, Reached, SyncInv
<1>2. calls[q] \in CallState /\ CallOK(calls[q])
  BY <1>1 DEF CallsOK
<1>3. calls[q].on \in SUBSET Item /\ calls[q].to \in ItemState
  BY <1>2 DEF CallState
<1>4. /\ calls[q].op = "setItem" => (\E i \in Item : calls[q].on = {i}) /\ calls[q].to \in {"open", "done"}
  BY <1>1, <1>2 DEF CallOK
<1>5. \/ \E T \in SUBSET Item, to \in ItemState : Rows(T, to)
      \/ UNCHANGED items /\ (Outdated \/ UNCHANGED <<view, fetch>>)
  <2>1. {"open", "deleted", "done"} \subseteq ItemState
    BY DEF ItemState
  <2>2. CASE Insert(q)
    BY <1>3, <2>1, <2>2 DEF Insert
  <2>3. CASE ChangeOne(q) \/ ChangeMany(q)
    <3>1. Rows(StillThere(calls[q].on), calls[q].to)
      BY <2>3 DEF ChangeOne, ChangeMany
    <3>2. StillThere(calls[q].on) \in SUBSET Item
      BY <1>3 DEF StillThere
    <3>3. QED
      BY <1>3, <3>1, <3>2
  <2>4. CASE DropList(q)
    <3>1. StillThere(Item) \in SUBSET Item
      BY DEF StillThere
    <3>2. QED
      BY <2>1, <2>4, <3>1 DEF DropList, rowVars
  <2>5. CASE ChangeUntold(q)
    BY <2>5 DEF ChangeUntold, rowVars
  <2>6. QED
    BY <2>2, <2>3, <2>4, <2>5 DEF Commit
<1>6. /\ items' \in [Item -> ItemState]
      /\ view' \in [Client -> {"none", "old", "fresh"}]
      /\ fetch' \in [Client -> {"none", "asked", "old", "fresh"}]
      /\ \A c \in Client : view[c] # "none" => view'[c] # "none"
  <2>1. CASE UNCHANGED items /\ (Outdated \/ UNCHANGED <<view, fetch>>)
    BY <1>1, <2>1, OutdatedChange DEF TabsOK, RowsOK
  <2>2. ASSUME NEW T, NEW to \in ItemState, Rows(T, to)
        PROVE  /\ items' \in [Item -> ItemState]
               /\ view' \in [Client -> {"none", "old", "fresh"}]
               /\ fetch' \in [Client -> {"none", "asked", "old", "fresh"}]
               /\ \A c \in Client : view[c] # "none" => view'[c] # "none"
    BY <1>1, <2>2, RowsChange
  <2>3. QED
    BY <1>5, <2>1, <2>2
<1>7. RowsOK'
  <2>1. list' \in {"there", "gone"}
    BY <1>1 DEF Commit, Insert, ChangeOne, ChangeMany, DropList, ChangeUntold, RowsOK, rowVars
  <2>2. QED
    BY <1>6, <2>1 DEF RowsOK
<1>8. /\ CallsOK' /\ \A o \in Call \ {q} : calls'[o] = calls[o]
      /\ \/ Announcing(q)'
         \/ list' # "there"
         \/ items' = items /\ view' = view /\ fetch' = fetch
         \/ untold' = steady
  <2>0. {"open", "deleted", "done"} \subseteq ItemState /\ calls[q].pc # "idle"
    BY <1>1 DEF ItemState
  <2>1. ASSUME Enter(q, "announce")
        PROVE  CallsOK' /\ Announcing(q)' /\ \A o \in Call \ {q} : calls'[o] = calls[o]
    BY <1>1, <2>0, <2>1, EnterChanges DEF Announcing
  <2>2. ASSUME End(q)
        PROVE  CallsOK' /\ \A o \in Call \ {q} : calls'[o] = calls[o]
    BY <1>1, <2>2, EndChanges
  <2>3. CASE Insert(q)
    <3>1. CASE Rows(calls[q].on, "open") /\ Enter(q, "announce")
      BY <2>1, <3>1
    <3>2. CASE Rows({}, "open") /\ End(q)
      BY <1>1, <2>0, <2>2, <3>2, RowsChange
    <3>3. QED
      BY <2>3, <3>1, <3>2 DEF Insert
  <2>4. CASE ChangeOne(q)
    <3> DEFINE T == StillThere(calls[q].on)
    <3>1. Rows(T, calls[q].to)
      BY <2>4 DEF ChangeOne
    <3>2. CASE T = {}
      <4>1. End(q)
        BY <2>4, <3>2 DEF ChangeOne
      <4>2. items' = items /\ view' = view /\ fetch' = fetch
        BY <1>1, <1>3, <3>1, <3>2, RowsChange
      <4>3. QED
        BY <2>2, <4>1, <4>2
    <3>3. CASE T # {} /\ calls[q].op = "setItem"
      <4>1. Enter(q, "readback")
        BY <2>4, <3>3 DEF ChangeOne
      <4>2. /\ CallsOK' /\ calls'[q].pc = "readback" /\ calls'[q].on = calls[q].on
            /\ \A o \in Call \ {q} : calls'[o] = calls[o]
        BY <1>1, <2>0, <4>1, EnterChanges
      <4>3. PICK i \in Item : calls[q].on = {i}
        BY <1>4, <3>3
      <4>4. T = {i}
        BY <3>3, <4>3 DEF StillThere
      <4>5. items'[i] \in {"open", "done"}
        BY <1>1, <1>3, <1>4, <3>1, <3>3, <4>4, RowsChange
      <4>6. Announcing(q)'
        BY <4>2, <4>3, <4>5 DEF Announcing, Present
      <4>7. QED
        BY <4>2, <4>6
    <3>4. CASE T # {} /\ calls[q].op # "setItem"
      <4>1. Enter(q, "announce")
        BY <2>4, <3>4 DEF ChangeOne
      <4>2. QED
        BY <2>1, <4>1
    <3>5. QED
      BY <3>2, <3>3, <3>4
  <2>5. CASE ChangeMany(q)
    BY <2>1, <2>5 DEF ChangeMany
  <2>6. CASE DropList(q)
    BY <2>2, <2>6 DEF DropList, rowVars
  <2>7. CASE ChangeUntold(q)
    BY <2>2, <2>7 DEF ChangeUntold, rowVars
  <2>8. QED
    BY <2>3, <2>4, <2>5, <2>6, <2>7 DEF Commit
<1>9. untold' \in {untold, steady}
  BY DEF Commit, ChangeUntold
<1>10. QED
  BY <1>6, <1>7, <1>8, <1>9

LEMMA CommitInv == ASSUME SyncInv, NEW q \in Call, Commit(q) PROVE SyncInv'
<1>1. calls[q].pc = "commit" /\ UNCHANGED <<hubVars, page, toggling, steady>>
  BY DEF Commit, Reached
<1>2. /\ CallsOK' /\ RowsOK'
      /\ \A o \in Call \ {q} : calls'[o] = calls[o]
      /\ \/ Announcing(q)'
         \/ list' # "there"
         \/ items' = items /\ view' = view /\ fetch' = fetch
         \/ untold' = steady
      /\ untold' \in {untold, steady}
      /\ view' \in [Client -> {"none", "old", "fresh"}]
      /\ fetch' \in [Client -> {"none", "asked", "old", "fresh"}]
      /\ \A c \in Client : view[c] # "none" => view'[c] # "none"
  BY CommitTells
<1>3. HubInv'
  BY <1>1, HubStutterInv DEF SyncInv
<1>4. UNCHANGED <<broadcast, clients, send, socket, wire, missed>>
  BY <1>1 DEF hubVars
<1>5. TabsOK'
  BY <1>1, <1>2, <1>4 DEF SyncInv, TabsOK, InTouch
<1>6. Reaches'
  <2>1. CASE Announcing(q)'
    BY <2>1 DEF Reaches, KeptUp, OnItsWay
  <2>2. CASE list' # "there"
    BY <2>2 DEF Reaches
  <2>3. CASE items' = items /\ view' = view /\ fetch' = fetch /\ list' = "there"
    <3>1. list = "there"
      BY <2>3 DEF Commit, Insert, ChangeOne, ChangeMany, DropList, ChangeUntold, rowVars
    <3>2. \A o \in Call : Announcing(o) => Announcing(o)'
      BY <1>1, <1>2, <2>3 DEF Announcing, Present
    <3>3. ASSUME NEW c \in steady' \ untold' PROVE KeptUp(c)'
      <4>1. KeptUp(c)
        BY <1>1, <1>2, <3>1, <3>3 DEF SyncInv, Reaches
      <4>2. QED
        BY <1>1, <1>4, <2>3, <3>2, <4>1 DEF KeptUp, UpToDate, OnItsWay
    <3>4. QED
      BY <1>1, <3>3 DEF Reaches
  <2>4. CASE untold' = steady
    BY <1>1, <2>4 DEF Reaches
  <2>5. QED
    BY <1>2, <2>1, <2>2, <2>3, <2>4
<1>7. QED
  BY <1>2, <1>3, <1>5, <1>6 DEF SyncInv

LEMMA AnnounceInv == ASSUME SyncInv, NEW q \in Call, Announce(q) PROVE SyncInv'
<1> DEFINE rest == IF calls[q].op = "addItems" THEN calls[q].on \ {CHOOSE i \in calls[q].on : TRUE} ELSE {}
<1>1. /\ calls[q].pc = "announce" /\ UNCHANGED <<rowVars, tabVars>>
      /\ IF rest = {} THEN End(q) ELSE calls' = [calls EXCEPT ![q].on = rest]
  BY DEF Announce, Reached
<1>2. PICK m \in Message : Publish(m)
  BY SyncAssumption DEF Announce, EventOf
<1>3. HubInv'
  BY <1>2, PublishInv DEF SyncInv
<1>4. broadcast' # <<>> /\ UNCHANGED <<clients, socket, missed>>
  <2>1. broadcast' = Append(broadcast, m) /\ broadcast \in Seq(Message)
    BY <1>2 DEF Publish, SyncInv, HubInv, HubTypeOK
  <2>2. QED
    BY <1>2, <2>1 DEF Publish
<1>5. UNCHANGED <<list, items, page, view, fetch, toggling, steady, untold>>
  BY <1>1 DEF rowVars, tabVars
<1>6. CallsOK'
  <2>1. CASE rest = {}
    BY <1>1, <2>1, EndChanges DEF SyncInv
  <2>2. CASE rest # {}
    <3> DEFINE r == [calls[q] EXCEPT !.on = rest]
    <3>1. calls[q] \in CallState /\ calls[q].op = "addItems" /\ calls \in [Call -> CallState] /\ CallsOK
      BY <2>2 DEF SyncInv, CallsOK
    <3>2. rest \in SUBSET Item
      BY <3>1 DEF CallState
    <3>3. r \in CallState /\ r.op = "addItems"
      BY <3>1, <3>2 DEF CallState
    <3>4. CallOK(r)
      BY <3>3 DEF CallOK
    <3>5. calls' = [calls EXCEPT ![q] = r]
      BY <1>1, <2>2, <3>1
    <3> HIDE DEF r, rest
    <3>6. QED
      BY <3>1, <3>3, <3>4, <3>5, CallChanges
  <2>3. QED
    BY <2>1, <2>2
<1>7. RowsOK' /\ TabsOK'
  BY <1>4, <1>5 DEF SyncInv, RowsOK, TabsOK, InTouch
<1>8. Reaches'
  BY <1>4 DEF Reaches, KeptUp, OnItsWay
<1>9. QED
  BY <1>3, <1>6, <1>7, <1>8 DEF SyncInv

-----------------------------------------------------------------------------
(* The steps of the tabs.                                                  *)

\* A step of one tab leaves the others with what they had.
LEMMA TabStepInv ==
    ASSUME SyncInv, NEW c \in Client, HubInv',
           UNCHANGED <<rowVars, calls, broadcast, clients, send, socket, missed>>,
           \A d \in Client \ {c} : /\ page'[d] = page[d] /\ view'[d] = view[d]
                                   /\ fetch'[d] = fetch[d] /\ wire'[d] = wire[d]
                                   /\ d \in toggling' <=> d \in toggling
                                   /\ d \in steady' <=> d \in steady
                                   /\ d \in untold' <=> d \in untold,
           page' \in [Client -> PageState], view' \in [Client -> {"none", "old", "fresh"}],
           fetch' \in [Client -> {"none", "asked", "old", "fresh"}],
           toggling' \subseteq Client, steady' \subseteq Client, untold' \subseteq steady',
           c \in toggling' => page'[c] # "away" /\ view'[c] # "none",
           c \in steady' => InTouch(c) /\ page'[c] # "away",
           list = "there" /\ c \in steady' \ untold' => KeptUp(c)'
    PROVE  SyncInv'
<1>1. CallsOK /\ RowsOK /\ TabsOK /\ Reaches
  BY DEF SyncInv
<1>2. list' = list /\ items' = items
  BY DEF rowVars
<1>3. CallsOK' /\ RowsOK'
  BY <1>1, <1>2 DEF CallsOK, CallOK, RowsOK
<1>4. \A d \in Client : InTouch(d) => InTouch(d)'
  BY DEF InTouch
<1>5. TabsOK'
  <2>1. \A d \in toggling' : page'[d] # "away" /\ view'[d] # "none"
    BY <1>1 DEF TabsOK
  <2>2. \A d \in steady' : InTouch(d)' /\ page'[d] # "away"
    BY <1>1, <1>4 DEF TabsOK
  <2>3. QED
    BY <2>1, <2>2 DEF TabsOK
<1>6. ASSUME NEW d \in steady' \ untold', list' = "there" PROVE KeptUp(d)'
  <2>1. CASE d = c
    BY <1>2, <1>6, <2>1
  <2>2. CASE d # c
    <3>1. d \in Client /\ d \in steady \ untold
      BY <1>6, <2>2
    <3>2. KeptUp(d)
      BY <1>1, <1>2, <1>6, <3>1 DEF Reaches
    <3>3. \A q \in Call : Announcing(q) => Announcing(q)'
      BY <1>2 DEF Announcing, Present
    <3>4. QED
      BY <2>2, <3>1, <3>2, <3>3 DEF KeptUp, UpToDate, OnItsWay
  <2>3. QED
    BY <2>1, <2>2
<1>7. Reaches'
  BY <1>6 DEF Reaches
<1>8. QED
  BY <1>3, <1>5, <1>7 DEF SyncInv

\* The parts that do not touch the hub.
LEMMA TabParts ==
    ASSUME SyncInv
    PROVE  /\ page \in [Client -> PageState] /\ view \in [Client -> {"none", "old", "fresh"}]
           /\ fetch \in [Client -> {"none", "asked", "old", "fresh"}]
           /\ toggling \subseteq Client /\ steady \subseteq Client /\ untold \subseteq steady
           /\ \A c \in toggling : page[c] # "away" /\ view[c] # "none"
           /\ \A c \in steady : InTouch(c) /\ page[c] # "away"
           /\ \A c \in steady \ untold : list = "there" => KeptUp(c)
           /\ UNCHANGED hubVars => HubInv' /\ UNCHANGED <<broadcast, clients, send, socket, missed, wire>>
BY HubStutterInv DEF SyncInv, TabsOK, Reaches, hubVars

\* A query that is invalidated on a page reads the list anew, or it is the first of
\* its tab and runs on.
LEMMA RefetchedReads ==
    ASSUME SyncInv, NEW c \in Client
    PROVE  /\ Refetched(c) \in [Client -> {"none", "asked", "old", "fresh"}]
           /\ \A d \in Client \ {c} : Refetched(c)[d] = fetch[d]
           /\ page[c] # "away" =>
                \/ Refetched(c)[c] = "asked"
                \/ view[c] = "none" /\ fetch[c] # "none" /\ Refetched(c) = fetch
<1>1. fetch \in [Client -> {"none", "asked", "old", "fresh"}]
  BY TabParts
<1>2. QED
  BY <1>1 DEF Refetched, Joins

LEMMA RefetchInv == ASSUME SyncInv, NEW c \in Client, Refetch(c) PROVE SyncInv'
<1>1. /\ page[c] # "away" /\ fetch' = Refetched(c)
      /\ UNCHANGED <<hubVars, rowVars, calls, page, view, toggling, steady, untold>>
  BY DEF Refetch
<1>2. fetch' \in [Client -> {"none", "asked", "old", "fresh"}]
      /\ (fetch'[c] = "asked" \/ fetch' = fetch)
      /\ \A d \in Client \ {c} : fetch'[d] = fetch[d]
  BY <1>1, RefetchedReads
<1>3. HubInv' /\ UNCHANGED <<broadcast, clients, send, socket, missed, wire>>
  BY <1>1, TabParts
<1>4. ASSUME list = "there", c \in steady' \ untold' PROVE KeptUp(c)'
  <2>1. CASE fetch'[c] = "asked"
    BY <2>1 DEF KeptUp, UpToDate
  <2>2. CASE fetch' = fetch
    <3>1. KeptUp(c)
      BY <1>1, <1>4, TabParts
    <3>2. OnItsWay(c) => OnItsWay(c)'
      BY <1>1, <1>3 DEF OnItsWay, Announcing, Present, rowVars
    <3>3. QED
      BY <1>1, <2>2, <3>1, <3>2 DEF KeptUp, UpToDate
  <2>3. QED
    BY <1>2, <2>1, <2>2
<1>5. QED
  BY <1>1, <1>2, <1>3, <1>4, TabParts, TabStepInv

LEMMA BeginToggleInv == ASSUME SyncInv, NEW c \in Client, BeginToggle(c) PROVE SyncInv'
<1>1. /\ page[c] # "away" /\ toggling' = toggling \cup {c}
      /\ fetch' = [fetch EXCEPT ![c] = "none"] /\ view' = [view EXCEPT ![c] = "old"]
      /\ UNCHANGED <<hubVars, rowVars, calls, page, steady, untold>>
  BY DEF BeginToggle
<1>2. /\ fetch' \in [Client -> {"none", "asked", "old", "fresh"}]
      /\ view' \in [Client -> {"none", "old", "fresh"}] /\ view'[c] = "old"
      /\ \A d \in Client \ {c} : fetch'[d] = fetch[d] /\ view'[d] = view[d]
  BY <1>1, TabParts
<1>3. KeptUp(c)'
  BY <1>1 DEF KeptUp, UpToDate
<1>4. HubInv' /\ UNCHANGED <<broadcast, clients, send, socket, missed, wire>>
  BY <1>1, TabParts
<1>5. QED
  BY <1>1, <1>2, <1>3, <1>4, TabParts, TabStepInv

\* The answer to a check sets the query off: its tab has data.
LEMMA EndToggleInv == ASSUME SyncInv, NEW c \in Client, EndToggle(c) PROVE SyncInv'
<1>1. /\ c \in toggling /\ toggling' = toggling \ {c} /\ fetch' = Refetched(c)
      /\ view' \in {view, [view EXCEPT ![c] = "old"]}
      /\ UNCHANGED <<hubVars, rowVars, calls, page, steady, untold>>
  BY DEF EndToggle
<1>2. page[c] # "away" /\ view[c] # "none"
  BY <1>1, TabParts
<1>3. /\ view' \in [Client -> {"none", "old", "fresh"}]
      /\ \A d \in Client \ {c} : view'[d] = view[d]
  BY <1>1, TabParts
<1>4. /\ fetch' \in [Client -> {"none", "asked", "old", "fresh"}] /\ fetch'[c] = "asked"
      /\ \A d \in Client \ {c} : fetch'[d] = fetch[d]
  BY <1>1, <1>2, RefetchedReads
<1>5. KeptUp(c)'
  BY <1>4 DEF KeptUp, UpToDate
<1>6. HubInv' /\ UNCHANGED <<broadcast, clients, send, socket, missed, wire>>
  BY <1>1, TabParts
<1>7. QED
  BY <1>1, <1>3, <1>4, <1>5, <1>6, TabParts, TabStepInv

LEMMA OpenPageInv == ASSUME SyncInv, NEW c \in Client, OpenPage(c) PROVE SyncInv'
<1>1. page[c] = "away" /\ UNCHANGED <<hubVars, rowVars, calls, toggling, steady, untold>>
  BY DEF OpenPage
<1>2. PICK s \in {"listening", "deaf"} : page' = [page EXCEPT ![c] = s]
  BY DEF OpenPage
<1>3. page' \in [Client -> PageState] /\ \A d \in Client \ {c} : page'[d] = page[d]
  BY <1>2, TabParts DEF PageState
<1>4. /\ fetch' \in [Client -> {"none", "asked", "old", "fresh"}]
      /\ view' \in [Client -> {"none", "old", "fresh"}]
      /\ \A d \in Client \ {c} : fetch'[d] = fetch[d] /\ view'[d] = view[d]
  <2>1. fetch' = fetch \/ fetch' = [fetch EXCEPT ![c] = "asked"]
    BY DEF OpenPage
  <2>2. view' = view \/ view' = [view EXCEPT ![c] = "none"]
    BY DEF OpenPage
  <2>3. QED
    BY <2>1, <2>2, TabParts
<1>5. HubInv' /\ UNCHANGED <<broadcast, clients, send, socket, missed, wire>>
  BY <1>1, TabParts
<1>6. c \notin steady' /\ c \notin toggling'
  BY <1>1, TabParts
<1>7. QED
  BY <1>1, <1>3, <1>4, <1>5, <1>6, TabParts, TabStepInv

LEMMA LeavePageInv == ASSUME SyncInv, NEW c \in Client, LeavePage(c) PROVE SyncInv'
<1>1. /\ page' = [page EXCEPT ![c] = "away"] /\ toggling' = toggling \ {c}
      /\ steady' = steady \ {c} /\ untold' = untold \ {c}
      /\ UNCHANGED <<hubVars, rowVars, calls, view, fetch>>
  BY DEF LeavePage
<1>2. page' \in [Client -> PageState] /\ \A d \in Client \ {c} : page'[d] = page[d]
  BY <1>1, TabParts DEF PageState
<1>3. HubInv' /\ UNCHANGED <<broadcast, clients, send, socket, missed, wire>>
  BY <1>1, TabParts
<1>4. c \notin steady' /\ c \notin toggling' /\ untold' \subseteq steady'
  BY <1>1, TabParts
<1>5. QED
  BY <1>1, <1>2, <1>3, <1>4, TabParts, TabStepInv

LEMMA FetchReadInv == ASSUME SyncInv, NEW c \in Client, FetchRead(c) PROVE SyncInv'
<1>1. fetch[c] = "asked" /\ UNCHANGED <<hubVars, rowVars, calls, page, view, toggling>>
  BY DEF FetchRead
<1>2. HubInv' /\ UNCHANGED <<broadcast, clients, send, socket, missed, wire>>
  BY <1>1, TabParts
<1>3. CASE list = "there"
  <2>1. /\ fetch' = [fetch EXCEPT ![c] = "fresh"] /\ untold' = untold \ {c}
        /\ steady' = IF InTouch(c) /\ page[c] # "away" THEN steady \cup {c} ELSE steady
    BY <1>3 DEF FetchRead
  <2>2. fetch' \in [Client -> {"none", "asked", "old", "fresh"}] /\ fetch'[c] = "fresh"
        /\ \A d \in Client \ {c} : fetch'[d] = fetch[d]
    BY <2>1, TabParts
  <2>3. KeptUp(c)'
    BY <2>2 DEF KeptUp, UpToDate
  <2>4. steady' \subseteq Client /\ untold' \subseteq steady'
    BY <2>1, TabParts
  <2>5. c \in steady' => InTouch(c) /\ page'[c] # "away"
    BY <1>1, <2>1, TabParts
  <2>6. \A d \in Client \ {c} : (d \in steady' <=> d \in steady) /\ (d \in untold' <=> d \in untold)
    BY <2>1
  <2>7. QED
    BY <1>1, <1>2, <2>2, <2>3, <2>4, <2>5, <2>6, TabParts, TabStepInv
<1>4. CASE list # "there"
  <2>1. fetch' = [fetch EXCEPT ![c] = "none"] /\ UNCHANGED <<steady, untold>>
    BY <1>4 DEF FetchRead
  <2>2. fetch' \in [Client -> {"none", "asked", "old", "fresh"}]
        /\ \A d \in Client \ {c} : fetch'[d] = fetch[d]
    BY <2>1, TabParts
  <2>3. QED
    BY <1>1, <1>2, <1>4, <2>1, <2>2, TabParts, TabStepInv
<1>5. QED
  BY <1>3, <1>4

LEMMA FetchDoneInv == ASSUME SyncInv, NEW c \in Client, FetchDone(c) PROVE SyncInv'
<1>1. /\ fetch[c] \in {"old", "fresh"} /\ view' = [view EXCEPT ![c] = fetch[c]]
      /\ fetch' = [fetch EXCEPT ![c] = "none"]
      /\ UNCHANGED <<hubVars, rowVars, calls, page, toggling, steady, untold>>
  BY DEF FetchDone
<1>2. /\ fetch' \in [Client -> {"none", "asked", "old", "fresh"}] /\ fetch'[c] = "none"
      /\ view' \in [Client -> {"none", "old", "fresh"}] /\ view'[c] = fetch[c]
      /\ \A d \in Client \ {c} : fetch'[d] = fetch[d] /\ view'[d] = view[d]
  BY <1>1, TabParts
<1>3. HubInv' /\ UNCHANGED <<broadcast, clients, send, socket, missed, wire>>
  BY <1>1, TabParts
<1>4. ASSUME list = "there", c \in steady' \ untold' PROVE KeptUp(c)'
  <2>1. KeptUp(c)
    BY <1>1, <1>4, TabParts
  <2>2. CASE fetch[c] = "fresh"
    BY <1>2, <2>2 DEF KeptUp, UpToDate
  <2>3. CASE fetch[c] = "old"
    <3>1. page[c] = "listening" => c \in toggling \/ OnItsWay(c)
      BY <2>1, <2>3 DEF KeptUp, UpToDate
    <3>2. OnItsWay(c) => OnItsWay(c)'
      BY <1>1, <1>3 DEF OnItsWay, Announcing, Present, rowVars
    <3>3. QED
      BY <1>1, <3>1, <3>2 DEF KeptUp, UpToDate
  <2>4. QED
    BY <1>1, <2>2, <2>3
<1>5. c \in steady' => InTouch(c) /\ page'[c] # "away"
  BY <1>1, TabParts
<1>6. c \in toggling' => page'[c] # "away" /\ view'[c] # "none"
  BY <1>1, <1>2, TabParts
<1>7. QED
  BY <1>1, <1>2, <1>3, <1>4, <1>5, <1>6, TabParts, TabStepInv

LEMMA FetchFailInv == ASSUME SyncInv, NEW c \in Client, FetchFail(c) PROVE SyncInv'
<1>1. /\ fetch' = [fetch EXCEPT ![c] = "none"]
      /\ steady' = steady \ {c} /\ untold' = untold \ {c}
      /\ UNCHANGED <<hubVars, rowVars, calls, page, view, toggling>>
  BY DEF FetchFail
<1>2. fetch' \in [Client -> {"none", "asked", "old", "fresh"}]
      /\ \A d \in Client \ {c} : fetch'[d] = fetch[d]
  BY <1>1, TabParts
<1>3. HubInv' /\ UNCHANGED <<broadcast, clients, send, socket, missed, wire>>
  BY <1>1, TabParts
<1>4. c \notin steady' /\ steady' \subseteq Client /\ untold' \subseteq steady'
  BY <1>1, TabParts
<1>5. QED
  BY <1>1, <1>2, <1>3, <1>4, TabParts, TabStepInv

\* A frame that can be read is heard: it starts the query anew, or joins the first
\* one, which has the change or leaves the tab untold.
LEMMA ReadFrameInv == ASSUME SyncInv, NEW c \in Client, ReadFrame(c) PROVE SyncInv'
<1> DEFINE frame == Head(wire[c])
           heard == Readable(frame) /\ Hears(c, Head(frame))
<1>1. /\ TakeFrame(c) /\ UNCHANGED <<rowVars, calls, page, view, toggling, steady>>
      /\ untold' = IF Readable(frame) /\ ~(heard /\ Joins(c) /\ fetch[c] = "old")
                   THEN untold ELSE untold \cup ({c} \cap steady)
      /\ fetch' = IF heard THEN Refetched(c) ELSE fetch
  BY DEF ReadFrame
<1>2. HubInv'
  BY <1>1, TakeFrameInv DEF SyncInv
<1>3. UNCHANGED <<broadcast, clients, send, socket, missed>>
      /\ \A d \in Client \ {c} : wire'[d] = wire[d]
  <2>1. wire \in [Client -> Seq(Seq(Message))]
    BY DEF SyncInv, HubInv, HubTypeOK
  <2>2. QED
    BY <1>1, <2>1 DEF TakeFrame
<1>4. /\ fetch' \in [Client -> {"none", "asked", "old", "fresh"}]
      /\ \A d \in Client \ {c} : fetch'[d] = fetch[d]
  BY <1>1, TabParts, RefetchedReads
<1>5. untold' \subseteq steady' /\ \A d \in Client \ {c} : d \in untold' <=> d \in untold
  BY <1>1, TabParts
<1>6. ASSUME c \in steady' \ untold', page[c] = "listening" PROVE KeptUp(c)'
  <2>1. Readable(frame) /\ c \in steady
    BY <1>1, <1>6
  <2>2. heard
    BY <1>6, <2>1 DEF Hears
  <2>3. ~(view[c] = "none" /\ fetch[c] = "old")
    BY <1>1, <1>6, <2>1, <2>2 DEF Joins
  <2>4. fetch[c] \in {"none", "asked", "old", "fresh"}
    BY TabParts
  <2>5. fetch'[c] \in {"asked", "fresh"}
    BY <1>1, <1>6, <2>2, <2>3, <2>4, RefetchedReads
  <2>6. QED
    BY <2>5 DEF KeptUp, UpToDate
<1>7. c \in steady' \ untold' => KeptUp(c)'
  BY <1>1, <1>6 DEF KeptUp
<1>8. /\ c \in steady' => InTouch(c) /\ page'[c] # "away"
      /\ c \in toggling' => page'[c] # "away" /\ view'[c] # "none"
  BY <1>1, TabParts
<1> HIDE DEF frame, heard
<1>9. QED
  BY <1>1, <1>2, <1>3, <1>4, <1>5, <1>7, <1>8, TabParts, TabStepInv

-----------------------------------------------------------------------------
(* The hub between them.                                                   *)

\* An event on its way to a tab that stays in touch moves on towards it.
LEMMA MessageMoves ==
    ASSUME SyncInv, NEW c \in Client, InTouch(c), InTouch(c)', UNCHANGED <<calls, items>>,
           OnItsWay(c),
           \/ Distribute
           \/ \E d \in Client : \/ Connect(d) \/ Register(d) \/ UnregisterEvicted(d)
                                \/ UnregisterReader(d) \/ WriteFrame(d) \/ Break(d)
    PROVE  OnItsWay(c)'
<1>1. HubInv /\ send \in [Client -> Seq(Message)] /\ wire \in [Client -> Seq(Seq(Message))]
      /\ socket \in [Client -> SocketState]
  BY DEF SyncInv, HubInv, HubTypeOK
<1>2. \A q \in Call : Announcing(q) => Announcing(q)'
  BY DEF Announcing, Present
<1>3. CASE Distribute
  <2>1. c \in clients /\ ~Full(c)
    <3>1. c \in clients /\ c \notin missed'
      BY <1>1, <1>3, DistributeSends DEF InTouch
    <3>2. QED
      BY <1>1, <1>3, <3>1, DistributeSends
  <2>2. send'[c] = Append(send[c], Head(broadcast))
    BY <1>1, <1>3, <2>1, DistributeSends
  <2>3. Head(broadcast) \in Message /\ send[c] \in Seq(Message)
    BY <1>1, <1>3, DistributeSends
  <2>4. send'[c] # <<>>
    BY <2>2, <2>3
  <2>5. QED
    BY <2>4 DEF OnItsWay
<1>4. ASSUME NEW d \in Client, Connect(d) PROVE OnItsWay(c)'
  <2>1. d # c
    BY <1>4 DEF InTouch, Connect
  <2>2. send'[c] = send[c] /\ UNCHANGED <<broadcast, wire>>
    BY <1>1, <1>4, <2>1 DEF Connect
  <2>3. QED
    BY <1>2, <2>2 DEF OnItsWay
<1>5. ASSUME NEW d \in Client, Register(d) \/ UnregisterEvicted(d) \/ UnregisterReader(d)
      PROVE  OnItsWay(c)'
  <2>1. UNCHANGED <<broadcast, send, wire>>
    BY <1>5 DEF Register, UnregisterEvicted, UnregisterReader
  <2>2. QED
    BY <1>2, <2>1 DEF OnItsWay
<1>6. ASSUME NEW d \in Client, WriteFrame(d) PROVE OnItsWay(c)'
  <2>1. CASE d = c
    <3>1. wire'[c] = Append(wire[c], send[c]) /\ wire[c] \in Seq(Seq(Message))
          /\ send[c] \in Seq(Message)
      BY <1>1, <1>6, <2>1 DEF WriteFrame
    <3>2. wire'[c] # <<>>
      BY <3>1
    <3>3. QED
      BY <3>2 DEF OnItsWay
  <2>2. CASE d # c
    <3>1. wire'[c] = wire[c] /\ send'[c] = send[c] /\ broadcast' = broadcast
      BY <1>1, <1>6, <2>2 DEF WriteFrame
    <3>2. QED
      BY <1>2, <3>1 DEF OnItsWay
  <2>3. QED
    BY <2>1, <2>2
<1>7. ASSUME NEW d \in Client, Break(d) PROVE OnItsWay(c)'
  <2>1. d # c
    BY <1>1, <1>7 DEF Break, InTouch
  <2>2. wire'[c] = wire[c] /\ UNCHANGED <<send, broadcast>>
    BY <1>1, <1>7, <2>1 DEF Break
  <2>3. QED
    BY <1>2, <2>2 DEF OnItsWay
<1>8. QED
  BY <1>3, <1>4, <1>5, <1>6, <1>7

LEMMA HubActsInv == ASSUME SyncInv, HubActs PROVE SyncInv'
<1>1. /\ \/ Distribute
         \/ \E d \in Client : \/ Connect(d) \/ Register(d) \/ UnregisterEvicted(d)
                              \/ UnregisterReader(d) \/ WriteFrame(d) \/ Break(d)
      /\ UNCHANGED <<rowVars, calls, page, view, fetch, toggling>>
      /\ steady' = {c \in steady : InTouch(c)'} /\ untold' = untold \cap steady'
  BY DEF HubActs
<1>2. HubInv'
  BY <1>1, DistributeInv, ConnectInv, RegisterInv, UnregisterInv, WriteFrameInv, BreakInv
     DEF SyncInv
<1>3. list' = list /\ items' = items
  BY <1>1 DEF rowVars
<1>4. CallsOK' /\ RowsOK'
  BY <1>1, <1>3 DEF SyncInv, CallsOK, CallOK, RowsOK
<1>5. TabsOK'
  <2>1. \A c \in steady' : InTouch(c)' /\ page'[c] # "away" /\ c \in Client
    BY <1>1, TabParts
  <2>2. QED
    BY <1>1, <2>1 DEF SyncInv, TabsOK
<1>6. ASSUME NEW c \in steady' \ untold', list' = "there" PROVE KeptUp(c)'
  <2>1. c \in steady \ untold /\ c \in Client /\ InTouch(c) /\ InTouch(c)' /\ list = "there"
    BY <1>1, <1>3, <1>6, TabParts
  <2>2. KeptUp(c)
    BY <2>1, TabParts
  <2>3. OnItsWay(c) => OnItsWay(c)'
    BY <1>1, <1>3, <2>1, MessageMoves
  <2>4. QED
    BY <1>1, <2>2, <2>3 DEF KeptUp, UpToDate
<1>7. Reaches'
  BY <1>6 DEF Reaches
<1>8. QED
  BY <1>2, <1>4, <1>5, <1>7 DEF SyncInv

LEMMA SyncRestartInv == ASSUME SyncInv, SyncRestart PROVE SyncInv'
<1>1. /\ HubRestart /\ calls' = [q \in Call |-> NoCall] /\ fetch' = [c \in Client |-> "none"]
      /\ steady' = {} /\ untold' = {} /\ UNCHANGED <<rowVars, page, view, toggling>>
  BY DEF SyncRestart
<1>2. HubInv'
  BY <1>1, HubRestartInv
<1>3. CallsOK'
  <2>1. NoCall \in CallState /\ NoCall.pc = "idle"
    BY DEF NoCall, CallState, CallOp, ItemState
  <2>2. QED
    BY <1>1, <2>1 DEF CallsOK, CallOK
<1>4. RowsOK' /\ TabsOK' /\ Reaches'
  BY <1>1 DEF SyncInv, RowsOK, TabsOK, Reaches, rowVars
<1>5. QED
  BY <1>2, <1>3, <1>4 DEF SyncInv

-----------------------------------------------------------------------------
LEMMA SyncStep == SyncInv /\ [SyncNext]_syncVars => SyncInv'
<1> SUFFICES ASSUME SyncInv, [SyncNext]_syncVars PROVE SyncInv'
  OBVIOUS
<1>1. ASSUME NEW q \in Call, BeginCall(q) \/ CallStep(q) PROVE SyncInv'
  BY <1>1, BeginCallInv, CheckListInv, ValidateInv, CommitInv, ReadBackInv, AnnounceInv DEF CallStep
<1>2. ASSUME NEW c \in Client, QueryStep(c) \/ TabStep(c) PROVE SyncInv'
  BY <1>2, FetchReadInv, FetchDoneInv, FetchFailInv, OpenPageInv, LeavePageInv, RefetchInv,
     BeginToggleInv, EndToggleInv, ReadFrameInv DEF QueryStep, TabStep
<1>3. CASE UNCHANGED syncVars
  <2>1. HubInv' /\ UNCHANGED <<broadcast, clients, send, socket, missed, wire>>
    BY <1>3, TabParts DEF syncVars
  <2>2. UNCHANGED <<list, items, calls, page, view, fetch, toggling, steady, untold>>
    BY <1>3 DEF syncVars, rowVars, tabVars
  <2>3. CallsOK' /\ RowsOK' /\ TabsOK'
    BY <2>1, <2>2 DEF SyncInv, CallsOK, CallOK, RowsOK, TabsOK, InTouch
  <2>4. Reaches'
    BY <2>1, <2>2 DEF SyncInv, Reaches, KeptUp, UpToDate, OnItsWay, Announcing, Present
  <2>5. QED
    BY <2>1, <2>3, <2>4 DEF SyncInv
<1>4. QED
  BY <1>1, <1>2, <1>3, HubActsInv, SyncRestartInv DEF SyncNext

LEMMA SyncInvariant == SyncSpec => []SyncInv
BY SyncInitInv, SyncStep, PTL DEF SyncSpec

\* However the handlers, the hub's goroutines, the connections and the tabs
\* interleave (hub.go, lists.go): no send channel is closed twice or sent on when
\* closed, and a tab that an event has skipped does not stay registered.
THEOREM SyncIsSound == SyncSpec => []SyncSound
<1>1. SyncInv => SyncSound
  BY DEF SyncInv, HubInv, CallsOK, RowsOK, TabsOK, SyncSound, SyncTypeOK
<1>2. QED
  BY <1>1, SyncInvariant, PTL

\* A commit, its event, the queries and a check shown ahead of its answer cannot
\* pass each other, on any path from lists.go through hub.go to useWebSocket.ts, so
\* that a listening tab in touch, told of every change since it read the list, keeps
\* showing what is no longer so.
THEOREM SteadyTabsSeeAll == SyncSpec => []SteadySeesAll
<1>1. SyncInv => SteadySeesAll
  <2> SUFFICES ASSUME SyncInv, NEW c \in steady \ untold, page[c] = "listening", Settled(c)
               PROVE  view[c] = "fresh"
    BY DEF SteadySeesAll
  <2>1. list = "there" /\ c \notin toggling /\ fetch[c] = "none" /\ ~OnItsWay(c)
    BY DEF Settled, OnItsWay, Announcing
  <2>2. QED
    BY <2>1, TabParts DEF KeptUp, UpToDate
<1>2. QED
  BY <1>1, SyncInvariant, PTL
=============================================================================

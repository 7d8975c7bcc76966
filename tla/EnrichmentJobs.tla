---------------------------- MODULE EnrichmentJobs ----------------------------
(***************************************************************************)
(* Product enrichment jobs (internal/enrichment/runner): rows of the table *)
(* product_enrichment_jobs, and the worker that runs them.  The worker's   *)
(* channel, dedupe map, wait group and Shutdown are those of the receipt   *)
(* worker (worker.go repeats them), so this module extends ReceiptQueue;    *)
(* what that module calls receipts are here the ids of the rows.           *)
(***************************************************************************)
EXTENDS ReceiptQueue

CONSTANTS
    Key,          \* (household, product, trigger, lookup key)
    KeyOf,        \* the key that a row is inserted for; ids are random
    Request,      \* calls of QueueForProduct that may be in progress at a time
    MaxAttempts,  \* of RecoverStaleRunning (3 in serve.go)
    DbMayFail     \* whether a statement may fail while the process lives

JobIds == Receipts

ASSUME EnrichAssumption ==
    /\ KeyOf \in [JobIds -> Key]
    /\ MaxAttempts \in Nat \ {0}
    /\ DbMayFail \in BOOLEAN

VARIABLES
    row,    \* the table
    booted, \* whether this process has recovered the rows of the one before
    stage,  \* how far ProcessJob has got in each goroutine
    req,    \* the calls of QueueForProduct in progress
    ready,  \* what RequeueReady has read and not yet submitted
    lost    \* history: how many runs of an unended job have ended unrecorded

vars == <<queueVars, row, booted, stage, req, ready, lost>>

\* 'succeeded', 'partial' and 'failed' are "ended": no statement of the queue
\* looks at such a row, so what it counted is left out.  Nothing writes 'cancelled'.
Active == {"queued", "running"}
Status == Active \cup {"none", "ended", "deleted"}

\* next: next_attempt_at, NULL, to come or past.
RowState == [status : Status, attempts : 0..MaxAttempts, next : {"null", "later", "past"}]

NoRow == [status |-> "none", attempts |-> 0, next |-> "null"]
Row(status) == [NoRow EXCEPT !.status = status]

Stage == {"none", "mark", "look", "release"}
NoRequest == [pc |-> "idle", on |-> NoJob]

EnrichTypeOK ==
    /\ row \in [JobIds -> RowState]
    /\ booted \in BOOLEAN
    /\ stage \in [Workers -> Stage]
    /\ req \in [Request -> [pc : {"idle", "insert", "found", "submit"}, on : JobIds \cup {NoJob}]]
    /\ \A q \in Request : req[q].pc # "idle" => req[q].on \in JobIds
    /\ ready \subseteq JobIds
    /\ lost \in [JobIds -> Nat]

EnrichInit ==
    /\ QueueInit
    /\ row = [j \in JobIds |-> NoRow]
    /\ booted = FALSE
    /\ stage = [w \in Workers |-> "none"]
    /\ req = [q \in Request |-> NoRequest]
    /\ ready = {}
    /\ lost = [j \in JobIds |-> 0]

ActiveOf(k) == {j \in JobIds : KeyOf[j] = k /\ row[j].status \in Active}
\* Seeded fault: a poll that asks for rows without a next attempt.
ReadyUnscheduled(j) == row[j].status = "queued" /\ row[j].next = "null"

Ready(j) == row[j].status = "queued" /\ row[j].next # "later"

\* A statement that writes the row: it may fail, and its error is only logged;
\* with the cancelled context of a late shutdown it does not go through (but for
\* one that has been sent before).
Cancelled == pool \in {"late", "stopped"}
Fails == DbMayFail \/ Cancelled

-----------------------------------------------------------------------------
(* QueueForProduct, for a handler, the receipt worker or the sweep.        *)

At(q, pc) == pool # "down" /\ req[q].pc = pc
Goto(q, pc, j) == req' = [req EXCEPT ![q] = [pc |-> pc, on |-> j]]
End(q) == req' = [req EXCEPT ![q] = NoRequest]

\* QueueJob's SELECT of an active job of the key.  A request for a new row goes
\* on with the id that the row will get.
Look(q, k) ==
    /\ pool # "down"
    /\ req[q].pc = "idle"
    /\ IF ActiveOf(k) # {}
       THEN \E j \in ActiveOf(k) : Goto(q, "found", j)
       ELSE \E j \in JobIds : /\ KeyOf[j] = k /\ row[j].status = "none"
                              /\ \A o \in Request : req[o].on # j
                              /\ Goto(q, "insert", j)
    /\ UNCHANGED <<queueVars, row, booted, stage, ready, lost>>

\* PrepareQueueForProduct has found a key to ask for, for a person or a receipt.
Ask(q) == \E k \in Key : Look(q, k)

\* sweepHousehold asks for products without an active job.
Sweep(q) == \E k \in Key : ActiveOf(k) = {} /\ Look(q, k)

\* The partial unique index refuses a second active row of a key.
Inserted(j) == row[j].status = "none" /\ ActiveOf(KeyOf[j]) = {}

\* After a conflict QueueJob takes the active job, if there still is one.
Insert(q) ==
    LET j == req[q].on IN
    /\ At(q, "insert")
    /\ \/ /\ Inserted(j)
          /\ row' = [row EXCEPT ![j] = Row("queued")]
          /\ Goto(q, "submit", j)
       \/ /\ ~Inserted(j)
          /\ \E a \in ActiveOf(KeyOf[j]) :
                IF row[a].status = "queued" THEN Goto(q, "submit", a) ELSE End(q)
          /\ UNCHANGED row
       \/ /\ DbMayFail \/ (ActiveOf(KeyOf[j]) = {} /\ ~Inserted(j))
          /\ End(q)
          /\ UNCHANGED row
    /\ UNCHANGED <<queueVars, booted, stage, ready, lost>>

\* A queued job is submitted again, whatever its next attempt.
Found(q) ==
    LET j == req[q].on IN
    /\ At(q, "found")
    /\ IF row[j].status = "queued" THEN Goto(q, "submit", j) ELSE End(q)
    /\ UNCHANGED <<queueVars, row, booted, stage, ready, lost>>

\* What Submit returns is not looked at.
Submit(q) ==
    /\ At(q, "submit")
    /\ \/ Enqueue(req[q].on)
       \/ Refused(req[q].on, {"shuttingDown", "alreadyQueued", "queueFull"})
    /\ End(q)
    /\ UNCHANGED <<row, booted, stage, ready, lost>>

\* Deleting or merging the product takes its jobs along.
DropRow(j) ==
    /\ pool # "down"
    /\ row[j].status \notin {"none", "deleted"}
    /\ row' = [row EXCEPT ![j] = Row("deleted")]
    /\ lost' = [lost EXCEPT ![j] = 0]
    /\ UNCHANGED <<queueVars, booted, stage, req, ready>>

-----------------------------------------------------------------------------
(* ProcessJob.                                                             *)

Works(w, j) == job[w] = j /\ stage[w] = "look"
Doing(w, s) == wpc[w] = "running" /\ stage[w] = s
Go(w, s) == stage' = [stage EXCEPT ![w] = s]

TakeJob(w) ==
    /\ Take(w)
    /\ Go(w, "mark")
    /\ UNCHANGED <<row, booted, req, ready, lost>>

Marked(r) == [r EXCEPT !.status = "running", !.attempts = @ + 1, !.next = "null"]

\* ProcessJob reads the row, and returns if it is not queued, then marks it with
\* UPDATE ... SET status = 'running' ... AND status = 'queued', which looks again.
MarkRunning(w) ==
    LET j == job[w] IN
    /\ Doing(w, "mark")
    /\ \/ /\ row[j].status = "queued"
          /\ row' = [row EXCEPT ![j] = Marked(@)]
          /\ Go(w, "look")
       \/ /\ row[j].status # "queued" \/ Fails
          /\ Go(w, "release")
          /\ UNCHANGED row
    /\ UNCHANGED <<queueVars, booted, req, ready, lost>>

\* The last statement of the run.  It has no condition on the status; a row that
\* is gone stays gone.
Record(w, new) ==
    LET j == job[w] IN
    /\ Doing(w, "look")
    /\ Go(w, "release")
    /\ \/ /\ row' = IF row[j].status = "deleted" THEN row ELSE [row EXCEPT ![j] = new]
          /\ lost' = IF new.status = "ended" THEN [lost EXCEPT ![j] = 0] ELSE lost
       \/ /\ Fails
          /\ lost' = IF row[j].status = "running" THEN [lost EXCEPT ![j] = @ + 1] ELSE lost
          /\ UNCHANGED row
    /\ UNCHANGED <<queueVars, booted, req, ready>>

\* finishJob: settings or providers leave nothing to ask, all of them fail, or
\* one succeeds.
FinishJob(w) == Record(w, Row("ended"))

\* A provider answered 429 and none succeeded: the attempt is given back, and the
\* next is due in 2^n minutes, n being the attempt_count before this one.
Requeued(r) == [r EXCEPT !.status = "queued", !.attempts = @ - 1, !.next = "later"]

RateLimited(w) == Record(w, Requeued(row[job[w]]))

ForgetJob(w) ==
    /\ Doing(w, "release")
    /\ Forget(w)
    /\ Go(w, "none")
    /\ UNCHANGED <<row, booted, req, ready, lost>>

JobDone(w) ==
    /\ Finish(w) \/ Exit(w)
    /\ UNCHANGED <<row, booted, stage, req, ready, lost>>

-----------------------------------------------------------------------------
(* The poll, every ten seconds from NewWorker on and once at boot.         *)

\* The rows are read in one go.
PollRead ==
    /\ pool = "open"
    /\ ready = {}
    /\ ready' = {j \in JobIds : Ready(j)}
    /\ ready' # {}
    /\ UNCHANGED <<queueVars, row, booted, stage, req, lost>>

\* Seeded fault: a poll that sends past Submit's dedupe.
PollForced(j) ==
    /\ pool = "open" /\ ~adding /\ Len(jobs) < QueueCap
    /\ j \in ready
    /\ jobs' = Append(jobs, j)
    /\ queued' = queued \cup {j}
    /\ adding' = TRUE
    /\ ready' = ready \ {j}
    /\ UNCHANGED <<pool, wg, wpc, job, row, booted, stage, req, lost>>

PollSubmit(j) ==
    /\ pool # "down"
    /\ j \in ready
    /\ \/ Enqueue(j) /\ ready' = ready \ {j}
       \/ Refused(j, {"alreadyQueued"}) /\ ready' = ready \ {j}
       \/ Refused(j, {"queueFull", "shuttingDown"}) /\ ready' = {}
    /\ UNCHANGED <<row, booted, stage, req, lost>>

-----------------------------------------------------------------------------
(* Time, the boot, the shutdown and a crash.                               *)

Elapse(j) ==
    /\ row[j].next = "later"
    /\ row' = [row EXCEPT ![j].next = "past"]
    /\ UNCHANGED <<queueVars, booted, stage, req, ready, lost>>

\* Seeded fault: recovery without a limit on the attempts.
RecoveredAlways(r) ==
    IF r.status # "running" THEN r
    ELSE [r EXCEPT !.status = "queued", !.next = "null"]

\* RecoverStaleRunning of a row that was written half an hour ago or before. 
Recovered(r) ==
    IF r.status # "running" THEN r
    ELSE IF r.attempts < MaxAttempts
         THEN [r EXCEPT !.status = "queued", !.next = "null"]
         ELSE Row("ended")

\* NewWorker.  The receipt worker, which asks for jobs, starts before.
Boot ==
    /\ Start
    /\ UNCHANGED <<row, booted, stage, req, ready, lost>>

\* The two UPDATEs of RecoverStaleRunning, of which the second may be missing or
\* both: rows that have been running for half an hour, which this process has not.
Recover ==
    /\ pool = "open" /\ ~booted
    /\ booted' = TRUE
    /\ \E old \in SUBSET {j \in JobIds : \A w \in Workers : ~Works(w, j)} :
          /\ row' = [j \in JobIds |-> IF j \in old THEN Recovered(row[j]) ELSE row[j]]
          /\ lost' = [j \in JobIds |-> IF row'[j].status = "ended" THEN 0 ELSE lost[j]]
    /\ UNCHANGED <<queueVars, stage, req, ready>>

\* On the deadline Shutdown cancels the context of the jobs that run and drops
\* those that wait; their rows are queued still.
StopWorker ==
    /\ \/ booted /\ StopAccepting
       \/ CleanStop \/ Deadline \/ Drain \/ StopDone
    /\ UNCHANGED <<row, booted, stage, req, ready, lost>>

Crash ==
    /\ Die
    /\ booted' = FALSE
    /\ stage' = [w \in Workers |-> "none"]
    /\ req' = [q \in Request |-> NoRequest]
    /\ ready' = {}
    /\ lost' = [j \in JobIds |->
          IF row[j].status = "running" /\ \E w \in Workers : Works(w, j)
          THEN lost[j] + 1 ELSE lost[j]]
    /\ UNCHANGED row

CountSubmitted == CountJob /\ UNCHANGED <<row, booted, stage, req, ready, lost>>

-----------------------------------------------------------------------------
JobStep(w) ==
    \/ TakeJob(w) \/ MarkRunning(w) \/ FinishJob(w) \/ RateLimited(w)
    \/ ForgetJob(w) \/ JobDone(w)

RequestStep(q) == Insert(q) \/ Found(q) \/ Submit(q)

EnrichNext ==
    \/ \E w \in Workers : JobStep(w)
    \/ \E q \in Request : Ask(q) \/ Sweep(q) \/ RequestStep(q)
    \/ \E j \in JobIds : PollSubmit(j) \/ DropRow(j) \/ Elapse(j)
    \/ PollRead \/ CountSubmitted
    \/ Boot \/ Recover \/ StopWorker \/ Crash

\* Lookups have a timeout of 15 s, the ticker ticks, and the clock goes on.  The
\* poll takes rows of a trigger by the time they are due, so a row that waits
\* while others are submitted is the first at last.  A job's statements do not
\* fail for ever.
EnrichFairness ==
    /\ WF_vars(PollRead) /\ WF_vars(CountSubmitted)
    /\ \A w \in Workers : WF_vars(JobStep(w))
    /\ \A j \in JobIds : SF_vars(PollSubmit(j)) /\ WF_vars(Elapse(j))
    /\ \A j \in JobIds : SF_vars(\E w \in Workers : job[w] = j /\ MarkRunning(w) /\ stage'[w] = "look")

EnrichSpec == EnrichInit /\ [][EnrichNext]_vars /\ EnrichFairness

-----------------------------------------------------------------------------
\* The rows agree with the goroutines: a job that one of them works on is marked
\* as running, whatever else happens to the row, by nobody else, and a row that
\* says so without a goroutine has lost its run.
RunningIsOwned ==
    /\ \A v, w \in Workers, j \in JobIds : Works(v, j) /\ Works(w, j) => v = w
    /\ \A w \in Workers, j \in JobIds : Works(w, j) => row[j].status \in {"running", "deleted"}
    /\ \A j \in JobIds :
          row[j].status = "running" => lost[j] > 0 \/ \E w \in Workers : Works(w, j)

\* A job that takes the server down with it, or cannot record its end, is tried
\* MaxAttempts times and no more, whatever rate limits come between.
LossesBounded == \A j \in JobIds : lost[j] <= MaxAttempts

\* No two active jobs of a key, though QueueJob looks and inserts in two steps.
OneActive == \A i, j \in JobIds :
    KeyOf[i] = KeyOf[j] /\ row[i].status \in Active /\ row[j].status \in Active => i = j

\* The types, one active row per key, rows that agree with the goroutines, and
\* bounded retries of what crashes.
EnrichSound == EnrichTypeOK /\ OneActive /\ RunningIsOwned /\ LossesBounded

\* A queued job is run, though Submit's refusals are ignored: the poll brings it
\* back, unless the server stops first.
QueuedIsRun ==
    \A j \in JobIds : row[j].status = "queued" ~> row[j].status # "queued" \/ pool # "open"

\* Handlers, sweep, poll and boot use the queue only as it allows.
ImplementsQueue == QueueSpec

\* "otherwise use exponential backoff with jitter", "cap retries with backoff"
\* (docs/food-product-enrichment-implementation-plan.md:569, 1717): the count of
\* attempts, from which the next wait follows, keeps the one that was limited.
BacksOff ==
    [][\A w \in Workers, j \in JobIds :
         Works(w, j) /\ row'[j].status = "queued" => row'[j].attempts >= row[j].attempts]_vars
=============================================================================

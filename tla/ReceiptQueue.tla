----------------------------- MODULE ReceiptQueue -----------------------------
(***************************************************************************)
(* The concurrency of worker.ReceiptWorker (internal/worker/receipt.go):   *)
(* the buffered channel jobs, the dedupe map queued, the wait group wg,    *)
(* the goroutines that run process(), and the Shutdown protocol.  What a   *)
(* job does to the database is added by ReceiptPipeline.                   *)
(***************************************************************************)
EXTENDS Naturals, FiniteSets, Sequences, Functions

CONSTANTS
    Receipts,   \* receipt ids
    Workers,    \* the goroutines NewReceiptWorker starts (2 in serve.go)
    QueueCap,   \* capacity of the jobs channel (100 in the code)
    NoJob       \* the value of a goroutine that holds no job

ASSUME QueueAssumption ==
    /\ IsFiniteSet(Workers)
    /\ QueueCap \in Nat \ {0}
    /\ NoJob \notin Receipts

VARIABLES
    pool,       \* how far the worker's life has got, see PoolState
    jobs,       \* the channel: receipts of the buffered jobs, oldest first
    queued,     \* the keys of the dedupe map
    adding,     \* whether a Submit has sent its job and not yet called wg.Add
    wg,         \* the counter of the wait group
    wpc,        \* where each goroutine is in process()
    job         \* the receipt of the job a goroutine runs, or NoJob

queueVars == <<pool, jobs, queued, adding, wg, wpc, job>>

\* "open" is the state in which accepting is true and jobs is not closed:
\* Shutdown changes both under the mutex that Submit holds.  "waiting" is
\* Shutdown's select, "clean" and "late" its two branches.
PoolState == {"down", "open", "waiting", "clean", "late", "stopped"}

\* "running" is runJob; "forgotten" lies between queued.Delete and wg.Done.
WorkerState == {"idle", "running", "forgotten", "exited"}

QueueTypeOK ==
    /\ pool \in PoolState
    /\ jobs \in Seq(Receipts)
    /\ Len(jobs) <= QueueCap
    /\ queued \subseteq Receipts
    /\ adding \in BOOLEAN
    /\ wg \in Nat
    /\ wpc \in [Workers -> WorkerState]
    /\ job \in [Workers -> Receipts \cup {NoJob}]

QueueInit ==
    /\ pool = "down"
    /\ jobs = <<>>
    /\ queued = {}
    /\ adding = FALSE
    /\ wg = 0
    /\ wpc = [w \in Workers |-> "idle"]
    /\ job = [w \in Workers |-> NoJob]

-----------------------------------------------------------------------------
(* Submit.  It holds the mutex from end to end, which keeps other Submits  *)
(* and Shutdown's close out, but not the goroutines: they may receive the  *)
(* job, and even finish it, between the send and wg.Add.                   *)

SubmitResult(r) ==
    CASE pool # "open"          -> "shuttingDown"
      [] r \in queued           -> "alreadyQueued"
      [] Len(jobs) >= QueueCap  -> "queueFull"
      [] OTHER                  -> "accepted"

\* The results Submit may return now: none while another call has the mutex.
Refused(r, results) == ~adding /\ SubmitResult(r) \in results /\ UNCHANGED queueVars

\* queued.LoadOrStore and the send; nobody sees the one without the other.
Enqueue(r) ==
    /\ ~adding
    /\ SubmitResult(r) = "accepted"
    /\ jobs' = Append(jobs, r)
    /\ queued' = queued \cup {r}
    /\ adding' = TRUE
    /\ UNCHANGED <<pool, wg, wpc, job>>

\* Seeded fault: no wg.Add in Submit, as before the wg-accounting fix.
CountNothing ==
    /\ adding
    /\ adding' = FALSE
    /\ UNCHANGED <<pool, jobs, queued, wg, wpc, job>>

CountJob ==
    /\ adding
    /\ adding' = FALSE
    /\ wg' = wg + 1
    /\ UNCHANGED <<pool, jobs, queued, wpc, job>>

-----------------------------------------------------------------------------
(* process(): receive, run, queued.Delete, wg.Done; the loop ends when the *)
(* channel is closed and empty.                                            *)

\* Seeded fault: the dedupe key is dropped when the job is received.
TakeForgets(w) ==
    /\ pool # "down"
    /\ wpc[w] = "idle"
    /\ jobs # <<>>
    /\ jobs' = Tail(jobs)
    /\ queued' = queued \ {Head(jobs)}
    /\ job' = [job EXCEPT ![w] = Head(jobs)]
    /\ wpc' = [wpc EXCEPT ![w] = "running"]
    /\ UNCHANGED <<pool, adding, wg>>

Take(w) ==
    /\ pool # "down"
    /\ wpc[w] = "idle"
    /\ jobs # <<>>
    /\ jobs' = Tail(jobs)
    /\ job' = [job EXCEPT ![w] = Head(jobs)]
    /\ wpc' = [wpc EXCEPT ![w] = "running"]
    /\ UNCHANGED <<pool, queued, adding, wg>>

\* Seeded fault: queued.Delete missing after the run.
ForgetKeepsKey(w) ==
    /\ wpc[w] = "running"
    /\ job' = [job EXCEPT ![w] = NoJob]
    /\ wpc' = [wpc EXCEPT ![w] = "forgotten"]
    /\ UNCHANGED <<pool, jobs, queued, adding, wg>>

Forget(w) ==
    /\ wpc[w] = "running"
    /\ queued' = queued \ {job[w]}
    /\ job' = [job EXCEPT ![w] = NoJob]
    /\ wpc' = [wpc EXCEPT ![w] = "forgotten"]
    /\ UNCHANGED <<pool, jobs, adding, wg>>

\* wg.Done panics when the counter is zero, and takes the process down: Die.
Finish(w) ==
    /\ wpc[w] = "forgotten"
    /\ wg > 0
    /\ wg' = wg - 1
    /\ wpc' = [wpc EXCEPT ![w] = "idle"]
    /\ UNCHANGED <<pool, jobs, queued, adding, job>>

Exit(w) ==
    /\ pool \notin {"down", "open"}
    /\ wpc[w] = "idle"
    /\ jobs = <<>>
    /\ wpc' = [wpc EXCEPT ![w] = "exited"]
    /\ UNCHANGED <<pool, jobs, queued, adding, wg, job>>

-----------------------------------------------------------------------------
(* Shutdown, and the life of the process around it.                        *)

StopAccepting ==
    /\ pool = "open"
    /\ ~adding
    /\ pool' = "waiting"
    /\ UNCHANGED <<jobs, queued, adding, wg, wpc, job>>

CleanStop ==
    /\ pool = "waiting"
    /\ wg = 0
    /\ pool' = "clean"
    /\ UNCHANGED <<jobs, queued, adding, wg, wpc, job>>

Deadline ==
    /\ pool = "waiting"
    /\ pool' = "late"
    /\ UNCHANGED <<jobs, queued, adding, wg, wpc, job>>

\* Seeded fault: no drain loop on the deadline branch.
DrainCleanOnly ==
    /\ pool = "clean"
    /\ jobs # <<>>
    /\ jobs' = Tail(jobs)
    /\ queued' = queued \ {Head(jobs)}
    /\ wg' = wg - 1
    /\ UNCHANGED <<pool, adding, wpc, job>>

Drain ==
    /\ pool \in {"clean", "late"}
    /\ jobs # <<>>
    /\ jobs' = Tail(jobs)
    /\ queued' = queued \ {Head(jobs)}
    /\ wg' = wg - 1
    /\ UNCHANGED <<pool, adding, wpc, job>>

StopDone ==
    /\ pool \in {"clean", "late"}
    /\ jobs = <<>>
    /\ pool' = "stopped"
    /\ UNCHANGED <<jobs, queued, adding, wg, wpc, job>>

\* The process exits or is killed: everything here is memory.
Die ==
    /\ pool # "down"
    /\ pool' = "down"
    /\ jobs' = <<>>
    /\ queued' = {}
    /\ adding' = FALSE
    /\ wg' = 0
    /\ wpc' = [w \in Workers |-> "idle"]
    /\ job' = [w \in Workers |-> NoJob]

\* NewReceiptWorker in a new process.
Start ==
    /\ pool = "down"
    /\ pool' = "open"
    /\ UNCHANGED <<jobs, queued, adding, wg, wpc, job>>

-----------------------------------------------------------------------------
WorkerStep(w) == Take(w) \/ Forget(w) \/ Finish(w) \/ Exit(w)

ShutdownStep == CleanStop \/ Deadline \/ Drain \/ StopDone

QueueNext ==
    \/ \E r \in Receipts : Enqueue(r)
    \/ CountJob
    \/ \E w \in Workers : WorkerStep(w)
    \/ StopAccepting
    \/ ShutdownStep
    \/ Die
    \/ Start

QueueSpec == QueueInit /\ [][QueueNext]_queueVars

\* Goroutines are scheduled and every model call returns (the HTTP client and
\* the CLI both time out), so process() keeps going while the process lives, and
\* so does the caller that Submit has let in.
WorkersFair == WF_queueVars(CountJob) /\ \A w \in Workers : WF_queueVars(WorkerStep(w))

\* The shutdown context expires and the drain loop is never blocked.  Nothing
\* is assumed of the goroutines: a model call may hang past the deadline.
ShutdownFair == WF_queueVars(Deadline) /\ WF_queueVars(Drain) /\ WF_queueVars(StopDone)

-----------------------------------------------------------------------------
Running == {w \in Workers : wpc[w] = "running"}

\* Goroutines that still owe a wg.Done.
Owing == {w \in Workers : wpc[w] \in {"running", "forgotten"}}

Held == {job[w] : w \in Running}

Uncounted == IF adding THEN 1 ELSE 0

\* Submit's dedupe: two jobs for one receipt never exist at a time, whether
\* buffered or running ("prevents double LLM spend", receipt.go:157-160).
NoDoubleJob ==
    /\ \A i, j \in DOMAIN jobs : jobs[i] = jobs[j] => i = j
    /\ \A v, w \in Running : job[v] = job[w] => v = w
    /\ Range(jobs) \cap Held = {}

\* The dedupe map holds exactly the receipts with a buffered or running job: a
\* key left behind would refuse every later retry of the receipt, a missing
\* one would let it be extracted twice.
DedupeExact == queued = Range(jobs) \cup Held

\* The wg-accounting invariant of Submit's comment (receipt.go:203-216): every
\* job that is buffered, running or not yet reported done is counted once, but
\* for the one a Submit is still adding.
WgExact == wg + Uncounted = Len(jobs) + Cardinality(Owing)

\* The three records of a job, the channel, the dedupe map and the wait group,
\* never disagree.
Bookkeeping == QueueTypeOK /\ NoDoubleJob /\ DedupeExact /\ WgExact

\* A shutdown that reports all jobs finished left none behind: nothing is
\* buffered for the drain loop and no goroutine is inside a job.
CleanMeansDone == pool = "clean" => jobs = <<>> /\ Owing = {}

\* "Every job sitting in w.jobs (buffered or in-flight) carries an open wg
\* count" (receipt.go:210-211): a goroutine that comes to call wg.Done finds a
\* count to take, where a missing one panics and kills the server.
DoneFindsCount == \A w \in Workers : wpc[w] = "forgotten" => wg > 0

\* After close(jobs) nobody sends: a send on the closed channel would panic.
ClosedOnlyDrains ==
    [][pool \notin {"open", "down"} =>
         Len(jobs') < Len(jobs) \/ jobs' = jobs \/ pool' = "down"]_queueVars

\* Every accepted job comes to an end, so its receipt can be submitted again.
JobsEnd == WorkersFair => \A r \in Receipts : (r \in queued ~> r \notin queued)

\* Shutdown returns even if a model call never does.
ShutdownReturns == ShutdownFair => (pool = "waiting" ~> pool \in {"stopped", "down"})

Service == INSTANCE ExtractionService WITH
    waiting <- Range(jobs),
    runner  <- job

ImplementsService == Service!ServiceSpec
=============================================================================

--------------------------- MODULE ReceiptPipeline ---------------------------
(***************************************************************************)
(* A receipt's life: the HTTP handlers of internal/api/receipts.go, the    *)
(* jobs of internal/worker/receipt.go and what both do to the row, the     *)
(* line items and the image files, over the queue of ReceiptQueue.  Rows,  *)
(* line items and files survive a crash; requests and jobs do not.         *)
(***************************************************************************)
EXTENDS ReceiptQueue

CONSTANTS
    Requests,        \* HTTP requests that may be in progress at a time
    RequeueCap,      \* rows RequeuePending reads at boot (1000 in the code)
    GuardMayRefuse,  \* whether budget or breaker may refuse a call
    DbMayFail        \* whether an UPDATE outside a transaction may fail

ASSUME PipelineAssumption ==
    /\ RequeueCap \in Nat \ {0}
    /\ GuardMayRefuse \in BOOLEAN
    /\ DbMayFail \in BOOLEAN

VARIABLES
    http,       \* "off", "boot" (before the router runs), "on", "closing"
    status,     \* receipts.status, "none" before the row and "deleted" after
    images,     \* whether the original image files are on disk
    lines,      \* where the line items come from, see LineState
    stage,      \* how far processJob has got in each goroutine
    req,        \* the requests in progress
    toRequeue,  \* rows RequeuePending has read and not yet resubmitted
    leftover,   \* history: pending rows this boot leaves to the next one
    touched     \* history: receipts some handler other than Scan has worked on

dbVars == <<status, images, lines>>
bootVars == <<http, toRequeue, leftover>>
vars == <<queueVars, dbVars, bootVars, stage, req, touched>>

\* 'processing' is missing: only the extraction's own transaction writes it, and
\* the status of its commit replaces it, so no other reader ever sees it.
Stored == {"pending", "error", "matched", "reviewed"}
Status == Stored \cup {"none", "deleted"}

\* "llm": one committed extraction; "user": rows a person added or repaired;
\* "mixed": one extraction and a person's work; "double": the rows of two
\* extractions, every purchase on the receipt counted twice.
LineState == {"none", "llm", "user", "mixed", "double"}

Stage == {"none", "load", "call", "commit", "fail", "release"}

RequestState == {"idle", "scanSave", "scanSubmit", "repGuard", "repFlip",
                 "repSubmit", "repRollback", "addItem", "addItems", "repair",
                 "delFiles"}

NoRequest == [pc |-> "idle", receipt |-> NoJob, seen |-> "none"]

PipelineTypeOK ==
    /\ http \in {"off", "boot", "on", "closing"}
    /\ status \in [Receipts -> Status]
    /\ images \in [Receipts -> BOOLEAN]
    /\ lines \in [Receipts -> LineState]
    /\ stage \in [Workers -> Stage]
    /\ req \in [Requests -> [pc : RequestState, receipt : Receipts \cup {NoJob},
                             seen : Status]]
    /\ toRequeue \subseteq Receipts
    /\ leftover \subseteq Receipts
    /\ touched \subseteq Receipts

PipelineInit ==
    /\ QueueInit
    /\ http = "off"
    /\ status = [r \in Receipts |-> "none"]
    /\ images = [r \in Receipts |-> FALSE]
    /\ lines = [r \in Receipts |-> "none"]
    /\ stage = [w \in Workers |-> "none"]
    /\ req = [q \in Requests |-> NoRequest]
    /\ toRequeue = {}
    /\ leftover = {}
    /\ touched = {}

-----------------------------------------------------------------------------
(* UPDATE receipts SET status = ... WHERE id = r: it changes nothing when  *)
(* the row is gone, and its error is ignored wherever it stands alone.     *)

Written(r, s) == IF status[r] \in Stored THEN [status EXCEPT ![r] = s] ELSE status

Update(r, s) ==
    \/ status' = Written(r, s)
    \/ DbMayFail /\ status' = status

\* What user edits and worker commits make of the line items.
Edited(r) == [lines EXCEPT ![r] = CASE @ = "none" -> "user"
                                    [] @ = "llm"  -> "mixed"
                                    [] OTHER      -> @]

Extracted(r) == [lines EXCEPT ![r] = CASE @ = "none" -> "llm"
                                       [] @ = "user" -> "mixed"
                                       [] OTHER      -> "double"]

At(q, pc) == pool # "down" /\ req[q].pc = pc

Begin(q, r, pc) ==
    /\ http = "on"
    /\ req[q].pc = "idle"
    /\ req' = [req EXCEPT ![q] = [pc |-> pc, receipt |-> r,
                                  seen |-> IF pc = "repGuard" THEN status[r] ELSE "none"]]

Goto(q, pc) ==
    req' = [req EXCEPT ![q].pc = pc, ![q].seen = IF pc = "repFlip" THEN @ ELSE "none"]

Reply(q) == req' = [req EXCEPT ![q] = NoRequest]

-----------------------------------------------------------------------------
(* POST /receipts/scan: files, then the row, then the job.                 *)

\* uuid.New gives the receipt an id nobody has used.
ScanSave(q, r) ==
    /\ status[r] = "none"
    /\ ~images[r]
    /\ Begin(q, r, "scanSave")
    /\ images' = [images EXCEPT ![r] = TRUE]
    /\ UNCHANGED <<queueVars, status, lines, bootVars, stage, touched>>

ScanInsert(q) ==
    LET r == req[q].receipt IN
    /\ At(q, "scanSave")
    /\ \/ /\ status' = [status EXCEPT ![r] = "pending"]
          /\ Goto(q, "scanSubmit")
          /\ UNCHANGED images
       \/ /\ images' = [images EXCEPT ![r] = FALSE]
          /\ Reply(q)
          /\ UNCHANGED status
    /\ UNCHANGED <<queueVars, lines, bootVars, stage, touched>>

\* A refused job answers 503, and the row stays behind as pending.
ScanSubmit(q) ==
    LET r == req[q].receipt IN
    /\ At(q, "scanSubmit")
    /\ \/ Enqueue(r)
       \/ Refused(r, {"shuttingDown", "alreadyQueued", "queueFull"})
    /\ Reply(q)
    /\ UNCHANGED <<dbVars, bootVars, stage, touched>>

-----------------------------------------------------------------------------
(* POST /receipts/:id/reprocess.                                           *)

ReprocessRead(q, r) ==
    /\ status[r] \in {"error", "pending"}
    /\ Begin(q, r, "repGuard")
    /\ touched' = touched \cup {r}
    /\ UNCHANGED <<queueVars, dbVars, bootVars, stage>>

\* The budget and breaker pre-flight: a refusal writes 'error' without looking
\* at the status again.
ReprocessGuard(q) ==
    /\ At(q, "repGuard")
    /\ \/ Goto(q, "repFlip") /\ UNCHANGED status
       \/ /\ GuardMayRefuse
          /\ Update(req[q].receipt, "error")
          /\ Reply(q)
    /\ UNCHANGED <<queueVars, images, lines, bootVars, stage, touched>>

\* UPDATE ... SET status = 'pending' ... AND status = <the one read above>.
ReprocessFlip(q) ==
    LET r == req[q].receipt IN
    /\ At(q, "repFlip")
    /\ \/ /\ status[r] = req[q].seen
          /\ status' = [status EXCEPT ![r] = "pending"]
          /\ Goto(q, "repSubmit")
       \/ /\ status[r] # req[q].seen \/ DbMayFail
          /\ Reply(q)
          /\ UNCHANGED status
    /\ UNCHANGED <<queueVars, images, lines, bootVars, stage, touched>>

\* Seeded fault: a retry that sends its job past Submit's dedupe.
ReprocessForced(q) ==
    LET r == req[q].receipt IN
    /\ At(q, "repSubmit")
    /\ pool = "open" /\ Len(jobs) < QueueCap /\ ~adding
    /\ jobs' = Append(jobs, r)
    /\ queued' = queued \cup {r}
    /\ adding' = TRUE
    /\ Reply(q)
    /\ UNCHANGED <<pool, wg, wpc, job, dbVars, bootVars, stage, touched>>

\* Resubmit: the originals must be on disk; ErrReceiptAlreadyQueued is a 202.
ReprocessSubmit(q) ==
    LET r == req[q].receipt IN
    /\ At(q, "repSubmit")
    /\ \/ /\ images[r]
          /\ Enqueue(r) \/ Refused(r, {"alreadyQueued"})
          /\ Reply(q)
       \/ /\ \/ ~images[r] /\ UNCHANGED queueVars
             \/ Refused(r, {"queueFull", "shuttingDown"})
          /\ Goto(q, "repRollback")
    /\ UNCHANGED <<dbVars, bootVars, stage, touched>>

ReprocessRollback(q) ==
    /\ At(q, "repRollback")
    /\ Update(req[q].receipt, "error")
    /\ Reply(q)
    /\ UNCHANGED <<queueVars, images, lines, bootVars, stage, touched>>

-----------------------------------------------------------------------------
(* Edits by hand.                                                          *)

\* POST line-items/batch: the status is read before the transaction.
AddItemsRead(q, r) ==
    /\ status[r] \in {"error", "matched"}
    /\ Begin(q, r, "addItems")
    /\ touched' = touched \cup {r}
    /\ UNCHANGED <<queueVars, dbVars, bootVars, stage>>

AddItemsCommit(q) ==
    LET r == req[q].receipt IN
    /\ At(q, "addItems")
    /\ \/ /\ lines' = Edited(r)
          /\ status' = Written(r, "matched")
       \/ UNCHANGED <<lines, status>>
    /\ Reply(q)
    /\ UNCHANGED <<queueVars, images, bootVars, stage, touched>>

\* POST line-items: one row, no look at the status and no change of it.
AddItemRead(q, r) ==
    /\ status[r] \in Stored
    /\ Begin(q, r, "addItem")
    /\ touched' = touched \cup {r}
    /\ UNCHANGED <<queueVars, dbVars, bootVars, stage>>

AddItemCommit(q) ==
    /\ At(q, "addItem")
    /\ lines' = Edited(req[q].receipt) \/ lines' = lines
    /\ Reply(q)
    /\ UNCHANGED <<queueVars, status, images, bootVars, stage, touched>>

\* POST repair/apply: replaces the line items of any receipt not reviewed.
RepairRead(q, r) ==
    /\ status[r] \in Stored \ {"reviewed"}
    /\ Begin(q, r, "repair")
    /\ touched' = touched \cup {r}
    /\ UNCHANGED <<queueVars, dbVars, bootVars, stage>>

RepairCommit(q) ==
    LET r == req[q].receipt IN
    /\ At(q, "repair")
    /\ \/ /\ lines' = [lines EXCEPT ![r] = "user"]
          /\ status' = Written(r, "matched")
       \/ UNCHANGED <<lines, status>>
    /\ Reply(q)
    /\ UNCHANGED <<queueVars, images, bootVars, stage, touched>>

\* POST /receipts/manual: the row and its items in one transaction, no job.
CreateManual(r) ==
    /\ http = "on"
    /\ status[r] = "none"
    /\ ~images[r]
    /\ status' = [status EXCEPT ![r] = "matched"]
    /\ lines' = [lines EXCEPT ![r] = "user"]
    /\ touched' = touched \cup {r}
    /\ UNCHANGED <<queueVars, images, bootVars, stage, req>>

\* PUT /receipts/:id with a status: whatever the status was.
SetStatus(r) ==
    /\ http = "on"
    /\ status[r] \in Stored
    /\ \E s \in {"matched", "reviewed"} : status' = Written(r, s)
    /\ touched' = touched \cup {r}
    /\ UNCHANGED <<queueVars, images, lines, bootVars, stage, req>>

\* POST accept-suggestions: matches the named lines, in one transaction, and the
\* receipt once no line is unmatched (or none exists).
AcceptSuggestions(r) ==
    /\ http = "on"
    /\ status[r] \in Stored
    /\ lines' = lines \/ (lines[r] # "none" /\ lines' = Edited(r))
    /\ status' = status \/ status' = Written(r, "matched")
    /\ touched' = touched \cup {r}
    /\ UNCHANGED <<queueVars, images, bootVars, stage, req>>

\* DELETE /receipts/:id: the rows in one transaction, then the files.
DeleteRows(q, r) ==
    /\ status[r] \in Stored
    /\ Begin(q, r, "delFiles")
    /\ status' = [status EXCEPT ![r] = "deleted"]
    /\ lines' = [lines EXCEPT ![r] = "none"]
    /\ touched' = touched \cup {r}
    /\ UNCHANGED <<queueVars, images, bootVars, stage>>

DeleteFiles(q) ==
    /\ At(q, "delFiles")
    /\ images' = [images EXCEPT ![req[q].receipt] = FALSE]
    /\ Reply(q)
    /\ UNCHANGED <<queueVars, status, lines, bootVars, stage, touched>>

\* imaging.Janitor: the originals of an old receipt, whatever its status.  It is
\* started after the requeue, with the router.
RetentionSweep(r) ==
    /\ http \in {"on", "closing"}
    /\ status[r] # "none"
    /\ images[r]
    /\ images' = [images EXCEPT ![r] = FALSE]
    /\ UNCHANGED <<queueVars, status, lines, bootVars, stage, req, touched>>

-----------------------------------------------------------------------------
(* runJob and processJob.                                                  *)

Doing(w, s) == wpc[w] = "running" /\ stage[w] = s

TakeJob(w) ==
    /\ Take(w)
    /\ stage' = [stage EXCEPT ![w] = "load"]
    /\ UNCHANGED <<dbVars, bootVars, req, touched>>

\* Seeded fault: the worker commits the status 'processing' when it starts.
LoadImagesClaiming(w) ==
    /\ Doing(w, "load")
    /\ status' = Written(job[w], "processing")
    /\ stage' = [stage EXCEPT ![w] = IF images[job[w]] THEN "call" ELSE "fail"]
    /\ UNCHANGED <<queueVars, images, lines, bootVars, req, touched>>

\* Read and preprocess the originals.
LoadImages(w) ==
    /\ Doing(w, "load")
    /\ stage' = [stage EXCEPT ![w] = IF images[job[w]] THEN "call" ELSE "fail"]
    /\ UNCHANGED <<queueVars, dbVars, bootVars, req, touched>>

CallSucceeds(w) ==
    /\ Doing(w, "call")
    /\ stage' = [stage EXCEPT ![w] = "commit"]
    /\ UNCHANGED <<queueVars, dbVars, bootVars, req, touched>>

\* Budget, breaker and 429 write their own message first; any other error does
\* not.
CallFails(w) ==
    /\ Doing(w, "call")
    /\ status' = status \/ Update(job[w], "error")
    /\ stage' = [stage EXCEPT ![w] = "fail"]
    /\ UNCHANGED <<queueVars, images, lines, bootVars, req, touched>>

\* Seeded fault: the rows are committed before the status.
CommitLinesOnly(w) ==
    /\ Doing(w, "commit")
    /\ lines' = Extracted(job[w])
    /\ stage' = [stage EXCEPT ![w] = "release"]
    /\ UNCHANGED <<queueVars, status, images, bootVars, req, touched>>

\* The transaction that stores the extraction.  The UPDATEs match no row when
\* the receipt is gone, and the INSERTs then fail only on a connection that
\* enforces foreign keys: db.Open sets the pragma on one of the pool's.
CommitItems(w) ==
    /\ Doing(w, "commit")
    /\ lines' = Extracted(job[w])
    /\ status' = Written(job[w], "matched")
    /\ stage' = [stage EXCEPT ![w] = "release"]
    /\ UNCHANGED <<queueVars, images, bootVars, req, touched>>

\* No line item in the extraction: committed as an error, and an error again.
CommitEmpty(w) ==
    /\ Doing(w, "commit")
    /\ status' = Written(job[w], "error")
    /\ stage' = [stage EXCEPT ![w] = "fail"]
    /\ UNCHANGED <<queueVars, images, lines, bootVars, req, touched>>

CommitFails(w) ==
    /\ Doing(w, "commit")
    /\ stage' = [stage EXCEPT ![w] = "fail"]
    /\ UNCHANGED <<queueVars, dbVars, bootVars, req, touched>>

\* runJob's own UPDATE, whatever processJob wrote before.  If it fails the row
\* waits for the next boot.
RecordFailure(w) ==
    /\ Doing(w, "fail")
    /\ Update(job[w], "error")
    /\ leftover' = leftover \cup
         {r \in Receipts : r = job[w] /\ http = "boot" /\ status'[r] = "pending"}
    /\ stage' = [stage EXCEPT ![w] = "release"]
    /\ UNCHANGED <<queueVars, images, lines, http, toRequeue, req, touched>>

ForgetJob(w) ==
    /\ Doing(w, "release")
    /\ Forget(w)
    /\ stage' = [stage EXCEPT ![w] = "none"]
    /\ UNCHANGED <<dbVars, bootVars, req, touched>>

FinishJob(w) ==
    /\ Finish(w) \/ Exit(w)
    /\ UNCHANGED <<dbVars, bootVars, stage, req, touched>>

-----------------------------------------------------------------------------
(* Boot, shutdown and crash.                                               *)

\* NewReceiptWorker, then RequeuePending's SELECT ... LIMIT, which leaves a row
\* behind only when it reads as many as the limit.
Boot ==
    /\ Start
    /\ http' = "boot"
    /\ LET pending == {r \in Receipts : status[r] = "pending"} IN
       \E rows \in SUBSET pending :
          /\ rows = pending \/ Cardinality(rows) = RequeueCap
          /\ Cardinality(rows) <= RequeueCap
          /\ toRequeue' = rows
          /\ leftover' = pending \ rows
    /\ UNCHANGED <<dbVars, stage, req, touched>>

\* Seeded fault: the loop ends at the first receipt without images.
RequeueStopsAtGone ==
    /\ http = "boot"
    /\ \E r \in toRequeue :
          \/ /\ images[r]
             /\ Enqueue(r)
             /\ toRequeue' = toRequeue \ {r}
          \/ /\ ~images[r]
             /\ toRequeue' = {}
             /\ UNCHANGED queueVars
    /\ UNCHANGED <<http, leftover, dbVars, stage, req, touched>>

\* One round of RequeuePending's loop: a row without images is skipped; a full
\* queue ends the loop, and so does the ten seconds' context of the caller.
RequeueOne ==
    /\ http = "boot"
    /\ \E r \in toRequeue :
          \/ /\ images[r]
             /\ Enqueue(r)
             /\ toRequeue' = toRequeue \ {r}
             /\ UNCHANGED leftover
          \/ /\ \/ ~images[r] /\ UNCHANGED queueVars
                \/ Refused(r, {"alreadyQueued"})
             /\ toRequeue' = toRequeue \ {r}
             /\ UNCHANGED leftover
          \/ /\ toRequeue' = {}
             /\ leftover' = leftover \cup toRequeue
             /\ UNCHANGED queueVars
    /\ UNCHANGED <<http, dbVars, stage, req, touched>>

Serve ==
    /\ http = "boot"
    /\ toRequeue = {}
    /\ http' = "on"
    /\ leftover' = {}
    /\ UNCHANGED <<queueVars, dbVars, toRequeue, stage, req, touched>>

\* e.Shutdown: no new request, those in progress may outlive its ten seconds.
StopServing ==
    /\ http = "on"
    /\ http' = "closing"
    /\ UNCHANGED <<queueVars, dbVars, toRequeue, leftover, stage, req, touched>>

StopWorker ==
    /\ \/ http = "closing" /\ StopAccepting
       \/ CleanStop
       \/ Deadline
       \/ StopDone
    /\ UNCHANGED <<dbVars, bootVars, stage, req, touched>>

\* The drain loop's markPending, whatever the status has become meanwhile.
DrainJob ==
    /\ Drain
    /\ Update(Head(jobs), "pending")
    /\ UNCHANGED <<images, lines, bootVars, stage, req, touched>>

Crash ==
    /\ Die
    /\ http' = "off"
    /\ stage' = [w \in Workers |-> "none"]
    /\ req' = [q \in Requests |-> NoRequest]
    /\ toRequeue' = {}
    /\ leftover' = {}
    /\ UNCHANGED <<dbVars, touched>>

-----------------------------------------------------------------------------
\* The end of the Submit a request or the boot has called.
CountSubmitted == CountJob /\ UNCHANGED <<dbVars, bootVars, stage, req, touched>>

JobStep(w) ==
    \/ TakeJob(w) \/ LoadImages(w) \/ CallSucceeds(w) \/ CallFails(w)
    \/ CommitItems(w) \/ CommitEmpty(w) \/ CommitFails(w) \/ RecordFailure(w)
    \/ ForgetJob(w) \/ FinishJob(w)

RequestStep(q) ==
    \/ ScanInsert(q) \/ ScanSubmit(q)
    \/ ReprocessGuard(q) \/ ReprocessFlip(q) \/ ReprocessSubmit(q)
    \/ ReprocessRollback(q)
    \/ AddItemCommit(q) \/ AddItemsCommit(q) \/ RepairCommit(q) \/ DeleteFiles(q)

NewRequest(q, r) ==
    \/ ScanSave(q, r) \/ ReprocessRead(q, r) \/ AddItemRead(q, r)
    \/ AddItemsRead(q, r) \/ RepairRead(q, r) \/ DeleteRows(q, r)

ShortRequest(r) == CreateManual(r) \/ SetStatus(r) \/ AcceptSuggestions(r)

Next ==
    \/ \E w \in Workers : JobStep(w)
    \/ \E q \in Requests : RequestStep(q)
    \/ \E q \in Requests, r \in Receipts : NewRequest(q, r)
    \/ \E r \in Receipts : ShortRequest(r) \/ RetentionSweep(r)
    \/ CountSubmitted
    \/ Boot \/ RequeueOne \/ Serve \/ StopServing \/ StopWorker \/ DrainJob
    \/ Crash

Spec == PipelineInit /\ [][Next]_vars

-----------------------------------------------------------------------------
\* The handlers and the worker together use the queue only through Submit,
\* process and Shutdown, so what is proved of ReceiptQueue holds here.
ImplementsQueue == QueueSpec

\* The boot adopts every receipt an earlier process left pending: until the
\* router starts, each of them that has its images is still to be resubmitted,
\* has a job, or was left over by a full queue, the row cap or a lost UPDATE.
BootAdoptsPending ==
    http = "boot" => \A r \in Receipts :
        status[r] = "pending" /\ images[r] =>
            r \in queued \cup toRequeue \cup leftover

\* Nothing about a job is written before its transaction commits, so a crash
\* at any point finds the receipt of an unfinished job pending and the next
\* boot runs it again.  (No handler but Scan has touched the receipt.)
UnfinishedIsPending ==
    \A r \in Receipts \ touched :
        /\ r \in Range(jobs) => status[r] = "pending"
        /\ \A w \in Workers :
              job[w] = r /\ stage[w] \in {"load", "call", "commit"} => status[r] = "pending"

\* The types, and no scan lost to a crash.
PipelineSound == PipelineTypeOK /\ UnfinishedIsPending

\* Whatever crashes, shutdowns, requeues and drains happen, a receipt only
\* ever scanned is extracted at most once, and is matched exactly when the
\* rows of that extraction are stored.
ScanExtractsOnce ==
    \A r \in Receipts \ touched :
        /\ lines[r] \in {"none", "llm"}
        /\ lines[r] = "llm" <=> status[r] = "matched"

\* No receipt ever carries the rows of two extractions.  The comment on
\* Reprocess rules out re-extracting a receipt that was matched
\* (receipts.go:852-855) and the dedupe is there to prevent it.
NoDoubleExtraction == \A r \in Receipts : lines[r] # "double"

\* "'matched'/'reviewed' are successful terminal states" (receipts.go:853-854):
\* a receipt leaves them only when it is deleted.
TerminalStays ==
    [][\A r \in Receipts : status[r] \in {"matched", "reviewed"} =>
         status'[r] \in {"matched", "reviewed", "deleted"}]_vars

Undecided(r) ==
    \/ r \in Range(jobs)
    \/ \E w \in Workers : job[w] = r /\ stage[w] \in {"load", "call", "commit", "fail"}

\* "202 - accepted, job enqueued" (receipts.go:826): when a retry is answered
\* 202, some job is still to decide what becomes of the receipt.
AcceptedHasJob ==
    [][\A q \in Requests, r \in Receipts :
         /\ req[q].pc = "repSubmit" /\ req[q].receipt = r
         /\ req'[q].pc = "idle" /\ pool' # "down"
         => Undecided(r)']_vars

\* A deleted receipt has no line items: line_items.receipt_id REFERENCES
\* receipts(id) and db.Open turns foreign keys on (sqlite.go:30).
NoOrphanLines == \A r \in Receipts : status[r] = "deleted" => lines[r] = "none"
=============================================================================

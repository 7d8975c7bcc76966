------------------------ MODULE ReceiptPipeline_proofs ------------------------
(***************************************************************************)
(* The handlers and the worker together implement the queue, keep their    *)
(* types, and extract a receipt that is only ever scanned at most once,    *)
(* for any number of receipts, requests and goroutines; and the guard      *)
(* around the model keeps its types, its probe slot, the bound on a        *)
(* budget's overshoot, the reason for a trip and the time between probes,  *)
(* for any callers, households and tuning of the breaker (LlmGuard).       *)
(***************************************************************************)
EXTENDS ReceiptPipeline, LlmGuard, ReceiptQueue_proofs

USE DEF Stored, Status, LineState, Stage, RequestState, NoRequest

-----------------------------------------------------------------------------
(* Types.                                                                  *)

\* A request that is not idle works on one receipt.
RequestShape == \A q \in Requests : req[q].pc = "idle" <=> req[q].receipt = NoJob

TypeInv == PipelineTypeOK /\ RequestShape

\* What a write to the status column and to the line items leaves.
LEMMA WritesTyped ==
    ASSUME PipelineTypeOK, NEW r, NEW s \in Stored
    PROVE  /\ Written(r, s) \in [Receipts -> Status]
           /\ Update(r, s) => status' \in [Receipts -> Status]
           /\ Edited(r) \in [Receipts -> LineState]
           /\ Extracted(r) \in [Receipts -> LineState]
BY DEF PipelineTypeOK, Written, Update, Edited, Extracted

\* What the handlers do to their own request keeps its shape.
LEMMA RequestTyped ==
    ASSUME TypeInv, NEW q \in Requests
    PROVE  /\ \A r \in Receipts, pc \in RequestState \ {"idle"} :
                 Begin(q, r, pc) => req' \in [Requests -> [pc : RequestState,
                                        receipt : Receipts \cup {NoJob}, seen : Status]]
                                    /\ RequestShape'
           /\ \A pc \in RequestState \ {"idle"} :
                 req[q].pc # "idle" /\ Goto(q, pc) =>
                    req' \in [Requests -> [pc : RequestState,
                                receipt : Receipts \cup {NoJob}, seen : Status]]
                    /\ RequestShape'
           /\ Reply(q) =>
                 req' \in [Requests -> [pc : RequestState,
                             receipt : Receipts \cup {NoJob}, seen : Status]]
                 /\ RequestShape'
BY QueueAssumption DEF TypeInv, PipelineTypeOK, RequestShape, Begin, Goto, Reply

\* A request's step keeps the types.
LEMMA RequestStepTyped ==
    ASSUME TypeInv, NEW q \in Requests, RequestStep(q)
    PROVE  TypeInv'
<1> USE DEF TypeInv, PipelineTypeOK
<1>1. ASSUME ScanInsert(q) PROVE TypeInv'
  BY <1>1, RequestTyped DEF ScanInsert, At, bootVars
<1>2. ASSUME ScanSubmit(q) PROVE TypeInv'
  BY <1>2, RequestTyped DEF ScanSubmit, At, dbVars, bootVars
<1>3. ASSUME ReprocessGuard(q) PROVE TypeInv'
  BY <1>3, RequestTyped, WritesTyped DEF ReprocessGuard, At, bootVars
<1>4. ASSUME ReprocessFlip(q) PROVE TypeInv'
  BY <1>4, RequestTyped DEF ReprocessFlip, At, bootVars
<1>5. ASSUME ReprocessSubmit(q) PROVE TypeInv'
  BY <1>5, RequestTyped DEF ReprocessSubmit, At, dbVars, bootVars
<1>6. ASSUME ReprocessRollback(q) PROVE TypeInv'
  BY <1>6, RequestTyped, WritesTyped DEF ReprocessRollback, At, bootVars
<1>7. ASSUME AddItemCommit(q) \/ AddItemsCommit(q) \/ RepairCommit(q) PROVE TypeInv'
  <2>1. CASE AddItemCommit(q)
    BY <2>1, RequestTyped, WritesTyped DEF AddItemCommit, At, bootVars
  <2>2. CASE AddItemsCommit(q)
    BY <2>2, RequestTyped, WritesTyped DEF AddItemsCommit, At, bootVars
  <2>3. CASE RepairCommit(q)
    BY <2>3, RequestTyped, WritesTyped DEF RepairCommit, At, bootVars
  <2>4. QED
    BY <1>7, <2>1, <2>2, <2>3
<1>8. ASSUME DeleteFiles(q) PROVE TypeInv'
  BY <1>8, RequestTyped DEF DeleteFiles, At, bootVars
<1>9. QED
  BY <1>1, <1>2, <1>3, <1>4, <1>5, <1>6, <1>7, <1>8 DEF RequestStep

\* A new request keeps the types.
LEMMA NewRequestTyped ==
    ASSUME TypeInv, NEW q \in Requests, NEW r \in Receipts, NewRequest(q, r)
    PROVE  TypeInv'
<1> USE DEF TypeInv, PipelineTypeOK
<1>1. ASSUME ScanSave(q, r) PROVE TypeInv'
  BY <1>1, RequestTyped DEF ScanSave, bootVars
<1>2. ASSUME ReprocessRead(q, r) \/ AddItemRead(q, r) \/ AddItemsRead(q, r) \/ RepairRead(q, r)
      PROVE TypeInv'
  BY <1>2, RequestTyped
     DEF ReprocessRead, AddItemRead, AddItemsRead, RepairRead, dbVars, bootVars
<1>3. ASSUME DeleteRows(q, r) PROVE TypeInv'
  BY <1>3, RequestTyped DEF DeleteRows, bootVars
<1>4. QED
  BY <1>1, <1>2, <1>3 DEF NewRequest

\* A step of a job keeps the types.
LEMMA JobStepTyped ==
    ASSUME TypeInv, NEW w \in Workers, JobStep(w)
    PROVE  TypeInv'
<1> USE DEF TypeInv, PipelineTypeOK, RequestShape
<1>1. ASSUME TakeJob(w) \/ LoadImages(w) \/ CallSucceeds(w) \/ CommitFails(w) \/ ForgetJob(w)
             \/ FinishJob(w)
      PROVE TypeInv'
  BY <1>1 DEF TakeJob, LoadImages, CallSucceeds, CommitFails, ForgetJob, FinishJob, dbVars,
              bootVars
<1>2. ASSUME CallFails(w) \/ CommitItems(w) \/ CommitEmpty(w) \/ RecordFailure(w)
      PROVE TypeInv'
  BY <1>2, WritesTyped
     DEF CallFails, CommitItems, CommitEmpty, RecordFailure, bootVars
<1>3. QED
  BY <1>1, <1>2 DEF JobStep

\* Every step keeps the types.
LEMMA TypeNext == TypeInv /\ [Next]_vars => TypeInv'
<1> SUFFICES ASSUME TypeInv, [Next]_vars PROVE TypeInv'
  OBVIOUS
<1> USE DEF TypeInv, PipelineTypeOK, RequestShape
<1>1. ASSUME NEW w \in Workers, JobStep(w) PROVE TypeInv'
  BY <1>1, JobStepTyped
<1>2. ASSUME NEW q \in Requests, RequestStep(q) PROVE TypeInv'
  BY <1>2, RequestStepTyped
<1>3. ASSUME NEW q \in Requests, NEW r \in Receipts, NewRequest(q, r) PROVE TypeInv'
  BY <1>3, NewRequestTyped
<1>4. ASSUME NEW r \in Receipts, ShortRequest(r) \/ RetentionSweep(r) PROVE TypeInv'
  <2>1. CASE CreateManual(r)
    BY <2>1 DEF CreateManual, bootVars, Status, Stored, LineState
  <2>2. CASE SetStatus(r)
    BY <2>2, WritesTyped DEF SetStatus, bootVars
  <2>3. CASE AcceptSuggestions(r)
    BY <2>3, WritesTyped DEF AcceptSuggestions, bootVars
  <2>4. CASE RetentionSweep(r)
    BY <2>4 DEF RetentionSweep, bootVars
  <2>5. QED
    BY <1>4, <2>1, <2>2, <2>3, <2>4 DEF ShortRequest
<1>5. CASE Boot
  BY <1>5 DEF Boot, dbVars
<1>6. CASE RequeueOne
  BY <1>6 DEF RequeueOne, dbVars
<1>7. CASE CountSubmitted \/ Serve \/ StopServing \/ StopWorker
  BY <1>7 DEF CountSubmitted, Serve, StopServing, StopWorker, dbVars, bootVars
<1>8. CASE DrainJob
  BY <1>8, WritesTyped DEF DrainJob, bootVars
<1>9. CASE Crash
  BY <1>9 DEF Crash, dbVars
<1>10. CASE UNCHANGED vars
  BY <1>10 DEF vars, dbVars, bootVars
<1>11. QED
  BY <1>1, <1>2, <1>3, <1>4, <1>5, <1>6, <1>7, <1>8, <1>9, <1>10 DEF Next

LEMMA TypeInvariant == Spec => []TypeInv
<1>1. PipelineInit => TypeInv
  BY QueueAssumption DEF PipelineInit, TypeInv, PipelineTypeOK, RequestShape
<1>2. QED
  BY <1>1, TypeNext, PTL DEF Spec

\* Rows, files, line items, jobs and requests keep their types.
THEOREM PipelineTypeCorrect == Spec => []PipelineTypeOK
<1>1. TypeInv => PipelineTypeOK
  BY DEF TypeInv
<1>2. QED
  BY <1>1, TypeInvariant, PTL

-----------------------------------------------------------------------------
(* The queue.                                                              *)

\* Every step of the pipeline is a step of the queue or leaves it alone.
LEMMA QueueStepRefined == TypeInv /\ [Next]_vars => [QueueNext]_queueVars
<1> SUFFICES ASSUME TypeInv, [Next]_vars PROVE [QueueNext]_queueVars
  OBVIOUS
<1> USE DEF TypeInv, PipelineTypeOK
<1>1. ASSUME NEW w \in Workers, JobStep(w) PROVE WorkerStep(w) \/ UNCHANGED queueVars
  BY <1>1 DEF JobStep, TakeJob, LoadImages, CallSucceeds, CallFails, CommitItems, CommitEmpty,
              CommitFails, RecordFailure, ForgetJob, FinishJob, WorkerStep
<1>2. ASSUME NEW q \in Requests, RequestStep(q)
      PROVE  (\E r \in Receipts : Enqueue(r)) \/ UNCHANGED queueVars
  <2>1. ASSUME ScanSubmit(q) \/ ReprocessSubmit(q)
        PROVE  Enqueue(req[q].receipt) \/ UNCHANGED queueVars
    BY <2>1 DEF ScanSubmit, ReprocessSubmit, Refused
  <2>2. ASSUME ScanSubmit(q) \/ ReprocessSubmit(q) PROVE req[q].receipt \in Receipts
    BY <2>2 DEF ScanSubmit, ReprocessSubmit, At, RequestShape
  <2>3. QED
    BY <1>2, <2>1, <2>2
       DEF RequestStep, ScanInsert, ReprocessGuard, ReprocessFlip, ReprocessRollback,
           AddItemCommit, AddItemsCommit, RepairCommit, DeleteFiles
<1>3. ASSUME NEW q \in Requests, NEW r \in Receipts, NewRequest(q, r)
      PROVE UNCHANGED queueVars
  BY <1>3 DEF NewRequest, ScanSave, ReprocessRead, AddItemRead, AddItemsRead, RepairRead,
              DeleteRows
<1>4. ASSUME NEW r \in Receipts, ShortRequest(r) \/ RetentionSweep(r)
      PROVE UNCHANGED queueVars
  BY <1>4 DEF ShortRequest, CreateManual, SetStatus, AcceptSuggestions, RetentionSweep
<1>5. ASSUME RequeueOne PROVE (\E r \in Receipts : Enqueue(r)) \/ UNCHANGED queueVars
  BY <1>5 DEF RequeueOne, Refused
<1>6. CASE Boot \/ CountSubmitted \/ Serve \/ StopServing \/ StopWorker \/ DrainJob \/ Crash
  BY <1>6 DEF Boot, CountSubmitted, Serve, StopServing, StopWorker, DrainJob, Crash,
              QueueNext, ShutdownStep
<1>7. CASE UNCHANGED vars
  BY <1>7 DEF vars
<1>8. QED
  BY <1>1, <1>2, <1>3, <1>4, <1>5, <1>6, <1>7 DEF Next, QueueNext

\* The handlers and the jobs use the queue only as ReceiptQueue says, so the
\* theorems about the queue hold of the whole pipeline.
THEOREM PipelineImplementsQueue == Spec => ImplementsQueue
<1>1. PipelineInit => QueueInit
  BY DEF PipelineInit
<1>2. QED
  BY <1>1, QueueStepRefined, TypeInvariant, PTL DEF Spec, QueueSpec, ImplementsQueue

LEMMA QueueInvHolds == Spec => []QueueInv
BY PipelineImplementsQueue, QueueInvariant DEF ImplementsQueue

-----------------------------------------------------------------------------
(* Receipts that were only scanned.                                        *)

\* What the boot and the router have to do with the queue and the requests.
BootShape ==
    /\ pool = "down" <=> http = "off"
    /\ pool = "down" => jobs = <<>> /\ \A w \in Workers : wpc[w] = "idle"
    /\ http \in {"off", "boot"} => \A q \in Requests : req[q].receipt = NoJob
    /\ toRequeue # {} => http = "boot"

\* A goroutine is inside processJob exactly while it runs a job.
StageWhileRunning == \A w \in Workers : stage[w] # "none" <=> wpc[w] = "running"

\* A job not yet committed finds its receipt pending, and one that has failed
\* finds it pending or in error.
JobsFresh(r) ==
    /\ r \in Range(jobs) => status[r] = "pending"
    /\ \A w \in Workers : job[w] = r =>
          /\ status[r] # "none"
          /\ stage[w] \in {"load", "call", "commit"} => status[r] = "pending"
          /\ stage[w] = "fail" => status[r] \in {"pending", "error"}

\* The only request is its Scan, whose job is still to be submitted.
RequestFresh(r) ==
    /\ \A q \in Requests : req[q].receipt = r =>
          \/ req[q].pc = "scanSave" /\ status[r] = "none" /\ images[r]
          \/ req[q].pc = "scanSubmit" /\ status[r] = "pending" /\ r \notin queued
    /\ \A p, q \in Requests : req[p].receipt = r /\ req[q].receipt = r => p = q

FreshOK(r) ==
    /\ status[r] \in {"none", "pending", "error", "matched"}
    /\ lines[r] = IF status[r] = "matched" THEN "llm" ELSE "none"
    /\ JobsFresh(r)
    /\ r \in toRequeue => status[r] = "pending" /\ r \notin queued
    /\ RequestFresh(r)

Fresh == \A r \in Receipts \ touched : FreshOK(r)

ShapeInv == TypeInv /\ BootShape /\ StageWhileRunning

\* The boot and the stages keep their shape.
LEMMA ShapeNext == QueueInv /\ ShapeInv /\ [Next]_vars => ShapeInv'
<1> SUFFICES ASSUME QueueInv, ShapeInv, [Next]_vars PROVE ShapeInv'
  OBVIOUS
<1>1. TypeInv'
  BY TypeNext DEF ShapeInv
<1>2. StageWhileRunning'
  <2> USE DEF ShapeInv, TypeInv, PipelineTypeOK, QueueInv, QueueTypeOK, StageWhileRunning
  <2>1. ASSUME NEW w \in Workers, JobStep(w) PROVE StageWhileRunning'
    BY <2>1 DEF JobStep, TakeJob, Take, LoadImages, CallSucceeds, CallFails, CommitItems,
                CommitEmpty, CommitFails, RecordFailure, ForgetJob, Forget, FinishJob,
                Finish, Exit, Doing, queueVars
  <2>2. ASSUME UNCHANGED <<wpc, stage>> PROVE StageWhileRunning'
    BY <2>2
  <2>3. ASSUME NEW q \in Requests, RequestStep(q) PROVE UNCHANGED <<wpc, stage>>
    BY <2>3 DEF RequestStep, ScanInsert, ScanSubmit, ReprocessGuard, ReprocessFlip,
                ReprocessSubmit, ReprocessRollback, AddItemCommit, AddItemsCommit,
                RepairCommit, DeleteFiles, Enqueue, Refused, queueVars
  <2>4. ASSUME NEW q \in Requests, NEW r \in Receipts, NewRequest(q, r)
        PROVE  UNCHANGED <<wpc, stage>>
    BY <2>4 DEF NewRequest, ScanSave, ReprocessRead, AddItemRead, AddItemsRead, RepairRead,
                DeleteRows, queueVars
  <2>5. ASSUME NEW r \in Receipts, ShortRequest(r) \/ RetentionSweep(r)
        PROVE  UNCHANGED <<wpc, stage>>
    BY <2>5 DEF ShortRequest, CreateManual, SetStatus, AcceptSuggestions, RetentionSweep, queueVars
  <2>6. CASE Boot \/ RequeueOne \/ CountSubmitted \/ Serve \/ StopServing \/ StopWorker
             \/ DrainJob
    BY <2>6, <2>2
       DEF Boot, Start, RequeueOne, Enqueue, Refused, CountSubmitted, CountJob, Serve,
           StopServing, StopWorker, StopAccepting, CleanStop, Deadline, StopDone, DrainJob,
           Drain, queueVars
  <2>7. CASE Crash
    BY <2>7 DEF Crash, Die
  <2>8. CASE UNCHANGED vars
    BY <2>2, <2>8 DEF vars, queueVars
  <2>9. QED
    BY <2>1, <2>2, <2>3, <2>4, <2>5, <2>6, <2>7, <2>8 DEF Next
<1>3. BootShape'
  <2> USE DEF ShapeInv, TypeInv, PipelineTypeOK, QueueInv, QueueTypeOK, BootShape
  <2>1. ASSUME NEW w \in Workers, JobStep(w) PROVE BootShape'
    <3>1. UNCHANGED <<pool, http, req, toRequeue>>
      BY <2>1 DEF JobStep, TakeJob, Take, LoadImages, CallSucceeds, CallFails, CommitItems,
                  CommitEmpty, CommitFails, RecordFailure, ForgetJob, Forget, FinishJob,
                  Finish, Exit, queueVars, bootVars
    <3>2. CASE pool = "down"
      <4>1. wpc[w] = "idle" /\ jobs = <<>> /\ stage[w] = "none"
        BY <3>2 DEF StageWhileRunning
      <4>2. FALSE
        BY <2>1, <3>2, <4>1
           DEF JobStep, TakeJob, Take, LoadImages, CallSucceeds, CallFails, CommitItems,
               CommitEmpty, CommitFails, RecordFailure, ForgetJob, Forget, FinishJob,
               Finish, Exit, Doing
      <4>3. QED
        BY <4>2
    <3>3. CASE pool # "down"
      BY <3>1, <3>3
    <3>4. QED
      BY <3>2, <3>3
  <2>2. ASSUME NEW q \in Requests, RequestStep(q) PROVE BootShape'
    <3>1. pool # "down" /\ req[q].pc # "idle"
      BY <2>2 DEF RequestStep, ScanInsert, ScanSubmit, ReprocessGuard, ReprocessFlip,
                  ReprocessSubmit, ReprocessRollback, AddItemCommit, AddItemsCommit,
                  RepairCommit, DeleteFiles, At
    <3>2. http \notin {"off", "boot"}
      BY <3>1 DEF RequestShape
    <3>3. UNCHANGED <<pool, http, toRequeue>>
      BY <2>2 DEF RequestStep, ScanInsert, ScanSubmit, ReprocessGuard, ReprocessFlip,
                  ReprocessSubmit, ReprocessRollback, AddItemCommit, AddItemsCommit,
                  RepairCommit, DeleteFiles, Enqueue, Refused, queueVars, bootVars
    <3>4. QED
      BY <3>1, <3>2, <3>3
  <2>3. ASSUME NEW q \in Requests, NEW r \in Receipts, NewRequest(q, r) PROVE BootShape'
    BY <2>3 DEF NewRequest, ScanSave, ReprocessRead, AddItemRead, AddItemsRead, RepairRead,
                DeleteRows, Begin, queueVars, bootVars
  <2>4. ASSUME NEW r \in Receipts, ShortRequest(r) \/ RetentionSweep(r) PROVE BootShape'
    BY <2>4 DEF ShortRequest, CreateManual, SetStatus, AcceptSuggestions, RetentionSweep, queueVars, bootVars
  <2>5. CASE Boot
    BY <2>5 DEF Boot, Start
  <2>6. CASE RequeueOne
    BY <2>6 DEF RequeueOne, Enqueue, Refused, queueVars
  <2>7. CASE CountSubmitted
    BY <2>7 DEF CountSubmitted, CountJob, bootVars
  <2>8. CASE Serve \/ StopServing
    BY <2>8 DEF Serve, StopServing, queueVars
  <2>9. CASE StopWorker
    BY <2>9 DEF StopWorker, StopAccepting, CleanStop, Deadline, StopDone, bootVars
  <2>10. CASE DrainJob
    BY <2>10 DEF DrainJob, Drain, bootVars
  <2>11. CASE Crash
    BY <2>11 DEF Crash, Die
  <2>12. CASE UNCHANGED vars
    BY <2>12 DEF vars, queueVars, bootVars
  <2>13. QED
    BY <2>1, <2>2, <2>3, <2>4, <2>5, <2>6, <2>7, <2>8, <2>9, <2>10, <2>11, <2>12 DEF Next
<1>4. QED
  BY <1>1, <1>2, <1>3 DEF ShapeInv

\* While a goroutine runs a job, its receipt has no other.
LEMMA JobAlone ==
    ASSUME QueueInv, ShapeInv, NEW w \in Workers, stage[w] # "none"
    PROVE  /\ job[w] \in queued /\ job[w] \notin Range(jobs)
           /\ \A v \in Workers : job[v] = job[w] => v = w
<1>1. w \in Running /\ job[w] # NoJob
  BY DEF ShapeInv, StageWhileRunning, Running, QueueInv, JobWhileRunning
<1>2. job[w] \in Held
  BY <1>1 DEF Held
<1>3. \A v \in Workers : job[v] = job[w] => v \in Running
  BY <1>1 DEF Running, QueueInv, JobWhileRunning
<1>4. QED
  BY <1>1, <1>2, <1>3 DEF QueueInv, DedupeExact, NoDoubleJob

\* A receipt outside the dedupe map has no job anywhere.
LEMMA NotQueuedNoJob ==
    ASSUME QueueInv, NEW r \in Receipts, r \notin queued
    PROVE  r \notin Range(jobs) /\ \A w \in Workers : job[w] # r
BY QueueAssumption
   DEF QueueInv, QueueTypeOK, DedupeExact, Held, Running, JobWhileRunning

\* A write to another receipt's status is none to this one's.
LEMMA WriteElsewhere ==
    ASSUME TypeInv, NEW r \in Receipts, NEW x, NEW s, x # r
    PROVE  /\ Written(x, s)[r] = status[r]
           /\ Update(x, s) => status'[r] = status[r]
BY DEF TypeInv, PipelineTypeOK, Written, Update

\* The steps of the jobs keep an untouched receipt fresh.
LEMMA FreshJobStep ==
    ASSUME QueueInv, ShapeInv, NEW r \in Receipts, FreshOK(r), NEW w \in Workers, JobStep(w)
    PROVE  FreshOK(r)'
<1> USE DEF ShapeInv, TypeInv, PipelineTypeOK, QueueInv, QueueTypeOK
<1>1. UNCHANGED <<images, req, toRequeue>>
  BY DEF JobStep, TakeJob, LoadImages, CallSucceeds, CallFails, CommitItems, CommitEmpty,
         CommitFails, RecordFailure, ForgetJob, FinishJob, dbVars, bootVars
<1>2. CASE TakeJob(w)
  <2>1. /\ jobs # <<>> /\ jobs' = Tail(jobs) /\ UNCHANGED <<queued, status, lines>>
        /\ job' = [job EXCEPT ![w] = Head(jobs)]
        /\ stage' = [stage EXCEPT ![w] = "load"]
    BY <1>2 DEF TakeJob, Take, dbVars
  <2>2. Range(jobs) = {Head(jobs)} \cup Range(Tail(jobs))
    BY <2>1, RangeHeadTail
  <2>3. JobsFresh(r)'
    BY <2>1, <2>2 DEF FreshOK, JobsFresh
  <2>4. RequestFresh(r)'
    BY <1>1, <2>1 DEF FreshOK, RequestFresh
  <2>5. QED
    BY <1>1, <2>1, <2>3, <2>4 DEF FreshOK
<1>3. CASE LoadImages(w) \/ CallSucceeds(w) \/ CommitFails(w)
  <2>1. /\ UNCHANGED <<jobs, queued, job, status, lines>>
        /\ \/ stage[w] \in {"load", "call"} /\ stage' = [stage EXCEPT ![w] = "call"]
           \/ stage[w] = "call" /\ stage' = [stage EXCEPT ![w] = "commit"]
           \/ stage[w] \in {"load", "commit"} /\ stage' = [stage EXCEPT ![w] = "fail"]
    BY <1>3 DEF LoadImages, CallSucceeds, CommitFails, Doing, dbVars, queueVars
  <2>2. JobsFresh(r)'
    BY <2>1 DEF FreshOK, JobsFresh
  <2>3. RequestFresh(r)'
    BY <1>1, <2>1 DEF FreshOK, RequestFresh
  <2>4. QED
    BY <1>1, <2>1, <2>2, <2>3 DEF FreshOK
<1>4. CASE CallFails(w) \/ CommitItems(w) \/ CommitEmpty(w) \/ RecordFailure(w)
  <2>1. UNCHANGED <<jobs, queued, job>> /\ stage[w] \in {"call", "commit", "fail"}
    BY <1>4 DEF CallFails, CommitItems, CommitEmpty, RecordFailure, Doing, queueVars
  <2>2. CASE job[w] # r
    <3>1. status'[r] = status[r] /\ lines'[r] = lines[r]
      BY <1>4, <2>2, WriteElsewhere
         DEF CallFails, CommitItems, CommitEmpty, RecordFailure, Extracted
    <3>2. \A v \in Workers : job[v] = r => stage'[v] = stage[v]
      BY <1>4, <2>2 DEF CallFails, CommitItems, CommitEmpty, RecordFailure
    <3>3. JobsFresh(r)'
      BY <2>1, <3>1, <3>2 DEF FreshOK, JobsFresh
    <3>4. RequestFresh(r)'
      BY <1>1, <2>1, <3>1 DEF FreshOK, RequestFresh
    <3>5. QED
      BY <1>1, <2>1, <3>1, <3>3, <3>4 DEF FreshOK
  <2>3. CASE job[w] = r
    <3>1. r \in queued /\ r \notin Range(jobs) /\ \A v \in Workers : job[v] = r => v = w
      BY <2>1, <2>3, JobAlone
    <3>2. /\ stage[w] \in {"call", "commit"} => status[r] = "pending"
          /\ stage[w] = "fail" => status[r] \in {"pending", "error"}
      BY <2>3 DEF FreshOK, JobsFresh
    <3>3. /\ status'[r] \in {"pending", "error", "matched"}
          /\ lines'[r] = IF status'[r] = "matched" THEN "llm" ELSE "none"
          /\ stage'[w] = "release" \/ (stage'[w] = "fail" /\ status'[r] \in {"pending", "error"})
      <4>1. CASE CallFails(w)
        BY <2>3, <3>2, <4>1 DEF CallFails, Doing, Update, Written, FreshOK
      <4>2. CASE CommitItems(w)
        BY <2>3, <3>2, <4>2 DEF CommitItems, Doing, Extracted, Written, FreshOK
      <4>3. CASE CommitEmpty(w)
        BY <2>3, <3>2, <4>3 DEF CommitEmpty, Doing, Written, FreshOK
      <4>4. CASE RecordFailure(w)
        BY <2>3, <3>2, <4>4 DEF RecordFailure, Doing, Update, Written, FreshOK
      <4>5. QED
        BY <1>4, <4>1, <4>2, <4>3, <4>4
    <3>4. JobsFresh(r)'
      BY <2>1, <2>3, <3>1, <3>3 DEF JobsFresh
    <3>5. r \notin toRequeue /\ \A q \in Requests : req[q].receipt # r
      BY <2>1, <3>1, <3>2 DEF FreshOK, RequestFresh
    <3>6. QED
      BY <1>1, <3>3, <3>4, <3>5 DEF FreshOK, RequestFresh
  <2>4. QED
    BY <2>2, <2>3
<1>5. CASE ForgetJob(w)
  <2>1. /\ UNCHANGED <<jobs, status, lines>> /\ queued' \subseteq queued
        /\ job' = [job EXCEPT ![w] = NoJob]
        /\ stage' = [stage EXCEPT ![w] = "none"]
    BY <1>5 DEF ForgetJob, Forget, dbVars
  <2>2. JobsFresh(r)'
    BY <2>1, QueueAssumption DEF FreshOK, JobsFresh
  <2>3. RequestFresh(r)'
    BY <1>1, <2>1 DEF FreshOK, RequestFresh
  <2>4. QED
    BY <1>1, <2>1, <2>2, <2>3 DEF FreshOK
<1>6. CASE FinishJob(w)
  <2>1. UNCHANGED <<jobs, queued, job, status, lines, stage>>
    BY <1>6 DEF FinishJob, Finish, Exit, dbVars
  <2>2. QED
    BY <1>1, <2>1 DEF FreshOK, JobsFresh, RequestFresh
<1>7. QED
  BY <1>2, <1>3, <1>4, <1>5, <1>6 DEF JobStep

\* So do the steps of requests: those on the receipt itself are the end of its
\* Scan, and the others leave it alone.
LEMMA FreshRequestStep ==
    ASSUME QueueInv, ShapeInv, NEW r \in Receipts, FreshOK(r), NEW q \in Requests,
           RequestStep(q)
    PROVE  FreshOK(r)'
<1> USE DEF ShapeInv, TypeInv, PipelineTypeOK, QueueInv, QueueTypeOK
<1> DEFINE x == req[q].receipt
<1>1. UNCHANGED <<toRequeue, stage, job>>
  BY DEF RequestStep, ScanInsert, ScanSubmit, ReprocessGuard, ReprocessFlip, ReprocessSubmit,
         ReprocessRollback, AddItemCommit, AddItemsCommit, RepairCommit, DeleteFiles,
         Enqueue, Refused, queueVars, bootVars
<1>2. x \in Receipts /\ req[q].pc # "idle"
  BY DEF RequestShape, RequestStep, ScanInsert, ScanSubmit, ReprocessGuard, ReprocessFlip,
         ReprocessSubmit, ReprocessRollback, AddItemCommit, AddItemsCommit, RepairCommit,
         DeleteFiles, At
<1>3. /\ \A p \in Requests : p # q => req'[p] = req[p]
      /\ req'[q].receipt \in {x, NoJob}
  BY <1>2 DEF RequestStep, ScanInsert, ScanSubmit, ReprocessGuard, ReprocessFlip,
         ReprocessSubmit, ReprocessRollback, AddItemCommit, AddItemsCommit, RepairCommit,
         DeleteFiles, Goto, Reply
<1>4. ASSUME Enqueue(x)
      PROVE  Range(jobs') = Range(jobs) \cup {x} /\ queued' = queued \cup {x} /\ x \notin queued
  BY <1>2, <1>4, RangeAppend DEF Enqueue, SubmitResult
<1>5. CASE x # r
  <2>1. status'[r] = status[r] /\ lines'[r] = lines[r] /\ images'[r] = images[r]
    BY <1>2, <1>5, WriteElsewhere
       DEF RequestStep, ScanInsert, ScanSubmit, ReprocessGuard, ReprocessFlip,
           ReprocessSubmit, ReprocessRollback, AddItemCommit, AddItemsCommit, RepairCommit,
           DeleteFiles, Edited, dbVars
  <2>2. Enqueue(x) \/ UNCHANGED <<jobs, queued>>
    BY DEF RequestStep, ScanInsert, ScanSubmit, ReprocessGuard, ReprocessFlip,
           ReprocessSubmit, ReprocessRollback, AddItemCommit, AddItemsCommit, RepairCommit,
           DeleteFiles, Refused, queueVars
  <2>3. (r \in Range(jobs') => r \in Range(jobs)) /\ (r \notin queued => r \notin queued')
    BY <1>4, <1>5, <2>2
  <2>4. JobsFresh(r)'
    BY <1>1, <2>1, <2>3 DEF FreshOK, JobsFresh
  <2>5. r # NoJob
    BY QueueAssumption
  <2>6. \A p \in Requests : req'[p].receipt = r => p # q /\ req'[p] = req[p]
    BY <1>3, <1>5, <2>5
  <2>7. RequestFresh(r)'
    BY <2>1, <2>3, <2>6 DEF FreshOK, RequestFresh
  <2>8. QED
    BY <1>1, <2>1, <2>3, <2>4, <2>7 DEF FreshOK
<1>6. CASE x = r
  <2>1. /\ \/ req[q].pc = "scanSave" /\ status[r] = "none" /\ images[r]
           \/ req[q].pc = "scanSubmit" /\ status[r] = "pending" /\ r \notin queued
        /\ \A p \in Requests : req[p].receipt = r => p = q
    BY <1>6 DEF FreshOK, RequestFresh
  <2>2. toRequeue = {}
    BY <1>2 DEF BootShape, RequestShape
  <2>3. r \notin Range(jobs) /\ \A w \in Workers : job[w] # r
    BY <2>1, NotQueuedNoJob DEF FreshOK, JobsFresh
  <2>4. ASSUME UNCHANGED <<jobs, queued>>
        PROVE  JobsFresh(r)' /\ (r \in queued' <=> r \in queued)
    BY <1>1, <2>3, <2>4 DEF JobsFresh
  <2>5. CASE ScanInsert(q)
    <3>1. UNCHANGED <<jobs, queued, lines>> /\ status[r] = "none" /\ images[r]
      BY <2>1, <2>5 DEF ScanInsert, At, queueVars
    <3>2. r \notin queued
      <4>1. r \notin Held
        BY <2>3 DEF Held, Running
      <4>2. QED
        BY <2>3, <4>1 DEF DedupeExact
    <3>3. \/ status'[r] = "pending" /\ req'[q].pc = "scanSubmit" /\ req'[q].receipt = r
          \/ status'[r] = "none" /\ req'[q].receipt = NoJob
      BY <1>6, <2>5, <3>1 DEF ScanInsert, Goto, Reply
    <3>4. RequestFresh(r)'
      BY <1>3, <2>1, <3>1, <3>2, <3>3, QueueAssumption DEF RequestFresh
    <3>5. QED
      BY <1>1, <2>2, <2>4, <3>1, <3>3, <3>4 DEF FreshOK
  <2>6. CASE ScanSubmit(q)
    <3>1. /\ UNCHANGED <<status, lines>> /\ status[r] = "pending"
          /\ req'[q].receipt = NoJob
          /\ Enqueue(r) \/ UNCHANGED <<jobs, queued>>
      BY <1>6, <2>1, <2>6 DEF ScanSubmit, At, Reply, Refused, queueVars, dbVars
    <3>2. JobsFresh(r)'
      BY <1>1, <2>3, <3>1 DEF JobsFresh
    <3>3. RequestFresh(r)'
      BY <1>3, <2>1, <3>1, QueueAssumption DEF RequestFresh
    <3>4. QED
      BY <1>1, <2>2, <3>1, <3>2, <3>3 DEF FreshOK
  <2>7. QED
    BY <1>6, <2>1, <2>5, <2>6
       DEF RequestStep, ReprocessGuard, ReprocessFlip, ReprocessSubmit, ReprocessRollback,
           AddItemCommit, AddItemsCommit, RepairCommit, DeleteFiles, At
<1>7. QED
  BY <1>5, <1>6

\* A new request touches its receipt, or it is the Scan that makes it.
LEMMA FreshNewRequest ==
    ASSUME QueueInv, ShapeInv, NEW r \in Receipts, FreshOK(r), r \notin touched',
           NEW q \in Requests, NEW x \in Receipts, NewRequest(q, x)
    PROVE  FreshOK(r)'
<1> USE DEF ShapeInv, TypeInv, PipelineTypeOK
<1>1. UNCHANGED <<jobs, queued, job, stage, toRequeue>>
  BY DEF NewRequest, ScanSave, ReprocessRead, AddItemRead, AddItemsRead, RepairRead,
         DeleteRows, queueVars, bootVars
<1>2. /\ req[q].receipt = NoJob /\ req'[q].receipt = x
      /\ \A p \in Requests : p # q => req'[p] = req[p]
  BY DEF RequestShape, NewRequest, ScanSave, ReprocessRead, AddItemRead, AddItemsRead,
         RepairRead, DeleteRows, Begin
<1>3. CASE x # r
  <2>1. status'[r] = status[r] /\ lines'[r] = lines[r] /\ images'[r] = images[r]
    BY <1>3 DEF NewRequest, ScanSave, ReprocessRead, AddItemRead, AddItemsRead, RepairRead,
                DeleteRows, dbVars
  <2>2. \A p \in Requests : req'[p].receipt = r => p # q /\ req'[p] = req[p]
    BY <1>2, <1>3
  <2>3. RequestFresh(r)'
    BY <1>1, <2>1, <2>2 DEF FreshOK, RequestFresh
  <2>4. JobsFresh(r)'
    BY <1>1, <2>1 DEF FreshOK, JobsFresh
  <2>5. QED
    BY <1>1, <2>1, <2>3, <2>4 DEF FreshOK
<1>4. CASE x = r
  <2>1. ScanSave(q, r)
    BY <1>4 DEF NewRequest, ReprocessRead, AddItemRead, AddItemsRead, RepairRead, DeleteRows
  <2>2. /\ status[r] = "none" /\ ~images[r] /\ UNCHANGED <<status, lines>>
        /\ images' = [images EXCEPT ![r] = TRUE]
        /\ req'[q].pc = "scanSave"
    BY <2>1 DEF ScanSave, Begin
  <2>3. \A p \in Requests : req[p].receipt # r
    BY <2>2 DEF FreshOK, RequestFresh
  <2>4. images'[r]
    BY <2>2
  <2>5. RequestFresh(r)'
    BY <1>1, <1>2, <1>4, <2>2, <2>3, <2>4 DEF RequestFresh
  <2>6. JobsFresh(r)'
    BY <1>1, <2>2 DEF FreshOK, JobsFresh
  <2>7. QED
    BY <1>1, <2>2, <2>5, <2>6 DEF FreshOK
<1>5. QED
  BY <1>3, <1>4

\* The short requests touch their receipt, and the retention sweep takes only
\* the files of a receipt whose row is there.
LEMMA FreshShortRequest ==
    ASSUME QueueInv, ShapeInv, NEW r \in Receipts, FreshOK(r), r \notin touched',
           NEW x \in Receipts, ShortRequest(x) \/ RetentionSweep(x)
    PROVE  FreshOK(r)'
<1> USE DEF ShapeInv, TypeInv, PipelineTypeOK
<1>1. UNCHANGED <<jobs, queued, job, stage, toRequeue, req>>
  BY DEF ShortRequest, CreateManual, SetStatus, AcceptSuggestions, RetentionSweep, queueVars, bootVars
<1>2. status'[r] = status[r] /\ lines'[r] = lines[r]
  BY WriteElsewhere DEF ShortRequest, CreateManual, SetStatus, AcceptSuggestions, RetentionSweep, Edited
<1>3. status[r] = "none" => images'[r] = images[r]
  BY DEF ShortRequest, CreateManual, SetStatus, AcceptSuggestions, RetentionSweep
<1>4. RequestFresh(r)'
  BY <1>1, <1>2, <1>3 DEF FreshOK, RequestFresh
<1>5. JobsFresh(r)'
  BY <1>1, <1>2 DEF FreshOK, JobsFresh
<1>6. QED
  BY <1>1, <1>2, <1>4, <1>5 DEF FreshOK

\* Boot, shutdown and crash keep an untouched receipt fresh: what they read or
\* drain was pending, and no job of an earlier process is left.
LEMMA FreshPoolStep ==
    ASSUME QueueInv, ShapeInv, NEW r \in Receipts, FreshOK(r),
           \/ CountSubmitted \/ Boot \/ RequeueOne \/ Serve \/ StopServing \/ StopWorker
           \/ DrainJob \/ Crash
    PROVE  FreshOK(r)'
<1> USE DEF ShapeInv, TypeInv, PipelineTypeOK, QueueInv, QueueTypeOK
<1>1. UNCHANGED <<lines, images>>
  BY DEF CountSubmitted, Boot, RequeueOne, Serve, StopServing, StopWorker, DrainJob, Crash,
         dbVars
<1>2. ASSUME UNCHANGED <<jobs, queued, job, stage, status, req, toRequeue>>
      PROVE  FreshOK(r)'
  BY <1>1, <1>2 DEF FreshOK, JobsFresh, RequestFresh
<1>3. CASE CountSubmitted \/ Serve \/ StopServing \/ StopWorker
  BY <1>2, <1>3 DEF CountSubmitted, CountJob, Serve, StopServing, StopWorker, StopAccepting,
                    CleanStop, Deadline, StopDone, queueVars, dbVars, bootVars
<1>4. CASE Boot
  <2>1. /\ UNCHANGED <<jobs, queued, job, stage, status, req>> /\ pool = "down"
        /\ toRequeue' \subseteq {x \in Receipts : status[x] = "pending"}
    BY <1>4 DEF Boot, Start, dbVars
  <2>2. queued = {}
    <3>1. jobs = <<>> /\ Running = {}
      BY <2>1 DEF BootShape, Running
    <3>2. Range(jobs) = {} /\ Held = {}
      BY <3>1 DEF Range, Held
    <3>3. QED
      BY <3>2 DEF DedupeExact
  <2>3. JobsFresh(r)' /\ RequestFresh(r)'
    BY <1>1, <2>1 DEF FreshOK, JobsFresh, RequestFresh
  <2>4. QED
    BY <1>1, <2>1, <2>2, <2>3 DEF FreshOK
<1>5. CASE RequeueOne
  <2>1. UNCHANGED <<job, stage, status, req>> /\ toRequeue' \subseteq toRequeue /\ http = "boot"
    BY <1>5 DEF RequeueOne, Enqueue, Refused, queueVars, dbVars
  <2>2. \A q \in Requests : req[q].receipt # r
    BY <2>1, QueueAssumption DEF BootShape
  <2>3. ASSUME UNCHANGED <<jobs, queued>> PROVE FreshOK(r)'
    BY <1>1, <2>1, <2>2, <2>3 DEF FreshOK, JobsFresh, RequestFresh
  <2>4. ASSUME NEW x \in toRequeue, Enqueue(x), toRequeue' = toRequeue \ {x}
        PROVE  FreshOK(r)'
    <3>1. Range(jobs') = Range(jobs) \cup {x} /\ queued' = queued \cup {x}
      BY <2>4, RangeAppend DEF Enqueue
    <3>2. r = x => status[r] = "pending"
      BY <2>4 DEF FreshOK
    <3>3. JobsFresh(r)'
      BY <2>1, <3>1, <3>2 DEF FreshOK, JobsFresh
    <3>4. QED
      BY <1>1, <2>1, <2>2, <2>4, <3>1, <3>3 DEF FreshOK, RequestFresh
  <2>5. QED
    BY <1>5, <2>3, <2>4 DEF RequeueOne, Refused, queueVars
<1>6. CASE DrainJob
  <2>1. /\ jobs # <<>> /\ jobs' = Tail(jobs) /\ queued' \subseteq queued
        /\ UNCHANGED <<job, stage, req, toRequeue>>
        /\ Update(Head(jobs), "pending")
    BY <1>6 DEF DrainJob, Drain, bootVars
  <2>2. Range(jobs) = {Head(jobs)} \cup Range(Tail(jobs))
    BY <2>1, RangeHeadTail
  <2>3. status'[r] = status[r]
    <3>1. CASE Head(jobs) = r
      BY <2>1, <2>2, <3>1 DEF Update, Written, FreshOK, JobsFresh
    <3>2. CASE Head(jobs) # r
      BY <2>1, <3>2, WriteElsewhere
    <3>3. QED
      BY <3>1, <3>2
  <2>4. JobsFresh(r)' /\ RequestFresh(r)'
    BY <1>1, <2>1, <2>2, <2>3 DEF FreshOK, JobsFresh, RequestFresh
  <2>5. QED
    BY <1>1, <2>1, <2>3, <2>4 DEF FreshOK
<1>7. CASE Crash
  <2>1. /\ UNCHANGED status /\ Range(jobs') = {} /\ toRequeue' = {}
        /\ \A w \in Workers : job'[w] = NoJob
        /\ \A q \in Requests : req'[q].receipt = NoJob
    BY <1>7 DEF Crash, Die, dbVars, Range
  <2>2. JobsFresh(r)' /\ RequestFresh(r)'
    BY <2>1, QueueAssumption DEF JobsFresh, RequestFresh
  <2>3. QED
    BY <1>1, <2>1, <2>2 DEF FreshOK
<1>8. QED
  BY <1>3, <1>4, <1>5, <1>6, <1>7

\* Every step keeps the untouched receipts fresh.
LEMMA FreshNext == QueueInv /\ ShapeInv /\ Fresh /\ [Next]_vars => Fresh'
<1> SUFFICES ASSUME QueueInv, ShapeInv, Fresh, [Next]_vars,
                    NEW r \in Receipts, r \notin touched'
             PROVE  FreshOK(r)'
  BY DEF Fresh
<1>1. touched \subseteq touched'
  BY DEF Next, JobStep, TakeJob, LoadImages, CallSucceeds, CallFails, CommitItems, CommitEmpty,
         CommitFails, RecordFailure, ForgetJob, FinishJob, RequestStep, ScanInsert, ScanSubmit,
         ReprocessGuard, ReprocessFlip, ReprocessSubmit, ReprocessRollback, AddItemCommit,
         AddItemsCommit, RepairCommit, DeleteFiles, NewRequest, ScanSave, ReprocessRead,
         AddItemRead, AddItemsRead, RepairRead, DeleteRows, ShortRequest, CreateManual, SetStatus,
         AcceptSuggestions, RetentionSweep, Boot, RequeueOne, CountSubmitted, Serve,
         StopServing, StopWorker, DrainJob, Crash, vars
<1>2. FreshOK(r)
  BY <1>1 DEF Fresh
<1>3. CASE UNCHANGED vars
  BY <1>2, <1>3
     DEF vars, queueVars, dbVars, bootVars, FreshOK, JobsFresh, RequestFresh
<1>4. QED
  BY <1>2, <1>3, FreshJobStep, FreshRequestStep, FreshNewRequest, FreshShortRequest,
     FreshPoolStep
     DEF Next

\* The inductive invariant of the pipeline.
LEMMA FreshInvariant == Spec => [](QueueInv /\ ShapeInv /\ Fresh)
<1>1. PipelineInit => ShapeInv
  <2> SUFFICES ASSUME PipelineInit PROVE ShapeInv
    OBVIOUS
  <2>1. TypeInv
    BY QueueAssumption DEF PipelineInit, TypeInv, PipelineTypeOK, RequestShape
  <2>2. BootShape /\ StageWhileRunning
    BY DEF PipelineInit, QueueInit, BootShape, StageWhileRunning
  <2>3. QED
    BY <2>1, <2>2 DEF ShapeInv
<1>2. PipelineInit => Fresh
  BY QueueAssumption
     DEF PipelineInit, QueueInit, Fresh, FreshOK, JobsFresh, RequestFresh, Range
<1>3. QED
  BY <1>1, <1>2, ShapeNext, FreshNext, QueueInvHolds, PTL DEF Spec

\* A receipt that is only ever scanned is extracted at most once, whatever
\* crashes, deadlines, drains and requeues there are, and it is matched exactly
\* when the rows of that extraction are stored.
THEOREM ScannedOnceExtractedOnce == Spec => []ScanExtractsOnce
<1>1. Fresh => ScanExtractsOnce
  BY DEF Fresh, FreshOK, ScanExtractsOnce
<1>2. QED
  BY <1>1, FreshInvariant, PTL

\* The receipt of a job that has not committed is pending in the database, so a
\* crash never loses it to the next boot's RequeuePending.
THEOREM UnfinishedStaysPending == Spec => []UnfinishedIsPending
<1>1. Fresh => UnfinishedIsPending
  BY DEF Fresh, FreshOK, JobsFresh, UnfinishedIsPending
<1>2. QED
  BY <1>1, FreshInvariant, PTL

\* Both together, as the runs check them.
THEOREM PipelineIsSound == Spec => []PipelineSound
<1>1. PipelineTypeOK /\ UnfinishedIsPending => PipelineSound
  BY DEF PipelineSound
<1>2. QED
  BY <1>1, PipelineTypeCorrect, UnfinishedStaysPending, PTL

-----------------------------------------------------------------------------
(* The boot.                                                               *)

\* While the boot resubmits, a goroutine lets go only of a receipt that is
\* decided or left to the next boot.
BootInv ==
    http = "boot" =>
        /\ pool = "open"
        /\ \A w \in Workers :
              stage[w] = "release" => status[job[w]] # "pending" \/ job[w] \in leftover
        /\ \A r \in Receipts :
              status[r] = "pending" /\ images[r] => r \in queued \cup toRequeue \cup leftover

\* The jobs that run during the boot keep this up.
LEMMA BootJobStep ==
    ASSUME QueueInv, ShapeInv, BootInv, http = "boot",
           NEW w \in Workers, JobStep(w)
    PROVE  BootInv'
<1> USE DEF ShapeInv, TypeInv, PipelineTypeOK, QueueInv, QueueTypeOK
<1>1. /\ UNCHANGED <<pool, images, toRequeue>> /\ leftover \subseteq leftover'
      /\ ~RecordFailure(w) => UNCHANGED leftover
  BY DEF JobStep, TakeJob, LoadImages, CallSucceeds, CallFails, CommitItems, CommitEmpty,
         CommitFails, RecordFailure, ForgetJob, FinishJob, Take, Forget, Finish, Exit,
         queueVars, dbVars, bootVars
<1>2. ASSUME UNCHANGED <<queued, status, job>>,
             \A v \in Workers : stage'[v] = "release" => stage[v] = "release"
      PROVE  BootInv'
  BY <1>1, <1>2 DEF BootInv
<1>3. CASE LoadImages(w) \/ CallSucceeds(w) \/ CommitFails(w) \/ FinishJob(w)
  BY <1>2, <1>3 DEF LoadImages, CallSucceeds, CommitFails, FinishJob, Finish, Exit,
                    queueVars, dbVars
<1>4. CASE TakeJob(w)
  <2>1. UNCHANGED <<queued, status>> /\ stage' = [stage EXCEPT ![w] = "load"]
        /\ \A v \in Workers : v # w => job'[v] = job[v]
    BY <1>4 DEF TakeJob, Take, dbVars
  <2>2. QED
    BY <1>1, <2>1 DEF BootInv
<1>5. CASE CallFails(w) \/ CommitItems(w) \/ CommitEmpty(w) \/ RecordFailure(w)
  <2>1. UNCHANGED <<queued, job>> /\ stage[w] \in {"call", "commit", "fail"}
    BY <1>5 DEF CallFails, CommitItems, CommitEmpty, RecordFailure, Doing, queueVars
  <2>2. job[w] \in Receipts
    BY <2>1 DEF StageWhileRunning, JobWhileRunning
  <2>3. \A r \in Receipts : status'[r] = "pending" => status[r] = "pending"
    BY <1>5, <2>2 DEF CallFails, CommitItems, CommitEmpty, RecordFailure, Update, Written
  <2>4. stage'[w] = "release" => status'[job[w]] # "pending" \/ job[w] \in leftover'
    BY <1>5, <2>1, <2>2
       DEF CallFails, CommitItems, CommitEmpty, RecordFailure, Written
  <2>5. \A v \in Workers : v # w => stage'[v] = stage[v]
    BY <1>5 DEF CallFails, CommitItems, CommitEmpty, RecordFailure
  <2>6. \A v \in Workers : stage[v] # "none" => job[v] \in Receipts
    BY DEF StageWhileRunning, JobWhileRunning
  <2>7. \A v \in Workers :
          stage'[v] = "release" => status'[job[v]] # "pending" \/ job[v] \in leftover'
    BY <1>1, <2>3, <2>4, <2>5, <2>6 DEF BootInv
  <2>8. QED
    BY <1>1, <2>1, <2>3, <2>7 DEF BootInv
<1>6. CASE ForgetJob(w)
  <2>1. /\ stage[w] = "release" /\ queued' = queued \ {job[w]} /\ UNCHANGED status
        /\ stage' = [stage EXCEPT ![w] = "none"]
        /\ \A v \in Workers : v # w => job'[v] = job[v]
    BY <1>6 DEF ForgetJob, Forget, Doing, dbVars
  <2>2. QED
    BY <1>1, <2>1 DEF BootInv
<1>7. QED
  BY <1>3, <1>4, <1>5, <1>6 DEF JobStep

\* So does every other step: the handlers are not running yet, and what is read
\* at the start is all that is pending.
LEMMA BootNext ==
    QueueInv /\ ShapeInv /\ BootInv /\ [Next]_vars => BootInv'
<1> SUFFICES ASSUME QueueInv, ShapeInv, BootInv, [Next]_vars, http' = "boot"
             PROVE  BootInv'
  BY DEF BootInv
<1> USE DEF ShapeInv, TypeInv, PipelineTypeOK
<1>1. ASSUME NEW w \in Workers, JobStep(w) PROVE BootInv'
  <2>1. http = "boot"
    BY <1>1 DEF JobStep, TakeJob, LoadImages, CallSucceeds, CallFails, CommitItems,
                CommitEmpty, CommitFails, RecordFailure, ForgetJob, FinishJob, bootVars
  <2>2. QED
    BY <1>1, <2>1, BootJobStep
<1>2. ASSUME NEW q \in Requests, RequestStep(q) PROVE FALSE
  <2>1. req[q].pc # "idle" /\ http = "boot"
    BY <1>2 DEF RequestStep, ScanInsert, ScanSubmit, ReprocessGuard, ReprocessFlip,
                ReprocessSubmit, ReprocessRollback, AddItemCommit, AddItemsCommit,
                RepairCommit, DeleteFiles, At, bootVars
  <2>2. QED
    BY <2>1 DEF BootShape, RequestShape
<1>3. ASSUME NEW q \in Requests, NEW r \in Receipts, NewRequest(q, r) PROVE FALSE
  BY <1>3 DEF NewRequest, ScanSave, ReprocessRead, AddItemRead, AddItemsRead, RepairRead,
              DeleteRows, Begin, bootVars
<1>4. ASSUME NEW r \in Receipts, ShortRequest(r) PROVE FALSE
  BY <1>4 DEF ShortRequest, CreateManual, SetStatus, AcceptSuggestions, bootVars
<1>5. ASSUME NEW r \in Receipts, RetentionSweep(r) PROVE BootInv'
  BY <1>5 DEF RetentionSweep, BootInv, queueVars, bootVars
<1>6. CASE Boot
  <2>1. /\ UNCHANGED <<queued, status, images, stage>> /\ pool = "down" /\ pool' = "open"
        /\ toRequeue' \cup leftover' = {r \in Receipts : status[r] = "pending"}
    BY <1>6 DEF Boot, Start, dbVars
  <2>2. \A w \in Workers : stage'[w] = "none"
    BY <2>1 DEF BootShape, StageWhileRunning
  <2>3. QED
    BY <2>1, <2>2 DEF BootInv
<1>7. CASE RequeueOne
  <2>1. UNCHANGED <<job, stage, status, images>> /\ http = "boot"
    BY <1>7 DEF RequeueOne, Enqueue, Refused, queueVars, dbVars
  <2>2. pool' = pool
    BY <1>7 DEF RequeueOne, Enqueue, Refused, queueVars
  <2>3. \A r \in Receipts : images[r] /\ r \in queued \cup toRequeue \cup leftover
           => r \in queued' \cup toRequeue' \cup leftover'
    <3>1. ASSUME NEW x \in toRequeue, images[x], Enqueue(x), toRequeue' = toRequeue \ {x},
                 UNCHANGED leftover
          PROVE  queued \cup toRequeue \cup leftover \subseteq
                     queued' \cup toRequeue' \cup leftover'
      BY <3>1 DEF Enqueue
    <3>2. ASSUME NEW x \in toRequeue, ~images[x] \/ SubmitResult(x) = "alreadyQueued",
                 toRequeue' = toRequeue \ {x}, UNCHANGED <<queued, leftover>>
          PROVE  \A r \in Receipts : images[r] /\ r \in queued \cup toRequeue \cup leftover
                    => r \in queued' \cup toRequeue' \cup leftover'
      BY <3>2 DEF SubmitResult
    <3>3. PICK x \in toRequeue :
              \/ images[x] /\ Enqueue(x) /\ toRequeue' = toRequeue \ {x} /\ UNCHANGED leftover
              \/ /\ \/ ~images[x] /\ UNCHANGED queueVars
                    \/ Refused(x, {"alreadyQueued"})
                 /\ toRequeue' = toRequeue \ {x} /\ UNCHANGED leftover
              \/ leftover' = leftover \cup toRequeue /\ UNCHANGED queueVars
      BY <1>7 DEF RequeueOne
    <3>4. CASE images[x] /\ Enqueue(x) /\ toRequeue' = toRequeue \ {x} /\ UNCHANGED leftover
      BY <3>1, <3>4
    <3>5. CASE /\ \/ ~images[x] /\ UNCHANGED queueVars
                  \/ Refused(x, {"alreadyQueued"})
               /\ toRequeue' = toRequeue \ {x} /\ UNCHANGED leftover
      <4>1. (~images[x] \/ SubmitResult(x) = "alreadyQueued") /\ queued' = queued
        BY <3>5 DEF Refused, queueVars
      <4>2. QED
        BY <3>2, <3>5, <4>1
    <3>6. CASE leftover' = leftover \cup toRequeue /\ UNCHANGED queueVars
      BY <3>6 DEF queueVars
    <3>7. QED
      BY <3>3, <3>4, <3>5, <3>6
  <2>4. leftover \subseteq leftover'
    BY <1>7 DEF RequeueOne
  <2>5. QED
    BY <2>1, <2>2, <2>3, <2>4 DEF BootInv
<1>8. CASE CountSubmitted
  BY <1>8 DEF CountSubmitted, CountJob, BootInv, dbVars, bootVars
<1>9. CASE Serve \/ StopServing \/ Crash
  BY <1>9 DEF Serve, StopServing, Crash
<1>10. CASE StopWorker \/ DrainJob
  BY <1>10 DEF StopWorker, CleanStop, Deadline, StopDone, DrainJob, Drain, BootInv, bootVars
<1>11. CASE UNCHANGED vars
  BY <1>11 DEF vars, queueVars, dbVars, bootVars, BootInv
<1>12. QED
  BY <1>1, <1>2, <1>3, <1>4, <1>5, <1>6, <1>7, <1>8, <1>9, <1>10, <1>11 DEF Next

\* The boot adopts every receipt an earlier process left pending with its
\* images, unless the row cap or a full queue leaves it over, or the UPDATE of
\* its failed job is lost.
THEOREM BootAdopts == Spec => []BootAdoptsPending
<1>1. PipelineInit => BootInv
  BY DEF PipelineInit, BootInv
<1>2. QueueInv /\ ShapeInv /\ BootInv /\ [Next]_vars => BootInv'
  BY BootNext
<1>3. BootInv => BootAdoptsPending
  BY DEF BootInv, BootAdoptsPending
<1>4. QED
  BY <1>1, <1>2, <1>3, FreshInvariant, PTL DEF Spec

-----------------------------------------------------------------------------
(* The guard around the model that the jobs call (LlmGuard).               *)

HIDE DEF Stored, Status, LineState, Stage, RequestState, NoRequest
USE DEF CallState

\* While the breaker is closed the count has not reached the threshold.
BelowThreshold == state = "closed" => failures < Threshold

BreakerInv == GuardTypeOK /\ ProbingExact /\ BelowThreshold

\* The breaker's part of the initial state.
LEMMA BreakerInit == GuardInit => BreakerInv
<1> SUFFICES ASSUME GuardInit PROVE BreakerInv
  OBVIOUS
<1>1. calls \in [Callers -> [pc : CallState, house : Households]]
  BY DEF GuardInit
<1>2. usage \in [Households -> Nat]
  BY DEF GuardInit
<1>3. GuardTypeOK
  <2>1. /\ state \in {"closed", "open", "halfOpen"} /\ failures \in 0..Threshold
        /\ sinceFirst \in 0..(Window + 1) /\ sinceOpened \in 0..MaxCooldown
        /\ cooldown \in Cooldown..MaxCooldown
    BY GuardAssumption DEF GuardInit
  <2>2. probing \in BOOLEAN
    BY Zenon DEF GuardInit
  <2>3. QED
    BY <1>1, <1>2, <2>1, <2>2 DEF GuardTypeOK
<1>4. ProbingExact /\ BelowThreshold
  BY GuardAssumption DEF GuardInit, ProbingExact, BelowThreshold
<1>5. QED
  BY <1>3, <1>4 DEF BreakerInv

\* A caller's step keeps the type of calls.
LEMMA StepType ==
    ASSUME GuardTypeOK, NEW c \in Callers, NEW from, NEW to \in CallState, Step(c, from, to)
    PROVE  calls' \in [Callers -> [pc : CallState, house : Households]]
BY DEF GuardTypeOK, Step

\* An answer keeps the type of calls.
LEMMA AnsweredType ==
    ASSUME GuardTypeOK, NEW c \in Callers, NEW to \in CallState, Answered(c, to)
    PROVE  calls' \in [Callers -> [pc : CallState, house : Households]]
BY StepType DEF Answered

\* Every step of the guard keeps the types, the exact probe slot and a closed
\* breaker's count below the threshold.
LEMMA BreakerNext == BreakerInv /\ [GuardNext]_guardVars => BreakerInv'
<1> SUFFICES ASSUME BreakerInv, [GuardNext]_guardVars PROVE BreakerInv'
  OBVIOUS
<1> USE GuardAssumption DEF BreakerInv
<1>1. ASSUME NEW c \in Callers, NEW h \in Households, CheckBudget(c, h)
      PROVE  BreakerInv'
  BY <1>1 DEF CheckBudget, breakerVars, history, GuardTypeOK, ProbingExact, BelowThreshold
<1>2. ASSUME NEW c \in Callers, Allow(c) PROVE BreakerInv'
  <2>1. calls' \in [Callers -> [pc : CallState, house : Households]]
    BY <1>2, StepType DEF Allow
  <2>2. QED
    BY <1>2, <2>1 DEF Allow, GuardTypeOK, ProbingExact, BelowThreshold
<1>3. ASSUME NEW c \in Callers, Reject(c) PROVE BreakerInv'
  <2>1. calls' \in [Callers -> [pc : CallState, house : Households]]
    BY <1>3, StepType DEF Reject
  <2>2. QED
    BY <1>3, <2>1 DEF Reject, breakerVars, GuardTypeOK, ProbingExact, BelowThreshold
<1>4. ASSUME NEW c \in Callers, OnSuccess(c) PROVE BreakerInv'
  <2>1. calls' \in [Callers -> [pc : CallState, house : Households]]
    BY <1>4, AnsweredType DEF OnSuccess
  <2>2. probing' \in BOOLEAN /\ ProbingExact'
    <3>1. CASE state = "closed"
      BY <1>4, <3>1 DEF OnSuccess, GuardTypeOK, ProbingExact
    <3>2. CASE state # "closed"
      BY <1>4, <3>2, Zenon DEF OnSuccess, ProbingExact
    <3>3. QED
      BY <3>1, <3>2
  <2>3. /\ state' = "closed" /\ failures' = 0 /\ sinceFirst' = Window + 1
        /\ cooldown' \in {cooldown, Cooldown} /\ UNCHANGED <<sinceOpened, usage>>
    BY <1>4 DEF OnSuccess, ResetAfterSuccess
  <2>4. QED
    BY <2>1, <2>2, <2>3 DEF GuardTypeOK, BelowThreshold
<1>5. ASSUME NEW c \in Callers, OnRateLimit(c) PROVE BreakerInv'
  <2>1. calls' \in [Callers -> [pc : CallState, house : Households]]
    BY <1>5, AnsweredType DEF OnRateLimit
  <2>2. usage' = usage
    BY <1>5 DEF OnRateLimit
  <2>3. CASE Reopen
    <3>1. probing' \in BOOLEAN /\ ProbingExact'
      BY <2>3, Zenon DEF Reopen, ProbingExact
    <3>2. /\ state' = "open" /\ sinceOpened' = 0 /\ cooldown' \in Cooldown..MaxCooldown
          /\ UNCHANGED <<failures, sinceFirst>>
      BY <2>3 DEF Reopen, Backoff, Lesser, GuardTypeOK
    <3>3. QED
      BY <2>1, <2>2, <3>1, <3>2 DEF GuardTypeOK, BelowThreshold
  <2>4. CASE CountFailure
    BY <2>1, <2>2, <2>4 DEF CountFailure, GuardTypeOK, ProbingExact, BelowThreshold
  <2>5. CASE UNCHANGED breakerVars
    BY <2>1, <2>2, <2>5 DEF breakerVars, GuardTypeOK, ProbingExact, BelowThreshold
  <2>6. QED
    BY <1>5, <2>3, <2>4, <2>5 DEF OnRateLimit
<1>6. ASSUME NEW c \in Callers, OnOtherError(c) PROVE BreakerInv'
  <2>1. calls' \in [Callers -> [pc : CallState, house : Households]]
    BY <1>6, AnsweredType DEF OnOtherError
  <2>2. QED
    BY <1>6, <2>1 DEF OnOtherError, breakerVars, GuardTypeOK, ProbingExact, BelowThreshold
<1>7. ASSUME NEW c \in Callers, RecordUsage(c) PROVE BreakerInv'
  <2>1. calls' \in [Callers -> [pc : CallState, house : Households]]
    BY <1>7, StepType DEF RecordUsage
  <2>2. usage' \in [Households -> Nat]
    BY <1>7 DEF RecordUsage, GuardTypeOK
  <2>3. QED
    BY <1>7, <2>1, <2>2
       DEF RecordUsage, breakerVars, GuardTypeOK, ProbingExact, BelowThreshold
<1>8. CASE Tick
  BY <1>8 DEF Tick, Lesser, GuardTypeOK, ProbingExact, BelowThreshold
<1>9. CASE NewMonth
  BY <1>9 DEF NewMonth, breakerVars, GuardTypeOK, ProbingExact, BelowThreshold
<1>10. CASE Restart
  <2>1. probing' \in BOOLEAN /\ ProbingExact'
    BY <1>10, Zenon DEF Restart, ProbingExact
  <2>2. /\ state' = "closed" /\ failures' = 0 /\ sinceFirst' = Window + 1
        /\ sinceOpened' = MaxCooldown /\ cooldown' = Cooldown /\ usage' = usage
    BY <1>10 DEF Restart
  <2>3. calls' \in [Callers -> [pc : CallState, house : Households]]
    BY <1>10 DEF Restart, GuardTypeOK
  <2>4. QED
    BY <2>1, <2>2, <2>3 DEF GuardTypeOK, BelowThreshold
<1>11. CASE UNCHANGED guardVars
  BY <1>11 DEF guardVars, breakerVars, GuardTypeOK, ProbingExact, BelowThreshold
<1>12. QED
  BY <1>1, <1>2, <1>3, <1>4, <1>5, <1>6, <1>7, <1>8, <1>9, <1>10, <1>11
     DEF GuardNext, Attempt, Answer

\* The three hold throughout.
LEMMA BreakerInvariant == GuardSpec => []BreakerInv
BY BreakerInit, BreakerNext, PTL DEF GuardSpec

\* The guard keeps its types: the backoff stays between the cooldown and its
\* cap and the failure count never passes the threshold.
THEOREM GuardTypeCorrect == GuardSpec => []GuardTypeOK
<1>1. BreakerInv => GuardTypeOK
  BY DEF BreakerInv
<1>2. QED
  BY <1>1, BreakerInvariant, PTL

\* The probe slot is taken exactly while the breaker is half open.
THEOREM ProbeSlotExact == GuardSpec => []ProbingExact
<1>1. BreakerInv => ProbingExact
  BY DEF BreakerInv
<1>2. QED
  BY <1>1, BreakerInvariant, PTL

\* Both hold together, for any number of callers and any thresholds.
THEOREM GuardIsSound == GuardSpec => []GuardSound
<1>1. BreakerInv => GuardSound
  BY DEF BreakerInv, GuardSound
<1>2. QED
  BY <1>1, BreakerInvariant, PTL

-----------------------------------------------------------------------------
(* The budget.                                                             *)

\* More calls may cost more.
LEMMA CostMonotonic ==
    ASSUME NEW m \in Nat, NEW k \in Nat, NEW n \in Nat, k <= n
    PROVE  m * k <= m * n
<1>1. n - k \in Nat /\ n = k + (n - k)
  OBVIOUS
<1>2. m * (n - k) >= 0
  BY <1>1
<1>3. m * n = m * k + m * (n - k)
  BY <1>1
<1>4. QED
  BY <1>2, <1>3

\* The callers of a household are some of the callers.
LEMMA UnbilledCount ==
    ASSUME NEW S \in SUBSET Callers
    PROVE  /\ IsFiniteSet(S) /\ Cardinality(S) \in Nat
           /\ Cardinality(Callers) \in Nat
           /\ Cardinality(S) <= Cardinality(Callers)
           /\ MaxTokens * Cardinality(S) <= MaxTokens * Cardinality(Callers)
<1>1. /\ IsFiniteSet(S) /\ Cardinality(S) \in Nat /\ Cardinality(Callers) \in Nat
      /\ Cardinality(S) <= Cardinality(Callers)
  BY FS_Subset, FS_CardinalityType, GuardAssumption
<1>2. QED
  BY <1>1, CostMonotonic, GuardAssumption

\* The bound holds for a household none of whose calls joins and whose usage
\* stays, whatever calls leave.
LEMMA FewerCallsBounded ==
    ASSUME NEW S \in SUBSET Callers, NEW T \in SUBSET S, NEW u \in Nat, NEW bound \in Int,
           u + MaxTokens * Cardinality(S) < bound
    PROVE  u + MaxTokens * Cardinality(T) < bound
<1>1. /\ Cardinality(S) \in Nat /\ Cardinality(T) \in Nat
      /\ Cardinality(T) <= Cardinality(S)
  BY UnbilledCount, FS_Subset
<1>2. MaxTokens * Cardinality(T) <= MaxTokens * Cardinality(S)
  BY <1>1, CostMonotonic, GuardAssumption
<1>3. MaxTokens * Cardinality(T) \in Int /\ MaxTokens * Cardinality(S) \in Int
  BY <1>1, GuardAssumption
<1>4. QED
  BY <1>2, <1>3

Limit == Budget + MaxTokens * Cardinality(Callers)

\* The bound for one household.
Bounded(h) == usage[h] + MaxTokens * Cardinality(Unbilled(h)) < Limit

\* The bound is a number.
LEMMA LimitIsInt == Limit \in Int
BY FS_CardinalityType, GuardAssumption DEF Limit

\* A step after which no call has joined the household and its usage is the
\* same keeps its bound.
LEMMA LeavingBounded ==
    ASSUME GuardTypeOK, NEW h \in Households, Bounded(h),
           usage'[h] = usage[h], Unbilled(h)' \subseteq Unbilled(h)
    PROVE  Bounded(h)'
<1>1. Unbilled(h) \in SUBSET Callers /\ usage[h] \in Nat
  BY DEF Unbilled, GuardTypeOK
<1>2. Limit' = Limit
  BY DEF Limit
<1>3. QED
  BY <1>1, <1>2, LimitIsInt, FewerCallsBounded DEF Bounded

\* A household that has not used its budget is within the bound, whatever
\* calls it has.
LEMMA UnderBudgetBounded ==
    ASSUME NEW h \in Households, usage[h] \in Nat, usage[h] < Budget
    PROVE  Bounded(h)
<1>1. Unbilled(h) \in SUBSET Callers
  BY DEF Unbilled
<1>2. /\ MaxTokens * Cardinality(Unbilled(h)) <= MaxTokens * Cardinality(Callers)
      /\ MaxTokens * Cardinality(Unbilled(h)) \in Int
      /\ MaxTokens * Cardinality(Callers) \in Int
  BY <1>1, UnbilledCount, GuardAssumption
<1>3. QED
  BY <1>2, GuardAssumption DEF Bounded, Limit

\* A caller that moves on, without starting, joins no household.
LEMMA MovingJoinsNone ==
    ASSUME GuardTypeOK, NEW c \in Callers, NEW from \in CallState \ {"idle"}, NEW to,
           Step(c, from, to), NEW h \in Households
    PROVE  /\ Unbilled(h)' \subseteq Unbilled(h)
           /\ to = "idle" => Unbilled(h)' = Unbilled(h) \ {c}
<1>1. calls[c].pc = from /\ calls' = [calls EXCEPT ![c].pc = to]
  BY DEF Step
<1>2. \A d \in Callers : calls'[d].house = calls[d].house
  BY <1>1 DEF GuardTypeOK
<1>3. \A d \in Callers : d # c => calls'[d] = calls[d]
  BY <1>1 DEF GuardTypeOK
<1>4. calls'[c].pc = to
  BY <1>1 DEF GuardTypeOK
<1>5. QED
  BY <1>1, <1>2, <1>3, <1>4 DEF Unbilled

\* Every step keeps every household within the bound.
LEMMA OvershootNext ==
    GuardTypeOK /\ GuardTypeOK' /\ OvershootBounded /\ [GuardNext]_guardVars
        => OvershootBounded'
<1> SUFFICES ASSUME GuardTypeOK, GuardTypeOK', OvershootBounded, [GuardNext]_guardVars,
                    Budget > 0, NEW h \in Households
             PROVE  Bounded(h)'
  BY DEF OvershootBounded, Bounded, Limit
<1>1. Bounded(h)
  BY DEF OvershootBounded, Bounded, Limit
<1>2. usage[h] \in Nat /\ usage'[h] \in Nat
  BY DEF GuardTypeOK
<1>3. ASSUME NEW c \in Callers, NEW g \in Households, CheckBudget(c, g)
      PROVE  Bounded(h)'
  <2>1. CASE g = h
    <3>1. usage'[h] < Budget
      BY <1>3, <2>1 DEF CheckBudget, WithinBudget
    <3>2. Unbilled(h)' \in SUBSET Callers
      BY DEF Unbilled
    <3>3. /\ MaxTokens * Cardinality(Unbilled(h)') <= MaxTokens * Cardinality(Callers)
          /\ MaxTokens * Cardinality(Unbilled(h)') \in Int
          /\ MaxTokens * Cardinality(Callers) \in Int
      BY <3>2, UnbilledCount, GuardAssumption
    <3>4. QED
      BY <1>2, <3>1, <3>3, GuardAssumption DEF Bounded, Limit
  <2>2. CASE g # h
    <3>1. calls' = [calls EXCEPT ![c] = [pc |-> "checked", house |-> g]]
      BY <1>3 DEF CheckBudget
    <3>2. Unbilled(h)' \subseteq Unbilled(h)
      BY <2>2, <3>1 DEF Unbilled, GuardTypeOK
    <3>3. usage' = usage
      BY <1>3 DEF CheckBudget
    <3>4. QED
      BY <1>1, <3>2, <3>3, LeavingBounded
  <2>3. QED
    BY <2>1, <2>2
<1>4. ASSUME NEW c \in Callers, Allow(c) \/ Reject(c) \/ Answer(c)
      PROVE  Bounded(h)'
  <2>1. usage' = usage
    BY <1>4 DEF Allow, Reject, Answer, OnSuccess, OnRateLimit, OnOtherError
  <2>2. \E from \in CallState \ {"idle"}, to \in CallState : Step(c, from, to)
    BY <1>4 DEF Allow, Reject, Answer, OnSuccess, OnRateLimit, OnOtherError, Answered
  <2>3. Unbilled(h)' \subseteq Unbilled(h)
    BY <2>2, MovingJoinsNone
  <2>4. QED
    BY <1>1, <2>1, <2>3, LeavingBounded
<1>5. ASSUME NEW c \in Callers, RecordUsage(c)
      PROVE  Bounded(h)'
  <2>1. Step(c, "billing", "idle")
    BY <1>5 DEF RecordUsage
  <2>2. Unbilled(h)' = Unbilled(h) \ {c}
    BY <2>1, MovingJoinsNone
  <2>3. CASE calls[c].house # h
    <3>1. usage'[h] = usage[h]
      BY <1>5, <2>3 DEF RecordUsage, GuardTypeOK
    <3>2. QED
      BY <1>1, <2>2, <3>1, LeavingBounded
  <2>4. CASE calls[c].house = h
    <3>1. PICK n \in 0..MaxTokens : usage' = [usage EXCEPT ![calls[c].house] = @ + n]
      BY <1>5 DEF RecordUsage
    <3>2. usage'[h] = usage[h] + n
      BY <2>4, <3>1 DEF GuardTypeOK
    <3>3. c \in Unbilled(h) /\ Unbilled(h) \in SUBSET Callers
      BY <2>1, <2>4 DEF Step, Unbilled
    <3>4. IsFiniteSet(Unbilled(h)) /\ Cardinality(Unbilled(h)) \in Nat
      BY <3>3, UnbilledCount
    <3>5. Cardinality(Unbilled(h)') = Cardinality(Unbilled(h)) - 1
      BY <2>2, <3>3, <3>4, FS_RemoveElement
    <3>6. \A k \in Nat : /\ MaxTokens * k \in Int
                         /\ MaxTokens * (k - 1) = MaxTokens * k - MaxTokens
      BY GuardAssumption
    <3>7. Limit' = Limit /\ Limit \in Int
      BY LimitIsInt DEF Limit
    <3>8. MaxTokens * Cardinality(Unbilled(h)')
              = MaxTokens * Cardinality(Unbilled(h)) - MaxTokens
      BY <3>4, <3>5, <3>6
    <3>9. MaxTokens * Cardinality(Unbilled(h)) \in Int /\ MaxTokens \in Nat
      BY <3>4, <3>6, GuardAssumption
    <3>10. QED
      BY <1>1, <1>2, <3>2, <3>7, <3>8, <3>9 DEF Bounded
  <2>5. QED
    BY <2>3, <2>4
<1>6. CASE NewMonth
  <2>1. usage'[h] = 0
    BY <1>6 DEF NewMonth
  <2>2. Unbilled(h)' = Unbilled(h)
    BY <1>6 DEF NewMonth, Unbilled
  <2>3. Unbilled(h) \in SUBSET Callers
    BY DEF Unbilled
  <2>4. /\ MaxTokens * Cardinality(Unbilled(h)) <= MaxTokens * Cardinality(Callers)
        /\ MaxTokens * Cardinality(Unbilled(h)) \in Int
        /\ MaxTokens * Cardinality(Callers) \in Int
    BY <2>3, UnbilledCount, GuardAssumption
  <2>5. QED
    BY <2>1, <2>2, <2>4, GuardAssumption DEF Bounded, Limit
<1>7. CASE Restart
  <2>1. Unbilled(h)' = {}
    BY <1>7 DEF Restart, Unbilled, GuardTypeOK
  <2>2. usage' = usage
    BY <1>7 DEF Restart
  <2>3. QED
    BY <1>1, <2>1, <2>2, LeavingBounded
<1>8. CASE Tick \/ UNCHANGED guardVars
  <2>1. usage' = usage /\ calls' = calls
    BY <1>8 DEF Tick, guardVars
  <2>2. Unbilled(h)' = Unbilled(h)
    BY <2>1 DEF Unbilled
  <2>3. QED
    BY <1>1, <2>1, <2>2, LeavingBounded
<1>9. QED
  BY <1>3, <1>4, <1>5, <1>6, <1>7, <1>8 DEF GuardNext, Attempt

\* A household overshoots its monthly budget by less than one call of each
\* caller, however its calls interleave and whatever month they end in.
THEOREM OvershootIsBounded == GuardSpec => []OvershootBounded
<1>1. GuardInit => OvershootBounded
  <2> SUFFICES ASSUME GuardInit, Budget > 0, NEW h \in Households PROVE Bounded(h)
    BY DEF OvershootBounded, Bounded, Limit
  <2>1. usage[h] = 0
    BY DEF GuardInit
  <2>2. QED
    BY <2>1, UnderBudgetBounded
<1>2. BreakerInv => GuardTypeOK
  BY DEF BreakerInv
<1>3. QED
  BY <1>1, <1>2, BreakerInvariant, OvershootNext, PTL DEF GuardSpec

-----------------------------------------------------------------------------
(* Probes.                                                                 *)

\* How old the last probe is, against the breaker's own clock: unless a
\* success or a restart has come in between, an open breaker has a doubled
\* backoff and opened no earlier than that probe was sent.
Grown == Lesser(2 * Cooldown, MaxCooldown)

ProbeAge ==
    /\ sinceProbe \in 0..(2 * MaxCooldown)
    /\ state = "closed" => sinceProbe >= Grown
    /\ state = "open" => \/ sinceProbe >= Grown
                         \/ cooldown >= Grown /\ sinceProbe >= sinceOpened

\* Every step keeps the age of the last probe right.
LEMMA ProbeAgeNext ==
    BreakerInv /\ ProbeAge /\ [GuardNext]_guardVars => ProbeAge'
<1> SUFFICES ASSUME BreakerInv, ProbeAge, [GuardNext]_guardVars PROVE ProbeAge'
  OBVIOUS
<1> USE GuardAssumption DEF Grown, Lesser
<1>1. /\ cooldown \in Cooldown..MaxCooldown /\ sinceOpened \in 0..MaxCooldown
      /\ state \in {"closed", "open", "halfOpen"}
  BY DEF BreakerInv, GuardTypeOK
<1>2. ASSUME NEW c \in Callers, Allow(c) PROVE ProbeAge'
  BY <1>1, <1>2 DEF Allow, ProbeAge
<1>3. ASSUME NEW c \in Callers, OnSuccess(c) PROVE ProbeAge'
  BY <1>1, <1>3 DEF OnSuccess, ProbeAge
<1>4. ASSUME NEW c \in Callers, OnRateLimit(c) PROVE ProbeAge'
  <2>1. sinceProbe' = sinceProbe
    BY <1>4 DEF OnRateLimit
  <2>2. CASE Reopen
    BY <1>1, <2>1, <2>2 DEF Reopen, Backoff, ProbeAge
  <2>3. CASE CountFailure
    BY <1>1, <2>1, <2>3 DEF CountFailure, ProbeAge
  <2>4. CASE UNCHANGED breakerVars
    BY <2>1, <2>4 DEF breakerVars, ProbeAge
  <2>5. QED
    BY <1>4, <2>2, <2>3, <2>4 DEF OnRateLimit
<1>5. CASE Tick
  BY <1>1, <1>5 DEF Tick, ProbeAge
<1>6. CASE Restart
  BY <1>1, <1>6 DEF Restart, ProbeAge
<1>7. CASE UNCHANGED <<breakerVars, history>>
  BY <1>7 DEF breakerVars, history, ProbeAge
<1>8. QED
  BY <1>2, <1>3, <1>4, <1>5, <1>6, <1>7
     DEF GuardNext, Attempt, Answer, CheckBudget, Reject, OnOtherError, RecordUsage,
         NewMonth, guardVars

\* Two probes with no success between them are a doubled cooldown apart, or
\* the maximal one, whatever answers arrive late in between.
THEOREM BackoffAlwaysGrows == GuardSpec => BackoffGrows
<1> DEFINE Spaced == \A c \in Callers :
                        calls[c].pc # "probe" /\ calls'[c].pc = "probe" =>
                           sinceProbe >= Lesser(2 * Cooldown, MaxCooldown)
<1>1. BreakerInv /\ ProbeAge /\ [GuardNext]_guardVars => [Spaced]_guardVars
  <2> SUFFICES ASSUME BreakerInv, ProbeAge, GuardNext, NEW c \in Callers,
                      calls[c].pc # "probe", calls'[c].pc = "probe"
               PROVE  sinceProbe >= Grown
    BY DEF Grown
  <2>1. calls \in [Callers -> [pc : CallState, house : Households]]
    BY DEF BreakerInv, GuardTypeOK
  <2>2. PICK d \in Callers : Attempt(d) \/ Answer(d)
    BY <2>1 DEF GuardNext, Tick, NewMonth, Restart
  <2>3. Allow(d) /\ state # "closed"
    <3>1. ASSUME NEW h \in Households, CheckBudget(d, h) PROVE FALSE
      BY <2>1, <3>1 DEF CheckBudget
    <3>2. ASSUME NEW from, NEW to \in CallState \ {"probe"}, Step(d, from, to)
          PROVE  FALSE
      BY <2>1, <3>2 DEF Step
    <3>3. QED
      BY <2>2, <3>1, <3>2 DEF Attempt, Answer, Allow, Reject, RecordUsage, OnSuccess,
                              OnRateLimit, OnOtherError, Answered
  <2>4. state = "open" /\ sinceOpened >= cooldown
    BY <2>3 DEF Allow, Allowed, BreakerInv, GuardTypeOK, ProbingExact
  <2>5. QED
    BY <2>4, GuardAssumption DEF ProbeAge, Grown, Lesser, BreakerInv, GuardTypeOK
<1>2. GuardInit => ProbeAge
  BY GuardAssumption DEF GuardInit, ProbeAge, Grown, Lesser
<1>3. QED
  BY <1>1, <1>2, BreakerInvariant, ProbeAgeNext, PTL DEF GuardSpec, BackoffGrows

-----------------------------------------------------------------------------
(* Trips.                                                                  *)

\* What the breaker's counter says of the answers it has really seen: while
\* its window is open, the last 429s, as many as it counts, are no older than
\* the start of the window, and no success is among them.
Recalled ==
    /\ recent \in Seq(0..(Window + 1)) /\ Len(recent) <= Threshold
    /\ state = "closed" /\ sinceFirst <= Window =>
          /\ failures <= Len(recent)
          /\ \A i \in 1..Len(recent) : i > Len(recent) - failures => recent[i] <= sinceFirst

\* t is s with e at its end, cut to its last Threshold members.
LastOf(t, s, e, S) ==
    /\ t \in Seq(S) /\ Len(t) \in 1..Threshold
    /\ Len(t) = Len(s) + 1 \/ (Len(t) = Threshold /\ Len(s) = Threshold)
    /\ t[Len(t)] = e
    /\ \A i \in 1..(Len(t) - 1) : /\ i + Len(s) + 1 - Len(t) \in 1..Len(s)
                                  /\ t[i] = s[i + Len(s) + 1 - Len(t)]

\* The history keeps the last Threshold ages, with the newest one at the end.
LEMMA RememberOne ==
    ASSUME NEW S, NEW s \in Seq(S), NEW e \in S, Len(s) <= Threshold
    PROVE  LastOf(Remember(s, e), s, e, S)
<1>1. CASE Len(s) < Threshold
  <2> DEFINE all == Append(s, e)
  <2>1. Remember(s, e) = all
    BY <1>1 DEF Remember
  <2>2. /\ all \in Seq(S) /\ Len(all) = Len(s) + 1 /\ all[Len(all)] = e
        /\ \A i \in 1..Len(s) : all[i] = s[i]
        /\ Len(s) \in Nat
    OBVIOUS
  <2> HIDE DEF all
  <2>3. Len(all) \in 1..Threshold
    BY <1>1, <2>2, GuardAssumption
  <2>4. ASSUME NEW i \in 1..(Len(all) - 1)
        PROVE  /\ i + Len(s) + 1 - Len(all) \in 1..Len(s)
               /\ all[i] = s[i + Len(s) + 1 - Len(all)]
    <3>1. i \in 1..Len(s) /\ i + Len(s) + 1 - Len(all) = i
      BY <2>2
    <3>2. QED
      BY <2>2, <3>1
  <2>5. QED
    BY <2>1, <2>2, <2>3, <2>4 DEF LastOf
<1>2. CASE Len(s) >= Threshold
  <2> DEFINE rest == Tail(s)
             all == Append(rest, e)
  <2>1. Remember(s, e) = all
    BY <1>2, GuardAssumption DEF Remember
  <2>2. Len(s) = Threshold /\ Len(s) \in Nat \ {0}
    BY <1>2, GuardAssumption
  <2>3. /\ rest \in Seq(S) /\ Len(rest) = Len(s) - 1
        /\ \A i \in 1..(Len(s) - 1) : rest[i] = s[i + 1]
    BY <2>2
  <2> HIDE DEF rest
  <2>4. /\ all \in Seq(S) /\ Len(all) = Len(s) /\ all[Len(all)] = e
        /\ \A i \in 1..(Len(s) - 1) : all[i] = rest[i]
    BY <2>2, <2>3
  <2> HIDE DEF all
  <2>5. ASSUME NEW i \in 1..(Len(all) - 1)
        PROVE  /\ i + Len(s) + 1 - Len(all) \in 1..Len(s)
               /\ all[i] = s[i + Len(s) + 1 - Len(all)]
    <3>1. i \in 1..(Len(s) - 1) /\ i + Len(s) + 1 - Len(all) = i + 1
      BY <2>2, <2>4
    <3>2. QED
      BY <2>2, <2>3, <2>4, <3>1
  <2>6. QED
    BY <2>1, <2>2, <2>4, <2>5 DEF LastOf
<1>3. Len(s) < Threshold \/ Len(s) >= Threshold
  BY GuardAssumption
<1>4. QED
  BY <1>1, <1>2, <1>3

\* A 429 counted while closed keeps the counter backed by the history; this
\* says so of the new count, whether or not it trips the breaker.
LEMMA CountedIsRecalled ==
    ASSUME BreakerInv, Recalled, NEW c \in Callers, OnRateLimit(c), CountFailure
    PROVE  /\ failures' <= Len(recent') /\ sinceFirst' <= Window
           /\ \A i \in 1..Len(recent') :
                 i > Len(recent') - failures' => recent'[i] <= sinceFirst'
<1>1. /\ failures \in 0..Threshold /\ failures < Threshold
      /\ sinceFirst \in 0..(Window + 1) /\ state = "closed"
      /\ recent \in Seq(0..(Window + 1)) /\ Len(recent) <= Threshold
  BY DEF BreakerInv, GuardTypeOK, BelowThreshold, CountFailure, Recalled
<1> DEFINE t == recent'
           d == Len(recent) + 1 - Len(t)
<1>2. /\ t \in Seq(0..(Window + 1)) /\ Len(t) \in 1..Threshold
      /\ Len(t) = Len(recent) + 1 \/ (Len(t) = Threshold /\ Len(recent) = Threshold)
      /\ t[Len(t)] = 0
      /\ \A i \in 1..(Len(t) - 1) : i + d \in 1..Len(recent) /\ t[i] = recent[i + d]
  <2>1. t = Remember(recent, 0)
    BY DEF OnRateLimit
  <2>2. 0 \in 0..(Window + 1)
    BY GuardAssumption
  <2>3. /\ t \in Seq(0..(Window + 1)) /\ Len(t) \in 1..Threshold
        /\ Len(t) = Len(recent) + 1 \/ (Len(t) = Threshold /\ Len(recent) = Threshold)
        /\ t[Len(t)] = 0
        /\ \A i \in 1..(Len(t) - 1) : /\ i + Len(recent) + 1 - Len(t) \in 1..Len(recent)
                                      /\ t[i] = recent[i + Len(recent) + 1 - Len(t)]
    <3>1. LastOf(t, recent, 0, 0..(Window + 1))
      BY <1>1, <2>1, <2>2, RememberOne
    <3>2. QED
      BY <3>1 DEF LastOf
  <2>4. ASSUME NEW i \in 1..(Len(t) - 1)
        PROVE  i + d = i + Len(recent) + 1 - Len(t)
    BY <1>1, <2>3
  <2>5. QED
    BY <2>3, <2>4
<1>3. CASE sinceFirst > Window
  <2>1. failures' = 1 /\ sinceFirst' = 0
    BY <1>3 DEF CountFailure
  <2>2. QED
    BY <1>2, <2>1, GuardAssumption
<1>4. CASE sinceFirst <= Window
  <2>1. failures' = failures + 1 /\ sinceFirst' = sinceFirst
    BY <1>1, <1>4, GuardAssumption DEF CountFailure
  <2>2. /\ failures <= Len(recent)
        /\ \A i \in 1..Len(recent) :
              i > Len(recent) - failures => recent[i] <= sinceFirst
    BY <1>1, <1>4 DEF Recalled
  <2>3. failures' <= Len(t)
    BY <1>1, <1>2, <2>1, <2>2, GuardAssumption
  <2>4. ASSUME NEW i \in 1..Len(t), i > Len(t) - failures'
        PROVE  t[i] <= sinceFirst'
    <3>1. CASE i = Len(t)
      BY <1>1, <1>2, <2>1, <3>1
    <3>2. CASE i # Len(t)
      <4>1. Len(t) \in Nat /\ Len(recent) \in Nat
        BY <1>1, <1>2
      <4>2. i \in 1..(Len(t) - 1)
        BY <3>2, <4>1
      <4>3. i + d \in 1..Len(recent) /\ t[i] = recent[i + d]
        BY <1>2, <4>2
      <4>4. i + d > Len(recent) - failures
        BY <1>1, <2>1, <2>4, <4>1
      <4>5. QED
        BY <2>1, <2>2, <4>3, <4>4
    <3>3. QED
      BY <3>1, <3>2
  <2>5. QED
    BY <1>4, <2>1, <2>3, <2>4
<1>5. QED
  BY <1>1, <1>3, <1>4, GuardAssumption

\* Every step keeps the counter backed by the history.
LEMMA RecalledNext == BreakerInv /\ Recalled /\ [GuardNext]_guardVars => Recalled'
<1> SUFFICES ASSUME BreakerInv, Recalled, [GuardNext]_guardVars PROVE Recalled'
  OBVIOUS
<1>1. ASSUME NEW c \in Callers, Allow(c) PROVE Recalled'
  <2>1. UNCHANGED <<failures, sinceFirst, recent>> /\ (state' = "closed" => state = "closed")
    BY <1>1 DEF Allow
  <2>2. QED
    BY <2>1 DEF Recalled
<1>2. ASSUME NEW c \in Callers, OnSuccess(c) PROVE Recalled'
  BY <1>2, GuardAssumption DEF OnSuccess, ResetAfterSuccess, Recalled
<1>3. ASSUME NEW c \in Callers, OnRateLimit(c) PROVE Recalled'
  <2>1. recent' \in Seq(0..(Window + 1)) /\ Len(recent') <= Threshold
    <3>1. recent' = Remember(recent, 0)
      BY <1>3 DEF OnRateLimit
    <3>2. 0 \in 0..(Window + 1)
      BY GuardAssumption
    <3>3. Len(recent') \in 1..Threshold /\ recent' \in Seq(0..(Window + 1))
      BY <3>1, <3>2, RememberOne DEF Recalled, LastOf
    <3>4. QED
      BY <3>3, GuardAssumption
  <2>2. CASE Reopen \/ state = "open"
    BY <1>3, <2>1, <2>2 DEF OnRateLimit, Reopen, CountFailure, breakerVars, Recalled
  <2>3. CASE CountFailure
    BY <1>3, <2>1, <2>3, CountedIsRecalled DEF Recalled
  <2>4. QED
    BY <1>3, <2>2, <2>3 DEF OnRateLimit
<1>4. CASE Tick
  <2>1. /\ recent' = [i \in 1..Len(recent) |-> Lesser(recent[i] + 1, Window + 1)]
        /\ sinceFirst' = Lesser(sinceFirst + 1, Window + 1)
        /\ UNCHANGED <<state, failures>>
    BY <1>4 DEF Tick, Recalled
  <2>2. \A i \in 1..Len(recent) : recent[i] \in 0..(Window + 1)
    <3> DEFINE Ages == 0..(Window + 1)
    <3>1. recent \in Seq(Ages)
      BY DEF Recalled
    <3> HIDE DEF Ages
    <3>2. \A i \in 1..Len(recent) : recent[i] \in Ages
      BY <3>1
    <3>3. QED
      BY <3>2 DEF Ages
  <2>3. \A i \in 1..Len(recent) : Lesser(recent[i] + 1, Window + 1) \in 0..(Window + 1)
    BY <2>2, GuardAssumption DEF Lesser
  <2>4. Len(recent) \in Nat
    BY DEF Recalled
  <2>5. recent' \in Seq(0..(Window + 1)) /\ Len(recent') = Len(recent)
    BY <2>1, <2>3, <2>4
  <2>6. ASSUME state' = "closed", sinceFirst' <= Window
        PROVE  /\ failures' <= Len(recent')
               /\ \A i \in 1..Len(recent') :
                     i > Len(recent') - failures' => recent'[i] <= sinceFirst'
    <3>1. sinceFirst \in 0..(Window + 1)
      BY DEF BreakerInv, GuardTypeOK
    <3>2. sinceFirst <= Window /\ sinceFirst' = sinceFirst + 1
      BY <2>1, <2>6, <3>1, GuardAssumption DEF Lesser
    <3>3. /\ failures <= Len(recent)
          /\ \A i \in 1..Len(recent) :
                i > Len(recent) - failures => recent[i] <= sinceFirst
      BY <2>1, <2>6, <3>2 DEF Recalled
    <3>4. \A i \in 1..Len(recent) : recent'[i] <= recent[i] + 1
      BY <2>1, <2>2, GuardAssumption DEF Lesser
    <3>5. QED
      BY <2>1, <2>2, <2>3, <2>5, <3>1, <3>2, <3>3, <3>4, GuardAssumption
  <2>7. QED
    BY <2>1, <2>4, <2>5, <2>6 DEF Recalled
<1>5. CASE Restart
  BY <1>5, GuardAssumption DEF Restart, Recalled
<1>6. CASE UNCHANGED <<breakerVars, recent>>
  BY <1>6 DEF breakerVars, Recalled
<1>7. QED
  BY <1>1, <1>2, <1>3, <1>4, <1>5, <1>6
     DEF GuardNext, Attempt, Answer, CheckBudget, Reject, OnOtherError, RecordUsage,
         NewMonth, guardVars, history

\* The breaker trips only on Threshold 429s that came within Window of each
\* other with no success between them.
THEOREM TripsAreJustified == GuardSpec => TripJustified
<1> DEFINE Justified == state = "closed" /\ state' = "open" =>
                           Len(recent') = Threshold /\ Head(recent') <= Window
<1>1. BreakerInv /\ Recalled /\ Recalled' /\ [GuardNext]_guardVars => [Justified]_guardVars
  <2> SUFFICES ASSUME BreakerInv, Recalled, Recalled', GuardNext,
                      state = "closed", state' = "open"
               PROVE  Len(recent') = Threshold /\ Head(recent') <= Window
    OBVIOUS
  <2>1. PICK c \in Callers : OnRateLimit(c) /\ CountFailure
    BY DEF GuardNext, Attempt, Answer, CheckBudget, Allow, Reject, RecordUsage, OnSuccess,
           OnRateLimit, OnOtherError, Reopen, Tick, NewMonth, Restart, breakerVars
  <2>2. /\ failures' <= Len(recent') /\ sinceFirst' <= Window
        /\ \A i \in 1..Len(recent') :
              i > Len(recent') - failures' => recent'[i] <= sinceFirst'
    BY <2>1, CountedIsRecalled
  <2>3. failures' >= Threshold
    BY <2>1 DEF CountFailure
  <2>4. recent' \in Seq(0..(Window + 1)) /\ Len(recent') <= Threshold
    BY DEF Recalled
  <2>5. failures' \in Nat /\ sinceFirst' \in Nat
    BY <2>1, GuardAssumption DEF CountFailure, BreakerInv, GuardTypeOK
  <2>6. Len(recent') = Threshold
    BY <2>2, <2>3, <2>4, <2>5, GuardAssumption
  <2>7. recent'[1] <= sinceFirst' /\ Head(recent') = recent'[1]
    <3>1. 1 \in 1..Len(recent') /\ 1 > Len(recent') - failures'
      <4>1. Len(recent') = Threshold
        BY <2>6
      <4>2. Threshold \in Nat /\ Threshold >= 1
        BY GuardAssumption
      <4>3. 1 \in 1..Len(recent')
        BY <4>1, <4>2
      <4>4. 1 > Threshold - failures'
        <5>1. \A m, n \in Nat : n >= m => 1 > m - n
          OBVIOUS
        <5>2. QED
          BY <2>3, <2>5, <4>2, <5>1
      <4>5. QED
        BY <4>1, <4>3, <4>4
    <3>2. recent' # <<>> => Head(recent') = recent'[1]
      BY <2>4
    <3>3. QED
      BY <2>2, <3>1, <3>2
  <2>8. recent'[1] \in Nat
    BY <2>4, <2>6, GuardAssumption
  <2>9. QED
    BY <2>2, <2>5, <2>6, <2>7, <2>8, GuardAssumption
<1>2. GuardInit => Recalled
  BY GuardAssumption DEF GuardInit, Recalled
<1>3. QED
  BY <1>1, <1>2, BreakerInvariant, RecalledNext, PTL DEF GuardSpec, TripJustified

\* The breaker opens only on enough 429s and lets probes through only as far
\* apart as its backoff says.
THEOREM BreakerIsLawful == GuardSpec => BreakerLawful
  BY TripsAreJustified, BackoffAlwaysGrows DEF BreakerLawful
=============================================================================

------------------------ MODULE EnrichmentJobs_proofs ------------------------
(***************************************************************************)
(* That the enrichment worker uses its queue only as ReceiptQueue allows,  *)
(* and with what that gives, EnrichSound: one active row for a key, rows   *)
(* that agree with the goroutines, and bounded retries of what crashes,    *)
(* for any rows, keys, goroutines, requests and channel.                   *)
(***************************************************************************)
EXTENDS EnrichmentJobs, ReceiptQueue_proofs

USE EnrichAssumption DEF JobIds

-----------------------------------------------------------------------------
(* The refinement.                                                         *)

\* Requests and the poll know of rows only.
Requested ==
    /\ req \in [Request -> [pc : {"idle", "insert", "found", "submit"}, on : JobIds \cup {NoJob}]]
    /\ \A q \in Request : req[q].pc # "idle" => req[q].on \in JobIds
    /\ ready \subseteq JobIds

LEMMA RequestedNext == Requested /\ [EnrichNext]_vars => Requested'
<1> SUFFICES ASSUME Requested, [EnrichNext]_vars PROVE Requested'
  OBVIOUS
<1> USE DEF Requested
<1>1. ASSUME NEW w \in Workers, TakeJob(w) PROVE Requested'
  BY <1>1 DEF TakeJob
<1>2. ASSUME NEW w \in Workers, MarkRunning(w) PROVE Requested'
  BY <1>2 DEF MarkRunning
<1>3. ASSUME NEW w \in Workers, FinishJob(w) PROVE Requested'
  BY <1>3 DEF FinishJob, Record
<1>4. ASSUME NEW w \in Workers, RateLimited(w) PROVE Requested'
  BY <1>4 DEF RateLimited, Record
<1>5. ASSUME NEW w \in Workers, ForgetJob(w) PROVE Requested'
  BY <1>5 DEF ForgetJob
<1>6. ASSUME NEW w \in Workers, JobDone(w) PROVE Requested'
  BY <1>6 DEF JobDone
<1>7. ASSUME NEW q \in Request, Ask(q) PROVE Requested'
  BY <1>7 DEF Ask, Look, Goto, ActiveOf
<1>8. ASSUME NEW q \in Request, Sweep(q) PROVE Requested'
  BY <1>8 DEF Sweep, Look, Goto, ActiveOf
<1>9. ASSUME NEW q \in Request, Insert(q) PROVE Requested'
  <2>1. CASE End(q) /\ UNCHANGED ready
    BY <2>1 DEF End, NoRequest
  <2>2. CASE UNCHANGED ready /\ \E j \in JobIds : Goto(q, "submit", j)
    BY <2>2 DEF Goto
  <2>3. QED
    BY <1>9, <2>1, <2>2 DEF Insert, At, ActiveOf
<1>10. ASSUME NEW q \in Request, Found(q) PROVE Requested'
  BY <1>10 DEF Found, Goto, End, NoRequest, At
<1>11. ASSUME NEW q \in Request, Submit(q) PROVE Requested'
  BY <1>11 DEF Submit, End, NoRequest
<1>12. ASSUME NEW j \in JobIds, PollSubmit(j) PROVE Requested'
  BY <1>12 DEF PollSubmit
<1>13. ASSUME NEW j \in JobIds, DropRow(j) PROVE Requested'
  BY <1>13 DEF DropRow
<1>14. ASSUME NEW j \in JobIds, Elapse(j) PROVE Requested'
  BY <1>14 DEF Elapse
<1>15. CASE PollRead
  BY <1>15 DEF PollRead
<1>16. CASE CountSubmitted
  BY <1>16 DEF CountSubmitted
<1>17. CASE Boot
  BY <1>17 DEF Boot
<1>18. CASE Recover
  BY <1>18 DEF Recover
<1>19. CASE StopWorker
  BY <1>19 DEF StopWorker
<1>20. CASE Crash
  BY <1>20 DEF Crash, NoRequest
<1>21. CASE UNCHANGED vars
  BY <1>21 DEF vars
<1>22. QED
  BY <1>1, <1>2, <1>3, <1>4, <1>5, <1>6, <1>7, <1>8, <1>9, <1>10, <1>11, <1>12, <1>13,
  <1>14, <1>15, <1>16, <1>17, <1>18, <1>19, <1>20, <1>21
     DEF EnrichNext, JobStep, RequestStep

\* Every step is one of the queue's or leaves the queue alone.
LEMMA EnrichQueueStep == Requested /\ [EnrichNext]_vars => [QueueNext]_queueVars
<1> SUFFICES ASSUME Requested, [EnrichNext]_vars PROVE QueueNext \/ UNCHANGED queueVars
  OBVIOUS
<1>1. ASSUME NEW w \in Workers, TakeJob(w) PROVE QueueNext \/ UNCHANGED queueVars
  BY <1>1 DEF TakeJob, QueueNext, WorkerStep
<1>2. ASSUME NEW w \in Workers, MarkRunning(w) PROVE QueueNext \/ UNCHANGED queueVars
  BY <1>2 DEF MarkRunning
<1>3. ASSUME NEW w \in Workers, FinishJob(w) PROVE QueueNext \/ UNCHANGED queueVars
  BY <1>3 DEF FinishJob, Record
<1>4. ASSUME NEW w \in Workers, RateLimited(w) PROVE QueueNext \/ UNCHANGED queueVars
  BY <1>4 DEF RateLimited, Record
<1>5. ASSUME NEW w \in Workers, ForgetJob(w) PROVE QueueNext \/ UNCHANGED queueVars
  BY <1>5 DEF ForgetJob, QueueNext, WorkerStep
<1>6. ASSUME NEW w \in Workers, JobDone(w) PROVE QueueNext \/ UNCHANGED queueVars
  BY <1>6 DEF JobDone, QueueNext, WorkerStep
<1>7. ASSUME NEW q \in Request, Ask(q) PROVE QueueNext \/ UNCHANGED queueVars
  BY <1>7 DEF Ask, Look
<1>8. ASSUME NEW q \in Request, Sweep(q) PROVE QueueNext \/ UNCHANGED queueVars
  BY <1>8 DEF Sweep, Look
<1>9. ASSUME NEW q \in Request, Insert(q) PROVE QueueNext \/ UNCHANGED queueVars
  BY <1>9 DEF Insert
<1>10. ASSUME NEW q \in Request, Found(q) PROVE QueueNext \/ UNCHANGED queueVars
  BY <1>10 DEF Found
<1>11. ASSUME NEW q \in Request, Submit(q) PROVE QueueNext \/ UNCHANGED queueVars
  BY <1>11 DEF Submit, Refused, QueueNext, At, Requested
<1>12. ASSUME NEW j \in JobIds, PollSubmit(j) PROVE QueueNext \/ UNCHANGED queueVars
  BY <1>12 DEF PollSubmit, Refused, QueueNext
<1>13. ASSUME NEW j \in JobIds, DropRow(j) PROVE QueueNext \/ UNCHANGED queueVars
  BY <1>13 DEF DropRow
<1>14. ASSUME NEW j \in JobIds, Elapse(j) PROVE QueueNext \/ UNCHANGED queueVars
  BY <1>14 DEF Elapse
<1>15. CASE PollRead
  BY <1>15 DEF PollRead
<1>16. CASE CountSubmitted
  BY <1>16 DEF CountSubmitted, QueueNext
<1>17. CASE Boot
  BY <1>17 DEF Boot, QueueNext
<1>18. CASE Recover
  BY <1>18 DEF Recover
<1>19. CASE StopWorker
  BY <1>19 DEF StopWorker, QueueNext, ShutdownStep
<1>20. CASE Crash
  BY <1>20 DEF Crash, QueueNext
<1>21. CASE UNCHANGED vars
  BY <1>21 DEF vars
<1>22. QED
  BY <1>1, <1>2, <1>3, <1>4, <1>5, <1>6, <1>7, <1>8, <1>9, <1>10, <1>11, <1>12, <1>13,
  <1>14, <1>15, <1>16, <1>17, <1>18, <1>19, <1>20, <1>21
     DEF EnrichNext, JobStep, RequestStep

LEMMA AlwaysRequested == EnrichSpec => []Requested
<1>1. EnrichInit => Requested
  BY DEF EnrichInit, Requested, NoRequest
<1>2. QED
  BY <1>1, RequestedNext, PTL DEF EnrichSpec

\* For any rows, goroutines and channel: handlers, sweep, poll and boot use the
\* queue only as it allows.
THEOREM EnrichImplementsQueue == EnrichSpec => ImplementsQueue
<1>1. EnrichInit => QueueInit
  BY DEF EnrichInit
<1>2. QED
  BY <1>1, EnrichQueueStep, AlwaysRequested, PTL DEF EnrichSpec, ImplementsQueue, QueueSpec

LEMMA EnrichQueueInv == EnrichSpec => []QueueInv
BY EnrichImplementsQueue, QueueInvariant, PTL DEF ImplementsQueue

-----------------------------------------------------------------------------
(* The rows.                                                               *)

RowsTyped == row \in [JobIds -> RowState] /\ lost \in [JobIds -> Nat]

\* The goroutines' stages: a job that is looked up, marked or forgotten is one
\* that its goroutine runs.
Staged ==
    /\ stage \in [Workers -> Stage]
    /\ \A w \in Workers : stage[w] # "none" => wpc[w] = "running" /\ job[w] \in JobIds

\* No two goroutines work on a job, and the row of one that is worked on says so
\* or is deleted.
Worked ==
    /\ \A v, w \in Workers, j \in JobIds : Works(v, j) /\ Works(w, j) => v = w
    /\ \A w \in Workers, j \in JobIds : Works(w, j) => row[j].status \in {"running", "deleted"}

\* A row that says so without a goroutine has lost its run.
Accounted ==
    \A j \in JobIds :
        row[j].status = "running" => lost[j] > 0 \/ \E w \in Workers : Works(w, j)

\* Attempts count what was lost, and the run under way besides.
Counted ==
    \A j \in JobIds :
        /\ row[j].status = "queued" => row[j].attempts < MaxAttempts
        /\ row[j].status = "none" => lost[j] = 0
        /\ lost[j] <= row[j].attempts
        /\ row[j].status = "running" /\ (\E w \in Workers : Works(w, j))
             => lost[j] < row[j].attempts

RowInv == RowsTyped /\ Worked /\ Accounted /\ Counted /\ OneActive

LEMMA StagedNext == QueueInv /\ Staged /\ [EnrichNext]_vars => Staged'
<1> SUFFICES ASSUME QueueInv, Staged, [EnrichNext]_vars PROVE Staged'
  OBVIOUS
<1>0. /\ wpc \in [Workers -> WorkerState] /\ job \in [Workers -> JobIds \cup {NoJob}]
      /\ jobs \in Seq(JobIds)
  BY DEF QueueInv, QueueTypeOK
<1> USE <1>0 DEF Staged, Stage
<1>1. ASSUME NEW w \in Workers, TakeJob(w) PROVE Staged'
  <2>1. /\ stage' = [stage EXCEPT ![w] = "mark"] /\ wpc' = [wpc EXCEPT ![w] = "running"]
        /\ job' = [job EXCEPT ![w] = Head(jobs)]
    BY <1>1 DEF TakeJob, Take, Go
  <2>2. Head(jobs) \in JobIds
    BY <1>1 DEF TakeJob, Take
  <2>3. QED
    BY <2>1, <2>2
<1>2. ASSUME NEW w \in Workers, MarkRunning(w) PROVE Staged'
  BY <1>2 DEF MarkRunning, queueVars, Go, Doing
<1>3. ASSUME NEW w \in Workers, FinishJob(w) PROVE Staged'
  BY <1>3 DEF FinishJob, Record, queueVars, Go, Doing
<1>4. ASSUME NEW w \in Workers, RateLimited(w) PROVE Staged'
  BY <1>4 DEF RateLimited, Record, queueVars, Go, Doing
<1>5. ASSUME NEW w \in Workers, ForgetJob(w) PROVE Staged'
  BY <1>5 DEF ForgetJob, Forget, Go, Doing
<1>6. ASSUME NEW w \in Workers, JobDone(w) PROVE Staged'
  BY <1>6 DEF JobDone, Finish, Exit
<1>7. ASSUME NEW q \in Request, Ask(q) PROVE Staged'
  BY <1>7 DEF Ask, Look, queueVars
<1>8. ASSUME NEW q \in Request, Sweep(q) PROVE Staged'
  BY <1>8 DEF Sweep, Look, queueVars
<1>9. ASSUME NEW q \in Request, Insert(q) PROVE Staged'
  BY <1>9 DEF Insert, queueVars
<1>10. ASSUME NEW q \in Request, Found(q) PROVE Staged'
  BY <1>10 DEF Found, queueVars
<1>11. ASSUME NEW q \in Request, Submit(q) PROVE Staged'
  BY <1>11 DEF Submit, Enqueue, Refused, queueVars
<1>12. ASSUME NEW j \in JobIds, PollSubmit(j) PROVE Staged'
  BY <1>12 DEF PollSubmit, Enqueue, Refused, queueVars
<1>13. ASSUME NEW j \in JobIds, DropRow(j) PROVE Staged'
  BY <1>13 DEF DropRow, queueVars
<1>14. ASSUME NEW j \in JobIds, Elapse(j) PROVE Staged'
  BY <1>14 DEF Elapse, queueVars
<1>15. CASE PollRead
  BY <1>15 DEF PollRead, queueVars
<1>16. CASE CountSubmitted
  BY <1>16 DEF CountSubmitted, CountJob
<1>17. CASE Boot
  BY <1>17 DEF Boot, Start
<1>18. CASE Recover
  BY <1>18 DEF Recover, queueVars
<1>19. CASE StopWorker
  BY <1>19 DEF StopWorker, StopAccepting, CleanStop, Deadline, Drain, StopDone
<1>20. CASE Crash
  BY <1>20 DEF Crash, Die
<1>21. CASE UNCHANGED vars
  BY <1>21 DEF vars, queueVars
<1>22. QED
  BY <1>1, <1>2, <1>3, <1>4, <1>5, <1>6, <1>7, <1>8, <1>9, <1>10, <1>11, <1>12, <1>13,
  <1>14, <1>15, <1>16, <1>17, <1>18, <1>19, <1>20, <1>21
     DEF EnrichNext, JobStep, RequestStep

\* Most steps leave the rows alone, and what is worked on.
Idles ==
    /\ UNCHANGED <<row, lost>>
    /\ \A w \in Workers, j \in JobIds : Works(w, j)' <=> Works(w, j)

LEMMA IdlesKeeps == RowInv /\ Idles => RowInv'
<1> SUFFICES ASSUME RowInv, Idles PROVE RowInv'
  OBVIOUS
<1>1. RowsTyped' /\ OneActive'
  BY DEF RowInv, Idles, RowsTyped, OneActive
<1>2. Worked' /\ Accounted' /\ Counted'
  BY DEF RowInv, Idles, Worked, Accounted, Counted
<1>3. QED
  BY <1>1, <1>2 DEF RowInv

\* One row is written: what the invariant asks of it, and the others are left.
OneRow(j) ==
    /\ row' \in [JobIds -> RowState] /\ lost' \in [JobIds -> Nat]
    /\ \A i \in JobIds \ {j} : row'[i] = row[i] /\ lost'[i] = lost[i]
    /\ \A w \in Workers, i \in JobIds \ {j} : Works(w, i)' => Works(w, i)
    /\ \A w \in Workers, i \in JobIds \ {j} : Works(w, i) => Works(w, i)'
    /\ \A v, w \in Workers : Works(v, j)' /\ Works(w, j)' => v = w
    /\ \A w \in Workers : Works(w, j)' => row'[j].status \in {"running", "deleted"}
    /\ row'[j].status = "running" => lost'[j] > 0 \/ \E w \in Workers : Works(w, j)'
    /\ row'[j].status = "queued" => row'[j].attempts < MaxAttempts
    /\ row'[j].status = "none" => lost'[j] = 0
    /\ lost'[j] <= row'[j].attempts
    /\ row'[j].status = "running" /\ (\E w \in Workers : Works(w, j)')
         => lost'[j] < row'[j].attempts
    /\ row'[j].status \in Active => row[j].status \in Active \/ ActiveOf(KeyOf[j]) = {}

LEMMA OneRowWritten ==
    ASSUME RowInv, NEW j \in JobIds, OneRow(j)
    PROVE  RowInv'
<1>1. RowsTyped'
  BY DEF OneRow, RowsTyped
<1>2. Worked'
  BY DEF OneRow, RowInv, Worked
<1>3. Accounted'
  BY DEF OneRow, RowInv, Accounted
<1>4. Counted'
  BY DEF OneRow, RowInv, Counted
<1>5. OneActive'
  BY DEF OneRow, RowInv, OneActive, ActiveOf
<1>6. QED
  BY <1>1, <1>2, <1>3, <1>4, <1>5 DEF RowInv

\* How a run ends, recorded or not.
LEMMA RecordKeeps ==
  ASSUME QueueInv, Staged, RowInv, NEW w \in Workers, NEW new, Record(w, new),
         \/ new = Row("ended")
         \/ new = Requeued(row[job[w]])
  PROVE  RowInv'
<1>1. PICK j \in JobIds : /\ j = job[w] /\ Works(w, j)
                          /\ stage[w] = "look" /\ wpc[w] = "running"
  BY DEF Record, Doing, Staged, Works
<1>2. stage' = [stage EXCEPT ![w] = "release"] /\ job' = job
  BY DEF Record, Go, queueVars
<1>3. \A v \in Workers, i \in JobIds : Works(v, i)' <=> Works(v, i) /\ v # w
  BY <1>2 DEF Works, Staged
<1>4. \A v \in Workers : ~Works(v, j)'
  BY <1>1, <1>3 DEF RowInv, Worked
<1>5. \A v \in Workers, i \in JobIds \ {j} : Works(v, i)' <=> Works(v, i)
  BY <1>1, <1>3 DEF Works
<1>6. /\ row \in [JobIds -> RowState] /\ lost \in [JobIds -> Nat]
      /\ row[j] \in RowState /\ lost[j] \in Nat
      /\ row[j].attempts \in Nat /\ row[j].attempts <= MaxAttempts
      /\ row[j].status \in {"running", "deleted"} /\ lost[j] <= row[j].attempts
      /\ row[j].status = "running" => lost[j] < row[j].attempts
  BY <1>1 DEF RowInv, RowsTyped, RowState, Worked, Counted
<1>7. CASE /\ row' = (IF row[j].status = "deleted" THEN row ELSE [row EXCEPT ![j] = new])
           /\ lost' = (IF new.status = "ended" THEN [lost EXCEPT ![j] = 0] ELSE lost)
  <2>1. CASE row[j].status = "deleted"
    <3>1. row' = row /\ \A i \in JobIds \ {j} : lost'[i] = lost[i]
      BY <1>6, <1>7, <2>1
    <3>2. lost' \in [JobIds -> Nat] /\ lost'[j] <= row'[j].attempts
      BY <1>6, <1>7, <3>1
    <3>3. OneRow(j)
      BY <1>4, <1>5, <1>6, <2>1, <3>1, <3>2 DEF OneRow, Active
    <3>4. QED
      BY <3>3, OneRowWritten
  <2>2. CASE row[j].status = "running" /\ new = Row("ended")
    <3>1. new \in RowState /\ new.status = "ended" /\ new.attempts = 0
      BY <2>2 DEF Row, NoRow, RowState, Status, Active
    <3>2. /\ row' = [row EXCEPT ![j] = new] /\ lost' = [lost EXCEPT ![j] = 0]
      BY <1>7, <2>2, <3>1
    <3>3. OneRow(j)
      BY <1>4, <1>5, <1>6, <3>1, <3>2 DEF OneRow, Active
    <3>4. QED
      BY <3>3, OneRowWritten
  <2>3. CASE row[j].status = "running" /\ new = Requeued(row[j])
    <3> DEFINE less == row[j].attempts - 1
    <3>1. less \in 0..MaxAttempts /\ less < MaxAttempts /\ lost[j] <= less
      BY <1>6, <2>3
    <3> HIDE DEF less
    <3>2. new = [row[j] EXCEPT !.status = "queued", !.attempts = less, !.next = "later"]
      BY <1>6, <2>3 DEF Requeued, RowState, less
    <3>3. /\ new \in RowState /\ new.status = "queued" /\ new.attempts = less
      BY <1>6, <3>1, <3>2 DEF RowState, Status, Active
    <3>4. row' = [row EXCEPT ![j] = new] /\ lost' = lost
      BY <1>7, <2>3, <3>3
    <3>5. OneRow(j)
      BY <1>4, <1>5, <1>6, <2>3, <3>1, <3>3, <3>4 DEF OneRow, Active
    <3>6. QED
      BY <3>5, OneRowWritten
  <2>4. QED
    BY <1>1, <1>6, <2>1, <2>2, <2>3
<1>8. CASE /\ lost' = (IF row[j].status = "running" THEN [lost EXCEPT ![j] = @ + 1] ELSE lost)
           /\ UNCHANGED row
  <2>1. /\ \A i \in JobIds \ {j} : lost'[i] = lost[i]
        /\ lost'[j] = IF row[j].status = "running" THEN lost[j] + 1 ELSE lost[j]
    BY <1>6, <1>8
  <2>2. lost' \in [JobIds -> Nat] /\ lost'[j] <= row'[j].attempts
        /\ (row'[j].status = "running" => lost'[j] > 0)
    BY <1>6, <1>8, <2>1
  <2>3. OneRow(j)
    BY <1>4, <1>5, <1>6, <1>8, <2>1, <2>2 DEF OneRow, Active
  <2>4. QED
    BY <2>3, OneRowWritten
<1>9. QED
  BY <1>1, <1>7, <1>8 DEF Record

LEMMA RowNext == QueueInv /\ Staged /\ Requested /\ RowInv /\ [EnrichNext]_vars => RowInv'
<1> SUFFICES ASSUME QueueInv, Staged, Requested, RowInv, [EnrichNext]_vars PROVE RowInv'
  OBVIOUS
<1>1. ASSUME NEW w \in Workers, TakeJob(w) PROVE RowInv'
  <2>1. /\ stage' = [stage EXCEPT ![w] = "mark"] /\ wpc[w] = "idle"
        /\ \A v \in Workers \ {w} : job'[v] = job[v]
        /\ UNCHANGED <<row, lost>>
    BY <1>1 DEF TakeJob, Take, Go
  <2>2. stage[w] # "look" /\ stage'[w] # "look"
    BY <2>1 DEF Staged
  <2>3. Idles
    BY <2>1, <2>2 DEF Idles, Works, Staged
  <2>4. QED
    BY <2>3, IdlesKeeps
<1>2. ASSUME NEW w \in Workers, MarkRunning(w) PROVE RowInv'
  <2>0. PICK j \in JobIds : /\ j = job[w] /\ job' = job /\ lost' = lost
                            /\ wpc[w] = "running" /\ stage[w] = "mark"
    BY <1>2 DEF MarkRunning, Doing, queueVars, Staged
  <2>1. CASE UNCHANGED row /\ stage' = [stage EXCEPT ![w] = "release"]
    <3>1. Idles
      BY <2>0, <2>1 DEF Idles, Works, Staged
    <3>2. QED
      BY <3>1, IdlesKeeps
  <2>2. CASE /\ row[j].status = "queued" /\ row' = [row EXCEPT ![j] = Marked(@)]
             /\ stage' = [stage EXCEPT ![w] = "look"]
    <3>1. \A v \in Workers, i \in JobIds : Works(v, i)' <=> Works(v, i) \/ (v = w /\ i = j)
      BY <2>0, <2>2 DEF Works, Staged
    <3>2. \A v \in Workers : ~Works(v, j)
      BY <2>0, <2>2 DEF RowInv, Worked
    <3>3. /\ row \in [JobIds -> RowState] /\ lost \in [JobIds -> Nat]
          /\ row[j] \in RowState /\ lost[j] \in Nat /\ row[j].attempts \in Nat
          /\ row[j].attempts < MaxAttempts /\ lost[j] <= row[j].attempts
      BY <2>0, <2>2 DEF RowInv, RowsTyped, RowState, Counted
    <3> DEFINE more == row[j].attempts + 1
    <3>4. more \in 0..MaxAttempts /\ lost[j] < more
      BY <3>3
    <3> HIDE DEF more
    <3>5. Marked(row[j]) = [row[j] EXCEPT !.status = "running", !.attempts = more, !.next = "null"]
      BY <3>3 DEF Marked, RowState, more
    <3>6. /\ Marked(row[j]) \in RowState /\ Marked(row[j]).status = "running"
          /\ Marked(row[j]).attempts = more
      BY <3>3, <3>4, <3>5 DEF RowState, Status, Active
    <3>7. row'[j] = Marked(row[j]) /\ row' \in [JobIds -> RowState]
      BY <2>2, <3>3, <3>6
    <3>8. OneRow(j)
      BY <2>0, <2>2, <3>1, <3>2, <3>3, <3>4, <3>6, <3>7 DEF OneRow, Active
    <3>9. QED
      BY <3>8, OneRowWritten
  <2>3. QED
    BY <1>2, <2>0, <2>1, <2>2 DEF MarkRunning, Go
<1>3. ASSUME NEW w \in Workers, FinishJob(w) PROVE RowInv'
  BY <1>3, RecordKeeps DEF FinishJob
<1>4. ASSUME NEW w \in Workers, RateLimited(w) PROVE RowInv'
  BY <1>4, RecordKeeps DEF RateLimited
<1>5. ASSUME NEW w \in Workers, ForgetJob(w) PROVE RowInv'
  <2>1. /\ stage' = [stage EXCEPT ![w] = "none"] /\ stage[w] = "release"
        /\ \A v \in Workers \ {w} : job'[v] = job[v]
        /\ UNCHANGED <<row, lost>>
    BY <1>5 DEF ForgetJob, Forget, Go, Doing
  <2>2. Idles
    BY <2>1 DEF Idles, Works, Staged
  <2>3. QED
    BY <2>2, IdlesKeeps
<1>6. ASSUME NEW w \in Workers, JobDone(w) PROVE RowInv'
  <2>1. Idles
    BY <1>6 DEF JobDone, Idles, Works, Finish, Exit
  <2>2. QED
    BY <2>1, IdlesKeeps
<1>7. ASSUME NEW q \in Request, Ask(q) PROVE RowInv'
  <2>1. Idles
    BY <1>7 DEF Ask, Idles, Works, Look, queueVars
  <2>2. QED
    BY <2>1, IdlesKeeps
<1>8. ASSUME NEW q \in Request, Sweep(q) PROVE RowInv'
  <2>1. Idles
    BY <1>8 DEF Sweep, Idles, Works, Look, queueVars
  <2>2. QED
    BY <2>1, IdlesKeeps
<1>9. ASSUME NEW q \in Request, Insert(q) PROVE RowInv'
  <2>0. PICK j \in JobIds : /\ j = req[q].on /\ lost' = lost
                            /\ \A v \in Workers, i \in JobIds : Works(v, i)' <=> Works(v, i)
    BY <1>9 DEF Insert, At, Requested, Works, queueVars
  <2>1. CASE UNCHANGED row
    BY <2>0, <2>1, IdlesKeeps DEF Idles
  <2>2. CASE Inserted(j) /\ row' = [row EXCEPT ![j] = Row("queued")]
    <3>1. /\ row[j].status = "none" /\ ActiveOf(KeyOf[j]) = {} /\ lost[j] = 0 /\ row \in [JobIds -> RowState]
          /\ lost \in [JobIds -> Nat] /\ \A v \in Workers : ~Works(v, j)
      BY <2>0, <2>2 DEF Inserted, RowInv, RowsTyped, Counted, Worked
    <3>2. Row("queued") \in RowState /\ Row("queued").status = "queued" /\ Row("queued").attempts = 0
      BY DEF Row, NoRow, RowState, Status, Active
    <3>3. OneRow(j)
      BY <2>0, <2>2, <3>1, <3>2 DEF OneRow, Active
    <3>4. QED
      BY <3>3, OneRowWritten
  <2>3. QED
    BY <1>9, <2>0, <2>1, <2>2 DEF Insert
<1>10. ASSUME NEW q \in Request, Found(q) PROVE RowInv'
  <2>1. Idles
    BY <1>10 DEF Found, Idles, Works, queueVars
  <2>2. QED
    BY <2>1, IdlesKeeps
<1>11. ASSUME NEW q \in Request, Submit(q) PROVE RowInv'
  <2>1. Idles
    BY <1>11 DEF Submit, Idles, Works, Enqueue, Refused, queueVars
  <2>2. QED
    BY <2>1, IdlesKeeps
<1>12. ASSUME NEW j \in JobIds, PollSubmit(j) PROVE RowInv'
  <2>1. Idles
    BY <1>12 DEF PollSubmit, Idles, Works, Enqueue, Refused, queueVars
  <2>2. QED
    BY <2>1, IdlesKeeps
<1>13. ASSUME NEW j \in JobIds, DropRow(j) PROVE RowInv'
  <2>0. /\ \A v \in Workers, i \in JobIds : Works(v, i)' <=> Works(v, i)
        /\ row' = [row EXCEPT ![j] = Row("deleted")] /\ lost' = [lost EXCEPT ![j] = 0]
    BY <1>13 DEF DropRow, Works, queueVars
  <2>1. row \in [JobIds -> RowState] /\ lost \in [JobIds -> Nat]
    BY DEF RowInv, RowsTyped
  <2>2. Row("deleted") \in RowState /\ Row("deleted").status = "deleted" /\ Row("deleted").attempts = 0
    BY DEF Row, NoRow, RowState, Status, Active
  <2>3. \A v, w \in Workers : Works(v, j) /\ Works(w, j) => v = w
    BY DEF RowInv, Worked
  <2>4. OneRow(j)
    BY <2>0, <2>1, <2>2, <2>3 DEF OneRow, Active
  <2>5. QED
    BY <2>4, OneRowWritten
<1>14. ASSUME NEW j \in JobIds, Elapse(j) PROVE RowInv'
  <2>0. /\ \A v \in Workers, i \in JobIds : Works(v, i)' <=> Works(v, i)
        /\ row' = [row EXCEPT ![j].next = "past"] /\ lost' = lost
    BY <1>14 DEF Elapse, Works, queueVars
  <2>1. row \in [JobIds -> RowState] /\ lost \in [JobIds -> Nat]
    BY DEF RowInv, RowsTyped
  <2>2. /\ row' \in [JobIds -> RowState] /\ row'[j].status = row[j].status
        /\ row'[j].attempts = row[j].attempts /\ \A i \in JobIds \ {j} : row'[i] = row[i]
    BY <2>0, <2>1 DEF RowState
  <2>3. /\ \A v, w \in Workers : Works(v, j) /\ Works(w, j) => v = w
        /\ \A w \in Workers : Works(w, j) => row[j].status \in {"running", "deleted"}
        /\ row[j].status = "running" => lost[j] > 0 \/ \E w \in Workers : Works(w, j)
        /\ row[j].status = "queued" => row[j].attempts < MaxAttempts
        /\ row[j].status = "none" => lost[j] = 0
        /\ lost[j] <= row[j].attempts
        /\ row[j].status = "running" /\ (\E w \in Workers : Works(w, j)) => lost[j] < row[j].attempts
    BY DEF RowInv, Worked, Accounted, Counted
  <2>4. OneRow(j)
    BY <2>0, <2>1, <2>2, <2>3 DEF OneRow
  <2>5. QED
    BY <2>4, OneRowWritten
<1>15. CASE PollRead
  <2>1. Idles
    BY <1>15 DEF PollRead, Idles, Works, queueVars
  <2>2. QED
    BY <2>1, IdlesKeeps
<1>16. CASE CountSubmitted
  <2>1. Idles
    BY <1>16 DEF CountSubmitted, Idles, Works, CountJob
  <2>2. QED
    BY <2>1, IdlesKeeps
<1>17. CASE Boot
  <2>1. Idles
    BY <1>17 DEF Boot, Idles, Works, Start
  <2>2. QED
    BY <2>1, IdlesKeeps
<1>18. CASE Recover
  <2>0. \A v \in Workers, i \in JobIds : Works(v, i)' <=> Works(v, i)
    BY <1>18 DEF Recover, Works, queueVars
  <2>1. PICK old \in SUBSET {j \in JobIds : \A w \in Workers : ~Works(w, j)} :
           /\ row' = [j \in JobIds |-> IF j \in old THEN Recovered(row[j]) ELSE row[j]]
           /\ lost' = [j \in JobIds |-> IF row'[j].status = "ended" THEN 0 ELSE lost[j]]
    BY <1>18 DEF Recover
  <2>2. ASSUME NEW j \in JobIds
        PROVE  /\ row[j] \in RowState /\ lost[j] \in Nat /\ lost[j] <= row[j].attempts
               /\ row[j].attempts \in Nat
    BY DEF RowInv, RowsTyped, Counted, RowState
  <2>3. ASSUME NEW j \in JobIds
        PROVE  /\ row'[j] \in RowState
               /\ \/ row'[j] = row[j]
                  \/ /\ j \in old /\ row[j].status = "running"
                     /\ \/ row'[j].status = "ended" /\ row'[j].attempts = 0
                        \/ /\ row'[j].status = "queued" /\ row'[j].attempts = row[j].attempts
                           /\ row[j].attempts < MaxAttempts
    <3>1. CASE j \notin old \/ row[j].status # "running"
      BY <2>1, <2>2, <3>1 DEF Recovered
    <3>2. CASE j \in old /\ row[j].status = "running" /\ row[j].attempts < MaxAttempts
      <4>1. row'[j] = [row[j] EXCEPT !.status = "queued", !.next = "null"]
        BY <2>1, <3>2 DEF Recovered
      <4>2. QED
        BY <2>2, <3>2, <4>1 DEF RowState, Status, Active
    <3>3. CASE j \in old /\ row[j].status = "running" /\ ~(row[j].attempts < MaxAttempts)
      <4>1. row'[j] = Row("ended")
        BY <2>1, <3>3 DEF Recovered
      <4>2. Row("ended") \in RowState /\ Row("ended").status = "ended" /\ Row("ended").attempts = 0
        BY DEF Row, NoRow, RowState, Status, Active
      <4>3. QED
        BY <3>3, <4>1, <4>2
    <3>4. QED
      BY <3>1, <3>2, <3>3
  <2>4. \A j \in JobIds : lost'[j] = IF row'[j].status = "ended" THEN 0 ELSE lost[j]
    BY <2>1
  <2>5. RowsTyped'
    BY <2>1, <2>2, <2>3, <2>4 DEF RowsTyped
  <2>6. Worked'
    BY <2>0, <2>1, <2>3 DEF RowInv, Worked
  <2>7. Accounted'
    BY <2>0, <2>3, <2>4 DEF RowInv, Accounted
  <2>8. Counted'
    BY <2>0, <2>2, <2>3, <2>4 DEF RowInv, Counted
  <2>9. OneActive'
    BY <2>3 DEF RowInv, OneActive, Active
  <2>10. QED
    BY <2>5, <2>6, <2>7, <2>8, <2>9 DEF RowInv
<1>19. CASE StopWorker
  <2>1. Idles
    BY <1>19
       DEF StopWorker, Idles, Works, StopAccepting, CleanStop, Deadline, Drain, StopDone
  <2>2. QED
    BY <2>1, IdlesKeeps
<1>20. CASE Crash
  <2>0. \A v \in Workers, i \in JobIds : ~Works(v, i)'
    BY <1>20 DEF Crash, Works
  <2>1. /\ row' = row
        /\ lost' = [j \in JobIds |-> IF row[j].status = "running" /\ \E w \in Workers : Works(w, j)
                                 THEN lost[j] + 1 ELSE lost[j]]
    BY <1>20 DEF Crash
  <2>2. ASSUME NEW j \in JobIds
        PROVE  /\ lost[j] \in Nat /\ lost[j] <= row[j].attempts /\ row[j].attempts \in Nat
    BY DEF RowInv, RowsTyped, Counted, RowState
  <2>3. RowsTyped'
    BY <2>1, <2>2 DEF RowInv, RowsTyped
  <2>4. Worked'
    BY <2>0 DEF Worked
  <2>5. Accounted'
    BY <2>1, <2>2 DEF RowInv, Accounted
  <2>6. Counted'
    BY <2>0, <2>1, <2>2 DEF RowInv, Counted
  <2>7. OneActive'
    BY <2>1 DEF RowInv, OneActive
  <2>8. QED
    BY <2>3, <2>4, <2>5, <2>6, <2>7 DEF RowInv
<1>21. CASE UNCHANGED vars
  <2>1. Idles
    BY <1>21 DEF vars, queueVars, Idles, Works
  <2>2. QED
    BY <2>1, IdlesKeeps
<1>22. QED
  BY <1>1, <1>2, <1>3, <1>4, <1>5, <1>6, <1>7, <1>8, <1>9, <1>10, <1>11, <1>12, <1>13,
  <1>14, <1>15, <1>16, <1>17, <1>18, <1>19, <1>20, <1>21
     DEF EnrichNext, JobStep, RequestStep

LEMMA BootedTyped == EnrichSpec => [](booted \in BOOLEAN)
<1>1. EnrichInit => booted \in BOOLEAN
  BY DEF EnrichInit
<1>2. booted \in BOOLEAN /\ [EnrichNext]_vars => (booted \in BOOLEAN)'
  BY DEF EnrichNext, JobStep, RequestStep, TakeJob, MarkRunning, FinishJob, RateLimited, Record,
         ForgetJob, JobDone, Ask, Sweep, Look, Insert, Found, Submit, PollSubmit, DropRow, Elapse,
         PollRead, CountSubmitted, Boot, Recover, StopWorker, Crash, vars
<1>3. QED
  BY <1>1, <1>2, PTL DEF EnrichSpec

\* For any rows, keys, goroutines, requests and channel: no two active rows of a
\* key; a row that a goroutine works on says so, by nobody else, and one that says
\* so without has lost its run; and what crashes is tried MaxAttempts times.
THEOREM EnrichmentIsSound == EnrichSpec => []EnrichSound
<1>1. EnrichInit => Staged /\ RowInv
  <2>1. ASSUME EnrichInit PROVE RowInv
    <3>1. /\ \A w \in Workers, j \in JobIds : ~Works(w, j)
          /\ \A j \in JobIds : row[j] = NoRow /\ lost[j] = 0
          /\ lost = [j \in JobIds |-> 0] /\ row = [j \in JobIds |-> NoRow]
      BY <2>1 DEF EnrichInit, Works
    <3>2. NoRow \in RowState /\ NoRow.status = "none" /\ NoRow.attempts = 0
      BY DEF NoRow, RowState, Status
    <3>3. QED
      BY <3>1, <3>2 DEF RowInv, RowsTyped, Worked, Accounted, Counted, OneActive, Active
  <2>2. ASSUME EnrichInit PROVE Staged
    BY <2>2 DEF EnrichInit, Staged, Stage
  <2>3. QED
    BY <2>1, <2>2
<1>2. QueueInv /\ Requested /\ (Staged /\ RowInv) /\ [EnrichNext]_vars => (Staged /\ RowInv)'
  BY StagedNext, RowNext
<1>3. Requested /\ booted \in BOOLEAN /\ Staged /\ RowInv => EnrichSound
  <2> SUFFICES ASSUME Requested, booted \in BOOLEAN, Staged, RowInv PROVE EnrichSound
    OBVIOUS
  <2>1. EnrichTypeOK
    BY DEF Requested, Staged, RowInv, RowsTyped, EnrichTypeOK
  <2>2. LossesBounded
    BY DEF RowInv, RowsTyped, Counted, RowState, LossesBounded
  <2>3. RunningIsOwned
    BY DEF RowInv, Worked, Accounted, RunningIsOwned
  <2>4. QED
    BY <2>1, <2>2, <2>3 DEF EnrichSound, RowInv
<1>4. QED
  BY EnrichQueueInv, AlwaysRequested, BootedTyped, <1>1, <1>2, <1>3, PTL DEF EnrichSpec

=============================================================================

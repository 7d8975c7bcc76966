------------------------- MODULE ReceiptQueue_proofs -------------------------
(***************************************************************************)
(* Type correctness, the dedupe and wait-group invariants of ReceiptQueue, *)
(* what a clean shutdown means, and the refinement of ExtractionService,   *)
(* for any number of receipts and goroutines and any channel capacity.     *)
(***************************************************************************)
EXTENDS ReceiptQueue, FiniteSetTheorems, TLAPS

-----------------------------------------------------------------------------
(* Sequences: what Append and Tail do to the set of elements.              *)

\* An appended element is an element, and nothing else changes.
LEMMA RangeAppend ==
    ASSUME NEW S, NEW s \in Seq(S), NEW e \in S
    PROVE  Range(Append(s, e)) = Range(s) \cup {e}
<1> DEFINE t == Append(s, e)
<1>1. /\ DOMAIN t = 1..(Len(s) + 1)
      /\ \A i \in 1..Len(s) : t[i] = s[i]
      /\ t[Len(s) + 1] = e
  OBVIOUS
<1>2. DOMAIN s = 1..Len(s) /\ Len(s) \in Nat
  OBVIOUS
<1>3. Range(t) \subseteq Range(s) \cup {e}
  <2>1. SUFFICES ASSUME NEW i \in 1..(Len(s) + 1)
                 PROVE  t[i] \in Range(s) \cup {e}
    BY <1>1 DEF Range
  <2>2. i \in 1..Len(s) \/ i = Len(s) + 1
    BY <1>2
  <2>3. QED
    BY <1>1, <1>2, <2>2 DEF Range
<1>4. Range(s) \cup {e} \subseteq Range(t)
  <2>1. ASSUME NEW i \in 1..Len(s) PROVE s[i] \in Range(t)
    <3>1. i \in 1..(Len(s) + 1)
      BY <1>2
    <3>2. QED
      BY <1>1, <3>1 DEF Range
  <2>2. e \in Range(t)
    <3>1. Len(s) + 1 \in 1..(Len(s) + 1)
      BY <1>2
    <3>2. QED
      BY <1>1, <3>1 DEF Range
  <2>3. QED
    BY <1>2, <2>1, <2>2 DEF Range
<1>5. QED
  BY <1>3, <1>4

\* The elements of a sequence are its head and the elements of its tail.
LEMMA RangeHeadTail ==
    ASSUME NEW S, NEW s \in Seq(S), s # <<>>
    PROVE  Range(s) = {Head(s)} \cup Range(Tail(s))
<1>1. Range(s) \subseteq {Head(s)} \cup Range(Tail(s))
  <2>1. SUFFICES ASSUME NEW i \in 1..Len(s)
                 PROVE  s[i] \in {Head(s)} \cup Range(Tail(s))
    BY DEF Range
  <2>2. CASE i = 1
    BY <2>2
  <2>3. CASE i # 1
    <3>1. i - 1 \in 1..Len(Tail(s)) /\ Tail(s)[i - 1] = s[i]
      BY <2>3
    <3>2. DOMAIN Tail(s) = 1..Len(Tail(s))
      OBVIOUS
    <3>3. QED
      BY <3>1, <3>2 DEF Range
  <2>4. QED
    BY <2>2, <2>3
<1>2. {Head(s)} \cup Range(Tail(s)) \subseteq Range(s)
  <2>1. Head(s) = s[1] /\ 1 \in 1..Len(s)
    OBVIOUS
  <2>2. \A i \in 1..Len(Tail(s)) : i + 1 \in 1..Len(s) /\ Tail(s)[i] = s[i + 1]
    OBVIOUS
  <2>3. QED
    BY <2>1, <2>2 DEF Range
<1>3. QED
  BY <1>1, <1>2

Distinct(s) == \A i, j \in DOMAIN s : s[i] = s[j] => i = j

\* A sequence without repetition keeps that property when a new element is
\* appended.
LEMMA DistinctAppend ==
    ASSUME NEW S, NEW s \in Seq(S), NEW e \in S, Distinct(s), e \notin Range(s)
    PROVE  Distinct(Append(s, e))
  BY DEF Range, Distinct

\* The tail of a sequence without repetition has none, and has lost the head.
LEMMA DistinctTail ==
    ASSUME NEW S, NEW s \in Seq(S), s # <<>>, Distinct(s)
    PROVE  /\ Distinct(Tail(s))
           /\ Head(s) \notin Range(Tail(s))
<1>1. \A i \in 1..Len(Tail(s)) : i + 1 \in 1..Len(s) /\ Tail(s)[i] = s[i + 1]
  OBVIOUS
<1>2. Tail(s) \in Seq(S) /\ Head(s) = s[1] /\ 1 \in 1..Len(s)
  OBVIOUS
<1>3. Distinct(Tail(s))
  BY <1>1, <1>2 DEF Distinct
<1>4. Head(s) \notin Range(Tail(s))
  BY <1>1, <1>2 DEF Distinct, Range
<1>5. QED
  BY <1>3, <1>4

\* Sets of goroutines are finite, and one goroutine more or less counts as one.
LEMMA WorkersCount ==
    ASSUME NEW S \in SUBSET Workers, NEW w \in Workers
    PROVE  /\ Cardinality(S) \in Nat
           /\ w \notin S => Cardinality(S \cup {w}) = Cardinality(S) + 1
           /\ w \in S => Cardinality(S \ {w}) = Cardinality(S) - 1
           /\ Cardinality(S) = 0 => S = {}
           /\ S = {} => Cardinality(S) = 0
<1>1. IsFiniteSet(S)
  BY FS_Subset, QueueAssumption
<1>2. QED
  BY <1>1, FS_CardinalityType, FS_AddElement, FS_RemoveElement, FS_EmptySet

-----------------------------------------------------------------------------
\* A goroutine holds a job exactly while it is inside runJob.
JobWhileRunning == \A w \in Workers : job[w] # NoJob <=> wpc[w] = "running"

\* Only a Submit that found the worker accepting is between its send and its
\* wg.Add: it holds the mutex, and Shutdown needs the mutex to close the queue.
AddingWhileOpen == adding => pool = "open"

\* The inductive invariant.  NoDoubleJob needs DedupeExact (Submit looks only
\* at the map) and DedupeExact needs NoDoubleJob (Forget must not drop the key
\* of another job); the drain loop and CleanMeansDone need WgExact, and that no
\* count is still to be added once the queue is closed.
QueueInv ==
    /\ QueueTypeOK
    /\ JobWhileRunning
    /\ NoDoubleJob
    /\ DedupeExact
    /\ WgExact
    /\ AddingWhileOpen
    /\ CleanMeansDone

USE DEF PoolState, WorkerState

\* The invariant holds when the process has not started.
LEMMA QueueInitInv == QueueInit => QueueInv
<1> SUFFICES ASSUME QueueInit PROVE QueueInv
  OBVIOUS
<1> USE DEF QueueInit
<1>1. QueueTypeOK
  <2>1. adding \in BOOLEAN
    BY Zenon
  <2>2. QED
    BY <2>1, QueueAssumption DEF QueueTypeOK
<1>2. Range(jobs) = {} /\ Running = {} /\ Owing = {} /\ Held = {}
  BY DEF Range, Running, Owing, Held
<1>3. JobWhileRunning /\ NoDoubleJob /\ DedupeExact /\ CleanMeansDone
  BY <1>2 DEF JobWhileRunning, NoDoubleJob, DedupeExact, CleanMeansDone
<1>4. WgExact /\ AddingWhileOpen
  BY <1>2, FS_EmptySet DEF WgExact, Uncounted, AddingWhileOpen
<1>5. QED
  BY <1>1, <1>3, <1>4 DEF QueueInv

\* Submit keeps the invariant.
LEMMA EnqueueInv ==
    ASSUME QueueInv, NEW r \in Receipts, Enqueue(r)
    PROVE  QueueInv'
<1> USE DEF QueueInv, QueueTypeOK
<1>1. pool = "open" /\ r \notin queued /\ Len(jobs) < QueueCap /\ ~adding
  BY QueueAssumption DEF Enqueue, SubmitResult
<1>2. /\ jobs' = Append(jobs, r) /\ queued' = queued \cup {r} /\ adding'
      /\ UNCHANGED <<pool, wg, wpc, job>>
  BY DEF Enqueue
<1>3. Running' = Running /\ Owing' = Owing /\ Held' = Held
  BY <1>2 DEF Running, Owing, Held
<1>4. Range(jobs') = Range(jobs) \cup {r} /\ Len(jobs') = Len(jobs) + 1
  BY <1>2, RangeAppend
<1>5. r \notin Range(jobs) /\ r \notin Held
  BY <1>1 DEF DedupeExact
<1>6. Distinct(jobs')
  BY <1>2, <1>5, DistinctAppend DEF Distinct, NoDoubleJob
<1>7. QueueTypeOK'
  <2>1. adding' \in BOOLEAN
    BY DEF Enqueue
  <2>2. QED
    BY <1>1, <1>2, <1>4, <2>1, QueueAssumption
<1>8. JobWhileRunning' /\ AddingWhileOpen'
  BY <1>1, <1>2 DEF JobWhileRunning, AddingWhileOpen
<1>9. NoDoubleJob'
  BY <1>2, <1>3, <1>4, <1>5, <1>6 DEF NoDoubleJob, Distinct
<1>10. DedupeExact'
  BY <1>2, <1>3, <1>4 DEF DedupeExact
<1>11. WgExact'
  <2>1. Cardinality(Owing) \in Nat
    BY FS_Subset, FS_CardinalityType, QueueAssumption DEF Owing
  <2>2. Uncounted = 0 /\ Uncounted' = 1
    BY <1>1, <1>2 DEF Uncounted
  <2>3. QED
    BY <1>2, <1>3, <1>4, <2>1, <2>2 DEF WgExact
<1>12. CleanMeansDone'
  BY <1>1, <1>2 DEF CleanMeansDone
<1>13. QED
  BY <1>7, <1>8, <1>9, <1>10, <1>11, <1>12

\* wg.Add keeps the invariant: it counts the job Submit has sent.
LEMMA CountJobInv ==
    ASSUME QueueInv, CountJob
    PROVE  QueueInv'
<1> USE DEF QueueInv, QueueTypeOK
<1>1. adding /\ ~adding' /\ wg' = wg + 1 /\ UNCHANGED <<pool, jobs, queued, wpc, job>>
  BY DEF CountJob
<1>2. Running' = Running /\ Owing' = Owing /\ Held' = Held
  BY <1>1 DEF Running, Owing, Held
<1>3. QueueTypeOK'
  <2>1. adding' \in BOOLEAN
    BY DEF CountJob
  <2>2. QED
    BY <1>1, <2>1
<1>4. WgExact'
  <2>1. Uncounted = 1 /\ Uncounted' = 0
    BY <1>1 DEF Uncounted
  <2>2. QED
    BY <1>1, <1>2, <2>1 DEF WgExact
<1>5. JobWhileRunning' /\ NoDoubleJob' /\ DedupeExact' /\ AddingWhileOpen' /\ CleanMeansDone'
  BY <1>1, <1>2
     DEF JobWhileRunning, NoDoubleJob, DedupeExact, AddingWhileOpen, CleanMeansDone
<1>6. QED
  BY <1>3, <1>4, <1>5

\* Receiving a job keeps the invariant: the job moves from the channel to the
\* goroutine, which owes the wg.Done from here on.
LEMMA TakeInv ==
    ASSUME QueueInv, NEW w \in Workers, Take(w)
    PROVE  QueueInv'
<1> USE DEF QueueInv, QueueTypeOK
<1> DEFINE r == Head(jobs)
<1>1. /\ pool # "down" /\ wpc[w] = "idle" /\ jobs # <<>>
      /\ jobs' = Tail(jobs)
      /\ job' = [job EXCEPT ![w] = r]
      /\ wpc' = [wpc EXCEPT ![w] = "running"]
      /\ UNCHANGED <<pool, queued, adding, wg>>
  BY DEF Take
<1>2. r \in Receipts /\ r # NoJob
  BY <1>1, QueueAssumption
<1>3. /\ Tail(jobs) \in Seq(Receipts) /\ Len(Tail(jobs)) = Len(jobs) - 1
      /\ Len(jobs) \in Nat
  BY <1>1
<1>4. Running' = Running \cup {w} /\ w \notin Running
  BY <1>1 DEF Running
<1>5. Owing' = Owing \cup {w} /\ w \notin Owing
  BY <1>1 DEF Owing
<1>6. job'[w] = r /\ \A v \in Running : job'[v] = job[v]
  BY <1>1, <1>4 DEF Running
<1>7. Held' = Held \cup {r}
  BY <1>4, <1>6 DEF Held
<1>8. Range(jobs) = {r} \cup Range(Tail(jobs))
  BY <1>1, RangeHeadTail
<1>9. Distinct(Tail(jobs)) /\ r \notin Range(Tail(jobs))
  BY <1>1, DistinctTail DEF NoDoubleJob, Distinct
<1>10. QueueTypeOK'
  <2>1. jobs' \in Seq(Receipts) /\ Len(jobs') <= QueueCap
    BY <1>1, <1>3, QueueAssumption
  <2>2. QED
    BY <1>1, <1>2, <2>1
<1>11. JobWhileRunning' /\ AddingWhileOpen'
  BY <1>1, <1>2 DEF JobWhileRunning, AddingWhileOpen
<1>12. NoDoubleJob'
  <2>1. r \notin Held
    BY <1>8 DEF NoDoubleJob
  <2>2. \A u, v \in Running' : job'[u] = job'[v] => u = v
    BY <1>4, <1>6, <2>1 DEF NoDoubleJob, Held
  <2>3. Range(jobs') \cap Held' = {}
    BY <1>1, <1>7, <1>8, <1>9 DEF NoDoubleJob
  <2>4. QED
    BY <1>1, <1>9, <2>2, <2>3 DEF NoDoubleJob, Distinct
<1>13. DedupeExact'
  BY <1>1, <1>7, <1>8 DEF DedupeExact
<1>14. WgExact'
  <2>1. Owing \in SUBSET Workers
    BY DEF Owing
  <2>2. Cardinality(Owing') = Cardinality(Owing) + 1 /\ Cardinality(Owing) \in Nat
    BY <1>5, <2>1, WorkersCount
  <2>3. Uncounted' = Uncounted /\ Uncounted \in Nat
    BY <1>1 DEF Uncounted
  <2>4. QED
    BY <1>1, <1>3, <2>2, <2>3 DEF WgExact
<1>15. CleanMeansDone'
  BY <1>1 DEF CleanMeansDone
<1>16. QED
  BY <1>10, <1>11, <1>12, <1>13, <1>14, <1>15

\* queued.Delete keeps the invariant.
LEMMA ForgetInv ==
    ASSUME QueueInv, NEW w \in Workers, Forget(w)
    PROVE  QueueInv'
<1> USE DEF QueueInv, QueueTypeOK
<1>1. /\ wpc[w] = "running"
      /\ queued' = queued \ {job[w]}
      /\ job' = [job EXCEPT ![w] = NoJob]
      /\ wpc' = [wpc EXCEPT ![w] = "forgotten"]
      /\ UNCHANGED <<pool, jobs, adding, wg>>
  BY DEF Forget
<1>2. Running' = Running \ {w} /\ w \in Running /\ Owing' = Owing
  BY <1>1 DEF Running, Owing
<1>3. \A v \in Running' : job'[v] = job[v] /\ job[v] # job[w]
  BY <1>1, <1>2 DEF Running, NoDoubleJob
<1>4. Held' = Held \ {job[w]}
  BY <1>2, <1>3 DEF Held
<1>5. job[w] \notin Range(jobs)
  BY <1>2 DEF NoDoubleJob, Held
<1>6. QueueTypeOK'
  BY <1>1
<1>7. JobWhileRunning' /\ AddingWhileOpen'
  BY <1>1 DEF JobWhileRunning, AddingWhileOpen
<1>8. NoDoubleJob'
  BY <1>1, <1>2, <1>3, <1>4 DEF NoDoubleJob
<1>9. DedupeExact'
  BY <1>1, <1>4, <1>5 DEF DedupeExact
<1>10. WgExact' /\ CleanMeansDone'
  BY <1>1, <1>2 DEF WgExact, Uncounted, CleanMeansDone
<1>11. QED
  BY <1>6, <1>7, <1>8, <1>9, <1>10

\* wg.Done, where it does not panic, keeps the invariant.
LEMMA FinishInv ==
    ASSUME QueueInv, NEW w \in Workers, Finish(w)
    PROVE  QueueInv'
<1> USE DEF QueueInv, QueueTypeOK
<1>1. /\ wpc[w] = "forgotten"
      /\ wg > 0 /\ wg' = wg - 1
      /\ wpc' = [wpc EXCEPT ![w] = "idle"]
      /\ UNCHANGED <<pool, jobs, queued, adding, job>>
  BY DEF Finish
<1>2. Running' = Running
  BY <1>1 DEF Running
<1>3. Held' = Held
  BY <1>1, <1>2 DEF Held
<1>4. Owing' = Owing \ {w} /\ w \in Owing /\ Owing \in SUBSET Workers
  BY <1>1 DEF Owing
<1>5. Cardinality(Owing') = Cardinality(Owing) - 1
  BY <1>4, WorkersCount
<1>6. Cardinality(Owing) \in Nat /\ Cardinality(Owing) # 0
  BY <1>4, WorkersCount
<1>7. wg' \in Nat /\ WgExact'
  <2>1. Uncounted' = Uncounted /\ Uncounted \in Nat
    BY <1>1 DEF Uncounted
  <2>2. QED
    BY <1>1, <1>5, <1>6, <2>1 DEF WgExact
<1>8. QueueTypeOK'
  BY <1>1, <1>7
<1>9. JobWhileRunning' /\ AddingWhileOpen'
  BY <1>1 DEF JobWhileRunning, AddingWhileOpen
<1>10. NoDoubleJob' /\ DedupeExact' /\ CleanMeansDone'
  BY <1>1, <1>2, <1>3, <1>4 DEF NoDoubleJob, DedupeExact, CleanMeansDone
<1>11. QED
  BY <1>7, <1>8, <1>9, <1>10

\* The end of a goroutine's loop keeps the invariant.
LEMMA ExitInv ==
    ASSUME QueueInv, NEW w \in Workers, Exit(w)
    PROVE  QueueInv'
<1> USE DEF QueueInv, QueueTypeOK
<1>1. /\ wpc[w] = "idle"
      /\ wpc' = [wpc EXCEPT ![w] = "exited"]
      /\ UNCHANGED <<pool, jobs, queued, adding, wg, job>>
  BY DEF Exit
<1>2. Running' = Running /\ Owing' = Owing
  BY <1>1 DEF Running, Owing
<1>3. Held' = Held
  BY <1>1, <1>2 DEF Held
<1>4. QueueTypeOK' /\ JobWhileRunning' /\ AddingWhileOpen'
  BY <1>1 DEF JobWhileRunning, AddingWhileOpen
<1>5. NoDoubleJob' /\ DedupeExact' /\ WgExact' /\ CleanMeansDone'
  BY <1>1, <1>2, <1>3 DEF NoDoubleJob, DedupeExact, WgExact, Uncounted, CleanMeansDone
<1>6. QED
  BY <1>4, <1>5

\* One round of the drain loop keeps the invariant.
LEMMA DrainInv ==
    ASSUME QueueInv, Drain
    PROVE  QueueInv'
<1> USE DEF QueueInv, QueueTypeOK
<1> DEFINE r == Head(jobs)
<1>1. /\ pool \in {"clean", "late"} /\ jobs # <<>>
      /\ jobs' = Tail(jobs)
      /\ queued' = queued \ {r}
      /\ wg' = wg - 1
      /\ UNCHANGED <<pool, adding, wpc, job>>
  BY DEF Drain
<1>2. Running' = Running /\ Owing' = Owing /\ Held' = Held
  BY <1>1 DEF Running, Owing, Held
<1>3. /\ Tail(jobs) \in Seq(Receipts) /\ Len(Tail(jobs)) = Len(jobs) - 1
      /\ Len(jobs) \in Nat /\ Len(jobs) # 0
  BY <1>1
<1>4. Range(jobs) = {r} \cup Range(Tail(jobs))
  BY <1>1, RangeHeadTail
<1>5. Distinct(Tail(jobs)) /\ r \notin Range(Tail(jobs))
  BY <1>1, DistinctTail DEF NoDoubleJob, Distinct
<1>6. r \notin Held
  BY <1>4 DEF NoDoubleJob
<1>7. wg' \in Nat /\ WgExact'
  <2>1. Cardinality(Owing) \in Nat
    BY FS_Subset, FS_CardinalityType, QueueAssumption DEF Owing
  <2>2. Uncounted' = 0 /\ Uncounted = 0
    BY <1>1 DEF Uncounted, AddingWhileOpen
  <2>3. QED
    BY <1>1, <1>2, <1>3, <2>1, <2>2 DEF WgExact
<1>8. QueueTypeOK'
  <2>1. jobs' \in Seq(Receipts) /\ Len(jobs') <= QueueCap
    BY <1>1, <1>3, QueueAssumption
  <2>2. QED
    BY <1>1, <1>7, <2>1
<1>9. JobWhileRunning' /\ AddingWhileOpen'
  BY <1>1 DEF JobWhileRunning, AddingWhileOpen
<1>10. NoDoubleJob'
  BY <1>1, <1>2, <1>4, <1>5 DEF NoDoubleJob, Distinct
<1>11. DedupeExact'
  BY <1>1, <1>2, <1>4, <1>5, <1>6 DEF DedupeExact
<1>12. CleanMeansDone'
  BY <1>1 DEF CleanMeansDone
<1>13. QED
  BY <1>7, <1>8, <1>9, <1>10, <1>11, <1>12

\* The steps that only move the life of the pool keep the invariant.  At
\* CleanStop the counter is zero, and WgExact makes that mean nothing is left.
LEMMA PoolStepInv ==
    ASSUME QueueInv, StopAccepting \/ CleanStop \/ Deadline \/ StopDone \/ Start
    PROVE  QueueInv'
<1> USE DEF QueueInv, QueueTypeOK
<1>1. UNCHANGED <<jobs, queued, adding, wg, wpc, job>> /\ pool' \in PoolState
  BY DEF StopAccepting, CleanStop, Deadline, StopDone, Start
<1>2. Running' = Running /\ Owing' = Owing /\ Held' = Held
  BY <1>1 DEF Running, Owing, Held
<1>3. QueueTypeOK' /\ JobWhileRunning'
  BY <1>1 DEF JobWhileRunning
<1>4. NoDoubleJob' /\ DedupeExact' /\ WgExact' /\ AddingWhileOpen'
  <2>1. AddingWhileOpen'
    BY <1>1 DEF AddingWhileOpen, StopAccepting, CleanStop, Deadline, StopDone, Start
  <2>2. QED
    BY <1>1, <1>2, <2>1 DEF NoDoubleJob, DedupeExact, WgExact, Uncounted
<1>5. CleanMeansDone'
  <2>1. CASE CleanStop
    <3>1. Owing \in SUBSET Workers
      BY DEF Owing
    <3>2. IsFiniteSet(Owing)
      BY <3>1, FS_Subset, QueueAssumption
    <3>3. Cardinality(Owing) \in Nat /\ (Cardinality(Owing) = 0 => Owing = {})
      BY <3>2, FS_CardinalityType, FS_EmptySet
    <3>4. Len(jobs) \in Nat /\ (Len(jobs) = 0 => jobs = <<>>)
      OBVIOUS
    <3>5. wg = 0 /\ Uncounted = 0
      BY <2>1 DEF CleanStop, AddingWhileOpen, Uncounted
    <3>6. jobs = <<>> /\ Owing = {}
      BY <3>3, <3>4, <3>5 DEF WgExact
    <3>7. QED
      BY <1>1, <1>2, <3>6 DEF CleanMeansDone
  <2>2. CASE StopAccepting \/ Deadline \/ StopDone \/ Start
    BY <2>2 DEF StopAccepting, Deadline, StopDone, Start, CleanMeansDone
  <2>3. QED
    BY <2>1, <2>2
<1>6. QED
  BY <1>3, <1>4, <1>5

\* The death of the process keeps the invariant.
LEMMA DieInv ==
    ASSUME QueueInv, Die
    PROVE  QueueInv'
<1> USE DEF QueueInv, QueueTypeOK
<1>1. /\ pool' = "down" /\ jobs' = <<>> /\ queued' = {} /\ wg' = 0 /\ adding' = FALSE
      /\ wpc' = [w \in Workers |-> "idle"]
      /\ job' = [w \in Workers |-> NoJob]
  BY DEF Die
<1>2. Range(jobs') = {} /\ Running' = {} /\ Owing' = {} /\ Held' = {}
  BY <1>1 DEF Range, Running, Owing, Held
<1>3. QueueTypeOK' /\ JobWhileRunning'
  <2>1. adding' \in BOOLEAN
    BY Zenon DEF Die
  <2>2. QED
    BY <1>1, <2>1, QueueAssumption DEF JobWhileRunning
<1>4. NoDoubleJob' /\ DedupeExact' /\ CleanMeansDone'
  BY <1>1, <1>2 DEF NoDoubleJob, DedupeExact, CleanMeansDone
<1>5. WgExact' /\ AddingWhileOpen'
  BY <1>1, <1>2, FS_EmptySet DEF WgExact, Uncounted, AddingWhileOpen
<1>6. QED
  BY <1>3, <1>4, <1>5

\* A step that changes nothing keeps the invariant.
LEMMA StutterInv ==
    ASSUME QueueInv, UNCHANGED queueVars
    PROVE  QueueInv'
BY DEF QueueInv, QueueTypeOK, queueVars, JobWhileRunning, NoDoubleJob, DedupeExact,
       WgExact, Uncounted, AddingWhileOpen, CleanMeansDone, Running, Owing, Held, Range

\* Every step of the queue keeps the invariant.
LEMMA QueueNextInv == QueueInv /\ [QueueNext]_queueVars => QueueInv'
<1> SUFFICES ASSUME QueueInv, [QueueNext]_queueVars PROVE QueueInv'
  OBVIOUS
<1>1. ASSUME NEW r \in Receipts, Enqueue(r) PROVE QueueInv'
  BY <1>1, EnqueueInv
<1>2. ASSUME NEW w \in Workers, WorkerStep(w) PROVE QueueInv'
  BY <1>2, TakeInv, ForgetInv, FinishInv, ExitInv DEF WorkerStep
<1>3. CASE StopAccepting \/ CleanStop \/ Deadline \/ StopDone \/ Start
  BY <1>3, PoolStepInv
<1>4. CASE CountJob
  BY <1>4, CountJobInv
<1>5. CASE Drain
  BY <1>5, DrainInv
<1>6. CASE Die
  BY <1>6, DieInv
<1>7. CASE UNCHANGED queueVars
  BY <1>7, StutterInv
<1>8. QED
  BY <1>1, <1>2, <1>3, <1>4, <1>5, <1>6, <1>7 DEF QueueNext, ShutdownStep

\* The inductive invariant holds throughout.
THEOREM QueueInvariant == QueueSpec => []QueueInv
BY QueueInitInv, QueueNextInv, PTL DEF QueueSpec

-----------------------------------------------------------------------------
\* The queue keeps its types; in particular the drain loop of Shutdown never
\* takes the wait group's counter below zero (worker/receipt.go:334-339).
THEOREM QueueTypeCorrect == QueueSpec => []QueueTypeOK
<1>1. QueueInv => QueueTypeOK
  BY DEF QueueInv
<1>2. QED
  BY <1>1, QueueInvariant, PTL

\* Two jobs for one receipt never exist at a time, however many goroutines,
\* receipts and channel slots there are.
THEOREM NoDoubleJobAlways == QueueSpec => []NoDoubleJob
<1>1. QueueInv => NoDoubleJob
  BY DEF QueueInv
<1>2. QED
  BY <1>1, QueueInvariant, PTL

\* The dedupe map is exact at all times: no receipt is locked out of a retry by
\* a key left behind, and none is let in twice by a key dropped early.
THEOREM DedupeExactAlways == QueueSpec => []DedupeExact
<1>1. QueueInv => DedupeExact
  BY DEF QueueInv
<1>2. QED
  BY <1>1, QueueInvariant, PTL

\* The wait group counts every unfinished job exactly once.
THEOREM WgExactAlways == QueueSpec => []WgExact
<1>1. QueueInv => WgExact
  BY DEF QueueInv
<1>2. QED
  BY <1>1, QueueInvariant, PTL

\* So channel, dedupe map and wait group agree, for any number of receipts and
\* goroutines.
THEOREM BookkeepingAlways == QueueSpec => []Bookkeeping
<1>1. QueueInv => Bookkeeping
  BY DEF QueueInv, Bookkeeping
<1>2. QED
  BY <1>1, QueueInvariant, PTL

\* A Shutdown that reports success has left no job behind.
THEOREM CleanShutdown == QueueSpec => []CleanMeansDone
<1>1. QueueInv => CleanMeansDone
  BY DEF QueueInv
<1>2. QED
  BY <1>1, QueueInvariant, PTL

\* A goroutine that would panic in wg.Done has overtaken the Submit of its own
\* job: no other interleaving leaves the counter without a count to take.
THEOREM DoneRacesOnlyAdd == QueueSpec => [](~adding => DoneFindsCount)
<1>1. QueueInv => (~adding => DoneFindsCount)
  <2> SUFFICES ASSUME QueueInv, ~adding, NEW w \in Workers, wpc[w] = "forgotten"
               PROVE  wg > 0
    BY DEF DoneFindsCount
  <2>1. w \in Owing /\ Owing \in SUBSET Workers
    BY DEF Owing
  <2>2. Cardinality(Owing) \in Nat /\ Cardinality(Owing) # 0
    BY <2>1, WorkersCount
  <2>3. wg \in Nat /\ Len(jobs) \in Nat /\ wg + 0 = Len(jobs) + Cardinality(Owing)
    BY DEF QueueInv, QueueTypeOK, WgExact, Uncounted
  <2>4. QED
    BY <2>2, <2>3
<1>2. QED
  BY <1>1, QueueInvariant, PTL

\* After close(jobs) nothing is sent on the channel (a send would panic).
THEOREM ClosedNeverSends == QueueSpec => ClosedOnlyDrains
<1> DEFINE Drains == pool \notin {"open", "down"} =>
                       Len(jobs') < Len(jobs) \/ jobs' = jobs \/ pool' = "down"
<1>1. QueueInv /\ [QueueNext]_queueVars => [Drains]_queueVars
  <2> SUFFICES ASSUME QueueInv, [QueueNext]_queueVars PROVE [Drains]_queueVars
    OBVIOUS
  <2>1. jobs \in Seq(Receipts)
    BY DEF QueueInv, QueueTypeOK
  <2>2. jobs # <<>> => Len(Tail(jobs)) < Len(jobs)
    BY <2>1
  <2>3. ASSUME NEW r \in Receipts, Enqueue(r) PROVE Drains
    BY <2>3 DEF Enqueue, SubmitResult
  <2>4. ASSUME NEW w \in Workers, WorkerStep(w) PROVE Drains
    BY <2>2, <2>4 DEF WorkerStep, Take, Forget, Finish, Exit
  <2>5. CASE CountJob \/ StopAccepting \/ ShutdownStep \/ Die \/ Start
    BY <2>2, <2>5 DEF CountJob, StopAccepting, ShutdownStep, CleanStop, Deadline, Drain, StopDone,
                      Die, Start
  <2>6. CASE UNCHANGED queueVars
    BY <2>6
  <2>7. QED
    BY <2>3, <2>4, <2>5, <2>6 DEF QueueNext
<1>2. QED
  BY <1>1, QueueInvariant, PTL DEF QueueSpec, ClosedOnlyDrains

-----------------------------------------------------------------------------
(* The refinement: waiting is the set of buffered receipts, runner the job *)
(* of each goroutine.                                                      *)

\* The initial states are initial states of the abstract service.
LEMMA ServiceInitRefined == QueueInit => Service!ServiceInit
BY DEF QueueInit, Service!ServiceInit, Range

\* What the service calls being extracted is what the goroutines hold.
LEMMA ExtractingIsHeld == QueueInv => Service!Extracting = Held
BY QueueAssumption
   DEF QueueInv, QueueTypeOK, JobWhileRunning, Held, Running, Service!Extracting

\* Every step of the queue is a step of the service or changes neither of the
\* things the service speaks of.
LEMMA ServiceStepRefined ==
    QueueInv /\ [QueueNext]_queueVars => [Service!ServiceNext]_<<Range(jobs), job>>
<1> SUFFICES ASSUME QueueInv, [QueueNext]_queueVars
             PROVE  [Service!ServiceNext]_<<Range(jobs), job>>
  OBVIOUS
<1> USE DEF QueueInv, QueueTypeOK
<1>1. ASSUME NEW r \in Receipts, Enqueue(r) PROVE Service!Accept(r)
  <2>1. Range(jobs') = Range(jobs) \cup {r}
    BY <1>1, RangeAppend DEF Enqueue
  <2>2. r \notin queued
    BY <1>1 DEF Enqueue, SubmitResult
  <2>3. QED
    BY <1>1, <2>1, <2>2, ExtractingIsHeld DEF Service!Accept, Enqueue, DedupeExact
<1>2. ASSUME NEW w \in Workers, Take(w)
      PROVE  Head(jobs) \in Receipts /\ Service!Begin(w, Head(jobs))
  <2>1. jobs # <<>> /\ Head(jobs) \in Receipts
    BY <1>2 DEF Take
  <2>2. Range(jobs) = {Head(jobs)} \cup Range(Tail(jobs))
    BY <2>1, RangeHeadTail
  <2>3. Head(jobs) \notin Range(Tail(jobs))
    BY <2>1, DistinctTail DEF NoDoubleJob, Distinct
  <2>4. job[w] = NoJob
    BY <1>2 DEF Take, JobWhileRunning
  <2>5. QED
    BY <1>2, <2>1, <2>2, <2>3, <2>4 DEF Take, Service!Begin
<1>3. ASSUME NEW w \in Workers, Forget(w) PROVE Service!End(w)
  BY <1>3 DEF Forget, Service!End, JobWhileRunning
<1>4. ASSUME Drain PROVE Head(jobs) \in Receipts /\ Service!Withdraw(Head(jobs))
  <2>1. jobs # <<>> /\ Head(jobs) \in Receipts
    BY <1>4 DEF Drain
  <2>2. Range(jobs) = {Head(jobs)} \cup Range(Tail(jobs))
    BY <2>1, RangeHeadTail
  <2>3. Head(jobs) \notin Range(Tail(jobs))
    BY <2>1, DistinctTail DEF NoDoubleJob, Distinct
  <2>4. QED
    BY <1>4, <2>1, <2>2, <2>3 DEF Drain, Service!Withdraw
<1>5. ASSUME Die PROVE Service!Forfeit
  BY <1>5 DEF Die, Service!Forfeit, Range
<1>6. ASSUME UNCHANGED <<jobs, job>> PROVE UNCHANGED <<Range(jobs), job>>
  BY <1>6
<1>7. ASSUME NEW w \in Workers, Finish(w) \/ Exit(w) PROVE UNCHANGED <<jobs, job>>
  BY <1>7 DEF Finish, Exit
<1>8. CASE CountJob \/ StopAccepting \/ CleanStop \/ Deadline \/ StopDone \/ Start
  BY <1>8 DEF CountJob, StopAccepting, CleanStop, Deadline, StopDone, Start
<1>9. CASE UNCHANGED queueVars
  BY <1>9 DEF queueVars
<1>10. QED
  BY <1>1, <1>2, <1>3, <1>4, <1>5, <1>6, <1>7, <1>8, <1>9
     DEF QueueNext, WorkerStep, ShutdownStep, Service!ServiceNext

\* The worker's queue, with its mutex, dedupe map, wait group and shutdown
\* protocol, implements the abstract extraction service.
THEOREM QueueImplementsService == QueueSpec => ImplementsService
BY ServiceInitRefined, ServiceStepRefined, QueueInvariant, PTL
   DEF QueueSpec, ImplementsService, Service!ServiceSpec, Service!serviceVars

-----------------------------------------------------------------------------
(* What a caller may rely on if all it knows of the worker is this.        *)

\* The service keeps its types.
LEMMA ServiceTypeStep ==
    Service!ServiceTypeOK /\ [Service!ServiceNext]_Service!serviceVars => Service!ServiceTypeOK'
<1> SUFFICES ASSUME Service!ServiceTypeOK, [Service!ServiceNext]_Service!serviceVars PROVE Service!ServiceTypeOK'
  OBVIOUS
<1> USE DEF Service!ServiceTypeOK
<1>1. ASSUME NEW r \in Receipts, Service!Accept(r) \/ Service!Withdraw(r) PROVE Service!ServiceTypeOK'
  BY <1>1 DEF Service!Accept, Service!Withdraw
<1>2. ASSUME NEW w \in Workers, Service!End(w) PROVE Service!ServiceTypeOK'
  BY <1>2 DEF Service!End
<1>3. ASSUME NEW w \in Workers, NEW r \in Receipts, Service!Begin(w, r) PROVE Service!ServiceTypeOK'
  BY <1>3 DEF Service!Begin
<1>4. CASE Service!Forfeit
  BY <1>4 DEF Service!Forfeit
<1>5. CASE UNCHANGED Service!serviceVars
  BY <1>5 DEF Service!serviceVars
<1>6. QED
  BY <1>1, <1>2, <1>3, <1>4, <1>5 DEF Service!ServiceNext

\* No step of the service starts a second extraction of a receipt.
LEMMA ExclusiveStep ==
    Service!ServiceTypeOK /\ Service!ExclusiveExtraction /\ [Service!ServiceNext]_Service!serviceVars
        => Service!ExclusiveExtraction'
<1> SUFFICES ASSUME Service!ServiceTypeOK, Service!ExclusiveExtraction, [Service!ServiceNext]_Service!serviceVars
             PROVE  Service!ExclusiveExtraction'
  OBVIOUS
<1> USE DEF Service!ServiceTypeOK, Service!ExclusiveExtraction, Service!Extracting
<1>1. ASSUME NEW r \in Receipts, Service!Accept(r) \/ Service!Withdraw(r) PROVE Service!ExclusiveExtraction'
  BY <1>1 DEF Service!Accept, Service!Withdraw
<1>2. ASSUME NEW w \in Workers, Service!End(w) PROVE Service!ExclusiveExtraction'
  <2>1. \A v \in Workers : job'[v] = IF v = w THEN NoJob ELSE job[v]
    BY <1>2 DEF Service!End
  <2>2. Range(jobs') = Range(jobs) /\ job[w] # NoJob
    BY <1>2 DEF Service!End
  <2>3. \A u, v \in Workers : job'[u] = job'[v] /\ job'[u] # NoJob => u = v
    BY <2>1
  <2>4. ASSUME NEW r \in Service!Extracting' PROVE r \in Service!Extracting
    <3>1. PICK v \in Workers : job'[v] = r /\ r \in Receipts
      OBVIOUS
    <3>2. job[v] = r
      BY <2>1, <3>1, QueueAssumption
    <3>3. QED
      BY <3>1, <3>2
  <2>5. Range(jobs') \cap Service!Extracting' = {}
    BY <2>2, <2>4
  <2>6. QED
    BY <2>3, <2>5
<1>3. ASSUME NEW w \in Workers, NEW r \in Receipts, Service!Begin(w, r)
      PROVE  Service!ExclusiveExtraction'
  <2>1. \A v \in Workers : job[v] # r
    BY <1>3 DEF Service!Begin
  <2>2. \A v \in Workers : job'[v] = IF v = w THEN r ELSE job[v]
    BY <1>3 DEF Service!Begin
  <2>3. Range(jobs') = Range(jobs) \ {r}
    BY <1>3 DEF Service!Begin
  <2>4. QED
    BY <2>1, <2>2, <2>3
<1>4. CASE Service!Forfeit
  BY <1>4 DEF Service!Forfeit
<1>5. CASE UNCHANGED Service!serviceVars
  BY <1>5 DEF Service!serviceVars
<1>6. QED
  BY <1>1, <1>2, <1>3, <1>4, <1>5 DEF Service!ServiceNext

\* The abstract service never extracts a receipt by two goroutines at a time, nor
\* accepts it again while an earlier job of it is unfinished.
THEOREM ServiceIsExclusive == Service!ServiceSpec => []Service!ExclusiveExtraction
<1>1. Service!ServiceInit => Service!ServiceTypeOK /\ Service!ExclusiveExtraction
  BY DEF Service!ServiceInit, Service!ServiceTypeOK, Service!ExclusiveExtraction, Service!Extracting
<1>2. QED
  BY <1>1, ServiceTypeStep, ExclusiveStep, PTL DEF Service!ServiceSpec

\* So neither does the queue of worker/receipt.go, by the refinement.
THEOREM QueueIsExclusive == QueueSpec => []Service!ExclusiveExtraction
BY QueueImplementsService, ServiceIsExclusive DEF ImplementsService
=============================================================================

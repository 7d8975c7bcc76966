-------------------------- MODULE ExtractionService --------------------------
(***************************************************************************)
(* What the receipt worker promises its callers, with no queue, lock,      *)
(* wait group or shutdown protocol in it: a receipt is idle, waiting for   *)
(* extraction or being extracted by one goroutine, and it is accepted only *)
(* while it is idle.  ReceiptQueue is shown to implement this module.      *)
(***************************************************************************)
CONSTANTS
    Receipts,   \* receipt ids
    Workers,    \* extraction goroutines
    NoJob       \* the value of a goroutine that extracts nothing

VARIABLES
    waiting,    \* accepted receipts no goroutine has taken yet
    runner      \* the receipt each goroutine extracts, or NoJob

serviceVars == <<waiting, runner>>

ServiceTypeOK ==
    /\ waiting \subseteq Receipts
    /\ runner \in [Workers -> Receipts \cup {NoJob}]

Extracting == {r \in Receipts : \E w \in Workers : runner[w] = r}

ServiceInit ==
    /\ waiting = {}
    /\ runner = [w \in Workers |-> NoJob]

\* A receipt is accepted only while no accepted job for it is unfinished.
Accept(r) ==
    /\ r \notin waiting \cup Extracting
    /\ waiting' = waiting \cup {r}
    /\ UNCHANGED runner

Begin(w, r) ==
    /\ r \in waiting
    /\ runner[w] = NoJob
    /\ waiting' = waiting \ {r}
    /\ runner' = [runner EXCEPT ![w] = r]

End(w) ==
    /\ runner[w] # NoJob
    /\ runner' = [runner EXCEPT ![w] = NoJob]
    /\ UNCHANGED waiting

\* A shutdown that runs out of time gives a waiting receipt back.
Withdraw(r) ==
    /\ r \in waiting
    /\ waiting' = waiting \ {r}
    /\ UNCHANGED runner

\* The process dies and forgets every job.
Forfeit ==
    /\ waiting' = {}
    /\ runner' = [w \in Workers |-> NoJob]

ServiceNext ==
    \/ \E r \in Receipts : Accept(r) \/ Withdraw(r)
    \/ \E w \in Workers : End(w) \/ \E r \in Receipts : Begin(w, r)
    \/ Forfeit

ServiceSpec == ServiceInit /\ [][ServiceNext]_serviceVars

\* No receipt is extracted twice at a time, nor accepted again while one of
\* its jobs is unfinished (the dedupe of worker.ReceiptWorker.Submit).
ExclusiveExtraction ==
    /\ \A v, w \in Workers : runner[v] = runner[w] /\ runner[v] # NoJob => v = w
    /\ waiting \cap Extracting = {}
=============================================================================

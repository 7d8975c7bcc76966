---------------------------- MODULE Backups_proofs ----------------------------
(***************************************************************************)
(* That a complete backup has its archive and the prune keeps the newest   *)
(* (Backups), and that what is served after a restore is whole and the     *)
(* old database survives it (StagedRestore), for any number of backups,    *)
(* uploads, restores and deaths.                                           *)
(***************************************************************************)
EXTENDS Backups, StagedRestore, FiniteSetTheorems, WellFoundedInduction, TLAPS

-----------------------------------------------------------------------------
(* Backups.                                                                *)

\* The stages of a run whose archive is not there yet, or not for long.
Making == {"begun", "vacuumed", "writing", "failing"}

\* The archive of row j is as it will be: it may be removed, but never written.
Done(j) ==
    /\ j <= made /\ arch[j] # "part"
    /\ \A p \in Process : run[p].pc \in Making => run[p].id # j

\* What a table of backups, live or in some archive, may say.
TableOK(t) == \A j \in Id : /\ t[j] # "none" => j <= made
                            /\ t[j] = "complete" => Done(j)

TablesOK ==
    /\ TableOK(row)
    /\ \A i \in Id : TableOK(snap[i])
    /\ \A t \in staged : TableOK(t)
    /\ staged # {} => restores < MaxRestores

RunsTyped ==
    /\ run \in [Process -> Run]
    /\ \A p \in Process : IF run[p].pc = "idle" THEN run[p] = NoRun
                          ELSE run[p].id = made /\ run[p].id \in Id
    /\ \A p, o \in Process : run[p].pc # "idle" /\ run[o].pc # "idle" => p = o

\* The archives that a run removes at its end are those of rows that are gone.
RunsOK ==
    \A p \in Process :
        /\ run[p].pc = "written" =>
             arch[run[p].id] = "whole" \/ (arch[run[p].id] = "none" /\ row[run[p].id] = "none")
        /\ \A i \in run[p].out : row[i] = "none"

ServerOK ==
    /\ boot # "up" => run["server"] = NoRun
    /\ boot = "down" => boots < MaxBoots
    /\ del # NoId => boot = "up" /\ del <= made /\ row[del] = "none"

\* The rows that are newer than all that a prune has still to delete.
Newer(p) == {j \in Id : /\ \A i \in run[p].old : i < j
                        /\ row[j] = "complete" \/ j \in deleted}

PruneOK ==
    \A p \in Process : At(p, "prune") => run[p].old # {} /\ Cardinality(Newer(p)) >= Retain

BackupInv ==
    BackupTypeOK /\ RunsTyped /\ TablesOK /\ RunsOK /\ ServerOK /\ CompleteIsWhole /\ PruneOK

LEMMA BackupInitInv == BackupInit => BackupInv
<1> SUFFICES ASSUME BackupInit PROVE BackupInv
  OBVIOUS
<1> USE BackupAssumption DEF BackupInit
<1>1. run \in [Process -> Run] /\ \A p \in Process : run[p] = NoRun /\ run[p].pc = "idle"
                                                     /\ run[p].out = {}
  BY DEF Run, NoRun
<1>2. NoRows \in [Id -> Status] /\ \A j \in Id : NoRows[j] = "none"
  BY DEF NoRows, Status
<1>3. Cardinality({}) = 0
  BY FS_EmptySet
<1>4. BackupTypeOK
  BY <1>1, <1>2, <1>3 DEF BackupTypeOK, BootStage, Id, NoId
<1>5. RunsTyped /\ RunsOK /\ ServerOK /\ PruneOK
  BY <1>1 DEF RunsTyped, RunsOK, ServerOK, PruneOK, At, Process
<1>6. TablesOK /\ CompleteIsWhole
  BY <1>2 DEF TablesOK, TableOK, CompleteIsWhole
<1>7. QED
  BY <1>4, <1>5, <1>6 DEF BackupInv

\* A set of backups is finite, and a larger one has more of them.
LEMMA CountGrows ==
    ASSUME NEW S \in SUBSET Id, NEW T \in SUBSET Id, S \subseteq T, Cardinality(S) >= Retain
    PROVE  Cardinality(T) >= Retain
<1>1. IsFiniteSet(T)
  <2>1. 1 \in Int /\ MaxBackups \in Int
    BY BackupAssumption
  <2>2. IsFiniteSet(Id)
    BY <2>1, FS_Interval DEF Id
  <2>3. QED
    BY <2>2, FS_Subset
<1>2. IsFiniteSet(S) /\ Cardinality(S) <= Cardinality(T)
  BY <1>1, FS_Subset
<1>3. Cardinality(S) \in Nat /\ Cardinality(T) \in Nat
  BY <1>1, <1>2, FS_CardinalityType
<1>4. QED
  BY <1>2, <1>3, BackupAssumption

LEMMA NewestIsIn == ASSUME NEW S \in SUBSET Id, S # {} PROVE Newest(S) \in S
                                                     /\ \A j \in S : j <= Newest(S)
<1> DEFINE T == {MaxBackups - i : i \in S}
<1>1. T \subseteq Nat /\ T # {}
  <2>1. ASSUME NEW i \in S PROVE MaxBackups - i \in Nat /\ MaxBackups - i \in T
    BY BackupAssumption DEF Id
  <2>2. QED
    BY <2>1
<1>2. \E d \in T : \A e \in T : ~(<<e, d>> \in OpToRel(<, Nat))
  BY <1>1, NatLessThanWellFounded, WFMin
<1>3. PICK d \in T : \A e \in T : ~(e < d)
  BY <1>1, <1>2 DEF OpToRel
<1>4. PICK i \in S : d = MaxBackups - i
  OBVIOUS
<1>5. ASSUME NEW j \in S PROVE j <= i
  <2>1. ~(MaxBackups - j < MaxBackups - i)
    BY <1>3, <1>4
  <2>2. QED
    BY <2>1, BackupAssumption DEF Id
<1>6. QED
  BY <1>5 DEF Newest

-----------------------------------------------------------------------------
(* The steps of a run.                                                     *)

\* A run that is under way is the only one.
LEMMA Alone ==
    ASSUME BackupInv, NEW p \in Process, run[p].pc # "idle"
    PROVE  /\ run[p] \in Run /\ run[p].id = made /\ made \in Id /\ made \in Nat
           /\ \A o \in Process \ {p} : run[o] = NoRun /\ run[o].pc = "idle" /\ run[o].out = {}
<1>1. RunsTyped /\ made \in 0..MaxBackups
  BY DEF BackupInv, BackupTypeOK
<1>2. NoRun.pc = "idle" /\ NoRun.out = {}
  BY DEF NoRun
<1>3. QED
  BY <1>1, <1>2 DEF RunsTyped

\* It moves on, or ends.
LEMMA RunMoves ==
    ASSUME BackupInv, NEW p \in Process, run[p].pc # "idle", made' = made,
           NEW r \in Run, run' = [run EXCEPT ![p] = r],
           r = NoRun \/ (r.pc # "idle" /\ r.id = run[p].id)
    PROVE  /\ RunsTyped' /\ run'[p] = r
           /\ \A o \in Process \ {p} : run'[o] = NoRun /\ run'[o].pc = "idle" /\ run'[o].out = {}
<1>1. run \in [Process -> Run]
  BY DEF BackupInv, RunsTyped
<1>2. run'[p] = r /\ \A o \in Process \ {p} : run'[o] = run[o]
  BY <1>1
<1>3. run' \in [Process -> Run]
  BY <1>1
<1>4. NoRun.pc = "idle" /\ NoRun.out = {}
  BY DEF NoRun
<1>5. QED
  BY <1>2, <1>3, <1>4, Alone DEF RunsTyped

LEMMA GotoMoves ==
    ASSUME BackupInv, NEW p \in Process, run[p].pc # "idle", made' = made,
           NEW pc, pc \in {"idle", "vacuumed", "writing", "written", "failing", "list"},
           Goto(p, pc)
    PROVE  /\ RunsTyped' /\ run'[p].pc = pc /\ run'[p] \in Run
           /\ IF pc = "idle" THEN run'[p] = NoRun
              ELSE run'[p].id = run[p].id /\ run'[p].out = run[p].out /\ run'[p].old = run[p].old
           /\ \A o \in Process \ {p} : run'[o] = NoRun /\ run'[o].pc = "idle" /\ run'[o].out = {}
<1>1. run \in [Process -> Run] /\ run[p] \in Run
  BY DEF BackupInv, RunsTyped
<1> DEFINE r == IF pc = "idle" THEN NoRun ELSE [run[p] EXCEPT !.pc = pc]
<1>2. r \in Run /\ r.pc = pc
      /\ (pc # "idle" => r.id = run[p].id /\ r.out = run[p].out /\ r.old = run[p].old)
  BY <1>1 DEF Run, NoRun
<1>3. run' = [run EXCEPT ![p] = r]
  BY <1>1 DEF Goto
<1>4. r = NoRun \/ (r.pc # "idle" /\ r.id = run[p].id)
  BY <1>2
<1> HIDE DEF r
<1>5. /\ RunsTyped' /\ run'[p] = r
      /\ \A o \in Process \ {p} : run'[o] = NoRun /\ run'[o].pc = "idle" /\ run'[o].out = {}
  BY <1>2, <1>3, <1>4, RunMoves
<1>6. pc = "idle" => r = NoRun
  BY DEF r
<1>7. QED
  BY <1>2, <1>5, <1>6

\* What a step leaves true of one table, if no archive is written anew.
LEMMA TableStays ==
    ASSUME BackupInv, \A j \in Id : Done(j) => Done(j)', made' \in Nat, made <= made',
           NEW t, TableOK(t)
    PROVE  \A j \in Id : /\ t[j] # "none" => j <= made'
                         /\ t[j] = "complete" => Done(j)'
<1>1. made \in Nat
  BY DEF BackupInv, BackupTypeOK
<1>2. QED
  BY <1>1, BackupAssumption DEF TableOK, Id

LEMMA TablesStay ==
    ASSUME BackupInv, \A j \in Id : Done(j) => Done(j)', made' \in Nat, made <= made',
           UNCHANGED <<row, snap, staged, restores>>
    PROVE  TablesOK'
<1>1. TablesOK
  BY DEF BackupInv
<1>2. TableOK(row)'
  BY <1>1, TableStays DEF TablesOK, TableOK
<1>3. ASSUME NEW i \in Id PROVE TableOK(snap[i])'
  BY <1>1, TableStays DEF TablesOK, TableOK
<1>4. ASSUME NEW t \in staged PROVE TableOK(t)'
  BY <1>1, TableStays DEF TablesOK, TableOK
<1>5. QED
  BY <1>1, <1>2, <1>3, <1>4 DEF TablesOK

\* In a step that leaves rows, archives and runs in pruning alone, little is left
\* to show.
LEMMA DoneStays ==
    ASSUME BackupInv, made' = made, NEW p \in Process, run[p].pc # "idle",
           run'[p].pc \in Making => run[p].pc \in Making /\ run'[p].id = run[p].id,
           \A o \in Process \ {p} : run'[o].pc = "idle",
           \A j \in Id : arch'[j] = "part" => arch[j] = "part" \/ (j = run[p].id /\ run[p].pc \in Making)
    PROVE  \A j \in Id : Done(j) => Done(j)'
BY DEF Done, Making

\* A step of a run leaves the server where it is, so that these parts remain.
LEMMA RunParts ==
    ASSUME BackupInv, NEW p \in Process, run[p].pc # "idle",
           UNCHANGED <<made, server, staged, restores, boots, deleted>>,
           RunsTyped', \A o \in Process \ {p} : run'[o] = NoRun,
           row' \in [Id -> Status], \A i \in Id : row[i] = "none" => row'[i] = "none",
           arch' \in [Id -> {"none", "part", "whole"}], temp' \subseteq Id,
           snap' \in [Id -> [Id -> Status]], left' \subseteq Id,
           TablesOK', RunsOK', CompleteIsWhole', PruneOK'
    PROVE  BackupInv'
<1>1. BackupTypeOK /\ ServerOK
  BY DEF BackupInv
<1>2. \A q \in Process : run'[q].pc # "idle" => run'[q].id = made
  BY DEF RunsTyped
<1>3. \A q, o \in Process : run'[q].pc # "idle" /\ run'[o].pc # "idle" => q = o
  BY DEF RunsTyped
<1>4. run' \in [Process -> Run]
  BY DEF RunsTyped
<1>5. BackupTypeOK'
  BY <1>1, <1>2, <1>3, <1>4 DEF BackupTypeOK, server
<1>6. ServerOK'
  <2>1. NoRun.pc = "idle"
    BY DEF NoRun
  <2>2. "server" \in Process /\ del \in Id \cup {NoId}
    BY <1>1 DEF Process, BackupTypeOK
  <2>3. boot # "up" => p # "server"
    BY <1>1, <2>1 DEF ServerOK
  <2>4. boot # "up" => run'["server"] = NoRun
    BY <2>2, <2>3
  <2>5. QED
    BY <1>1, <2>2, <2>4 DEF ServerOK, server
<1>7. QED
  BY <1>5, <1>6 DEF BackupInv

\* Where it does not come to prune, nor to have written, and adds no archive.
LEMMA NoPrune ==
    ASSUME BackupInv, NEW p \in Process, run[p].pc # "idle",
           \A o \in Process \ {p} : run'[o].pc = "idle" /\ run'[o].out = {},
           run'[p].pc \notin {"prune"}
    PROVE  PruneOK'
<1>1. NoRun.pc = "idle"
  BY DEF NoRun
<1>2. \A q \in Process : run'[q].pc # "prune"
  OBVIOUS
<1>3. QED
  BY <1>2 DEF PruneOK, At

\* The parts of the invariant that every step uses.
LEMMA Parts ==
    ASSUME BackupInv
    PROVE  /\ row \in [Id -> Status] /\ arch \in [Id -> {"none", "part", "whole"}]
           /\ temp \subseteq Id /\ snap \in [Id -> [Id -> Status]] /\ left \subseteq Id
           /\ made \in Nat /\ restores \in Nat /\ deleted \subseteq Id
           /\ run \in [Process -> Run] /\ TablesOK /\ RunsOK /\ CompleteIsWhole /\ PruneOK
BY BackupAssumption DEF BackupInv, BackupTypeOK

LEMMA VacuumStep ==
    ASSUME BackupInv, NEW p \in Process, Vacuum(p) PROVE BackupInv'
<1> DEFINE i == run[p].id
<1>1. run[p].pc = "begun" /\ UNCHANGED <<row, arch, made, server, staged, restores, boots, deleted>>
  BY DEF Vacuum, At
<1>2. i = made /\ i \in Id /\ made \in Nat /\ run[p] \in Run
  BY <1>1, Alone
<1>3. PICK pc \in {"idle", "vacuumed", "failing"} : Goto(p, pc)
  BY DEF Vacuum
<1>4. /\ RunsTyped' /\ run'[p].pc = pc /\ run'[p] \in Run
      /\ IF pc = "idle" THEN run'[p] = NoRun
         ELSE run'[p].id = run[p].id /\ run'[p].out = run[p].out /\ run'[p].old = run[p].old
      /\ \A o \in Process \ {p} : run'[o] = NoRun /\ run'[o].pc = "idle" /\ run'[o].out = {}
  BY <1>1, <1>3, GotoMoves
<1>5. PruneOK'
  BY <1>1, <1>4, NoPrune
<1>6. NoRun.out = {}
  BY DEF NoRun
<1>7. RunsOK'
  <2>1. RunsOK
    BY Parts
  <2>2. \A q \in Process : run'[q].pc # "written"
    BY <1>4
  <2>3. \A q \in Process : \A j \in run'[q].out : row[j] = "none"
    BY <2>1, <1>4, <1>6 DEF RunsOK
  <2>4. QED
    BY <1>1, <2>2, <2>3 DEF RunsOK
<1>8. \A j \in Id : Done(j) => Done(j)'
  <2>1. run[p].pc \in Making
    BY <1>1 DEF Making
  <2>2. run'[p].pc \in Making => run'[p].id = run[p].id
    BY <1>4 DEF Making
  <2>3. \A o \in Process \ {p} : run'[o].pc = "idle"
    BY <1>4
  <2>4. \A j \in Id : arch'[j] = "part" => arch[j] = "part"
    BY <1>1
  <2>5. made' = made /\ run[p].pc # "idle"
    BY <1>1
  <2>6. QED
    BY <2>1, <2>2, <2>3, <2>4, <2>5, DoneStays
<1>9. temp' \subseteq Id /\ left' \subseteq Id /\ (snap' = snap \/ snap' = [snap EXCEPT ![i] = row])
  <2>1. temp \subseteq Id /\ left \subseteq Id
    BY Parts
  <2>2. (temp' = temp \/ temp' = temp \cup {i}) /\ (left' = left \/ left' = left \cup {i})
    BY DEF Vacuum
  <2>3. QED
    BY <1>2, <2>1, <2>2 DEF Vacuum
<1>10. snap' \in [Id -> [Id -> Status]] /\ TablesOK'
  <2>1. made' \in Nat /\ made <= made' /\ TablesOK
    BY <1>1, <1>2, Parts
  <2>2. \A t : TableOK(t) => \A j \in Id : (t[j] # "none" => j <= made') /\ (t[j] = "complete" => Done(j)')
    BY <1>8, <2>1, TableStays
  <2>3. row \in [Id -> Status] /\ snap \in [Id -> [Id -> Status]]
    BY Parts
  <2>4. snap' \in [Id -> [Id -> Status]] /\ \A j \in Id : snap'[j] = snap[j] \/ snap'[j] = row
    BY <1>9, <2>3
  <2>5. TableOK(row)'
    BY <1>1, <2>1, <2>2 DEF TablesOK, TableOK
  <2>6. ASSUME NEW j \in Id PROVE TableOK(snap[j])'
    <3>1. TableOK(snap'[j])
      BY <2>1, <2>4 DEF TablesOK
    <3>2. QED
      BY <3>1, <2>2 DEF TableOK
  <2>7. ASSUME NEW t \in staged' PROVE TableOK(t)'
    BY <1>1, <2>1, <2>2, <2>7 DEF TablesOK, TableOK
  <2>8. QED
    BY <1>1, <2>1, <2>4, <2>5, <2>6, <2>7 DEF TablesOK
<1>11. CompleteIsWhole'
  BY <1>1, Parts DEF CompleteIsWhole
<1>12. QED
  <2>1. row' \in [Id -> Status] /\ arch' \in [Id -> {"none", "part", "whole"}]
    BY <1>1, Parts
  <2>2. run[p].pc # "idle" /\ UNCHANGED <<made, server, staged, restores, boots, deleted>> /\ row' = row
    BY <1>1
  <2>3. \A o \in Process \ {p} : run'[o] = NoRun
    BY <1>4
  <2>4. QED
    BY <1>4, <1>5, <1>7, <1>9, <1>10, <1>11, <2>1, <2>2, <2>3, RunParts

\* What a step leaves true of the tables, if rows are as they should be and no
\* table in an archive is written anew.
LEMMA TablesFrom ==
    ASSUME BackupInv, \A j \in Id : Done(j) => Done(j)', made' \in Nat, made <= made',
           TableOK(row)', \A i \in Id : snap'[i] \in {snap[i], NoRows},
           UNCHANGED <<staged, restores>>
    PROVE  TablesOK'
<1>1. TablesOK
  BY DEF BackupInv
<1>2. TableOK(NoRows)
  BY DEF TableOK, NoRows
<1>3. ASSUME NEW t, TableOK(t)
      PROVE  \A j \in Id : (t[j] # "none" => j <= made') /\ (t[j] = "complete" => Done(j)')
  BY <1>3, TableStays
<1>4. ASSUME NEW i \in Id PROVE TableOK(snap[i])'
  <2>1. TableOK(snap'[i])
    BY <1>1, <1>2 DEF TablesOK
  <2>2. QED
    BY <2>1, <1>3 DEF TableOK
<1>5. ASSUME NEW t \in staged' PROVE TableOK(t)'
  <2>1. TableOK(t)
    BY <1>1, <1>5 DEF TablesOK
  <2>2. QED
    BY <2>1, <1>3 DEF TableOK
<1>6. QED
  BY <1>1, <1>4, <1>5 DEF TablesOK

\* An archive that is removed leaves nothing behind.
LEMMA RemovedLeaves ==
    ASSUME BackupInv, NEW S, Removed(S)
    PROVE  /\ arch' \in [Id -> {"none", "part", "whole"}]
           /\ snap' \in [Id -> [Id -> Status]]
           /\ \A i \in Id : arch'[i] = (IF i \in S THEN "none" ELSE arch[i])
           /\ \A i \in Id : snap'[i] \in {snap[i], NoRows}
<1>1. arch \in [Id -> {"none", "part", "whole"}] /\ snap \in [Id -> [Id -> Status]]
  BY Parts
<1>2. NoRows \in [Id -> Status]
  BY DEF NoRows, Status
<1>3. arch' \in [Id -> {"none", "part", "whole"}]
      /\ \A i \in Id : arch'[i] = (IF i \in S THEN "none" ELSE arch[i])
  BY <1>1 DEF Removed
<1>4. snap' \in [Id -> [Id -> Status]] /\ \A i \in Id : snap'[i] \in {snap[i], NoRows}
  BY <1>1, <1>2 DEF Removed
<1>5. QED
  BY <1>3, <1>4

\* The row of a run that is making its archive is not complete: no restore
\* brought it back.
LEMMA NotYetComplete ==
    ASSUME BackupInv, NEW p \in Process, run[p].pc \in Making
    PROVE  row[run[p].id] # "complete"
<1>1. TableOK(row) /\ run[p].id \in Id
  BY Alone, Parts DEF TablesOK, Making
<1>2. QED
  BY <1>1 DEF TableOK, Done

LEMMA OpenStep ==
    ASSUME BackupInv, NEW p \in Process, Open(p) PROVE BackupInv'
<1> DEFINE i == run[p].id
<1>1. run[p].pc = "vacuumed" /\ run[p].pc \in Making
      /\ UNCHANGED <<row, temp, snap, made, server, staged, restores, boots, history>>
  BY DEF Open, At, Making
<1>2. i = made /\ i \in Id /\ made \in Nat
  BY <1>1, Alone
<1>3. PICK pc \in {"writing", "failing"} : Goto(p, pc)
  BY DEF Open
<1>4. /\ RunsTyped' /\ run'[p].pc = pc /\ run'[p].id = run[p].id /\ run'[p].out = run[p].out
      /\ \A o \in Process \ {p} : run'[o] = NoRun /\ run'[o].pc = "idle" /\ run'[o].out = {}
  BY <1>1, <1>3, GotoMoves
<1>5. arch' \in [Id -> {"none", "part", "whole"}] /\ \A j \in Id : j # i => arch'[j] = arch[j]
  BY <1>2, Parts DEF Open
<1>6. \A j \in Id : Done(j) => Done(j)'
  <2>1. \A j \in Id : arch'[j] = "part" => arch[j] = "part" \/ j = i
    BY <1>5
  <2>2. made' = made /\ run[p].pc # "idle"
    BY <1>1
  <2>3. QED
    BY <1>1, <1>4, <2>1, <2>2, DoneStays
<1>7. TablesOK'
  BY <1>1, <1>2, <1>6, TablesStay
<1>8. CompleteIsWhole'
  BY <1>1, <1>5, NotYetComplete, Parts DEF CompleteIsWhole
<1>9. PruneOK'
  BY <1>1, <1>4, NoPrune
<1>10. RunsOK'
  <2>1. \A q \in Process : run'[q].pc # "written"
    BY <1>4
  <2>2. \A q \in Process : \A j \in run'[q].out : row[j] = "none"
    BY <1>4, Parts DEF RunsOK
  <2>3. QED
    BY <1>1, <2>1, <2>2 DEF RunsOK
<1>11. QED
  <2>1. row' \in [Id -> Status] /\ snap' \in [Id -> [Id -> Status]] /\ temp' \subseteq Id
        /\ left' \subseteq Id /\ row' = row
    BY <1>1, Parts DEF history
  <2>2. run[p].pc # "idle" /\ UNCHANGED <<made, server, staged, restores, boots, deleted>>
    BY <1>1 DEF history
  <2>3. \A o \in Process \ {p} : run'[o] = NoRun
    BY <1>4
  <2>4. QED
    BY <1>4, <1>5, <1>7, <1>8, <1>9, <1>10, <2>1, <2>2, <2>3, RunParts

LEMMA FinishStep ==
    ASSUME BackupInv, NEW p \in Process, Finish(p) PROVE BackupInv'
<1> DEFINE i == run[p].id
<1>1. run[p].pc = "writing" /\ run[p].pc \in Making /\ temp' = temp \ {i}
      /\ UNCHANGED <<row, snap, made, server, staged, restores, boots, history>>
  BY DEF Finish, At, Making
<1>2. i = made /\ i \in Id /\ made \in Nat
  BY <1>1, Alone
<1>3. PICK pc \in {"written", "failing"} :
        Goto(p, pc) /\ arch' = [arch EXCEPT ![i] = IF pc = "written" THEN "whole" ELSE "none"]
  <2>1. CASE arch' = [arch EXCEPT ![i] = "whole"] /\ Goto(p, "written")
    BY <2>1
  <2>2. CASE arch' = [arch EXCEPT ![i] = "none"] /\ Goto(p, "failing")
    BY <2>2
  <2>3. QED
    BY <2>1, <2>2 DEF Finish
<1>4. /\ RunsTyped' /\ run'[p].pc = pc /\ run'[p].id = run[p].id /\ run'[p].out = run[p].out
      /\ \A o \in Process \ {p} : run'[o] = NoRun /\ run'[o].pc = "idle" /\ run'[o].out = {}
  BY <1>1, <1>3, GotoMoves
<1>5. /\ arch' \in [Id -> {"none", "part", "whole"}]
      /\ \A j \in Id : j # i => arch'[j] = arch[j]
      /\ arch'[i] = IF pc = "written" THEN "whole" ELSE "none"
  BY <1>2, <1>3, Parts
<1>6. \A j \in Id : Done(j) => Done(j)'
  <2>1. \A j \in Id : arch'[j] = "part" => arch[j] = "part" \/ j = i
    BY <1>5
  <2>2. made' = made /\ run[p].pc # "idle"
    BY <1>1
  <2>3. QED
    BY <1>1, <1>4, <2>1, <2>2, DoneStays
<1>7. TablesOK'
  BY <1>1, <1>2, <1>6, TablesStay
<1>8. CompleteIsWhole'
  BY <1>1, <1>5, NotYetComplete, Parts DEF CompleteIsWhole
<1>9. PruneOK'
  BY <1>1, <1>4, NoPrune
<1>10. RunsOK'
  <2>1. \A q \in Process : run'[q].pc = "written" => q = p /\ arch'[run'[q].id] = "whole"
    BY <1>4, <1>5
  <2>2. \A q \in Process : \A j \in run'[q].out : row[j] = "none"
    BY <1>4, Parts DEF RunsOK
  <2>3. QED
    BY <1>1, <2>1, <2>2 DEF RunsOK
<1>11. QED
  <2>1. row' \in [Id -> Status] /\ snap' \in [Id -> [Id -> Status]] /\ temp' \subseteq Id
        /\ left' \subseteq Id /\ row' = row
    BY <1>1, Parts DEF history
  <2>2. run[p].pc # "idle" /\ UNCHANGED <<made, server, staged, restores, boots, deleted>>
    BY <1>1 DEF history
  <2>3. \A o \in Process \ {p} : run'[o] = NoRun
    BY <1>4
  <2>4. QED
    BY <1>4, <1>5, <1>7, <1>8, <1>9, <1>10, <2>1, <2>2, <2>3, RunParts

\* The update of a row changes no other, and brings none back.
LEMMA MarkedRow ==
    ASSUME BackupInv, NEW i \in Id, NEW s \in {"failed", "complete"},
           row' = row \/ row' = Marked(i, s)
    PROVE  /\ row' \in [Id -> Status]
           /\ \A j \in Id : row[j] = "none" <=> row'[j] = "none"
           /\ \A j \in Id : j # i => row'[j] = row[j]
           /\ row'[i] = row[i] \/ row'[i] = s
<1>1. row \in [Id -> Status]
  BY Parts
<1>2. s \in Status /\ s # "none"
  BY DEF Status
<1>3. QED
  BY <1>1, <1>2 DEF Marked

LEMMA MarkFailedStep ==
    ASSUME BackupInv, NEW p \in Process, MarkFailed(p) PROVE BackupInv'
<1> DEFINE i == run[p].id
<1>1. run[p].pc = "failing" /\ run[p].pc \in Making /\ Removed({i}) /\ Goto(p, "idle")
      /\ UNCHANGED <<temp, made, server, staged, restores, boots, deleted>>
  BY DEF MarkFailed, At, Making
<1>2. i = made /\ i \in Id /\ made \in Nat
  BY <1>1, Alone
<1>3. /\ RunsTyped' /\ run'[p].pc = "idle" /\ run'[p] = NoRun
      /\ \A o \in Process \ {p} : run'[o] = NoRun /\ run'[o].pc = "idle" /\ run'[o].out = {}
  BY <1>1, GotoMoves
<1>4. (row' = row \/ row' = Marked(i, "failed")) /\ left' \subseteq Id
  BY <1>2, Parts DEF MarkFailed, Stuck
<1>5. /\ row' \in [Id -> Status]
      /\ \A j \in Id : row[j] = "none" <=> row'[j] = "none"
      /\ \A j \in Id : row'[j] = "complete" => row[j] = "complete"
  BY <1>2, <1>4, MarkedRow
<1>6. /\ arch' \in [Id -> {"none", "part", "whole"}]
      /\ snap' \in [Id -> [Id -> Status]]
      /\ \A j \in Id : arch'[j] = (IF j \in {i} THEN "none" ELSE arch[j])
      /\ \A j \in Id : snap'[j] \in {snap[j], NoRows}
  BY <1>1, RemovedLeaves
<1>7. \A j \in Id : Done(j) => Done(j)'
  <2>1. \A j \in Id : arch'[j] = "part" => arch[j] = "part"
    BY <1>6
  <2>2. made' = made /\ run[p].pc # "idle"
    BY <1>1
  <2>3. run'[p].pc \notin Making
    BY <1>3 DEF Making
  <2>4. \A o \in Process \ {p} : run'[o].pc = "idle"
    BY <1>3
  <2>5. QED
    BY <2>1, <2>2, <2>3, <2>4, DoneStays
<1>8. TablesOK'
  <2>1. TableOK(row)
    BY Parts DEF TablesOK
  <2>2. made' \in Nat /\ made <= made' /\ made' = made
    BY <1>1, <1>2
  <2>3. TableOK(row)'
    BY <1>5, <1>7, <2>1, <2>2 DEF TableOK
  <2>4. UNCHANGED <<staged, restores>>
    BY <1>1
  <2>5. QED
    BY <1>6, <1>7, <2>2, <2>3, <2>4, TablesFrom
<1>9. CompleteIsWhole'
  <2>1. restores' = restores
    BY <1>1
  <2>2. \A j \in Id : row'[j] = "complete" => arch'[j] = arch[j]
    BY <1>1, <1>5, <1>6, NotYetComplete
  <2>3. QED
    BY <1>5, <2>1, <2>2, Parts DEF CompleteIsWhole
<1>10. PruneOK'
  <2>1. \A o \in Process \ {p} : run'[o].pc = "idle" /\ run'[o].out = {}
    BY <1>3
  <2>2. QED
    BY <1>1, <1>3, <2>1, NoPrune
<1>11. RunsOK'
  <2>1. \A q \in Process : run'[q] = NoRun
    BY <1>3
  <2>2. NoRun.pc = "idle" /\ NoRun.out = {}
    BY DEF NoRun
  <2>3. QED
    BY <2>1, <2>2 DEF RunsOK
<1>12. QED
  <2>1. temp' \subseteq Id /\ \A j \in Id : row[j] = "none" => row'[j] = "none"
    BY <1>1, <1>5, Parts
  <2>2. run[p].pc # "idle" /\ UNCHANGED <<made, server, staged, restores, boots, deleted>>
    BY <1>1
  <2>3. \A o \in Process \ {p} : run'[o] = NoRun
    BY <1>3
  <2>4. QED
    BY <1>3, <1>4, <1>5, <1>6, <1>8, <1>9, <1>10, <1>11, <2>1, <2>2, <2>3, RunParts

LEMMA MarkCompleteStep ==
    ASSUME BackupInv, NEW p \in Process, MarkComplete(p) PROVE BackupInv'
<1> DEFINE i == run[p].id
<1>1. run[p].pc = "written" /\ UNCHANGED <<disk, made, server, staged, restores, boots, deleted>>
  BY DEF MarkComplete, At
<1>2. i = made /\ i \in Id /\ made \in Nat
  BY <1>1, Alone
<1>3. PICK pc \in {"idle", "list"} : Goto(p, pc)
  BY DEF MarkComplete
<1>4. /\ RunsTyped' /\ run'[p].pc = pc
      /\ IF pc = "idle" THEN run'[p] = NoRun
         ELSE run'[p].id = run[p].id /\ run'[p].out = run[p].out /\ run'[p].old = run[p].old
      /\ \A o \in Process \ {p} : run'[o] = NoRun /\ run'[o].pc = "idle" /\ run'[o].out = {}
  BY <1>1, <1>3, GotoMoves
<1>5. (row' = row \/ row' = Marked(i, "complete")) /\ left' \subseteq Id
  BY <1>2, Parts DEF MarkComplete, Stuck
<1>6. /\ row' \in [Id -> Status]
      /\ \A j \in Id : row[j] = "none" <=> row'[j] = "none"
      /\ \A j \in Id : row'[j] = "complete" => row[j] = "complete" \/ j = i
  BY <1>2, <1>5, MarkedRow
<1>7. \A j \in Id : Done(j) => Done(j)'
  <2>1. \A j \in Id : arch'[j] = "part" => arch[j] = "part"
    BY <1>1 DEF disk
  <2>2. made' = made /\ run[p].pc # "idle"
    BY <1>1
  <2>3. run'[p].pc \notin Making
    BY <1>4 DEF Making
  <2>4. \A o \in Process \ {p} : run'[o].pc = "idle"
    BY <1>4
  <2>5. QED
    BY <2>1, <2>2, <2>3, <2>4, DoneStays
<1>8. row[i] # "none" => arch[i] = "whole"
  BY <1>1, Parts DEF RunsOK
<1>9. TablesOK'
  <2>1. TableOK(row)
    BY Parts DEF TablesOK
  <2>2. made' \in Nat /\ made <= made' /\ made' = made /\ arch' = arch
    BY <1>1, <1>2 DEF disk
  <2>3. \A q \in Process : run'[q].pc \notin Making
    BY <1>4 DEF Making
  <2>4. \A j \in Id : j = i /\ row[j] # "none" => Done(j)'
    BY <1>2, <1>8, <2>2, <2>3 DEF Done
  <2>5. \A j \in Id : row'[j] = "complete" => Done(j)'
    BY <1>6, <1>7, <2>1, <2>4 DEF TableOK
  <2>6. \A j \in Id : row'[j] # "none" => j <= made'
    BY <1>6, <2>1, <2>2 DEF TableOK
  <2>7. TableOK(row)'
    BY <2>5, <2>6 DEF TableOK
  <2>8. UNCHANGED <<staged, restores>> /\ snap' = snap
    BY <1>1 DEF disk
  <2>9. QED
    BY <1>7, <2>2, <2>7, <2>8, TablesFrom
<1>10. CompleteIsWhole'
  <2>1. restores' = restores /\ arch' = arch
    BY <1>1 DEF disk
  <2>2. QED
    BY <1>6, <1>8, <2>1, Parts DEF CompleteIsWhole
<1>11. PruneOK'
  <2>1. \A o \in Process \ {p} : run'[o].pc = "idle" /\ run'[o].out = {}
    BY <1>4
  <2>2. run[p].pc # "idle" /\ run'[p].pc # "prune"
    BY <1>1, <1>4
  <2>3. QED
    BY <2>1, <2>2, NoPrune
<1>12. RunsOK'
  <2>1. NoRun.pc = "idle" /\ NoRun.out = {}
    BY DEF NoRun
  <2>2. \A q \in Process : run'[q].pc # "written"
    BY <1>4
  <2>3. \A q \in Process : run'[q].out \subseteq run[q].out
    BY <1>4, <2>1
  <2>4. \A q \in Process : \A j \in run[q].out : j \in Id
    BY Parts DEF Run
  <2>5. \A q \in Process : \A j \in run'[q].out : row'[j] = "none"
    BY <1>6, <2>3, <2>4, Parts DEF RunsOK
  <2>6. QED
    BY <2>2, <2>5 DEF RunsOK
<1>13. QED
  <2>1. temp' \subseteq Id /\ arch' \in [Id -> {"none", "part", "whole"}]
        /\ snap' \in [Id -> [Id -> Status]] /\ \A j \in Id : row[j] = "none" => row'[j] = "none"
    BY <1>1, <1>6, Parts DEF disk
  <2>2. run[p].pc # "idle" /\ UNCHANGED <<made, server, staged, restores, boots, deleted>>
    BY <1>1
  <2>3. \A o \in Process \ {p} : run'[o] = NoRun
    BY <1>4
  <2>4. QED
    BY <1>4, <1>5, <1>6, <1>9, <1>10, <1>11, <1>12, <2>1, <2>2, <2>3, RunParts

LEMMA ListStep ==
    ASSUME BackupInv, NEW p \in Process, List(p) PROVE BackupInv'
<1>1. run[p].pc = "list" /\ UNCHANGED <<row, disk, made, server, staged, restores, boots, history>>
  BY DEF List, At
<1>2. made \in Nat /\ run[p] \in Run /\ run[p].id = made
  BY <1>1, Alone
<1> DEFINE r == [run[p] EXCEPT !.pc = "prune", !.old = Surplus]
<1>3. Surplus \subseteq Id /\ Complete \subseteq Id
  BY DEF Surplus, Complete
<1>4. r \in Run /\ r.pc = "prune" /\ r.id = run[p].id /\ r.out = run[p].out /\ r.old = Surplus
  BY <1>2, <1>3 DEF Run
<1>5. /\ RunsTyped'
      /\ \/ run'[p] = NoRun
         \/ run'[p] = r /\ Surplus # {}
      /\ \A o \in Process \ {p} : run'[o] = NoRun /\ run'[o].pc = "idle" /\ run'[o].out = {}
  <2>1. CASE Surplus = {}
    <3>1. Goto(p, "idle")
      BY <2>1 DEF List
    <3>2. QED
      BY <1>1, <3>1, GotoMoves
  <2>2. CASE Surplus # {}
    <3>1. run' = [run EXCEPT ![p] = r]
      BY <2>2, Parts DEF List
    <3> HIDE DEF r
    <3>2. made' = made /\ run[p].pc # "idle"
      BY <1>1
    <3>3. QED
      BY <1>4, <2>2, <3>1, <3>2, RunMoves
  <2>3. QED
    BY <2>1, <2>2
<1> HIDE DEF r
<1>6. NoRun.pc = "idle" /\ NoRun.out = {}
  BY DEF NoRun
<1>7. \A j \in Id : Done(j) => Done(j)'
  <2>1. \A j \in Id : arch'[j] = "part" => arch[j] = "part"
    BY <1>1 DEF disk
  <2>2. made' = made /\ run[p].pc # "idle"
    BY <1>1
  <2>3. run'[p].pc \notin Making
    BY <1>4, <1>5, <1>6 DEF Making
  <2>4. \A o \in Process \ {p} : run'[o].pc = "idle"
    BY <1>5
  <2>5. QED
    BY <2>1, <2>2, <2>3, <2>4, DoneStays
<1>8. TablesOK'
  BY <1>1, <1>2, <1>7, TablesStay DEF disk
<1>9. CompleteIsWhole'
  BY <1>1, Parts DEF CompleteIsWhole, disk
<1>10. ASSUME NEW q \in Process, run'[q].pc = "prune"
       PROVE  run'[q].old # {} /\ Cardinality(Newer(q)') >= Retain
  <2>1. q = p /\ run'[p] = r /\ Surplus # {} /\ run'[q].old = Surplus
    BY <1>4, <1>5, <1>6, <1>10
  <2> DEFINE n == Newest(Surplus)
             later == {j \in Complete : j > n}
  <2>2. n \in Surplus /\ \A j \in Surplus : j <= n
    BY <1>3, <2>1, NewestIsIn
  <2>3. Cardinality(later) >= Retain
    BY <2>2 DEF Surplus
  <2>4. later \subseteq Newer(q)' /\ Newer(q)' \subseteq Id /\ later \subseteq Id
    <3>1. row' = row /\ deleted' = deleted
      BY <1>1 DEF history
    <3>2. \A j \in Id : j \in Nat
      BY BackupAssumption DEF Id
    <3>3. n \in Id /\ \A j \in Complete : j \in Id /\ row[j] = "complete"
      BY <1>3, <2>2 DEF Complete
    <3>4. ASSUME NEW j \in later PROVE \A i \in run'[q].old : i < j
      <4>1. j > n /\ j \in Nat /\ n \in Nat
        BY <3>2, <3>3
      <4>2. ASSUME NEW i \in Surplus PROVE i < j
        <5>1. i <= n /\ i \in Nat
          BY <1>3, <2>2, <3>2
        <5> HIDE DEF n
        <5>2. QED
          BY <4>1, <5>1
      <4>3. QED
        BY <2>1, <4>2
    <3>5. QED
      BY <2>1, <3>1, <3>3, <3>4 DEF Newer
  <2>5. QED
    BY <2>1, <2>3, <2>4, CountGrows
<1>11. PruneOK'
  BY <1>10 DEF PruneOK, At
<1>12. RunsOK'
  <2>1. \A q \in Process : run'[q].pc # "written"
    BY <1>4, <1>5, <1>6
  <2>2. \A q \in Process : run'[q].out \subseteq run[q].out
    BY <1>4, <1>5, <1>6
  <2>3. QED
    BY <1>1, <2>1, <2>2, Parts DEF RunsOK
<1>13. QED
  <2>1. UNCHANGED <<row, arch, temp, snap, left, made, server, staged, restores, boots, deleted>>
    BY <1>1 DEF disk, history
  <2>2. row' \in [Id -> Status] /\ arch' \in [Id -> {"none", "part", "whole"}]
        /\ temp' \subseteq Id /\ snap' \in [Id -> [Id -> Status]] /\ left' \subseteq Id
        /\ row' = row
    BY <2>1, Parts
  <2>3. run[p].pc # "idle" /\ UNCHANGED <<made, server, staged, restores, boots, deleted>>
    BY <1>1, <2>1
  <2>4. \A o \in Process \ {p} : run'[o] = NoRun
    BY <1>5
  <2>5. QED
    BY <1>5, <1>8, <1>9, <1>11, <1>12, <2>2, <2>3, <2>4, RunParts

\* The prune deletes the newest row it has listed: those that are newer than all
\* of them stay.
LEMMA PruneDeletes ==
    ASSUME BackupInv, NEW p \in Process, Prune(p)
    PROVE  LET i == Newest(run[p].old) IN
           /\ i \in Id /\ i \in run[p].old /\ run[p].pc = "prune" /\ run[p] \in Run
           /\ Cardinality(Newer(p)) >= Retain /\ run[p].old \subseteq Id
           /\ \A j \in Newer(p) : j \in Id /\ i < j
           /\ \/ row' = row /\ Goto(p, "idle")
              \/ row' = [row EXCEPT ![i] = "none"]
                 /\ run' = [run EXCEPT ![p] =
                      [run[p] EXCEPT !.old = run[p].old \ {i}, !.out = @ \cup {i},
                                     !.pc = IF run[p].old \ {i} = {} THEN "unlink" ELSE @]]
<1>1. run[p].pc = "prune" /\ run[p] \in Run
  BY Alone DEF Prune, At
<1>2. run[p].old # {} /\ Cardinality(Newer(p)) >= Retain /\ run[p].old \subseteq Id
  BY <1>1, Parts DEF PruneOK, At, Run
<1>3. Newest(run[p].old) \in run[p].old
  BY <1>2, NewestIsIn
<1>4. \A j \in Newer(p) : j \in Id /\ Newest(run[p].old) < j
  BY <1>3 DEF Newer
<1>5. QED
  BY <1>1, <1>2, <1>3, <1>4 DEF Prune

LEMMA PruneStep ==
    ASSUME BackupInv, NEW p \in Process, Prune(p) PROVE BackupInv'
<1> DEFINE i == Newest(run[p].old)
           rest == run[p].old \ {i}
           r == [run[p] EXCEPT !.old = rest, !.out = @ \cup {i},
                               !.pc = IF rest = {} THEN "unlink" ELSE @]
<1>1. UNCHANGED <<disk, made, server, staged, restores, boots, history>>
  BY DEF Prune
<1>2. /\ i \in Id /\ i \in run[p].old /\ run[p].pc = "prune" /\ run[p] \in Run
      /\ Cardinality(Newer(p)) >= Retain /\ run[p].old \subseteq Id
      /\ \A j \in Newer(p) : j \in Id /\ i < j
      /\ \/ row' = row /\ Goto(p, "idle")
         \/ row' = [row EXCEPT ![i] = "none"] /\ run' = [run EXCEPT ![p] = r]
  BY PruneDeletes
<1>3. /\ r.pc = (IF rest = {} THEN "unlink" ELSE "prune")
      /\ r.id = run[p].id /\ r.old = rest /\ r.out = run[p].out \cup {i} /\ r \in Run
  BY <1>2 DEF Run
<1> HIDE DEF i, r
<1>4. NoRun.pc = "idle" /\ NoRun.out = {}
  BY DEF NoRun
<1>5. made' = made /\ run[p].pc # "idle" /\ made \in Nat
  BY <1>1, <1>2, Parts
<1>6. /\ RunsTyped'
      /\ \/ run'[p] = NoRun /\ row' = row
         \/ run'[p] = r /\ row' = [row EXCEPT ![i] = "none"]
      /\ \A o \in Process \ {p} : run'[o] = NoRun /\ run'[o].pc = "idle" /\ run'[o].out = {}
  <2>1. CASE row' = row /\ Goto(p, "idle")
    BY <1>5, <2>1, GotoMoves
  <2>2. CASE row' = [row EXCEPT ![i] = "none"] /\ run' = [run EXCEPT ![p] = r]
    <3>1. r.pc # "idle"
      BY <1>3
    <3>2. QED
      BY <1>3, <1>5, <2>2, <3>1, RunMoves
  <2>3. QED
    BY <1>2, <2>1, <2>2
<1>7. /\ row' \in [Id -> Status]
      /\ \A j \in Id : row[j] = "none" => row'[j] = "none"
      /\ \A j \in Id : row'[j] = row[j] \/ row'[j] = "none"
  <2>1. row \in [Id -> Status] /\ "none" \in Status
    BY Parts DEF Status
  <2>2. QED
    BY <1>2, <1>6, <2>1
<1>8. \A j \in Id : Done(j) => Done(j)'
  <2>1. \A j \in Id : arch'[j] = "part" => arch[j] = "part"
    BY <1>1 DEF disk
  <2>2. run'[p].pc \notin Making
    BY <1>3, <1>4, <1>6 DEF Making
  <2>3. \A o \in Process \ {p} : run'[o].pc = "idle"
    BY <1>6
  <2>4. QED
    BY <1>5, <2>1, <2>2, <2>3, DoneStays
<1>9. TablesOK'
  <2>1. TableOK(row)
    BY Parts DEF TablesOK
  <2>2. made' \in Nat /\ made <= made'
    BY <1>5
  <2>3. TableOK(row)'
    BY <1>5, <1>7, <1>8, <2>1 DEF TableOK
  <2>4. UNCHANGED <<staged, restores>> /\ snap' = snap
    BY <1>1 DEF disk
  <2>5. QED
    BY <1>8, <2>2, <2>3, <2>4, TablesFrom
<1>10. CompleteIsWhole'
  <2>1. restores' = restores /\ arch' = arch
    BY <1>1 DEF disk
  <2>2. QED
    BY <1>7, <2>1, Parts DEF CompleteIsWhole
<1>11. ASSUME NEW q \in Process, run'[q].pc = "prune"
       PROVE  run'[q].old # {} /\ Cardinality(Newer(q)') >= Retain
  <2>1. q = p /\ run'[p] = r /\ row' = [row EXCEPT ![i] = "none"] /\ rest # {} /\ run'[q].old = rest
    BY <1>3, <1>4, <1>6, <1>11
  <2>2. deleted' = deleted /\ row \in [Id -> Status]
    BY <1>1, Parts DEF history
  <2>3. \A j \in Newer(p) : row'[j] = row[j] /\ \A k \in rest : k < j
    <3>1. i \in Nat
      BY <1>2, BackupAssumption DEF Id
    <3>2. \A j \in Newer(p) : j # i /\ j \in Id
      BY <1>2, <3>1
    <3>3. QED
      BY <2>1, <2>2, <3>2 DEF Newer
  <2>4. Newer(p) \subseteq Newer(q)' /\ Newer(p) \subseteq Id /\ Newer(q)' \subseteq Id
    BY <2>1, <2>2, <2>3 DEF Newer
  <2>5. QED
    BY <1>2, <2>1, <2>4, CountGrows
<1>12. PruneOK'
  BY <1>11 DEF PruneOK, At
<1>13. RunsOK'
  <2>1. \A q \in Process : run'[q].pc # "written"
    BY <1>3, <1>4, <1>6
  <2>2. run[p].out \subseteq Id
    BY <1>2 DEF Run
  <2>3. \A j \in run[p].out : row'[j] = "none"
    BY <1>7, <2>2, Parts DEF RunsOK
  <2>4. row \in [Id -> Status]
    BY Parts
  <2>5. \A q \in Process : \A j \in run'[q].out : row'[j] = "none"
    BY <1>2, <1>3, <1>4, <1>6, <2>3, <2>4
  <2>6. QED
    BY <2>1, <2>5 DEF RunsOK
<1>14. QED
  <2>1. UNCHANGED <<arch, temp, snap, left, made, server, staged, restores, boots, deleted>>
    BY <1>1 DEF disk, history
  <2>2. arch' \in [Id -> {"none", "part", "whole"}]
        /\ temp' \subseteq Id /\ snap' \in [Id -> [Id -> Status]] /\ left' \subseteq Id
    BY <2>1, Parts
  <2>3. \A o \in Process \ {p} : run'[o] = NoRun
    BY <1>6
  <2>4. UNCHANGED <<made, server, staged, restores, boots, deleted>>
    BY <2>1
  <2>5. QED
    BY <1>5, <1>6, <1>7, <1>9, <1>10, <1>12, <1>13, <2>2, <2>3, <2>4, RunParts

LEMMA UnlinkStep ==
    ASSUME BackupInv, NEW p \in Process, Unlink(p) PROVE BackupInv'
<1>1. run[p].pc = "unlink" /\ UNCHANGED <<row, temp, made, server, staged, restores, boots, history>>
  BY DEF Unlink, At
<1>2. made \in Nat /\ run[p] \in Run /\ run[p].id = made
  BY <1>1, Alone
<1>3. PICK i \in run[p].out :
        /\ Removed({i})
        /\ IF run[p].out = {i} THEN Goto(p, "idle")
                               ELSE run' = [run EXCEPT ![p].out = @ \ {i}]
  BY DEF Unlink
<1> DEFINE r == [run[p] EXCEPT !.out = run[p].out \ {i}]
<1>4. r \in Run /\ r.pc = "unlink" /\ r.id = run[p].id /\ r.out = run[p].out \ {i}
  BY <1>1, <1>2 DEF Run
<1>5. NoRun.pc = "idle" /\ NoRun.out = {}
  BY DEF NoRun
<1>6. /\ RunsTyped'
      /\ run'[p] = NoRun \/ run'[p] = r
      /\ \A o \in Process \ {p} : run'[o] = NoRun /\ run'[o].pc = "idle" /\ run'[o].out = {}
  <2>1. CASE run[p].out = {i}
    BY <1>1, <1>3, <2>1, GotoMoves
  <2>2. CASE run[p].out # {i}
    <3>1. run' = [run EXCEPT ![p] = r]
      BY <1>3, <2>2, Parts
    <3> HIDE DEF r
    <3>2. made' = made /\ run[p].pc # "idle" /\ r.pc # "idle"
      BY <1>1, <1>4
    <3>3. QED
      BY <1>4, <3>1, <3>2, RunMoves
  <2>3. QED
    BY <2>1, <2>2
<1> HIDE DEF r
<1>7. /\ arch' \in [Id -> {"none", "part", "whole"}]
      /\ snap' \in [Id -> [Id -> Status]]
      /\ \A j \in Id : arch'[j] = (IF j \in {i} THEN "none" ELSE arch[j])
      /\ \A j \in Id : snap'[j] \in {snap[j], NoRows}
  BY <1>3, RemovedLeaves
<1>8. \A j \in Id : Done(j) => Done(j)'
  <2>1. \A j \in Id : arch'[j] = "part" => arch[j] = "part"
    BY <1>7
  <2>2. run'[p].pc \notin Making /\ made' = made /\ run[p].pc # "idle"
    BY <1>1, <1>4, <1>5, <1>6 DEF Making
  <2>3. \A o \in Process \ {p} : run'[o].pc = "idle"
    BY <1>6
  <2>4. QED
    BY <2>1, <2>2, <2>3, DoneStays
<1>9. TablesOK'
  <2>1. TableOK(row) /\ row' = row /\ made' = made /\ made' \in Nat /\ made <= made'
    BY <1>1, <1>2, Parts DEF TablesOK
  <2>2. TableOK(row)'
    BY <1>8, <2>1 DEF TableOK
  <2>3. UNCHANGED <<staged, restores>>
    BY <1>1
  <2>4. QED
    BY <1>7, <1>8, <2>1, <2>2, <2>3, TablesFrom
<1>10. CompleteIsWhole'
  <2>1. restores' = restores /\ row' = row
    BY <1>1
  <2>2. row[i] = "none"
    BY <1>3, Parts DEF RunsOK
  <2>3. \A j \in Id : row'[j] = "complete" => arch'[j] = arch[j]
    BY <1>7, <2>1, <2>2
  <2>4. QED
    BY <2>1, <2>3, Parts DEF CompleteIsWhole
<1>11. PruneOK'
  <2>1. \A o \in Process \ {p} : run'[o].pc = "idle" /\ run'[o].out = {}
    BY <1>6
  <2>2. run[p].pc # "idle" /\ run'[p].pc # "prune"
    BY <1>1, <1>4, <1>5, <1>6
  <2>3. QED
    BY <2>1, <2>2, NoPrune
<1>12. RunsOK'
  <2>1. \A q \in Process : run'[q].pc # "written"
    BY <1>4, <1>5, <1>6
  <2>2. \A q \in Process : run'[q].out \subseteq run[q].out
    BY <1>4, <1>5, <1>6
  <2>3. QED
    BY <1>1, <2>1, <2>2, Parts DEF RunsOK
<1>13. QED
  <2>1. UNCHANGED <<row, temp, left, made, server, staged, restores, boots, deleted>>
    BY <1>1 DEF history
  <2>2. row' \in [Id -> Status] /\ temp' \subseteq Id /\ left' \subseteq Id /\ row' = row
    BY <2>1, Parts
  <2>3. \A o \in Process \ {p} : run'[o] = NoRun
    BY <1>6
  <2>4. run[p].pc # "idle" /\ UNCHANGED <<made, server, staged, restores, boots, deleted>>
    BY <1>1, <2>1
  <2>5. QED
    BY <1>6, <1>7, <1>9, <1>10, <1>11, <1>12, <2>2, <2>3, <2>4, RunParts

-----------------------------------------------------------------------------
(* The other steps.                                                        *)

\* Free: no run is under way.
LEMMA AllIdle ==
    ASSUME BackupInv, NEW p \in Process, Free(p)
    PROVE  \A q \in Process : run[q] = NoRun /\ run[q].pc = "idle" /\ run[q].out = {}
<1>1. RunsTyped
  BY DEF BackupInv
<1>2. NoRun.pc = "idle" /\ NoRun.out = {}
  BY DEF NoRun
<1>3. QED
  BY <1>1, <1>2 DEF Free, At, RunsTyped

LEMMA BeginStep ==
    ASSUME BackupInv, NEW p \in Process, Begin(p) PROVE BackupInv'
<1> DEFINE i == made + 1
           r == [NoRun EXCEPT !.pc = "begun", !.id = i]
<1>1. /\ made < MaxBackups /\ made' = i /\ Free(p) /\ (p = "server" => boot = "up")
      /\ UNCHANGED <<disk, server, staged, restores, boots, deleted>>
  BY DEF Begin
<1>2. made \in Nat /\ i \in Id /\ i \in Nat /\ made < i
  BY <1>1, Parts, BackupAssumption DEF Id
<1>3. \A q \in Process : run[q] = NoRun /\ run[q].pc = "idle" /\ run[q].out = {}
  BY <1>1, AllIdle
<1>4. /\ row' = [row EXCEPT ![i] = "running"] \/ row' = [row EXCEPT ![i] = "failed"]
      /\ left' = left \/ left' = left \cup {i}
      /\ run' = run \/ run' = [run EXCEPT ![p] = r]
  BY DEF Begin
<1>5. r \in Run /\ r.pc = "begun" /\ r.id = i /\ r.out = {}
  BY <1>2 DEF Run, NoRun
<1> HIDE DEF r
<1>6. run \in [Process -> Run] /\ row \in [Id -> Status]
  BY Parts
<1>7. \A q \in Process : \/ run'[q] = NoRun /\ run'[q].pc = "idle" /\ run'[q].out = {}
                         \/ q = p /\ run'[q] = r
  BY <1>3, <1>4, <1>6
<1>8. RunsTyped'
  <2>1. run' \in [Process -> Run]
    BY <1>4, <1>5, <1>6
  <2>2. QED
    BY <1>1, <1>2, <1>5, <1>7, <2>1 DEF RunsTyped
<1>9. /\ row' \in [Id -> Status] /\ row'[i] # "complete"
      /\ \A j \in Id : j # i => row'[j] = row[j]
  <2>1. {"running", "failed"} \subseteq Status
    BY DEF Status
  <2>2. QED
    BY <1>2, <1>4, <1>6, <2>1
<1>10. BackupTypeOK'
  <2>1. BackupTypeOK
    BY DEF BackupInv
  <2>2. \A q \in Process : run'[q].pc # "idle" => run'[q].id = made'
    BY <1>8 DEF RunsTyped
  <2>3. \A q, o \in Process : run'[q].pc # "idle" /\ run'[o].pc # "idle" => q = o
    BY <1>8 DEF RunsTyped
  <2>4. run' \in [Process -> Run]
    BY <1>8 DEF RunsTyped
  <2>5. made' \in 0..MaxBackups
    BY <1>1, <1>2, BackupAssumption
  <2>6. left' \subseteq Id
    BY <1>2, <1>4, Parts
  <2>7. QED
    BY <1>1, <1>9, <2>1, <2>2, <2>3, <2>4, <2>5, <2>6 DEF BackupTypeOK, server, disk
<1>11. \A j \in Id : Done(j) => Done(j)'
  <2>1. ASSUME NEW j \in Id, Done(j) PROVE Done(j)'
    <3>1. j <= made /\ arch[j] # "part" /\ j \in Nat
      BY <2>1, BackupAssumption DEF Done, Id
    <3>2. j <= made' /\ arch'[j] # "part" /\ j # made'
      BY <1>1, <1>2, <3>1 DEF disk
    <3>3. \A q \in Process : run'[q].pc \in Making => run'[q].id # j
      BY <1>1, <1>5, <1>7, <3>2 DEF Making
    <3>4. QED
      BY <3>2, <3>3 DEF Done
  <2>2. QED
    BY <2>1
<1>12. TablesOK'
  <2>1. TableOK(row)
    BY Parts DEF TablesOK
  <2>2. made' \in Nat /\ made <= made'
    BY <1>1, <1>2
  <2>3. \A j \in Id : j \in Nat
    BY BackupAssumption DEF Id
  <2>4. \A j \in Id : row'[j] = "complete" => Done(j)'
    BY <1>9, <1>11, <2>1 DEF TableOK
  <2>5. \A j \in Id : row'[j] # "none" => j <= made'
    <3>1. ASSUME NEW j \in Id, j # i, row'[j] # "none" PROVE j <= made'
      BY <1>9, <2>1, <2>2, <2>3, <1>2, <3>1 DEF TableOK
    <3>2. QED
      BY <1>1, <1>2, <3>1
  <2>6. TableOK(row)'
    BY <2>4, <2>5 DEF TableOK
  <2>7. UNCHANGED <<staged, restores>> /\ snap' = snap
    BY <1>1 DEF disk
  <2>8. QED
    BY <1>11, <2>2, <2>6, <2>7, TablesFrom
<1>13. CompleteIsWhole'
  <2>1. restores' = restores /\ arch' = arch
    BY <1>1 DEF disk
  <2>2. \A j \in Id : row'[j] = "complete" => row[j] = "complete"
    BY <1>9
  <2>3. QED
    BY <2>1, <2>2, Parts DEF CompleteIsWhole
<1>14. PruneOK' /\ RunsOK'
  <2>1. \A q \in Process : run'[q].pc \notin {"prune", "written"} /\ run'[q].out = {}
    BY <1>5, <1>7
  <2>2. QED
    BY <2>1 DEF PruneOK, RunsOK, At
<1>15. ServerOK'
  <2>1. ServerOK /\ UNCHANGED <<boot, seen, del, boots>>
    BY <1>1 DEF BackupInv, server
  <2>2. "server" \in Process
    BY DEF Process
  <2>3. boot # "up" => run'["server"] = NoRun
    BY <1>1, <1>7, <2>2
  <2>4. ASSUME del # NoId PROVE del <= made' /\ row'[del] = "none"
    <3>1. del \in Id /\ del <= made /\ row[del] = "none"
      BY <2>1, <2>4 DEF ServerOK, BackupInv, BackupTypeOK
    <3>2. del \in Nat
      BY <3>1, BackupAssumption DEF Id
    <3>3. del # i /\ del <= made'
      BY <1>1, <1>2, <3>1, <3>2
    <3>4. QED
      BY <1>9, <3>1, <3>3
  <2>5. QED
    BY <2>1, <2>3, <2>4 DEF ServerOK
<1>16. QED
  BY <1>8, <1>10, <1>12, <1>13, <1>14, <1>15 DEF BackupInv

\* A step that starts and moves no run, and adds no archive.
LEMMA DoneLasts ==
    ASSUME BackupInv, made' = made,
           \A q \in Process : run'[q] = run[q] \/ run'[q] = NoRun,
           \A j \in Id : arch'[j] = "part" => arch[j] = "part"
    PROVE  \A j \in Id : Done(j) => Done(j)'
<1>1. NoRun.pc \notin Making
  BY DEF NoRun, Making
<1>2. QED
  BY <1>1 DEF Done

\* What is left of the runs when some have been killed.
LEMMA RunsLast ==
    ASSUME BackupInv, made' = made, run' \in [Process -> Run],
           \A q \in Process : run'[q] = run[q] \/ run'[q] = NoRun
    PROVE  /\ RunsTyped'
           /\ \A q \in Process : run'[q].pc # "idle" => run'[q].id = made
           /\ \A q, o \in Process : run'[q].pc # "idle" /\ run'[o].pc # "idle" => q = o
<1>1. RunsTyped /\ NoRun.pc = "idle"
  BY DEF BackupInv, NoRun
<1>2. \A q \in Process : IF run'[q].pc = "idle" THEN run'[q] = NoRun
                         ELSE run'[q].id = made /\ run'[q].id \in Id
  BY <1>1 DEF RunsTyped
<1>3. \A q, o \in Process : run'[q].pc # "idle" /\ run'[o].pc # "idle" => q = o
  BY <1>1 DEF RunsTyped
<1>4. QED
  BY <1>2, <1>3 DEF RunsTyped

\* What is left of a prune: its run goes on alone, and the newer rows stay.
LEMMA PruneLasts ==
    ASSUME BackupInv,
           \A q \in Process : run'[q] = run[q] \/ run'[q] = NoRun,
           \A q \in Process : \A j \in Newer(q) : row'[j] = "complete" \/ j \in deleted'
    PROVE  PruneOK'
<1>1. NoRun.pc = "idle"
  BY DEF NoRun
<1>2. ASSUME NEW q \in Process, run'[q].pc = "prune"
      PROVE  run'[q].old # {} /\ Cardinality(Newer(q)') >= Retain
  <2>1. run'[q] = run[q] /\ run[q].pc = "prune"
    BY <1>1, <1>2
  <2>2. run[q].old # {} /\ Cardinality(Newer(q)) >= Retain
    BY <2>1, Parts DEF PruneOK, At
  <2>3. Newer(q) \subseteq Newer(q)' /\ Newer(q) \subseteq Id /\ Newer(q)' \subseteq Id
    BY <2>1 DEF Newer
  <2>4. QED
    BY <2>1, <2>2, <2>3, CountGrows
<1>3. QED
  BY <1>2 DEF PruneOK, At

\* Rows that are gone stay so for the runs that have deleted them, and an archive
\* goes for a row that is gone alone.
LEMMA RunsOKLasts ==
    ASSUME BackupInv,
           \A q \in Process : run'[q] = run[q] \/ run'[q] = NoRun,
           \A j \in Id : row[j] = "none" => row'[j] = "none",
           \A j \in Id : arch'[j] = arch[j] \/ (arch'[j] = "none" /\ row'[j] = "none")
    PROVE  RunsOK'
<1>1. NoRun.pc = "idle" /\ NoRun.out = {}
  BY DEF NoRun
<1>2. RunsTyped /\ RunsOK
  BY DEF BackupInv
<1>3. ASSUME NEW q \in Process, run'[q].pc = "written"
      PROVE  arch'[run'[q].id] = "whole" \/ (arch'[run'[q].id] = "none" /\ row'[run'[q].id] = "none")
  <2>1. run'[q] = run[q] /\ run[q].pc = "written" /\ run[q].id \in Id
    BY <1>1, <1>2, <1>3 DEF RunsTyped
  <2>2. QED
    BY <1>2, <2>1 DEF RunsOK
<1>4. ASSUME NEW q \in Process, NEW j \in run'[q].out PROVE row'[j] = "none"
  <2>1. run'[q] = run[q] /\ j \in run[q].out
    BY <1>1, <1>4
  <2>2. j \in Id
    BY <2>1, Parts DEF Run
  <2>3. QED
    BY <1>2, <2>1, <2>2 DEF RunsOK
<1>5. QED
  BY <1>3, <1>4 DEF RunsOK

LEMMA DeleteRowStep == ASSUME BackupInv, DeleteRow PROVE BackupInv'
<1>1. PICK i \in Id : /\ row[i] # "none" /\ row' = [row EXCEPT ![i] = "none"]
                      /\ del' = i /\ deleted' = deleted \cup {i}
  BY DEF DeleteRow
<1>2. boot = "up" /\ UNCHANGED <<disk, made, run, boot, seen, staged, restores, boots, left>>
  BY DEF DeleteRow
<1>3. row \in [Id -> Status] /\ made \in Nat /\ "none" \in Status
  BY Parts DEF Status
<1>4. /\ row' \in [Id -> Status] /\ row'[i] = "none"
      /\ \A j \in Id : j # i => row'[j] = row[j]
  BY <1>1, <1>3
<1>5. i <= made
  BY <1>1, Parts DEF TablesOK, TableOK
<1>6. \A q \in Process : run'[q] = run[q] \/ run'[q] = NoRun
  BY <1>2
<1>7. \A j \in Id : Done(j) => Done(j)'
  BY <1>2, <1>6, DoneLasts DEF disk
<1>8. RunsTyped'
  BY <1>2 DEF RunsTyped, BackupInv
<1>9. TablesOK'
  <2>1. TableOK(row) /\ made' = made /\ made' \in Nat /\ made <= made'
    BY <1>2, <1>3, Parts DEF TablesOK
  <2>2. TableOK(row)'
    <3>1. \A j \in Id : row'[j] # "none" => row'[j] = row[j]
      BY <1>4
    <3>2. QED
      BY <1>7, <2>1, <3>1 DEF TableOK
  <2>3. UNCHANGED <<staged, restores>> /\ snap' = snap
    BY <1>2 DEF disk
  <2>4. QED
    BY <1>7, <2>1, <2>2, <2>3, TablesFrom
<1>10. BackupTypeOK'
  <2>1. BackupTypeOK
    BY DEF BackupInv
  <2>2. deleted' \subseteq Id /\ del' \in Id \cup {NoId}
    BY <1>1, Parts
  <2>3. QED
    BY <1>2, <1>4, <2>1, <2>2 DEF BackupTypeOK, disk
<1>11. RunsOK'
  <2>1. \A j \in Id : row[j] = "none" => row'[j] = "none"
    BY <1>4
  <2>2. \A j \in Id : arch'[j] = arch[j]
    BY <1>2 DEF disk
  <2>3. QED
    BY <1>6, <2>1, <2>2, RunsOKLasts
<1>12. ServerOK'
  <2>1. i # NoId => boot' = "up" /\ i <= made' /\ row'[i] = "none"
    BY <1>2, <1>4, <1>5
  <2>2. ServerOK /\ UNCHANGED <<run, boot, boots>>
    BY <1>2 DEF BackupInv
  <2>3. QED
    BY <1>1, <2>1, <2>2 DEF ServerOK
<1>13. CompleteIsWhole'
  <2>1. restores' = restores /\ arch' = arch
    BY <1>2 DEF disk
  <2>2. \A j \in Id : row'[j] = "complete" => row[j] = "complete"
    BY <1>4
  <2>3. QED
    BY <2>1, <2>2, Parts DEF CompleteIsWhole
<1>14. PruneOK'
  <2>1. \A q \in Process : \A j \in Newer(q) : row'[j] = "complete" \/ j \in deleted'
    BY <1>1, <1>4 DEF Newer
  <2>2. QED
    BY <1>6, <2>1, PruneLasts
<1>15. QED
  BY <1>8, <1>9, <1>10, <1>11, <1>12, <1>13, <1>14 DEF BackupInv

\* Archives removed for rows that are gone.
LEMMA RemovingStep ==
    ASSUME BackupInv, NEW S \in SUBSET Id, \A i \in S : row[i] = "none", Removed(S),
           temp' \subseteq Id, seen' \subseteq Id, boot' = "up", boot \in {"sweep", "up"},
           del' = NoId,
           UNCHANGED <<row, made, run, staged, restores, boots, history>>
    PROVE  BackupInv'
<1>1. /\ arch' \in [Id -> {"none", "part", "whole"}]
      /\ snap' \in [Id -> [Id -> Status]]
      /\ \A j \in Id : arch'[j] = (IF j \in S THEN "none" ELSE arch[j])
      /\ \A j \in Id : snap'[j] \in {snap[j], NoRows}
  BY RemovedLeaves
<1>2. \A q \in Process : run'[q] = run[q] \/ run'[q] = NoRun
  OBVIOUS
<1>3. \A j \in Id : Done(j) => Done(j)'
  <2>1. \A j \in Id : arch'[j] = "part" => arch[j] = "part"
    BY <1>1
  <2>2. QED
    BY <1>2, <2>1, DoneLasts
<1>4. TablesOK'
  <2>1. TableOK(row) /\ made' = made /\ made' \in Nat /\ made <= made'
    BY Parts DEF TablesOK
  <2>2. TableOK(row)'
    BY <1>3, <2>1 DEF TableOK
  <2>3. QED
    BY <1>1, <1>3, <2>1, <2>2, TablesFrom
<1>5. RunsTyped'
  BY DEF RunsTyped, BackupInv
<1>6. BackupTypeOK'
  <2>1. BackupTypeOK
    BY DEF BackupInv
  <2>2. boot' \in BootStage
    BY DEF BootStage
  <2>3. QED
    BY <1>1, <2>1, <2>2 DEF BackupTypeOK, history
<1>7. RunsOK'
  <2>1. \A j \in Id : arch'[j] = arch[j] \/ (arch'[j] = "none" /\ row'[j] = "none")
    BY <1>1
  <2>2. QED
    BY <1>2, <2>1, RunsOKLasts
<1>8. ServerOK'
  BY DEF ServerOK
<1>9. CompleteIsWhole'
  <2>1. \A j \in Id : row'[j] = "complete" => row[j] = "complete" /\ arch'[j] = arch[j]
    BY <1>1
  <2>2. QED
    BY <2>1, Parts DEF CompleteIsWhole
<1>10. PruneOK'
  <2>1. \A q \in Process : \A j \in Newer(q) : row'[j] = "complete" \/ j \in deleted'
    BY DEF Newer, history
  <2>2. QED
    BY <1>2, <2>1, PruneLasts
<1>11. QED
  BY <1>4, <1>5, <1>6, <1>7, <1>8, <1>9, <1>10 DEF BackupInv

LEMMA DeleteFileStep == ASSUME BackupInv, DeleteFile PROVE BackupInv'
<1>1. /\ boot = "up" /\ del # NoId /\ Removed({del}) /\ del' = NoId
      /\ UNCHANGED <<row, temp, made, run, boot, seen, staged, restores, boots, history>>
  BY DEF DeleteFile
<1>2. del \in Id /\ row[del] = "none"
  BY <1>1 DEF BackupInv, BackupTypeOK, ServerOK
<1>3. temp' \subseteq Id /\ seen' \subseteq Id
  BY <1>1 DEF BackupInv, BackupTypeOK
<1>4. {del} \in SUBSET Id /\ \A i \in {del} : row[i] = "none"
  BY <1>2
<1>5. boot' = "up" /\ boot \in {"sweep", "up"}
  BY <1>1
<1>6. UNCHANGED <<row, made, run, staged, restores, boots, history>>
  BY <1>1
<1>7. QED
  BY <1>1, <1>3, <1>4, <1>5, <1>6, RemovingStep

LEMMA SweepDiskStep == ASSUME BackupInv, SweepDisk PROVE BackupInv'
<1>1. /\ boot = "sweep" /\ boot' = "up" /\ seen' = {}
      /\ UNCHANGED <<row, made, run, del, staged, restores, boots, history>>
  BY DEF SweepDisk
<1>2. seen \subseteq Id /\ temp \subseteq Id
  BY DEF BackupInv, BackupTypeOK
<1>3. PICK S \in SUBSET Id : (\A i \in S : row[i] = "none") /\ Removed(S) /\ temp' \subseteq Id
  <2>1. CASE Removed({i \in seen : Orphaned(i)}) /\ temp' = temp \ seen
    <3>1. {i \in seen : Orphaned(i)} \in SUBSET Id
      BY <1>2
    <3>2. \A i \in {j \in seen : Orphaned(j)} : row[i] = "none"
      BY DEF Orphaned
    <3>3. QED
      BY <1>2, <2>1, <3>1, <3>2
  <2>2. CASE UNCHANGED disk
    <3>1. arch \in [Id -> {"none", "part", "whole"}] /\ snap \in [Id -> [Id -> Status]]
      BY Parts
    <3>2. arch' = [i \in Id |-> arch[i]] /\ snap' = [i \in Id |-> snap[i]]
      BY <2>2, <3>1 DEF disk
    <3>3. Removed({})
      BY <3>2 DEF Removed
    <3>4. temp' \subseteq Id
      BY <1>2, <2>2 DEF disk
    <3>5. QED
      BY <3>3, <3>4
  <2>3. QED
    BY <2>1, <2>2 DEF SweepDisk
<1>4. del' = NoId
  <2>1. del = NoId
    BY <1>1 DEF BackupInv, ServerOK
  <2>2. QED
    BY <1>1, <2>1
<1>5. UNCHANGED <<row, made, run, staged, restores, boots, history>> /\ seen' \subseteq Id
      /\ boot \in {"sweep", "up"} /\ boot' = "up"
  BY <1>1
<1>6. QED
  BY <1>3, <1>4, <1>5, RemovingStep

\* The steps that leave the disk alone, and the rows as they are but for those
\* still running.
LEMMA TableStep ==
    ASSUME BackupInv, UNCHANGED <<disk, made, restores, boots, deleted>>,
           run' \in [Process -> Run], \A q \in Process : run'[q] = run[q] \/ run'[q] = NoRun,
           row' \in [Id -> Status],
           \A j \in Id : /\ row[j] = "none" <=> row'[j] = "none"
                         /\ row[j] = "complete" <=> row'[j] = "complete",
           boot' \in BootStage, seen' \subseteq Id, del' \in {del, NoId}, left' \subseteq Id,
           staged' \in SUBSET [Id -> Status], Cardinality(staged') <= 1,
           \A t \in staged' : TableOK(t), staged' # {} => restores < MaxRestores,
           ServerOK'
    PROVE  BackupInv'
<1>1. made \in Nat
  BY Parts
<1>2. \A j \in Id : Done(j) => Done(j)'
  BY DoneLasts DEF disk
<1>3. TablesOK'
  <2>1. TablesOK
    BY Parts
  <2>2. ASSUME NEW t, TableOK(t)
        PROVE  \A j \in Id : (t[j] # "none" => j <= made') /\ (t[j] = "complete" => Done(j)')
    BY <1>1, <1>2, <2>2, TableStays
  <2>3. TableOK(row)'
    BY <2>1, <2>2 DEF TablesOK, TableOK
  <2>4. ASSUME NEW i \in Id PROVE TableOK(snap[i])'
    <3>1. TableOK(snap[i]) /\ snap' = snap
      BY <2>1 DEF TablesOK, disk
    <3>2. QED
      BY <3>1, <2>2 DEF TableOK
  <2>5. ASSUME NEW t \in staged' PROVE TableOK(t)'
    BY <2>2 DEF TableOK
  <2>6. QED
    BY <2>3, <2>4, <2>5 DEF TablesOK
<1>4. /\ RunsTyped'
      /\ \A q \in Process : run'[q].pc # "idle" => run'[q].id = made
      /\ \A q, o \in Process : run'[q].pc # "idle" /\ run'[o].pc # "idle" => q = o
  BY RunsLast
<1>5. BackupTypeOK'
  <2>1. BackupTypeOK
    BY DEF BackupInv
  <2>2. del' \in Id \cup {NoId}
    BY <2>1 DEF BackupTypeOK
  <2>3. QED
    BY <1>4, <2>1, <2>2 DEF BackupTypeOK, disk
<1>6. RunsOK'
  <2>1. \A j \in Id : arch'[j] = arch[j]
    BY DEF disk
  <2>2. QED
    BY <2>1, RunsOKLasts
<1>7. PruneOK'
  <2>1. \A q \in Process : \A j \in Newer(q) : row'[j] = "complete" \/ j \in deleted'
    BY DEF Newer
  <2>2. QED
    BY <2>1, PruneLasts
<1>8. CompleteIsWhole'
  BY Parts DEF CompleteIsWhole, disk
<1>9. QED
  BY <1>3, <1>4, <1>5, <1>6, <1>7, <1>8 DEF BackupInv

\* What such a step takes from the invariant before it.
LEMMA TableParts ==
    ASSUME BackupInv
    PROVE  /\ row \in [Id -> Status] /\ run \in [Process -> Run] /\ boot \in BootStage
           /\ seen \subseteq Id /\ left \subseteq Id /\ made \in Id \cup {NoId}
           /\ staged \in SUBSET [Id -> Status] /\ Cardinality(staged) <= 1
           /\ \A t \in staged : TableOK(t)
           /\ staged # {} => restores < MaxRestores
           /\ \A i \in Id : TableOK(snap[i]) /\ snap[i] \in [Id -> Status]
           /\ ServerOK
<1>1. made \in Id \cup {NoId}
  <2>1. made \in 0..MaxBackups
    BY DEF BackupInv, BackupTypeOK
  <2>2. QED
    BY <2>1, BackupAssumption DEF Id, NoId
<1>2. QED
  BY <1>1 DEF BackupInv, BackupTypeOK, TablesOK

LEMMA StageStep == ASSUME BackupInv, Stage PROVE BackupInv'
<1>1. /\ restores < MaxRestores
      /\ UNCHANGED <<row, disk, made, run, server, restores, boots, history>>
  BY DEF Stage
<1>2. PICK i \in Id : staged' = {snap[i]}
  BY DEF Stage, Complete
<1>3. TableOK(snap[i]) /\ snap[i] \in [Id -> Status]
  BY TableParts
<1>4. Cardinality(staged') <= 1 /\ staged' \in SUBSET [Id -> Status]
      /\ \A t \in staged' : TableOK(t)
  <2>1. Cardinality(staged') = 1
    BY <1>2, FS_Singleton
  <2>2. QED
    BY <1>2, <1>3, <2>1
<1>5. ServerOK'
  BY <1>1, TableParts DEF ServerOK, server
<1>6. UNCHANGED <<disk, made, restores, boots, deleted, row, run, boot, seen, del, left>>
  BY <1>1 DEF server, history
<1>7. QED
  BY <1>1, <1>4, <1>5, <1>6, TableParts, TableStep

LEMMA StopStep == ASSUME BackupInv, Stop PROVE BackupInv'
<1>1. /\ boots < MaxBoots /\ boot' = "down" /\ run' = [run EXCEPT !["server"] = NoRun]
      /\ del' = NoId /\ seen' = {}
      /\ UNCHANGED <<row, disk, made, staged, restores, boots, history>>
  BY DEF Stop
<1>2. NoRun \in Run /\ "server" \in Process /\ "down" \in BootStage
  BY DEF NoRun, Run, Process, BootStage
<1>3. run' \in [Process -> Run] /\ run'["server"] = NoRun
      /\ \A q \in Process : run'[q] = run[q] \/ run'[q] = NoRun
  BY <1>1, <1>2, TableParts
<1>4. ServerOK'
  BY <1>1, <1>3 DEF ServerOK
<1>5. UNCHANGED <<disk, made, restores, boots, deleted, row, left, staged>>
  BY <1>1 DEF history
<1>6. boot' \in BootStage /\ seen' \subseteq Id /\ del' \in {del, NoId}
  BY <1>1, <1>2
<1>7. QED
  BY <1>3, <1>4, <1>5, <1>6, TableParts, TableStep

LEMMA KillCliStep == ASSUME BackupInv, KillCli PROVE BackupInv'
<1>1. /\ run["cli"].pc # "idle" /\ left' = left \cup {run["cli"].id}
      /\ run' = [run EXCEPT !["cli"] = NoRun]
      /\ UNCHANGED <<row, disk, made, server, staged, restores, boots, deleted>>
  BY DEF KillCli, At
<1>2. NoRun \in Run /\ "cli" \in Process /\ "cli" # "server"
  BY DEF NoRun, Run, Process
<1>3. run' \in [Process -> Run] /\ run'["server"] = run["server"]
      /\ \A q \in Process : run'[q] = run[q] \/ run'[q] = NoRun
  BY <1>1, <1>2, TableParts DEF Process
<1>4. left' \subseteq Id
  BY <1>1, <1>2, Alone, TableParts
<1>5. ServerOK'
  BY <1>1, <1>3, TableParts DEF ServerOK, server
<1>6. UNCHANGED <<disk, made, restores, boots, deleted, row, boot, seen, del, staged>>
  BY <1>1 DEF server
<1>7. QED
  BY <1>3, <1>4, <1>5, <1>6, TableParts, TableStep

LEMMA ReconcileStep == ASSUME BackupInv, Reconcile PROVE BackupInv'
<1>1. /\ boot = "reconcile" /\ boot' = "look"
      /\ UNCHANGED <<disk, made, run, seen, del, staged, restores, boots, deleted>>
  BY DEF Reconcile
<1>2. /\ row' \in [Id -> Status]
      /\ \A j \in Id : /\ row[j] = "none" <=> row'[j] = "none"
                       /\ row[j] = "complete" <=> row'[j] = "complete"
  <2>1. row \in [Id -> Status]
    BY TableParts
  <2>2. CASE row' = [i \in Id |-> Reconciled(row[i])]
    <3>1. \A i \in Id : Reconciled(row[i]) \in Status
      BY <2>1 DEF Reconciled, Status
    <3>2. QED
      BY <2>1, <2>2, <3>1 DEF Reconciled
  <2>3. CASE row' = row
    BY <2>1, <2>3
  <2>4. QED
    BY <2>2, <2>3 DEF Reconcile
<1>3. left' \subseteq Id
  BY TableParts DEF Reconcile
<1>4. ServerOK'
  BY <1>1, TableParts DEF ServerOK
<1>5. boot' \in BootStage
  BY <1>1 DEF BootStage
<1>6. UNCHANGED <<disk, made, restores, boots, deleted, run, seen, del, staged>>
  BY <1>1
<1>7. QED
  BY <1>2, <1>3, <1>4, <1>5, <1>6, TableParts, TableStep

LEMMA LookAtDiskStep == ASSUME BackupInv, LookAtDisk PROVE BackupInv'
<1>1. /\ boot = "look" /\ boot' = "sweep" /\ seen' \subseteq Id
      /\ UNCHANGED <<row, disk, made, run, del, staged, restores, boots, history>>
  BY DEF LookAtDisk
<1>2. ServerOK'
  BY <1>1, TableParts DEF ServerOK
<1>3. boot' \in BootStage
  BY <1>1 DEF BootStage
<1>4. UNCHANGED <<disk, made, restores, boots, deleted, run, row, del, staged, left>>
  BY <1>1 DEF history
<1>5. QED
  BY <1>1, <1>2, <1>3, <1>4, TableParts, TableStep

\* A restore brings back a table that says nothing of archives in the making.
LEMMA StartStep == ASSUME BackupInv, Start PROVE BackupInv'
<1>1. /\ boot = "down" /\ boots' = boots + 1 /\ boot' = "reconcile"
      /\ UNCHANGED <<disk, made, run, seen, del, history>>
  BY DEF Start
<1>2. run["server"] = NoRun /\ boots < MaxBoots /\ ServerOK /\ del = NoId
  BY <1>1, TableParts DEF ServerOK
<1>3. ServerOK'
  BY <1>1, <1>2 DEF ServerOK
<1>4. boots' \in 0..MaxBoots
  BY <1>1, <1>2, BackupAssumption DEF BackupInv, BackupTypeOK
<1>5. \A j \in Id : Done(j) => Done(j)'
  <2>1. \A j \in Id : arch'[j] = "part" => arch[j] = "part"
    BY <1>1 DEF disk
  <2>2. \A q \in Process : run'[q] = run[q]
    BY <1>1
  <2>3. QED
    BY <1>1, <2>1, <2>2, DoneLasts
<1>6. RunsTyped'
  BY <1>1 DEF RunsTyped, BackupInv
<1>7. boot' \in BootStage /\ made \in Nat /\ restores \in Nat
  BY <1>1, Parts DEF BootStage
<1>8. CASE staged = {}
  <2>1. UNCHANGED <<row, staged, restores>>
    BY <1>8 DEF Start
  <2>2. TablesOK'
    BY <1>1, <1>5, <1>7, <2>1, TablesStay DEF disk
  <2>3. BackupTypeOK'
    BY <1>1, <1>4, <1>7, <2>1 DEF BackupInv, BackupTypeOK, disk, history
  <2>4. RunsOK' /\ CompleteIsWhole'
    BY <1>1, <2>1, Parts DEF RunsOK, CompleteIsWhole, disk
  <2>5. PruneOK'
    BY <1>1, <2>1, Parts DEF PruneOK, At, Newer, history
  <2>6. QED
    BY <1>3, <1>6, <2>2, <2>3, <2>4, <2>5 DEF BackupInv
<1>9. CASE staged # {}
  <2>1. At("cli", "idle") /\ row' \in staged /\ staged' = {} /\ restores' = restores + 1
    BY <1>9 DEF Start
  <2>2. \A q \in Process : run[q] = NoRun /\ run[q].pc = "idle" /\ run[q].out = {}
    <3>1. NoRun.pc = "idle" /\ NoRun.out = {}
      BY DEF NoRun
    <3>2. run["cli"] = NoRun
      BY <2>1 DEF BackupInv, RunsTyped, At, Process
    <3>3. QED
      BY <1>2, <3>1, <3>2 DEF Process
  <2>3. row' \in [Id -> Status] /\ restores' \in 0..MaxRestores
    <3>1. restores < MaxRestores /\ row' \in [Id -> Status]
      BY <1>9, <2>1, TableParts
    <3>2. QED
      BY <1>7, <2>1, <3>1, BackupAssumption
  <2>4. TableOK(row')
    BY <2>1, TableParts
  <2>5. TableOK(row)'
    BY <1>1, <1>5, <2>4 DEF TableOK
  <2>6. TablesOK'
    <3>1. ASSUME NEW i \in Id PROVE TableOK(snap[i])'
      <4>1. TableOK(snap[i]) /\ snap' = snap /\ made' = made
        BY <1>1, TableParts DEF disk
      <4>2. QED
        BY <1>5, <4>1 DEF TableOK
    <3>2. QED
      BY <2>1, <2>5, <3>1 DEF TablesOK
  <2>7. BackupTypeOK'
    <3>1. Cardinality(staged') <= 1 /\ staged' \in SUBSET [Id -> Status]
      BY <2>1, FS_EmptySet
    <3>2. QED
      BY <1>1, <1>4, <1>7, <2>3, <3>1 DEF BackupInv, BackupTypeOK, disk, history
  <2>8. RunsOK' /\ PruneOK'
    BY <1>1, <2>2 DEF RunsOK, PruneOK, At
  <2>9. CompleteIsWhole'
    <3>1. arch \in [Id -> {"none", "part", "whole"}] /\ arch' = arch /\ restores' > 0
      BY <1>1, <1>7, <2>1, Parts DEF disk
    <3>2. \A i \in Id : row'[i] = "complete" => arch[i] # "part"
      BY <2>4 DEF TableOK, Done
    <3>3. QED
      BY <3>1, <3>2 DEF CompleteIsWhole
  <2>10. QED
    BY <1>3, <1>6, <2>6, <2>7, <2>8, <2>9 DEF BackupInv
<1>10. QED
  BY <1>8, <1>9

-----------------------------------------------------------------------------
LEMMA BackupStep == BackupInv /\ [BackupNext]_vars => BackupInv'
<1> SUFFICES ASSUME BackupInv, [BackupNext]_vars PROVE BackupInv'
  OBVIOUS
<1>1. ASSUME NEW p \in Process, Begin(p) \/ RunStep(p) PROVE BackupInv'
  BY <1>1, BeginStep, VacuumStep, OpenStep, FinishStep, MarkFailedStep, MarkCompleteStep,
     ListStep, PruneStep, UnlinkStep DEF RunStep
<1>2. CASE DeleteRow \/ DeleteFile \/ Stage
  BY <1>2, DeleteRowStep, DeleteFileStep, StageStep
<1>3. CASE Stop \/ KillCli
  BY <1>3, StopStep, KillCliStep
<1>4. CASE BootStep
  BY <1>4, StartStep, ReconcileStep, LookAtDiskStep, SweepDiskStep DEF BootStep
<1>5. CASE UNCHANGED vars
  <2>1. /\ UNCHANGED <<disk, made, restores, boots, deleted, run, row, boot, seen, del, left, staged>>
        /\ ServerOK'
    BY <1>5, TableParts DEF vars, server, history, ServerOK
  <2>2. QED
    BY <2>1, TableParts, TableStep
<1>6. QED
  BY <1>1, <1>2, <1>3, <1>4, <1>5 DEF BackupNext

\* Whatever runs, prunes, deletions, reconciliations, sweeps and restores come
\* between each other: a complete backup has its whole archive, or lost it
\* before a restore brought its row back (runner.go, backups.go, serve.go).
THEOREM BackupIsSound == BackupSpec => []BackupSound
<1>1. BackupInit => BackupInv
  BY BackupInitInv
<1>2. BackupInv => BackupSound
  BY DEF BackupInv, BackupSound
<1>3. QED
  BY <1>1, <1>2, BackupStep, PTL DEF BackupSpec

\* While a run prunes, only its own deletion takes a row.
LEMMA PruneKeepsNewest ==
    ASSUME BackupInv, [BackupNext]_vars, NEW p \in Process, NEW i \in Id,
           At(p, "prune"), run'[p] # run[p], row[i] = "complete", row'[i] = "none"
    PROVE  Cardinality({j \in Id : j > i /\ (row[j] = "complete" \/ j \in deleted)}) >= Retain
<1>1. run[p].pc = "prune"
  BY DEF At
<1>2. Prune(p)
  <2>1. CASE UNCHANGED vars
    BY <2>1 DEF vars
  <2>2. ASSUME NEW q \in Process, Begin(q) PROVE FALSE
    BY <1>1, <2>2 DEF Begin, Free, At
  <2>3. ASSUME NEW q \in Process, RunStep(q) PROVE q = p
    <3>1. run[q].pc # "idle"
      BY <2>3 DEF RunStep, Vacuum, Open, Finish, MarkFailed, MarkComplete, List, Prune, Unlink, At
    <3>2. QED
      BY <1>1, <3>1 DEF BackupInv, RunsTyped
  <2>4. RunStep(p) => Prune(p)
    BY <1>1 DEF RunStep, Vacuum, Open, Finish, MarkFailed, MarkComplete, List, Unlink, At
  <2>5. CASE DeleteRow \/ DeleteFile \/ Stage \/ BootStep
    BY <2>5 DEF DeleteRow, DeleteFile, Stage, BootStep, Start, Reconcile, LookAtDisk, SweepDisk
  <2>6. CASE Stop \/ KillCli
    BY <2>6 DEF Stop, KillCli
  <2>7. QED
    BY <2>1, <2>2, <2>3, <2>4, <2>5, <2>6 DEF BackupNext
<1>3. /\ Cardinality(Newer(p)) >= Retain
      /\ \A j \in Newer(p) : j \in Id /\ Newest(run[p].old) < j
      /\ i # Newest(run[p].old) => row'[i] = row[i]
  BY <1>2, PruneDeletes, TableParts
<1>4. i = Newest(run[p].old)
  BY <1>3
<1> DEFINE later == {j \in Id : j > i /\ (row[j] = "complete" \/ j \in deleted)}
<1>5. Newer(p) \subseteq later /\ Newer(p) \subseteq Id /\ later \subseteq Id
  <2>1. \A j \in Id : j \in Nat
    BY BackupAssumption DEF Id
  <2>2. \A j \in Newer(p) : j > i
    BY <1>3, <1>4, <2>1
  <2>3. QED
    BY <2>2 DEF Newer
<1>6. QED
  BY <1>3, <1>5, CountGrows

\* The prune gives up a complete backup for at least as many newer ones as are
\* to be kept, though rows are deleted while it is under way (DeleteOldest in
\* backups.go, prune in runner.go).
THEOREM NewestAreKept == BackupSpec => KeepsNewest
<1>1. BackupInit => BackupInv
  BY BackupInitInv
<1>2. BackupInv /\ [BackupNext]_vars =>
        [\A p \in Process, i \in Id :
           At(p, "prune") /\ run'[p] # run[p] /\ row[i] = "complete" /\ row'[i] = "none" =>
             Cardinality({j \in Id : j > i /\ (row[j] = "complete" \/ j \in deleted)}) >= Retain]_vars
  BY PruneKeepsNewest
<1>3. QED
  BY <1>1, <1>2, BackupStep, PTL DEF BackupSpec, KeepsNewest

-----------------------------------------------------------------------------
(* StagedRestore.                                                          *)

\* The directory holds a restore that the next boot will apply.
Pending == dir.side /\ ValidArchive

\* Uploads go with the server that receives them.
Quiet == stage # "up" => \A u \in Upload : ~InProgress(u)

CommandAlone == cli # NoUpload => stage = "down" /\ live # NoFile /\ ~cut

\* What each step of the boot relies on.
Applying ==
    /\ stage \in {"move", "companions", "extract", "extracting"} => Pending
    /\ stage \in {"companions", "extract"} => live = NoFile
    /\ stage = "extracting" => live # NoFile /\ ~cut
    /\ stage \in {"tidy", "up"} => live # NoFile /\ (live.whole \/ cut)

\* What is not whole is being written by a command, was left by one, or will be
\* written again.
Recoverable ==
    /\ live = NoFile \/ live.of \in Valid \cup {Old}
    /\ cut => live # NoFile
    /\ live.whole \/ cut \/ cli # NoUpload \/ Pending

OwnLog == stage # "companions" => torn \/ wal \in {NoUpload, live.of}

RestoreInv ==
    RestoreTypeOK /\ Quiet /\ CommandAlone /\ Applying /\ Recoverable /\ OwnLog

LEMMA RestoreInitInv == RestoreInit => RestoreInv
<1> SUFFICES ASSUME RestoreInit PROVE RestoreInv
  OBVIOUS
<1> USE RestoreAssumption DEF RestoreInit
<1>1. live \in File /\ live.whole /\ live.of = Old /\ live # NoFile
  BY DEF File, Data, NoFile
<1>6. kept \in [0..MaxTime -> File]
  BY DEF File
<1>7. dir \in Dir /\ ~dir.whole
  BY DEF Dir, NoDir
<1>2. up \in [Upload -> UploadStage] /\ stage \in ServerStage
  BY DEF UploadStage, ServerStage
<1>8. {crowded, hasty, torn, cut} \subseteq BOOLEAN
  OBVIOUS
<1>3. RestoreTypeOK
  BY <1>1, <1>2, <1>6, <1>7, <1>8 DEF RestoreTypeOK, Data
<1>4. Quiet /\ CommandAlone /\ Applying /\ Recoverable /\ OwnLog
  BY <1>1 DEF Quiet, CommandAlone, Applying, Recoverable, OwnLog
<1>5. QED
  BY <1>3, <1>4 DEF RestoreInv

LEMMA UploadKeepsRestoreInv ==
    ASSUME RestoreInv, NEW u \in Upload, BeginUpload(u) \/ UploadStep(u)
    PROVE  RestoreInv'
<1> USE RestoreAssumption
<1>7. stage = "up"
  BY DEF RestoreInv, Quiet, InProgress, BeginUpload, UploadStep, Clean, Create, Copy,
         Validate, WriteSidecar
<1>1. stage' = stage /\ cli' = cli /\ live' = live /\ cut' = cut
      /\ torn' = torn /\ wal' = wal /\ now' = now /\ kept' = kept /\ stops' = stops
      /\ hasty' = hasty
  BY DEF BeginUpload, UploadStep, Clean, Create, Copy, Validate, WriteSidecar, files, marks
<1>2. dir' \in Dir /\ (~dir'.there => dir' = NoDir) /\ (dir'.whole => dir'.arch # NoUpload)
  <2>1. dir \in Dir /\ (~dir.there => dir = NoDir) /\ (dir.whole => dir.arch # NoUpload)
    BY DEF RestoreInv, RestoreTypeOK
  <2>2. NoDir \in Dir /\ ~NoDir.whole
    BY DEF NoDir, Dir
  <2>3. CASE BeginUpload(u)
    BY <2>1, <2>3 DEF BeginUpload
  <2>4. CASE Clean(u)
    BY <2>4 DEF Clean, Emptied, NoDir, Dir
  <2>5. ASSUME NEW w \in BOOLEAN, dir.there, dir' = [dir EXCEPT !.arch = u, !.whole = w]
        PROVE  dir' \in Dir /\ dir'.there /\ dir'.arch # NoUpload
    BY <2>1, <2>5 DEF Dir
  <2>6. CASE Create(u)
    BY <2>2, <2>5, <2>6 DEF Create, Reject
  <2>7. CASE Copy(u)
    <3>1. CASE dir.arch = u /\ dir' = Written(u)
      <4>1. dir.there
        BY <2>1, <3>1 DEF NoDir
      <4>2. dir' = [dir EXCEPT !.whole = TRUE]
        BY <3>1 DEF Written
      <4>3. QED
        BY <2>1, <3>1, <4>1, <4>2 DEF Dir
    <3>2. CASE dir.arch # u \/ dir' # Written(u)
      BY <2>1, <2>2, <2>7, <3>2 DEF Copy, Reject, Written
    <3>3. QED
      BY <3>1, <3>2
  <2>8. CASE Validate(u)
    BY <2>1, <2>2, <2>8 DEF Validate, Reject
  <2>9. CASE WriteSidecar(u)
    <3>1. CASE dir.there /\ dir' = [dir EXCEPT !.side = TRUE]
      BY <2>1, <3>1 DEF Dir
    <3>2. QED
      BY <2>2, <2>9, <3>1 DEF WriteSidecar, Reject
  <2>10. QED
    BY <2>3, <2>4, <2>6, <2>7, <2>8, <2>9 DEF UploadStep
<1>5. up' \in [Upload -> UploadStage]
  BY DEF RestoreInv, RestoreTypeOK, BeginUpload, UploadStep, Clean, Create, Copy,
         Validate, WriteSidecar, files, marks, MoveOn, Reject, UploadStage
<1>6. crowded' \in BOOLEAN
  BY DEF RestoreInv, RestoreTypeOK, BeginUpload, UploadStep, Clean, Create, Copy,
         Validate, WriteSidecar, marks
<1>3. RestoreTypeOK'
  BY <1>1, <1>2, <1>5, <1>6 DEF RestoreInv, RestoreTypeOK
<1>4. QED
  BY <1>1, <1>3, <1>7
     DEF RestoreInv, RestoreTypeOK, Quiet, CommandAlone, Applying, Recoverable, OwnLog

\* The server's own steps.
LEMMA ServingKeepsRestoreInv ==
    ASSUME RestoreInv, Work \/ StopCleanly \/ StartServer \/ Tick
    PROVE  RestoreInv'
<1> USE RestoreAssumption
<1>1. CASE Work
  <2>1. RestoreTypeOK'
    BY <1>1 DEF Work, marks, RestoreInv, RestoreTypeOK, File, NoFile
  <2>2. QED
    BY <1>1, <2>1 DEF Work, marks, RestoreInv, Quiet, InProgress, CommandAlone, Applying,
                      Recoverable, OwnLog, Pending, ValidArchive
<1>2. CASE StopCleanly
  <2>1. up' \in [Upload -> UploadStage] /\ \A u \in Upload : ~InProgress(u)'
    BY <1>2 DEF StopCleanly, Down, Ended, InProgress, RestoreInv, RestoreTypeOK, UploadStage
  <2>2. RestoreTypeOK'
    BY <1>2, <2>1 DEF StopCleanly, Down, marks, RestoreInv, RestoreTypeOK, ServerStage
  <2>3. QED
    BY <1>2, <2>1, <2>2
       DEF StopCleanly, Down, marks, RestoreInv, Quiet, CommandAlone, Applying, Recoverable,
           OwnLog, Pending, ValidArchive
<1>3. CASE StartServer
  <2>1. RestoreTypeOK'
    BY <1>3 DEF StartServer, files, marks, RestoreInv, RestoreTypeOK, ServerStage
  <2>2. QED
    BY <1>3, <2>1 DEF StartServer, files, marks, RestoreInv, Quiet, InProgress, CommandAlone,
                      Applying, Recoverable, OwnLog, Pending, ValidArchive
<1>4. CASE Tick
  <2>1. RestoreTypeOK'
    BY <1>4 DEF Tick, files, marks, RestoreInv, RestoreTypeOK
  <2>2. QED
    BY <1>4, <2>1 DEF Tick, files, marks, RestoreInv, Quiet, InProgress, CommandAlone,
                      Applying, Recoverable, OwnLog, Pending, ValidArchive
<1>5. QED
  BY <1>1, <1>2, <1>3, <1>4

LEMMA CommandKeepsRestoreInv ==
    ASSUME RestoreInv,
           CommandEnds \/ \E u \in Upload, force \in BOOLEAN : RestoreCommand(u, force)
    PROVE  RestoreInv'
<1> USE RestoreAssumption
<1>1. ASSUME NEW u \in Upload, NEW force \in BOOLEAN, RestoreCommand(u, force)
      PROVE  RestoreInv'
  <2>1. live' \in File /\ live' # NoFile /\ live'.of = u /\ u \in Valid
    BY <1>1 DEF RestoreCommand, File, NoFile, Data
  <2>4. hasty' \in BOOLEAN /\ torn' \in BOOLEAN /\ cut' \in BOOLEAN
    BY <1>1 DEF RestoreCommand
  <2>2. RestoreTypeOK'
    BY <1>1, <2>1, <2>4 DEF RestoreCommand, RestoreInv, RestoreTypeOK
  <2>3. QED
    BY <1>1, <2>1, <2>2
       DEF RestoreCommand, RestoreInv, Quiet, InProgress, CommandAlone, Applying,
           Recoverable, OwnLog
<1>2. CASE CommandDone
  <2>1. live \in File /\ live # NoFile
    BY <1>2 DEF CommandDone, RestoreInv, RestoreTypeOK, CommandAlone
  <2>2. live' \in File /\ live' # NoFile /\ live'.of = live.of /\ live'.whole
    BY <1>2, <2>1 DEF CommandDone, File, NoFile
  <2>3. RestoreTypeOK'
    BY <1>2, <2>2 DEF CommandDone, marks, RestoreInv, RestoreTypeOK
  <2>4. QED
    BY <1>2, <2>1, <2>2, <2>3
       DEF CommandDone, marks, RestoreInv, Quiet, InProgress, CommandAlone, Applying,
           Recoverable, OwnLog
<1>3. CASE CommandBroken
  <2>1. RestoreTypeOK'
    BY <1>3 DEF CommandBroken, files, RestoreInv, RestoreTypeOK
  <2>2. QED
    BY <1>3, <2>1 DEF CommandBroken, files, RestoreInv, Quiet, InProgress, CommandAlone,
                      Applying, Recoverable, OwnLog
<1>4. QED
  BY <1>1, <1>2, <1>3 DEF CommandEnds

LEMMA NoDirIsDir == NoDir \in Dir /\ ~NoDir.whole /\ ~NoDir.side
BY DEF NoDir, Dir

\* A restore that dies, or fails to remove its directory, leaves a directory.
LEMMA PartlyRemovedIsDir ==
    ASSUME RestoreInv, NEW d \in PartlyRemoved
    PROVE  d \in Dir /\ (~d.there => d = NoDir) /\ (d.whole => d.arch # NoUpload)
<1>1. dir \in Dir /\ (~dir.there => dir = NoDir) /\ (dir.whole => dir.arch # NoUpload)
  BY DEF RestoreInv, RestoreTypeOK
<1>2. CASE ~dir.there
  <2>1. /\ [NoDir EXCEPT !.side = FALSE] = NoDir
        /\ [NoDir EXCEPT !.arch = NoUpload, !.whole = FALSE] = NoDir
    <3>1. \A r \in Dir : ~r.side => [r EXCEPT !.side = FALSE] = r
      BY DEF Dir
    <3>2. \A r \in Dir : r.arch = NoUpload /\ ~r.whole =>
             [r EXCEPT !.arch = NoUpload, !.whole = FALSE] = r
      BY DEF Dir
    <3>3. NoDir.arch = NoUpload
      BY DEF NoDir
    <3>4. QED
      BY <3>1, <3>2, <3>3, NoDirIsDir
  <2>2. dir = NoDir
    BY <1>1, <1>2
  <2>3. PartlyRemoved = {NoDir, [NoDir EXCEPT !.side = FALSE],
                         [NoDir EXCEPT !.arch = NoUpload, !.whole = FALSE]}
    BY <2>2, Zenon DEF PartlyRemoved
  <2>4. d = NoDir
    BY <2>1, <2>3
  <2>5. QED
    BY <2>4, NoDirIsDir
<1>3. CASE dir.there
  BY <1>1, <1>3 DEF PartlyRemoved, Dir
<1>4. QED
  BY <1>2, <1>3

LEMMA DieKeepsRestoreInv == RestoreInv /\ Die => RestoreInv'
<1> SUFFICES ASSUME RestoreInv, Die PROVE RestoreInv'
  OBVIOUS
<1> USE RestoreAssumption
<1>1. up' \in [Upload -> UploadStage] /\ \A u \in Upload : ~InProgress(u)'
  BY DEF Die, Down, Ended, InProgress, RestoreInv, RestoreTypeOK, UploadStage
<1>2. dir' \in Dir /\ (~dir'.there => dir' = NoDir) /\ (dir'.whole => dir'.arch # NoUpload)
  BY PartlyRemovedIsDir DEF Die, RestoreInv, RestoreTypeOK
<1>3. torn' \in BOOLEAN /\ stage' = "down" /\ stops' \in 0..MaxStops
  BY DEF Die, Down, RestoreInv, RestoreTypeOK
<1>4. RestoreTypeOK'
  BY <1>1, <1>2, <1>3 DEF Die, files, RestoreInv, RestoreTypeOK, ServerStage
<1>5. Recoverable'
  BY DEF Die, Down, files, RestoreInv, RestoreTypeOK, ServerStage, Recoverable, Applying, Pending,
         ValidArchive, CommandAlone
<1>6. OwnLog'
  BY DEF Die, Down, files, RestoreInv, OwnLog, Applying
<1>7. QED
  BY <1>1, <1>3, <1>4, <1>5, <1>6
     DEF Die, files, RestoreInv, Quiet, CommandAlone, Applying

LEMMA BootKeepsRestoreInv ==
    ASSUME RestoreInv,
           Check \/ Move \/ MoveCompanions \/ Extract \/ Extracted \/ Tidy
    PROVE  RestoreInv'
<1> USE RestoreAssumption
<1>1. cli = NoUpload /\ cli' = NoUpload /\ up' = up /\ now' = now /\ stops' = stops
  BY DEF RestoreInv, CommandAlone, Check, Move, MoveCompanions, Extract, Extracted, Tidy,
         files, marks
<1>2. CASE Check
  <2>1. dir' = dir \/ dir' = NoDir
    BY <1>2 DEF Check
  <2>2. RestoreTypeOK'
    BY <1>2, <2>1, NoDirIsDir DEF Check, files, marks, RestoreInv, RestoreTypeOK, ServerStage
  <2>3. Applying'
    BY <1>1, <1>2, <2>1 DEF Check, files, marks, RestoreInv, Applying, Recoverable, Pending, ValidArchive, NoFile
  <2>4. QED
    BY <1>1, <1>2, <2>2, <2>3
       DEF Check, files, marks, RestoreInv, Quiet, InProgress, CommandAlone, Recoverable,
           OwnLog, Applying, Pending, ValidArchive
<1>3. CASE Move
  <2>1. kept' \in [0..MaxTime -> File] /\ live' = NoFile /\ live' \in File
    BY <1>3 DEF Move, Kept, File, RestoreInv, RestoreTypeOK
  <2>2. hasty' \in BOOLEAN /\ cut' \in BOOLEAN /\ stage' \in {"extract", "companions"}
    BY <1>3 DEF Move, RestoreInv, RestoreTypeOK
  <2>3. RestoreTypeOK'
    BY <1>1, <1>3, <2>1, <2>2 DEF Move, RestoreInv, RestoreTypeOK, ServerStage
  <2>4. dir' = dir /\ wal' = wal /\ torn' = torn /\ Pending /\ ~cut'
    BY <1>3 DEF Move, RestoreInv, Applying, Recoverable
  <2>5. OwnLog'
    BY <1>3, <2>1, <2>4 DEF Move, RestoreInv, OwnLog
  <2>6. QED
    BY <1>1, <1>3, <2>1, <2>2, <2>3, <2>4, <2>5
       DEF RestoreInv, Quiet, InProgress, CommandAlone, Recoverable, Applying, Pending,
           ValidArchive, Move
<1>4. CASE MoveCompanions
  <2>1. RestoreTypeOK'
    BY <1>1, <1>4 DEF MoveCompanions, RestoreInv, RestoreTypeOK, ServerStage
  <2>2. QED
    BY <1>1, <1>4, <2>1
       DEF MoveCompanions, RestoreInv, Quiet, InProgress, CommandAlone, Recoverable, Applying,
           Pending, ValidArchive, OwnLog
<1>5. CASE Extract
  <2>1. dir.arch \in Valid /\ live' = [of |-> dir.arch, whole |-> FALSE] /\ live = NoFile
        /\ dir' = dir /\ Pending /\ ~cut
    BY <1>5 DEF Extract, RestoreInv, Applying, Pending, ValidArchive, Recoverable
  <2>2. live' \in File /\ live' # NoFile /\ live'.of \in Valid /\ ~live'.whole
    BY <2>1 DEF File, Data, NoFile
  <2>3. RestoreTypeOK'
    BY <1>1, <1>5, <2>2 DEF Extract, marks, RestoreInv, RestoreTypeOK, ServerStage
  <2>4. OwnLog'
    BY <1>5, <2>1 DEF Extract, marks, RestoreInv, OwnLog, NoFile
  <2>5. QED
    BY <1>1, <1>5, <2>1, <2>2, <2>3, <2>4
       DEF Extract, marks, RestoreInv, Quiet, InProgress, CommandAlone, Recoverable, Applying,
           Pending, ValidArchive
<1>6. CASE Extracted
  <2>1. live \in File /\ live # NoFile /\ live.of \in Valid \cup {Old}
    BY <1>6 DEF Extracted, RestoreInv, RestoreTypeOK, Applying, Recoverable
  <2>2. live' \in File /\ live' # NoFile /\ live'.of = live.of /\ live'.whole
    BY <1>6, <2>1 DEF Extracted, File, NoFile
  <2>3. RestoreTypeOK'
    BY <1>1, <1>6, <2>2 DEF Extracted, marks, RestoreInv, RestoreTypeOK, ServerStage
  <2>4. QED
    BY <1>1, <1>6, <2>1, <2>2, <2>3
       DEF Extracted, marks, RestoreInv, Quiet, InProgress, CommandAlone, Recoverable, Applying,
           OwnLog
<1>7. CASE Tidy
  <2>1. dir' \in Dir /\ (~dir'.there => dir' = NoDir) /\ (dir'.whole => dir'.arch # NoUpload)
    BY <1>7, PartlyRemovedIsDir, NoDirIsDir DEF Tidy
  <2>2. RestoreTypeOK'
    BY <1>1, <1>7, <2>1 DEF Tidy, files, marks, RestoreInv, RestoreTypeOK, ServerStage
  <2>3. QED
    BY <1>1, <1>7, <2>2
       DEF Tidy, files, marks, RestoreInv, Quiet, InProgress, CommandAlone, Recoverable,
           Applying, OwnLog
<1>8. QED
  BY <1>2, <1>3, <1>4, <1>5, <1>6, <1>7

LEMMA RestoreInvStep == RestoreInv /\ [RestoreNext]_restoreVars => RestoreInv'
<1> SUFFICES ASSUME RestoreInv, [RestoreNext]_restoreVars PROVE RestoreInv'
  OBVIOUS
<1>1. CASE UNCHANGED restoreVars
  BY <1>1
     DEF restoreVars, marks, RestoreInv, RestoreTypeOK, Quiet, InProgress, CommandAlone,
         Applying, Recoverable, OwnLog, Pending, ValidArchive
<1>2. CASE RestoreNext
  BY <1>2, UploadKeepsRestoreInv, ServingKeepsRestoreInv, CommandKeepsRestoreInv,
     DieKeepsRestoreInv, BootKeepsRestoreInv DEF RestoreNext, ServerStep
<1>3. QED
  BY <1>1, <1>2

\* What the server serves after any sequence of uploads, deaths, boots and
\* commands is one whole database, unless a command was cut short, with its own
\* log, unless the old one was left behind: by a boot that died or failed between
\* its two renames, or by a command (restore.go, serve.go).
THEOREM RestoreIsSound == RestoreSpec => []RestoreSound
<1>1. RestoreInv => RestoreSound
  BY DEF RestoreInv, RestoreSound, ServesWhole, Applying, Recoverable, OwnLog
<1>2. QED
  BY <1>1, RestoreInitInv, RestoreInvStep, PTL DEF RestoreSpec

\* The database from before the first restore is in place or moved aside, unless
\* a second file got its name or a command overwrote one (restore.go:368).
THEOREM OldDoesSurvive == RestoreSpec => []OldSurvives
<1>1. RestoreInit => OldSurvives
  BY DEF RestoreInit, OldSurvives, SomewhereOld, IsOld
<1>2. ASSUME RestoreInv, OldSurvives, [RestoreNext]_restoreVars PROVE OldSurvives'
  <2> USE RestoreAssumption
  <2>1. CASE live' = live /\ kept' = kept /\ hasty' = hasty
    BY <1>2, <2>1 DEF OldSurvives, SomewhereOld, IsOld
  <2>2. CASE Move
    <3>1. CASE live = NoFile
      BY <1>2, <2>2, <3>1 DEF Move, OldSurvives, SomewhereOld, IsOld
    <3>2. CASE live # NoFile /\ kept[now] # NoFile
      BY <1>2, <2>2, <3>2 DEF Move, OldSurvives
    <3>3. CASE live # NoFile /\ kept[now] = NoFile
      <4>1. now \in 0..MaxTime /\ kept \in [0..MaxTime -> File]
        BY <1>2 DEF RestoreInv, RestoreTypeOK
      <4>2. kept'[now] = live /\ \A t \in 0..MaxTime : t # now => kept'[t] = kept[t]
        BY <2>2, <3>3, <4>1 DEF Move, Kept
      <4>3. ~IsOld(kept[now])
        BY <3>3 DEF IsOld, NoFile
      <4>4. QED
        BY <1>2, <2>2, <3>3, <4>1, <4>2, <4>3 DEF Move, OldSurvives, SomewhereOld, IsOld
    <3>4. QED
      BY <3>1, <3>2, <3>3
  <2>3. CASE Extract
    BY <1>2, <2>3 DEF Extract, marks, RestoreInv, Applying, NoFile, OldSurvives, SomewhereOld, IsOld
  <2>4. CASE Extracted \/ CommandDone
    <3>1. live \in File /\ kept' = kept /\ hasty' = hasty /\ live' = [live EXCEPT !.whole = TRUE]
      BY <1>2, <2>4 DEF Extracted, CommandDone, marks, RestoreInv, RestoreTypeOK
    <3>2. IsOld(live) => IsOld(live')
      BY <3>1 DEF IsOld, File, NoFile
    <3>3. QED
      BY <1>2, <3>1, <3>2 DEF OldSurvives, SomewhereOld, IsOld
  <2>5. ASSUME NEW u \in Upload, NEW force \in BOOLEAN, RestoreCommand(u, force)
        PROVE  OldSurvives'
    <3>1. CASE live = NoFile
      <4>1. ~IsOld(live)
        BY <3>1 DEF IsOld, NoFile
      <4>2. kept' = kept /\ (hasty => hasty')
        BY <2>5 DEF RestoreCommand
      <4>3. QED
        BY <1>2, <4>1, <4>2 DEF OldSurvives, SomewhereOld, IsOld
    <3>2. CASE live # NoFile
      BY <2>5, <3>2 DEF RestoreCommand, OldSurvives
    <3>3. QED
      BY <3>1, <3>2
  <2>6. QED
    BY <1>2, <2>1, <2>2, <2>3, <2>4, <2>5
       DEF RestoreNext, restoreVars, marks, files, BeginUpload, UploadStep, Clean, Create, Copy,
           Validate, WriteSidecar, CommandEnds, CommandBroken, Work, StopCleanly, Die,
           ServerStep, StartServer, Check, MoveCompanions, Tidy, Tick
<1>3. QED
  BY <1>1, <1>2, RestoreInitInv, RestoreInvStep, PTL DEF RestoreSpec
====

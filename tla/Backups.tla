------------------------------- MODULE Backups -------------------------------
(***************************************************************************)
(* The managed backups: the runner that server and CLI share               *)
(* (internal/backup/runner.go over internal/db/backup.go), their table     *)
(* (internal/db/backups.go), the admin endpoints (internal/api/backup.go)  *)
(* and what the server does about them at boot (cmd/server/serve.go).      *)
(* StagedRestore has the files of a restore; here it is one step of boot.  *)
(***************************************************************************)
EXTENDS Naturals, FiniteSets

CONSTANTS
    MaxBackups,   \* how many are made
    Retain,       \* BACKUP_RETAIN_COUNT
    MaxRestores,  \* how many restores are applied
    MaxBoots,     \* how often the server is started again
    DbMayFail     \* whether a statement may fail for reasons of its own

ASSUME BackupAssumption ==
    /\ MaxBackups \in Nat
    /\ Retain \in Nat \ {0}
    /\ MaxRestores \in Nat
    /\ MaxBoots \in Nat
    /\ DbMayFail \in BOOLEAN

\* Rows in the order of created_at.
Id == 1..MaxBackups
NoId == 0

VARIABLES
    row,      \* the table, in the live database
    arch,     \* the archives in BackupDir
    temp,     \* the VACUUM INTO files in BackupDir, by the run that made them
    snap,     \* the table inside each archive's copy of the database
    made,     \* rows made so far
    run,      \* the run in progress of each process
    boot,     \* how far the server is
    seen,     \* what the boot sweep has read of BackupDir
    del,      \* the row whose archive the Delete handler has still to remove
    staged,   \* the table in the archive staged for a restore, if there is one
    restores, boots,
    deleted,  \* history: rows deleted by an admin
    left      \* history: runs that ended without a word in the table

disk == <<arch, temp, snap>>
server == <<boot, seen, del>>
history == <<deleted, left>>
vars == <<row, disk, made, run, server, staged, restores, boots, history>>

\* The CLI is a process of its own, with a runner of its own.
Process == {"server", "cli"}

Status == {"none", "running", "complete", "failed"}

\* "old": rows that the prune has still to delete; "out": archives of rows it
\* has deleted.
NoRun == [pc |-> "idle", id |-> NoId, old |-> {}, out |-> {}]
Run == [pc : {"idle", "begun", "vacuumed", "writing", "written", "failing",
              "list", "prune", "unlink"},
        id : Id \cup {NoId}, old : SUBSET Id, out : SUBSET Id]

\* The process is killed: "down".
BootStage == {"down", "reconcile", "look", "sweep", "up"}

BackupTypeOK ==
    /\ row \in [Id -> Status]
    /\ arch \in [Id -> {"none", "part", "whole"}]
    /\ temp \subseteq Id
    /\ snap \in [Id -> [Id -> Status]]
    /\ made \in 0..MaxBackups
    /\ run \in [Process -> Run]
    /\ \A p \in Process : run[p].pc # "idle" => run[p].id = made
    /\ \A p, o \in Process : run[p].pc # "idle" /\ run[o].pc # "idle" => p = o
    /\ boot \in BootStage
    /\ seen \subseteq Id
    /\ del \in Id \cup {NoId}
    /\ staged \in SUBSET [Id -> Status] /\ Cardinality(staged) <= 1
    /\ restores \in 0..MaxRestores
    /\ boots \in 0..MaxBoots
    /\ deleted \subseteq Id
    /\ left \subseteq Id

NoRows == [i \in Id |-> "none"]

BackupInit ==
    /\ row = NoRows
    /\ arch = [i \in Id |-> "none"]
    /\ temp = {}
    /\ snap = [i \in Id |-> NoRows]
    /\ made = 0
    /\ run = [p \in Process |-> NoRun]
    /\ boot = "up"
    /\ seen = {}
    /\ del = NoId
    /\ staged = {}
    /\ restores = 0
    /\ boots = 0
    /\ deleted = {}
    /\ left = {}

-----------------------------------------------------------------------------
(* Runner.begin and Runner.runBody.                                        *)

At(p, pc) == run[p].pc = pc
Goto(p, pc) == run' = [run EXCEPT ![p] = IF pc = "idle" THEN NoRun ELSE [@ EXCEPT !.pc = pc]]

\* Archives removed from the directory, if they are there.
Removed(S) ==
    /\ arch' = [i \in Id |-> IF i \in S THEN "none" ELSE arch[i]]
    /\ snap' = [i \in Id |-> IF i \in S /\ arch[i] = "whole" THEN NoRows ELSE snap[i]]

\* The update of a row that may be gone by now.
Marked(i, status) == [row EXCEPT ![i] = IF @ = "none" THEN @ ELSE status]

\* The semaphore and then the lock on .backup.lock, for as long as the run
\* lasts or its process lives.
Free(p) == \A o \in Process : At(o, "idle")

\* A run refused for disk space leaves no trace; one
\* whose file name cannot be stored is marked failed at once, if it can be.
Begin(p) ==
    LET i == made + 1 IN
    /\ p = "server" => boot = "up"
    /\ Free(p)
    /\ made < MaxBackups
    /\ made' = i
    /\ \/ /\ row' = [row EXCEPT ![i] = "running"]
          /\ run' = [run EXCEPT ![p] = [NoRun EXCEPT !.pc = "begun", !.id = i]]
          /\ UNCHANGED left
       \/ /\ DbMayFail
          /\ \/ row' = [row EXCEPT ![i] = "failed"] /\ UNCHANGED left
             \/ row' = [row EXCEPT ![i] = "running"] /\ left' = left \cup {i}
          /\ UNCHANGED run
    /\ UNCHANGED <<disk, server, staged, restores, boots, deleted>>

\* runBody reads its row for the name of the archive: no row, no run, and a read
\* that fails ends it too.  The snapshot has the run's own row still running.
Vacuum(p) ==
    LET i == run[p].id IN
    /\ At(p, "begun")
    /\ \/ /\ row[i] # "none"
          /\ temp' = temp \cup {i}
          /\ snap' = [snap EXCEPT ![i] = row]
          /\ Goto(p, "vacuumed")
          /\ UNCHANGED left
       \/ /\ row[i] = "none"
          /\ Goto(p, "idle")
          /\ UNCHANGED <<temp, snap, left>>
       \/ /\ DbMayFail /\ row[i] # "none"
          /\ \/ Goto(p, "idle") /\ left' = left \cup {i}
             \/ Goto(p, "failing") /\ UNCHANGED left
          /\ UNCHANGED <<temp, snap>>
    /\ UNCHANGED <<row, arch, made, server, staged, restores, boots, deleted>>

\* The archive is created under its final name and the snapshot opened, by name
\* again.
Open(p) ==
    LET i == run[p].id IN
    /\ At(p, "vacuumed")
    /\ IF i \in temp THEN arch' = [arch EXCEPT ![i] = "part"] /\ Goto(p, "writing")
                     ELSE UNCHANGED arch /\ Goto(p, "failing")
    /\ UNCHANGED <<row, temp, snap, made, server, staged, restores, boots, history>>

\* The archive is read again for its hash, so it has to be there still.  The
\* disk may be full before that.
Finish(p) ==
    LET i == run[p].id IN
    /\ At(p, "writing")
    /\ \/ /\ arch[i] = "part"
          /\ arch' = [arch EXCEPT ![i] = "whole"]
          /\ Goto(p, "written")
       \/ /\ arch' = [arch EXCEPT ![i] = "none"]
          /\ Goto(p, "failing")
    /\ temp' = temp \ {i}
    /\ UNCHANGED <<row, snap, made, server, staged, restores, boots, history>>

\* A statement that fails leaves the row as it was: running.
Stuck(i) ==
    /\ DbMayFail
    /\ left' = left \cup {i}
    /\ UNCHANGED row

MarkFailed(p) ==
    LET i == run[p].id IN
    /\ At(p, "failing")
    /\ \/ row' = Marked(i, "failed") /\ UNCHANGED left
       \/ Stuck(i)
    /\ Removed({i})
    /\ Goto(p, "idle")
    /\ UNCHANGED <<temp, made, server, staged, restores, boots, deleted>>

\* Whatever the row says by then: a boot may have reconciled the CLI's to failed.
\* If the row is gone, or cannot be updated, the archive stays where it is.
MarkComplete(p) ==
    LET i == run[p].id IN
    /\ At(p, "written")
    /\ \/ /\ row' = Marked(i, "complete")
          /\ Goto(p, IF row[i] = "none" THEN "idle" ELSE "list")
          /\ UNCHANGED left
       \/ Stuck(i) /\ Goto(p, "idle")
    /\ UNCHANGED <<disk, made, server, staged, restores, boots, deleted>>

-----------------------------------------------------------------------------
(* The prune: DeleteOldest lists, deletes row by row, and only then are    *)
(* the archives removed.                                                   *)

Complete == {i \in Id : row[i] = "complete"}

\* As wrong code might have it: the newest are the surplus.
SurplusNewest == {i \in Complete : Cardinality({j \in Complete : j < i}) >= Retain}

Surplus == {i \in Complete : Cardinality({j \in Complete : j > i}) >= Retain}

Newest(S) == CHOOSE i \in S : \A j \in S : j <= i

List(p) ==
    /\ At(p, "list")
    /\ IF Surplus = {} THEN Goto(p, "idle")
       ELSE run' = [run EXCEPT ![p].pc = "prune", ![p].old = Surplus]
    /\ UNCHANGED <<row, disk, made, server, staged, restores, boots, history>>

\* When one deletion fails, the archives of the rows deleted before it stay.
Prune(p) ==
    LET r == run[p]
        i == Newest(r.old)
        rest == r.old \ {i}
    IN
    /\ At(p, "prune")
    /\ \/ /\ row' = [row EXCEPT ![i] = "none"]
          /\ run' = [run EXCEPT ![p] = [r EXCEPT !.old = rest, !.out = @ \cup {i},
                                                 !.pc = IF rest = {} THEN "unlink" ELSE @]]
       \/ DbMayFail /\ UNCHANGED row /\ Goto(p, "idle")
    /\ UNCHANGED <<disk, made, server, staged, restores, boots, history>>

Unlink(p) ==
    /\ At(p, "unlink")
    /\ \E i \in run[p].out :
         /\ Removed({i})
         /\ IF run[p].out = {i} THEN Goto(p, "idle")
                                ELSE run' = [run EXCEPT ![p].out = @ \ {i}]
    /\ UNCHANGED <<row, temp, made, server, staged, restores, boots, history>>

RunStep(p) ==
    \/ Vacuum(p) \/ Open(p) \/ Finish(p) \/ MarkFailed(p) \/ MarkComplete(p)
    \/ List(p) \/ Prune(p) \/ Unlink(p)

-----------------------------------------------------------------------------
(* The admin's endpoints.                                                  *)

\* Delete takes any row, a running one too.
DeleteRow ==
    /\ boot = "up" /\ del = NoId
    /\ \E i \in Id :
         /\ row[i] # "none"
         /\ row' = [row EXCEPT ![i] = "none"]
         /\ del' = i
         /\ deleted' = deleted \cup {i}
    /\ UNCHANGED <<disk, made, run, boot, seen, staged, restores, boots, left>>

DeleteFile ==
    /\ boot = "up" /\ del # NoId
    /\ Removed({del})
    /\ del' = NoId
    /\ UNCHANGED <<row, temp, made, run, boot, seen, staged, restores, boots, history>>

\* Download serves complete backups only; the admin uploads one for a restore.
Stage ==
    /\ boot = "up" /\ restores < MaxRestores
    /\ \E i \in Complete : arch[i] = "whole" /\ staged' = {snap[i]}
    /\ UNCHANGED <<row, disk, made, run, server, restores, boots, history>>

-----------------------------------------------------------------------------
(* The server's end and its boot.                                          *)

\* Shutdown waits for no backup, so the server's end is the same as a crash.
Stop ==
    /\ boots < MaxBoots /\ boot # "down"
    /\ boot' = "down"
    /\ run' = [run EXCEPT !["server"] = NoRun]
    /\ del' = NoId
    /\ seen' = {}
    /\ UNCHANGED <<row, disk, made, staged, restores, boots, history>>

\* What a killed CLI leaves is cleaned up at the next boot, whenever that is.
KillCli ==
    /\ ~At("cli", "idle")
    /\ left' = left \cup {run["cli"].id}
    /\ run' = [run EXCEPT !["cli"] = NoRun]
    /\ UNCHANGED <<row, disk, made, server, staged, restores, boots, deleted>>

\* A staged restore replaces the database, with its table of backups.  The
\* operator restarts the server for it while no CLI backup is running.
Start ==
    /\ boot = "down"
    /\ boots' = boots + 1
    /\ boot' = "reconcile"
    /\ IF staged = {} THEN UNCHANGED <<row, staged, restores>>
       ELSE /\ At("cli", "idle")
            /\ row' \in staged
            /\ staged' = {}
            /\ restores' = restores + 1
    /\ UNCHANGED <<disk, made, run, seen, del, history>>

\* As wrong code might have it.
NotReconciled(s) == s

Reconciled(s) == IF s = "running" THEN "failed" ELSE s

\* ReconcileRunning, a CLI's running backup included.  Boot goes on without it.
Reconcile ==
    /\ boot = "reconcile"
    /\ boot' = "look"
    /\ \/ row' = [i \in Id |-> Reconciled(row[i])] /\ UNCHANGED left
       \/ /\ DbMayFail
          /\ left' = left \cup {i \in Id : row[i] = "running"}
          /\ UNCHANGED row
    /\ UNCHANGED <<disk, made, run, seen, del, staged, restores, boots, deleted>>

\* sweepOrphanBackupArtifacts reads the directory before it lists the rows.
LookAtDisk ==
    /\ boot = "look"
    /\ seen' = {i \in Id : arch[i] # "none" \/ i \in temp}
    /\ boot' = "sweep"
    /\ UNCHANGED <<row, disk, made, run, del, staged, restores, boots, history>>

\* As wrong code might have it.
OrphanedUnlessComplete(i) == row[i] # "complete"

Orphaned(i) == row[i] = "none"

SweepDisk ==
    /\ boot = "sweep"
    /\ \/ /\ Removed({i \in seen : Orphaned(i)})
          /\ temp' = temp \ seen
       \/ DbMayFail /\ UNCHANGED disk
    /\ boot' = "up"
    /\ seen' = {}
    /\ UNCHANGED <<row, made, run, del, staged, restores, boots, history>>

BootStep == Start \/ Reconcile \/ LookAtDisk \/ SweepDisk

BackupNext ==
    \/ \E p \in Process : Begin(p) \/ RunStep(p)
    \/ DeleteRow \/ DeleteFile \/ Stage
    \/ Stop \/ KillCli \/ BootStep

\* Runs go on while their process lives; the server is started again when it
\* has stopped (docker-compose's restart policy), and boots.
BackupFairness ==
    /\ \A p \in Process : WF_vars(RunStep(p))
    /\ WF_vars(BootStep)

BackupSpec == BackupInit /\ [][BackupNext]_vars /\ BackupFairness

-----------------------------------------------------------------------------
\* A complete backup has its whole archive, whoever runs, prunes, deletes,
\* reconciles or sweeps meanwhile: Download hands out no half-written file.  A
\* restore brings back rows whose archives have been removed since, but never
\* one whose archive is in the making.
CompleteIsWhole ==
    \A i \in Id : row[i] = "complete" =>
        arch[i] = "whole" \/ (restores > 0 /\ arch[i] = "none")

\* Both of them.
BackupSound == BackupTypeOK /\ CompleteIsWhole

\* The prune gives up a backup for newer ones alone: as many as are to be kept,
\* those that an admin has deleted meanwhile included.
KeepsNewest ==
    [][\A p \in Process, i \in Id :
         At(p, "prune") /\ run'[p] # run[p] /\ row[i] = "complete" /\ row'[i] = "none" =>
             Cardinality({j \in Id : j > i /\ (row[j] = "complete" \/ j \in deleted)}) >= Retain]_vars

\* A running backup comes to an end in the table, by its run or by the next boot
\* of the server, except where the CLI was killed or a statement has failed:
\* these wait for a boot that need not come.
Awaited(i) == row[i] = "running" /\ i \notin left
RunningEnds == \A i \in Id : Awaited(i) ~> ~Awaited(i)
=============================================================================

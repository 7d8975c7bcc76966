---------------------------- MODULE StagedRestore ----------------------------
(***************************************************************************)
(* A restore file by file (internal/backup/restore.go): the upload that    *)
(* stages an archive, the boot that applies it before the database is      *)
(* opened (cmd/server/serve.go), and the restore command, which writes an  *)
(* archive over the data directory itself (cmd/server/restore.go,          *)
(* internal/db/backup.go).  The server may die between any two steps and   *)
(* is started again; the operator runs the command while it is stopped.    *)
(***************************************************************************)
EXTENDS Naturals, FiniteSets

CONSTANTS
    Upload,     \* the uploads, each of an archive of its own, which the
                \* operator may restore from as well
    NoUpload,
    Valid,      \* those whose archive passes ValidateArchive
    Old,        \* the data of the database that was there before
    MaxTime,    \* how many seconds pass
    MaxStops,   \* how often the server dies or a boot fails
    FilesMayFail \* whether a file operation may fail for reasons of its own

ASSUME RestoreAssumption ==
    /\ NoUpload \notin Upload
    /\ Valid \subseteq Upload
    /\ Old \notin Upload \cup {NoUpload}
    /\ MaxTime \in Nat
    /\ MaxStops \in Nat
    /\ FilesMayFail \in BOOLEAN

VARIABLES
    dir,     \* RestorePendingDir
    up,      \* how far each upload is
    live,    \* cartledger.db
    wal,     \* whose write-ahead log lies next to it
    kept,    \* cartledger.db.pre-restore-<ts> of each second
    now,     \* the clock, in the seconds of <ts>
    stage,    \* how far the server is
    cli,     \* the archive that a restore command is writing
    stops,   \* deaths, failed boots and restore commands so far
    crowded, \* history: two uploads were in progress at a time
    hasty,   \* history: a second database was moved aside in the same second,
             \* or one was overwritten with --force
    torn,    \* history: a log was left behind when its database was moved
    cut      \* history: what is in place is what a broken command has left

marks == <<crowded, hasty, torn, cut>>
restoreVars == <<dir, up, live, wal, kept, now, stage, cli, stops, marks>>

\* "arch": whose archive lies in the directory, and "whole": its upload has
\* written all of it.  "side": the manifest next to it, whatever it says.
NoDir == [there |-> FALSE, arch |-> NoUpload, whole |-> FALSE, side |-> FALSE]
Dir == [there : BOOLEAN, arch : Upload \cup {NoUpload}, whole : BOOLEAN, side : BOOLEAN]

UploadStage == {"new", "clean", "create", "copy", "validate", "side", "accepted", "rejected"}

Data == Upload \cup {Old}

\* A file of a database: of some data, whole or not.
NoFile == [of |-> NoUpload, whole |-> FALSE]
File == [of : Data, whole : BOOLEAN] \cup {NoFile}

ServerStage == {"down", "check", "move", "companions", "extract", "extracting", "tidy",
              "up", "refused"}

RestoreTypeOK ==
    /\ dir \in Dir
    /\ ~dir.there => dir = NoDir
    /\ dir.whole => dir.arch # NoUpload
    /\ up \in [Upload -> UploadStage]
    /\ live \in File
    /\ wal \in Data \cup {NoUpload}
    /\ kept \in [0..MaxTime -> File]
    /\ now \in 0..MaxTime
    /\ stage \in ServerStage
    /\ stops \in 0..MaxStops
    /\ cli \in Valid \cup {NoUpload}
    /\ {crowded, hasty, torn, cut} \subseteq BOOLEAN

RestoreInit ==
    /\ dir = NoDir
    /\ up = [u \in Upload |-> "new"]
    /\ live = [of |-> Old, whole |-> TRUE]
    /\ wal = NoUpload
    /\ kept = [t \in 0..MaxTime |-> NoFile]
    /\ now = 0
    /\ stage = "up"
    /\ stops = 0
    /\ cli = NoUpload
    /\ crowded = FALSE /\ hasty = FALSE /\ torn = FALSE /\ cut = FALSE

-----------------------------------------------------------------------------
(* StageRestore, without a lock: uploads share the directory.              *)

InProgress(u) == up[u] \in {"clean", "create", "copy", "validate", "side"}
MoveOn(u, to) == up' = [up EXCEPT ![u] = to]

\* Whatever fails, RemoveAll takes the directory away, as it may be by then.
Reject(u) == dir' = NoDir /\ MoveOn(u, "rejected")

files == <<live, wal, kept>>

\* As wrong code might have it: the archive only.
EmptiedOfArchive == [dir EXCEPT !.there = TRUE, !.arch = NoUpload, !.whole = FALSE]

Emptied == [NoDir EXCEPT !.there = TRUE]

BeginUpload(u) ==
    /\ stage = "up" /\ up[u] = "new"
    /\ MoveOn(u, "clean")
    /\ crowded' = (crowded \/ \E o \in Upload : InProgress(o))
    /\ UNCHANGED <<dir, files, now, stage, cli, stops, hasty, torn, cut>>

Clean(u) ==
    /\ up[u] = "clean"
    /\ dir' = Emptied
    /\ MoveOn(u, "create")
    /\ UNCHANGED <<files, now, stage, cli, stops, marks>>

\* O_EXCL.
Create(u) ==
    /\ up[u] = "create"
    /\ IF dir.there /\ dir.arch = NoUpload
       THEN dir' = [dir EXCEPT !.arch = u, !.whole = FALSE] /\ MoveOn(u, "copy")
       ELSE Reject(u)
    /\ UNCHANGED <<files, now, stage, cli, stops, marks>>

Written(u) == IF dir.arch = u THEN [dir EXCEPT !.whole = TRUE] ELSE dir

\* The upload goes to the file it has created, which need no longer be there.
\* It may break off, be too large, or fill the disk.
Copy(u) ==
    /\ up[u] = "copy"
    /\ \/ dir' = Written(u) /\ MoveOn(u, "validate")
       \/ Reject(u)
    /\ UNCHANGED <<files, now, stage, cli, stops, marks>>

\* As wrong code might have it: the name is enough.
StatArchive == dir.arch # NoUpload

\* ValidateArchive on the name: it reads whosever archive it finds.
ValidArchive == dir.arch \in Valid /\ dir.whole

Validate(u) ==
    /\ up[u] = "validate"
    /\ IF ValidArchive THEN MoveOn(u, "side") /\ UNCHANGED dir ELSE Reject(u)
    /\ UNCHANGED <<files, now, stage, cli, stops, marks>>

WriteSidecar(u) ==
    /\ up[u] = "side"
    /\ IF dir.there THEN dir' = [dir EXCEPT !.side = TRUE] /\ MoveOn(u, "accepted")
                    ELSE Reject(u)
    /\ UNCHANGED <<files, now, stage, cli, stops, marks>>

UploadStep(u) == Clean(u) \/ Create(u) \/ Copy(u) \/ Validate(u) \/ WriteSidecar(u)

-----------------------------------------------------------------------------
(* The server, and ApplyStagedRestoreIfPresent at its boot.                *)

\* While it serves, its database has a log.
Work ==
    /\ stage = "up" /\ wal = NoUpload
    /\ wal' = live.of
    /\ UNCHANGED <<dir, up, live, kept, now, stage, cli, stops, marks>>

\* An upload in progress goes with the server.
Ended == [u \in Upload |-> IF InProgress(u) THEN "rejected" ELSE up[u]]

Down == stage' = "down" /\ up' = Ended

\* Closing the database folds its log into it.
StopCleanly ==
    /\ stage = "up" /\ stops < MaxStops
    /\ Down
    /\ stops' = stops + 1
    /\ wal' = NoUpload
    /\ UNCHANGED <<dir, live, kept, now, cli, marks>>

\* What a RemoveAll that does not come to its end may leave.
PartlyRemoved == {dir, [dir EXCEPT !.side = FALSE],
                  [dir EXCEPT !.arch = NoUpload, !.whole = FALSE]}

\* A crash at any step, or a step of boot that fails: the process exits.
Die ==
    /\ stage \notin {"down", "refused"} /\ stops < MaxStops
    /\ Down
    /\ stops' = stops + 1
    /\ torn' = (torn \/ (stage = "companions" /\ wal # NoUpload))
    /\ IF stage = "tidy" THEN dir' \in PartlyRemoved ELSE UNCHANGED dir
    /\ UNCHANGED <<files, now, cli, crowded, hasty, cut>>

StartServer ==
    /\ stage = "down" /\ cli = NoUpload
    /\ stage' = "check"
    /\ UNCHANGED <<dir, up, files, now, cli, stops, marks>>

\* Without the manifest there is nothing to do; without the archive the
\* directory goes.  An archive that is invalid now is for the operator.
Check ==
    /\ stage = "check"
    /\ \/ /\ ~dir.side
          /\ stage' = "up"
          /\ UNCHANGED dir
       \/ /\ dir.side /\ dir.arch = NoUpload
          /\ stage' = "up"
          /\ dir' = NoDir
       \/ /\ dir.side /\ dir.arch # NoUpload
          /\ stage' = IF ValidArchive THEN "move" ELSE "refused"
          /\ UNCHANGED dir
    /\ UNCHANGED <<up, files, now, cli, stops, marks>>

\* As wrong code might have it: the one kept before goes.
KeptAlone(t) == [s \in 0..MaxTime |-> IF s = t THEN live ELSE NoFile]

\* A rename replaces what has the name already.
Kept(t) == [kept EXCEPT ![t] = live]

\* The database that is there, whole or not, is moved aside.
Move ==
    /\ stage = "move"
    /\ IF live = NoFile
       THEN stage' = "extract" /\ UNCHANGED <<live, kept, hasty, cut>>
       ELSE /\ kept' = Kept(now)
            /\ live' = NoFile
            /\ hasty' = (hasty \/ kept[now] # NoFile)
            /\ stage' = "companions"
            /\ cut' = FALSE
    /\ UNCHANGED <<dir, up, wal, now, cli, stops, crowded, torn>>

\* The log goes along with it; when that fails there is a warning.
MoveCompanions ==
    /\ stage = "companions"
    /\ \/ wal' = NoUpload /\ UNCHANGED torn
       \/ /\ FilesMayFail /\ wal # NoUpload
          /\ torn' = TRUE
          /\ UNCHANGED wal
    /\ stage' = "extract"
    /\ UNCHANGED <<dir, up, live, kept, now, cli, stops, crowded, hasty, cut>>

\* The archive's files are written in place.
Extract ==
    /\ stage = "extract"
    /\ live' = [of |-> dir.arch, whole |-> FALSE]
    /\ stage' = "extracting"
    /\ UNCHANGED <<dir, up, wal, kept, now, cli, stops, marks>>

Extracted ==
    /\ stage = "extracting"
    /\ live' = [live EXCEPT !.whole = TRUE]
    /\ stage' = "tidy"
    /\ UNCHANGED <<dir, up, wal, kept, now, cli, stops, marks>>

\* The database is opened even if the directory could not be removed: the next
\* boot restores the archive once more.
Tidy ==
    /\ stage = "tidy"
    /\ \/ dir' = NoDir
       \/ FilesMayFail /\ dir' \in PartlyRemoved
    /\ stage' = "up"
    /\ UNCHANGED <<up, files, now, cli, stops, marks>>

ServerStep ==
    \/ StartServer \/ Check \/ Move \/ MoveCompanions \/ Extract \/ Extracted \/ Tidy

-----------------------------------------------------------------------------
(* cartledger restore, while the server is stopped.                        *)

\* It refuses an invalid archive, and to overwrite a database unless it is told
\* to.  What it overwrites is kept nowhere, and a log stays where it is.
RestoreCommand(u, force) ==
    /\ stage = "down" /\ cli = NoUpload /\ stops < MaxStops
    /\ u \in Valid
    /\ force \/ live = NoFile
    /\ cli' = u
    /\ live' = [of |-> u, whole |-> FALSE]
    /\ stops' = stops + 1
    /\ hasty' = (hasty \/ live # NoFile)
    /\ torn' = (torn \/ wal # NoUpload)
    /\ cut' = FALSE
    /\ UNCHANGED <<dir, up, wal, kept, now, stage, crowded>>

\* It opens the database it has written, with the log it finds, for the
\* migrations.
CommandDone ==
    /\ cli # NoUpload
    /\ cli' = NoUpload
    /\ live' = [live EXCEPT !.whole = TRUE]
    /\ wal' = NoUpload
    /\ UNCHANGED <<dir, up, kept, now, stage, stops, marks>>

\* It is killed, the disk is full, or a file is in the way that only --force
\* overwrites: the database that is half written stays.
CommandBroken ==
    /\ cli # NoUpload
    /\ cli' = NoUpload
    /\ cut' = TRUE
    /\ UNCHANGED <<dir, up, files, now, stage, stops, crowded, hasty, torn>>

CommandEnds == CommandDone \/ CommandBroken

Tick ==
    /\ now < MaxTime
    /\ now' = now + 1
    /\ UNCHANGED <<dir, up, files, stage, cli, stops, marks>>

RestoreNext ==
    \/ \E u \in Upload : BeginUpload(u) \/ UploadStep(u)
    \/ \E u \in Upload, force \in BOOLEAN : RestoreCommand(u, force)
    \/ CommandEnds
    \/ Work \/ StopCleanly \/ Die \/ ServerStep \/ Tick

\* The server is started again when it has stopped, and boots.
RestoreSpec ==
    /\ RestoreInit /\ [][RestoreNext]_restoreVars
    /\ WF_restoreVars(ServerStep) /\ WF_restoreVars(CommandEnds)

-----------------------------------------------------------------------------
\* What is served is the old database, or a valid archive that was extracted as
\* a whole, however often the restore was cut short, unless it was a command
\* that was; and its log is its own, except after a boot that moved the database
\* and not its log (the next one finds no database and leaves the log where it
\* is) or a command, which leaves it in any case.
ServesWhole ==
    stage = "up" =>
        /\ live.whole \/ cut
        /\ live.of \in Valid \cup {Old}
        /\ torn \/ wal \in {NoUpload, live.of}

\* Both of them.
RestoreSound == RestoreTypeOK /\ ServesWhole

\* The database from before the first restore stays: in place, or moved aside,
\* unless the operator overwrites one.  Two boots within one second share a name
\* and lose it (OldIsKept).
IsOld(file) == file.of = Old /\ file.whole
SomewhereOld == IsOld(live) \/ \E t \in 0..MaxTime : IsOld(kept[t])
OldSurvives == hasty \/ SomewhereOld

\* A server that is started serves again, whatever uploads and crashes have left
\* behind; it refuses to only where uploads have shared the directory.
Boots == stage = "down" ~> stage = "up" \/ (stage = "refused" /\ crowded)

\* "Moves cartledger.db -> cartledger.db.pre-restore-<ts> so the operator has
\* an emergency rollback." (restore.go:308)
OldIsKept == SomewhereOld
=============================================================================

--------------------------- MODULE SpreadsheetImport ---------------------------
(***************************************************************************)
(* The import of one uploaded spreadsheet (internal/api/                   *)
(* import_spreadsheet.go, internal/spreadsheet): the staged session kept   *)
(* in memory and on disk, the chain of edits with its revision, the        *)
(* preview and its cache, the commit with a transaction per receipt, and   *)
(* the janitor.                                                            *)
(*                                                                         *)
(* Requests share the staged session through a pointer and take no lock,   *)
(* so every read and every write of it is a step.  The rows are seen as    *)
(* the groups they form, an edit as the group whose total it changes: the  *)
(* duplicate check compares totals, so an edited group is no duplicate of  *)
(* its unedited self.  A torn slice header, and the saved column mappings, are  *)
(* left out.  A later upload of the same file has an id of its own: it     *)
(* takes the place of this one, whose directory is left to the janitor.    *)
(***************************************************************************)
EXTENDS Naturals, FiniteSets

CONSTANTS Client, Group,
          Storeless,    \* groups without a store: never a duplicate
          MaxRevision, MaxBatches, MaxUploads  \* bounds on the behaviour

ASSUME ImportAssumption ==
  /\ Storeless \subseteq Group
  /\ IsFiniteSet(Client) /\ IsFiniteSet(Group)
  /\ {MaxRevision, MaxBatches, MaxUploads} \subseteq Nat

VARIABLES
  staged,    \* the import id is a key of the staging map
  disk,      \* its directory: "none", "fresh", or "old" by its mtime
  chain,     \* Staging.Chain.Transforms: the groups edited
  revision,  \* Staging.Chain.Revision
  cache,     \* previewCache: the preview of the import, with its key
  shown,     \* what the last preview showed to a client
  request,   \* where a client's request is in its handler
  receipts,  \* receipts with an import_batch_id
  batch,     \* import_batches
  swept,     \* the janitor has seen the directory old and removes it
  uploads

importVars == <<staged, disk, chain, revision, cache, shown, request, receipts,
                batch, swept, uploads>>

session == <<chain, revision>>
tables == <<receipts, batch>>

Batches == 1 .. MaxBatches
Preview == [chain : SUBSET Group, rev : Nat]
NoPreview == [chain |-> {}, rev |-> MaxRevision + 1]

Stage == {"idle", "append", "bump", "bumped", "build", "show",
          "persist", "prepare", "insert", "group", "purge"}

RequestState ==
  [at : Stage, group : SUBSET Group, chain : SUBSET Group, rev : Nat,
   keep : SUBSET Group, sure : SUBSET Group, blind : BOOLEAN,
   batch : Batches \cup {0}, after : SUBSET Batches]

Idle == [at |-> "idle", group |-> {}, chain |-> {}, rev |-> 0, keep |-> {},
         sure |-> {}, blind |-> FALSE, batch |-> 0, after |-> {}]

NoBatch == [state |-> "none", count |-> 0]
BatchState == [state : {"none", "open", "done"}, count : Nat]

ImportInit ==
  /\ staged = FALSE /\ disk = "none" /\ chain = {} /\ revision = 0
  /\ cache = [key |-> 0, preview |-> NoPreview]
  /\ shown = [c \in Client |-> NoPreview]
  /\ request = [c \in Client |-> Idle]
  /\ receipts = {} /\ batch = [b \in Batches |-> NoBatch]
  /\ swept = FALSE /\ uploads = 0

At(c, stage) == request[c].at = stage
Goto(c, stage) == request' = [request EXCEPT ![c] = [Idle EXCEPT !.at = stage]]
End(c) == request' = [request EXCEPT ![c] = Idle]

Forgotten == staged' = FALSE /\ cache' = [key |-> 0, preview |-> NoPreview]

-----------------------------------------------------------------------------
(* Upload: the directory with the raw file, the map, staging.json.  Nobody *)
(* knows the id before the answer, so only a crash may cut it short.       *)

Upload(c) ==
  /\ uploads < MaxUploads /\ uploads' = uploads + 1
  /\ ~staged /\ ~swept /\ \A d \in Client : At(d, "idle")
  /\ staged' \in BOOLEAN /\ disk' = "fresh"
  /\ chain' = {} /\ revision' = 0
  /\ cache' = [key |-> 0, preview |-> NoPreview]
  /\ shown' = [d \in Client |-> NoPreview]
  /\ UNCHANGED <<request, tables, swept>>

(* SaveStaging makes the directory again if it is gone.  Nobody minds when *)
(* it fails.                                                               *)
Save(c) ==
  /\ At(c, "persist") /\ End(c) /\ disk' \in {"fresh", disk}
  /\ UNCHANGED <<staged, session, cache, shown, tables, swept, uploads>>

-----------------------------------------------------------------------------
(* Transform: append reads and writes the chain, ++ the revision.          *)

Ask(c, q) ==
  /\ At(c, "idle") /\ staged
  /\ request' = [request EXCEPT ![c] = q]
  /\ UNCHANGED <<staged, disk, session, cache, shown, tables, swept, uploads>>

Editing == {d \in Client : request[d].at \in {"append", "bump", "bumped"}}

Transform(c, g) ==
  /\ \A r \in {revision} \cup {request[d].rev : d \in {e \in Client : At(e, "bumped")}} :
       r + Cardinality(Editing) < MaxRevision
  /\ Ask(c, [Idle EXCEPT !.at = "append", !.group = {g}, !.chain = chain])

Append(c) ==
  /\ At(c, "append") /\ chain' = request[c].chain \cup request[c].group
  /\ Goto(c, "bump")
  /\ UNCHANGED <<staged, disk, revision, cache, shown, tables, swept, uploads>>

BumpRead(c) ==
  /\ At(c, "bump")
  /\ request' = [request EXCEPT ![c].at = "bumped", ![c].rev = revision]
  /\ UNCHANGED <<staged, disk, session, cache, shown, tables, swept, uploads>>

BumpWrite(c) ==
  /\ At(c, "bumped") /\ revision' = request[c].rev + 1
  /\ staged' = TRUE /\ cache' = [key |-> 0, preview |-> NoPreview]
  /\ Goto(c, "persist")
  /\ UNCHANGED <<disk, chain, shown, tables, swept, uploads>>

-----------------------------------------------------------------------------
(* Preview.                                                                *)

PreviewHit(c) ==
  /\ At(c, "idle") /\ staged
  /\ cache.preview # NoPreview /\ cache.key = revision
  /\ shown' = [shown EXCEPT ![c] = cache.preview]
  /\ UNCHANGED <<staged, disk, session, cache, request, tables, swept, uploads>>

PreviewMiss(c) ==
  /\ cache.preview = NoPreview \/ cache.key # revision
  /\ Ask(c, [Idle EXCEPT !.at = "build", !.rev = revision])

Build(c) ==
  /\ At(c, "build")
  /\ request' = [request EXCEPT ![c].at = "show", ![c].chain = chain]
  /\ UNCHANGED <<staged, disk, session, cache, shown, tables, swept, uploads>>

(* The response carries the revision of its last line, the cache the one   *)
(* of the first.                                                           *)
Show(c) ==
  LET preview == [chain |-> request[c].chain, rev |-> revision]
  IN /\ At(c, "show")
     /\ shown' = [shown EXCEPT ![c] = preview]
     /\ cache' = [key |-> request[c].rev, preview |-> preview]
     /\ Goto(c, "persist")
     /\ UNCHANGED <<staged, disk, session, tables, swept, uploads>>

-----------------------------------------------------------------------------
(* Commit.                                                                 *)

Running == {request[c].batch : c \in Client} \ {0}
Ended == {b \in Batches : batch[b].state # "none"} \ Running
Free == {b \in Batches : batch[b].state = "none"}

Commit(c) ==
  /\ shown[c] # NoPreview /\ shown[c].rev = revision
  /\ Cardinality({d \in Client : request[d].at \in {"prepare", "insert"}})
       < Cardinality(Free)
  /\ Ask(c, [Idle EXCEPT !.at = "prepare", !.after = Ended])

Doubles(g, edits) ==
  \E r \in receipts : r.group = g /\ r.edited = (g \in edits)

\* Mutant of Duplicate: only receipts of completed batches count.
DuplicateOfDone(g, edits) ==
  /\ g \notin Storeless
  /\ \E r \in receipts : /\ r.group = g /\ r.edited = (g \in edits)
                         /\ batch[r.batch].state = "done"

Duplicate(g, edits) == g \notin Storeless /\ Doubles(g, edits)

(* prepareSpreadsheetImport reads the chain and asks the database for      *)
(* duplicates: the user may be sure of some.  An error is logged, and no   *)
(* group is a duplicate.                                                   *)
Prepare(c) ==
  LET found == {g \in Group : Duplicate(g, chain)}
      go == [request[c] EXCEPT !.at = "insert", !.chain = chain]
  IN /\ At(c, "prepare")
     /\ \/ \E sure \in SUBSET found :
             request' = [request EXCEPT ![c] =
               [go EXCEPT !.sure = sure, !.keep = Group \ (found \ sure)]]
        \/ request' = [request EXCEPT ![c] =
               [go EXCEPT !.blind = TRUE, !.keep = Group]]
     /\ UNCHANGED <<staged, disk, session, cache, shown, tables, swept, uploads>>

InsertBatch(c) ==
  LET b == CHOOSE x \in Free : \A y \in Free : x <= y
  IN /\ At(c, "insert")
     /\ \/ /\ batch' = [batch EXCEPT ![b].state = "open"]
           /\ request' = [request EXCEPT ![c].at = "group", ![c].batch = b]
        \/ End(c) /\ UNCHANGED batch
     /\ UNCHANGED <<staged, disk, session, cache, shown, receipts, swept, uploads>>

\* Mutant of Counted: a group that fails is counted as well.
CountedAnyway(q, imported) == q.rev + 1

(* CommitResult.ReceiptsCreated, kept in rev while the groups are done.    *)
Counted(q, imported) == IF imported THEN q.rev + 1 ELSE q.rev

(* One transaction per group in turn.  It is not imported if the request   *)
(* excludes it or the transaction fails.                                   *)
CommitGroup(c) ==
  LET q == request[c]
      g == CHOOSE x \in q.keep : TRUE
  IN
  /\ At(c, "group") /\ q.keep # {}
  /\ \E imported \in BOOLEAN :
       /\ receipts' = IF imported
                      THEN receipts \cup {[group |-> g, edited |-> g \in q.chain,
                                           batch |-> q.batch]}
                      ELSE receipts
       /\ request' = [request EXCEPT ![c].keep = @ \ {g},
                                     ![c].rev = Counted(q, imported)]
  /\ UNCHANGED <<staged, disk, session, cache, shown, batch, swept, uploads>>

Finalize(c) ==
  /\ At(c, "group") /\ request[c].keep = {}
  /\ \/ batch' = [batch EXCEPT ![request[c].batch].state = "done",
                               ![request[c].batch].count = request[c].rev]
     \/ UNCHANGED batch
  /\ End(c)
  /\ UNCHANGED <<staged, disk, session, cache, shown, receipts, swept, uploads>>

-----------------------------------------------------------------------------
(* Delete, the janitor, time and restarts.                                 *)

Delete(c) ==
  /\ At(c, "idle") /\ staged /\ Forgotten /\ Goto(c, "purge")
  /\ UNCHANGED <<disk, session, shown, tables, swept, uploads>>

Purge(c) ==
  /\ At(c, "purge") /\ disk' = "none" /\ End(c)
  /\ UNCHANGED <<staged, session, cache, shown, tables, swept, uploads>>

\* Mutant of Idles: the janitor walks the staging map.
IdlesInMemory == disk = "old" /\ staged

Idles == disk = "old"

JanitorLooks ==
  /\ Idles /\ ~swept
  /\ swept' = TRUE /\ Forgotten
  /\ UNCHANGED <<disk, session, shown, request, tables, uploads>>

JanitorRemoves ==
  /\ swept /\ swept' = FALSE /\ disk' = "none"
  /\ UNCHANGED <<staged, session, cache, shown, request, tables, uploads>>

(* A day without a write: no request lasts that long, nor a sweep.         *)
Age ==
  /\ disk = "fresh" /\ ~swept /\ \A c \in Client : At(c, "idle")
  /\ disk' = "old"
  /\ UNCHANGED <<staged, session, cache, shown, request, tables, swept, uploads>>

(* The map is lost; nothing reads staging.json again.  A restart that only *)
(* cuts a sweep short, over and over, is left out.                         *)
Restart ==
  /\ staged \/ \E c \in Client : ~At(c, "idle")
  /\ Forgotten /\ swept' = FALSE
  /\ request' = [c \in Client |-> Idle]
  /\ UNCHANGED <<disk, session, shown, tables, uploads>>

-----------------------------------------------------------------------------

Work(c) ==
  \/ Save(c)
  \/ Append(c) \/ BumpRead(c) \/ BumpWrite(c)
  \/ Build(c) \/ Show(c)
  \/ Prepare(c) \/ InsertBatch(c) \/ CommitGroup(c) \/ Finalize(c)
  \/ Purge(c)

User(c) ==
  \/ Upload(c) \/ Delete(c)
  \/ \E g \in Group : Transform(c, g)
  \/ PreviewHit(c) \/ PreviewMiss(c) \/ Commit(c)

Janitor == JanitorLooks \/ JanitorRemoves

ImportNext == (\E c \in Client : Work(c) \/ User(c)) \/ Janitor \/ Age \/ Restart

(* Handlers run to their end, days pass, and the janitor's ticker fires.   *)
ImportSpec ==
  /\ ImportInit /\ [][ImportNext]_importVars
  /\ \A c \in Client : WF_importVars(Work(c))
  /\ WF_importVars(Janitor) /\ WF_importVars(Age)

-----------------------------------------------------------------------------

(* The session, the requests and the tables have their types.              *)
ImportTypeOK ==
  /\ {staged, swept} \subseteq BOOLEAN /\ disk \in {"none", "fresh", "old"}
  /\ chain \subseteq Group /\ revision \in 0 .. MaxRevision
  /\ cache \in [key : Nat, preview : Preview] /\ shown \in [Client -> Preview]
  /\ request \in [Client -> RequestState]
  /\ receipts \subseteq [group : Group, edited : BOOLEAN, batch : Batches]
  /\ batch \in [Batches -> BatchState] /\ uploads \in 0 .. MaxUploads

(* The counter of a completed batch is the number of its receipts,         *)
(* whichever groups failed, and no receipt names a batch that is not there.*)
BatchExact ==
  /\ \A b \in Batches : batch[b].state = "done" =>
       batch[b].count = Cardinality({r \in receipts : r.batch = b})
  /\ \A r \in receipts : batch[r.batch].state # "none"

(* The types, and batches that count their receipts.                       *)
ImportSound == ImportTypeOK /\ BatchExact

(* A commit that begins after another has ended, or died half-way, repeats *)
(* none of its receipts, unless the user said so, the duplicate check      *)
(* failed, or the group has no store to compare.                           *)
RetryRepeatsNothing ==
  [][\A c \in Client, r \in receipts' \ receipts, s \in receipts :
       LET q == request[c] IN
       /\ r.batch = q.batch /\ s.batch \in q.after
       /\ r.group = s.group /\ r.edited = s.edited
       => q.blind \/ r.group \in q.sure \cup Storeless]_importVars

(* What an import left on disk goes away once its clients are quiet, though *)
(* a delete may race a transform that makes the directory again, or a      *)
(* restart may forget it.                                                  *)
DiskReclaimed ==
  <>[](\A c \in Client : At(c, "idle")) => []<>(disk = "none")

(* "Guard against committing a transform chain the client never            *)
(* previewed."                                                             *)
CommitsWhatWasPreviewed ==
  \A c \in Client : At(c, "insert") => request[c].chain = shown[c].chain
=============================================================================

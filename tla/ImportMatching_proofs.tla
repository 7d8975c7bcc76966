------------------------ MODULE ImportMatching_proofs ------------------------
(***************************************************************************)
(* That the batches of an import count their receipts and a second commit  *)
(* repeats none (SpreadsheetImport), for any clients, groups and bounds,   *)
(* and what product matching answers and learns (Matching), for any        *)
(* products, names, scores and rules.                                      *)
(***************************************************************************)
EXTENDS SpreadsheetImport, Matching, FiniteSetTheorems, WellFoundedInduction, TLAPS

-----------------------------------------------------------------------------
(* The import.                                                             *)

HIDE MatchingAssumption

\* The revision, and what the transforms under way make of it, stay in bounds.
RevisionOK ==
    /\ revision + Cardinality(Editing) <= MaxRevision
    /\ \A d \in Client : At(d, "bumped") =>
         request[d].rev + Cardinality(Editing) <= MaxRevision

\* Every commit that has begun finds a row for its batch.
Starting == {d \in Client : request[d].at \in {"prepare", "insert"}}
SlotsOK == Cardinality(Starting) <= Cardinality(Free)

\* A commit among its groups has its batch to itself, has counted its receipts
\* and has still to do only groups that are not in them.
OwnsBatch(c) ==
    /\ request[c].batch \in Batches
    /\ batch[request[c].batch].state = "open"
    /\ request[c].rev = Cardinality({r \in receipts : r.batch = request[c].batch})
    /\ \A r \in receipts : r.batch = request[c].batch => r.group \notin request[c].keep
    /\ \A d \in Client : request[d].batch = request[c].batch => d = c

\* What a commit keeps has no double among the batches that had ended.
NoDouble(q) ==
    \A g \in q.keep : \/ g \in Storeless \cup q.sure
                      \/ \A s \in receipts : s.batch \in q.after /\ s.group = g
                                              => s.edited # (g \in q.chain)

\* A request that is no commit.
Quiet(q) == q.at \notin {"prepare", "insert", "group"} /\ q.batch = 0 /\ q.after = {}

CommitOK(c) ==
    /\ request[c].at \notin {"prepare", "insert", "group"} => Quiet(request[c])
    /\ request[c].at \in {"prepare", "insert"} => request[c].rev = 0 /\ request[c].batch = 0
    /\ At(c, "group") => OwnsBatch(c)
    /\ \A b \in request[c].after : batch[b].state # "none"
    /\ \A d \in Client : request[d].batch \notin request[c].after
    /\ request[c].at \in {"insert", "group"} /\ ~request[c].blind => NoDouble(request[c])

CommitsOK == \A c \in Client : CommitOK(c)

ImportInv == /\ ImportTypeOK /\ BatchExact /\ IsFiniteSet(receipts)
             /\ RevisionOK /\ SlotsOK /\ CommitsOK

-----------------------------------------------------------------------------
(* Requests and the sets they are counted in.                              *)

LEMMA ImportSets ==
    /\ IsFiniteSet(Editing) /\ Cardinality(Editing) \in Nat
    /\ IsFiniteSet(Starting) /\ Cardinality(Starting) \in Nat
    /\ IsFiniteSet(Free) /\ Cardinality(Free) \in Nat
    /\ MaxBatches \in Nat /\ MaxRevision \in Nat /\ MaxUploads \in Nat
<1>1. IsFiniteSet(Client) /\ MaxBatches \in Nat /\ MaxRevision \in Nat /\ MaxUploads \in Nat
  BY ImportAssumption
<1>2. IsFiniteSet(Batches)
  BY <1>1, FS_Interval, 1 \in Int, MaxBatches \in Int DEF Batches
<1>3. Editing \subseteq Client /\ Starting \subseteq Client /\ Free \subseteq Batches
  BY DEF Editing, Starting, Free
<1>4. QED
  BY <1>1, <1>2, <1>3, FS_Subset, FS_CardinalityType

LEMMA ImportSetsNext ==
    /\ IsFiniteSet(Editing') /\ Cardinality(Editing') \in Nat
    /\ IsFiniteSet(Starting') /\ Cardinality(Starting') \in Nat
    /\ IsFiniteSet(Free') /\ Cardinality(Free') \in Nat
<1>1. IsFiniteSet(Client) /\ MaxBatches \in Nat
  BY ImportAssumption
<1>2. IsFiniteSet(Batches)
  BY <1>1, FS_Interval, 1 \in Int, MaxBatches \in Int DEF Batches
<1>3. Editing' \subseteq Client /\ Starting' \subseteq Client /\ Free' \subseteq Batches
  BY DEF Editing, Starting, Free
<1>4. QED
  BY <1>1, <1>2, <1>3, FS_Subset, FS_CardinalityType

\* One request takes a step, or none does.
Replaced(c, q) == /\ request' = [request EXCEPT ![c] = q] /\ q \in RequestState

LEMMA ReplacedAt ==
    ASSUME ImportTypeOK, NEW c \in Client, NEW q, Replaced(c, q)
    PROVE  /\ request' \in [Client -> RequestState]
           /\ request'[c] = q
           /\ \A d \in Client \ {c} : request'[d] = request[d]
BY DEF Replaced, ImportTypeOK

\* What is not a commit disturbs none.
LEMMA QuietStep ==
    ASSUME ImportInv, NEW c \in Client, NEW q, Replaced(c, q), Quiet(q), UNCHANGED tables
    PROVE  CommitsOK' /\ SlotsOK' /\ BatchExact' /\ IsFiniteSet(receipts')
<1>1. ImportTypeOK /\ CommitsOK /\ SlotsOK /\ BatchExact /\ IsFiniteSet(receipts)
  BY DEF ImportInv
<1>2. /\ request'[c] = q /\ \A d \in Client \ {c} : request'[d] = request[d]
      /\ receipts' = receipts /\ batch' = batch
  BY <1>1, ReplacedAt DEF tables
<1>3. BatchExact' /\ IsFiniteSet(receipts')
  BY <1>1, <1>2 DEF BatchExact
<1>4. SlotsOK'
  <2>1. Free' = Free /\ Starting' \subseteq Starting
    BY <1>2 DEF Free, Starting, Quiet
  <2>2. Cardinality(Starting') <= Cardinality(Starting)
    BY <2>1, ImportSets, FS_Subset
  <2>3. QED
    BY <1>1, <2>1, <2>2, ImportSets, ImportSetsNext DEF SlotsOK
<1>5. ASSUME NEW d \in Client PROVE CommitOK(d)'
  <2>1. \A e \in Client : request'[e].batch = request[e].batch \/ request'[e].batch = 0
    BY <1>2 DEF Quiet
  <2>2. \A e \in Client : 0 \notin request[e].after
    BY <1>1 DEF ImportTypeOK, RequestState, Batches
  <2>3. CASE d = c
    BY <1>2, <2>3 DEF CommitOK, At, Quiet
  <2>4. CASE d # c
    <3>1. request'[d] = request[d] /\ CommitOK(d)
      BY <1>1, <1>2, <2>4 DEF CommitsOK
    <3>2. ASSUME OwnsBatch(d) PROVE OwnsBatch(d)'
      <4>1. request[d].batch # 0
        BY <3>2 DEF OwnsBatch, Batches
      <4>2. QED
        BY <1>2, <2>1, <3>1, <3>2, <4>1 DEF OwnsBatch
    <3>3. NoDouble(request[d]) => NoDouble(request[d])'
      BY <1>2, <3>1 DEF NoDouble
    <3>4. QED
      BY <1>2, <2>1, <2>2, <3>1, <3>2, <3>3 DEF CommitOK, At
  <2>5. QED
    BY <2>3, <2>4
<1>6. QED
  BY <1>3, <1>4, <1>5 DEF CommitsOK

LEMMA StillStep ==
    ASSUME ImportInv, UNCHANGED <<request, tables>>
    PROVE  CommitsOK' /\ SlotsOK' /\ BatchExact' /\ IsFiniteSet(receipts')
<1>1. request' = request /\ receipts' = receipts /\ batch' = batch
  BY DEF tables
<1>2. Free' = Free /\ Starting' = Starting
  BY <1>1 DEF Free, Starting
<1>3. BatchExact' /\ IsFiniteSet(receipts') /\ SlotsOK'
  BY <1>1, <1>2 DEF ImportInv, BatchExact, SlotsOK
<1>4. ASSUME NEW c \in Client PROVE CommitOK(c)'
  <2>1. CommitOK(c)
    BY DEF ImportInv, CommitsOK
  <2>2. OwnsBatch(c)' = OwnsBatch(c) /\ NoDouble(request[c])' = NoDouble(request[c])
    BY <1>1 DEF OwnsBatch, NoDouble
  <2>3. QED
    BY <1>1, <2>1, <2>2 DEF CommitOK, At
<1>5. QED
  BY <1>3, <1>4 DEF CommitsOK

\* What is no transform leaves the revision in its bounds.
LEMMA NoEdit ==
    ASSUME ImportInv, NEW c \in Client, NEW q, Replaced(c, q), revision' = revision,
           q.at \notin {"append", "bump", "bumped"}
    PROVE  RevisionOK'
<1>1. ImportTypeOK /\ RevisionOK /\ revision \in Nat
  BY DEF ImportInv, ImportTypeOK
<1>2. request'[c] = q /\ \A d \in Client \ {c} : request'[d] = request[d]
  BY <1>1, ReplacedAt
<1>3. Editing' \subseteq Editing
  BY <1>2 DEF Editing
<1>4. Cardinality(Editing') <= Cardinality(Editing)
  BY <1>3, ImportSets, FS_Subset
<1>5. \A d \in Client : At(d, "bumped")' => At(d, "bumped") /\ request'[d] = request[d]
  BY <1>2 DEF At
<1>6. \A d \in Client : request[d].rev \in Nat
  BY <1>1 DEF ImportTypeOK, RequestState
<1>7. QED
  BY <1>1, <1>4, <1>5, <1>6, ImportSets, ImportSetsNext DEF RevisionOK

\* Nor does a transform that goes on with the revision it has.
LEMMA StillEdits ==
    ASSUME ImportInv, NEW c \in Client, NEW q, Replaced(c, q), revision' = revision,
           c \in Editing, q.at \in {"append", "bump", "bumped"},
           q.at = "bumped" => q.rev = revision
    PROVE  RevisionOK'
<1>1. ImportTypeOK /\ RevisionOK
  BY DEF ImportInv
<1>2. request'[c] = q /\ \A d \in Client \ {c} : request'[d] = request[d]
  BY <1>1, ReplacedAt
<1>3. Editing' = Editing
  BY <1>2 DEF Editing
<1>4. QED
  BY <1>1, <1>2, <1>3 DEF RevisionOK, At

-----------------------------------------------------------------------------
(* The steps that are no commits.                                          *)

LEMMA ImportValues ==
    /\ Idle \in RequestState /\ Idle.rev = 0 /\ Quiet(Idle) /\ Idle.at = "idle"
    /\ NoPreview \in Preview
    /\ \A at \in Stage : /\ [Idle EXCEPT !.at = at] \in RequestState
                         /\ [Idle EXCEPT !.at = at].at = at
                         /\ [Idle EXCEPT !.at = at].rev = 0
                         /\ [Idle EXCEPT !.at = at].batch = 0
                         /\ [Idle EXCEPT !.at = at].after = {}
<1>1. NoPreview \in Preview
  BY ImportSets DEF NoPreview, Preview
<1>2. /\ Idle \in RequestState /\ Idle.rev = 0 /\ Quiet(Idle) /\ Idle.at = "idle"
  BY DEF Idle, RequestState, Stage, Quiet
<1>3. ASSUME NEW at \in Stage
      PROVE  /\ [Idle EXCEPT !.at = at] \in RequestState
             /\ [Idle EXCEPT !.at = at].at = at
             /\ [Idle EXCEPT !.at = at].rev = 0
             /\ [Idle EXCEPT !.at = at].batch = 0
             /\ [Idle EXCEPT !.at = at].after = {}
  BY DEF Idle, RequestState
<1>4. QED
  BY <1>1, <1>2, <1>3

\* The rest of the types, where only a request is new.
LEMMA OthersTyped ==
    ASSUME ImportInv, NEW c \in Client, NEW q, Replaced(c, q),
           UNCHANGED <<staged, disk, session, cache, shown, tables, swept, uploads>>
    PROVE  ImportTypeOK'
<1>1. ImportTypeOK /\ request' \in [Client -> RequestState]
  BY ReplacedAt DEF ImportInv
<1>2. QED
  BY <1>1 DEF ImportTypeOK, session, tables

LEMMA SaveStep ==
    ASSUME ImportInv, NEW c \in Client, Save(c) PROVE ImportInv'
<1>1. Replaced(c, Idle) /\ Quiet(Idle) /\ revision' = revision /\ UNCHANGED tables
  BY ImportValues DEF Save, End, Replaced, session
<1>2. request' \in [Client -> RequestState] /\ ImportTypeOK
  BY <1>1, ReplacedAt DEF ImportInv
<1>3. ImportTypeOK'
  BY <1>2 DEF Save, ImportTypeOK, session, tables
<1>4. RevisionOK'
  BY <1>1, NoEdit, ImportValues
<1>5. QED
  BY <1>1, <1>3, <1>4, QuietStep DEF ImportInv

LEMMA TransformStep ==
    ASSUME ImportInv, NEW c \in Client, NEW g \in Group, Transform(c, g) PROVE ImportInv'
<1> DEFINE q == [Idle EXCEPT !.at = "append", !.group = {g}, !.chain = chain]
<1>1. ImportTypeOK /\ chain \subseteq Group
  BY DEF ImportInv, ImportTypeOK
<1>2. q \in RequestState /\ Quiet(q) /\ q.at = "append"
  BY <1>1 DEF Idle, RequestState, Stage, Quiet, Batches
<1>3. /\ Replaced(c, q) /\ revision' = revision /\ UNCHANGED tables
      /\ UNCHANGED <<staged, disk, session, cache, shown, tables, swept, uploads>>
  BY <1>2 DEF Transform, Ask, Replaced, session
<1>4. /\ revision + Cardinality(Editing) < MaxRevision
      /\ \A d \in Client : At(d, "bumped") => request[d].rev + Cardinality(Editing) < MaxRevision
  BY DEF Transform
<1>5. request'[c] = q /\ \A d \in Client \ {c} : request'[d] = request[d]
  BY <1>1, <1>3, ReplacedAt
<1>6. Editing' \subseteq Editing \cup {c}
  BY <1>2, <1>5 DEF Editing
<1>7. Cardinality(Editing') <= Cardinality(Editing) + 1
  <2>1. /\ IsFiniteSet(Editing \cup {c})
        /\ Cardinality(Editing \cup {c}) <= Cardinality(Editing) + 1
        /\ Cardinality(Editing \cup {c}) \in Nat
    <3>1. /\ IsFiniteSet(Editing \cup {c})
          /\ Cardinality(Editing \cup {c})
               = IF c \in Editing THEN Cardinality(Editing) ELSE Cardinality(Editing) + 1
      BY ImportSets, FS_AddElement
    <3>2. QED
      BY <3>1, ImportSets
  <2>2. Cardinality(Editing') <= Cardinality(Editing \cup {c})
    BY <1>6, <2>1, FS_Subset
  <2>3. QED
    BY <2>1, <2>2, ImportSets, ImportSetsNext
<1>8. \A d \in Client : At(d, "bumped")' => At(d, "bumped") /\ request'[d] = request[d]
  BY <1>2, <1>5 DEF At
<1>9. revision \in Nat /\ \A d \in Client : request[d].rev \in Nat
  BY <1>1 DEF ImportTypeOK, RequestState
<1>10. RevisionOK'
  BY <1>3, <1>4, <1>7, <1>8, <1>9, ImportSets, ImportSetsNext DEF RevisionOK
<1>11. QED
  BY <1>2, <1>3, <1>10, QuietStep, OthersTyped DEF ImportInv

LEMMA AppendStep ==
    ASSUME ImportInv, NEW c \in Client, Append(c) PROVE ImportInv'
<1> DEFINE q == [Idle EXCEPT !.at = "bump"]
<1>1. q \in RequestState /\ Quiet(q) /\ q.at = "bump"
  BY ImportValues DEF Stage, Quiet
<1>2. Replaced(c, q) /\ revision' = revision /\ UNCHANGED tables /\ c \in Editing
  BY <1>1 DEF Append, Goto, Replaced, Editing, At
<1>3. request' \in [Client -> RequestState] /\ ImportTypeOK
  BY <1>2, ReplacedAt DEF ImportInv
<1>4. chain' \subseteq Group
  BY <1>3 DEF Append, ImportTypeOK, RequestState
<1>5. ImportTypeOK'
  BY <1>3, <1>4 DEF Append, ImportTypeOK, tables
<1>6. RevisionOK'
  BY <1>1, <1>2, StillEdits
<1>7. QED
  BY <1>1, <1>2, <1>5, <1>6, QuietStep DEF ImportInv

LEMMA BumpReadStep ==
    ASSUME ImportInv, NEW c \in Client, BumpRead(c) PROVE ImportInv'
<1> DEFINE q == [request[c] EXCEPT !.at = "bumped", !.rev = revision]
<1>1. ImportTypeOK /\ CommitOK(c) /\ request[c] \in RequestState /\ revision \in Nat
  BY DEF ImportInv, ImportTypeOK, CommitsOK
<1>2. At(c, "bump") /\ request[c].batch = 0
  BY <1>1 DEF BumpRead, CommitOK, Quiet, At
<1>3. q \in RequestState /\ q.at = "bumped" /\ q.rev = revision /\ q.batch = 0
  BY <1>1, <1>2 DEF RequestState, Stage
<1>4. /\ Replaced(c, q) /\ revision' = revision /\ UNCHANGED tables /\ c \in Editing
      /\ UNCHANGED <<staged, disk, session, cache, shown, tables, swept, uploads>>
  BY <1>1, <1>3 DEF BumpRead, Replaced, Editing, At, session, ImportTypeOK
<1>5. Quiet(q)
  BY <1>1, <1>2 DEF CommitOK, Quiet, At
<1>6. RevisionOK'
  BY <1>3, <1>4, StillEdits
<1>7. QED
  BY <1>4, <1>5, <1>6, QuietStep, OthersTyped DEF ImportInv

LEMMA BumpWriteStep ==
    ASSUME ImportInv, NEW c \in Client, BumpWrite(c) PROVE ImportInv'
<1> DEFINE q == [Idle EXCEPT !.at = "persist"]
<1>1. q \in RequestState /\ Quiet(q) /\ q.at = "persist"
  BY ImportValues DEF Stage, Quiet
<1>2. Replaced(c, q) /\ UNCHANGED tables /\ c \in Editing
  BY <1>1 DEF BumpWrite, Goto, Replaced, Editing, At
<1>3. /\ request' \in [Client -> RequestState] /\ ImportTypeOK /\ RevisionOK
      /\ request'[c] = q /\ \A d \in Client \ {c} : request'[d] = request[d]
  BY <1>2, ReplacedAt DEF ImportInv
<1>4. /\ request[c].rev + Cardinality(Editing) <= MaxRevision /\ revision' = request[c].rev + 1
      /\ request[c].rev \in Nat
  BY <1>3 DEF BumpWrite, At, RevisionOK, ImportTypeOK, RequestState
<1>5. Cardinality(Editing') = Cardinality(Editing) - 1
  <2>1. Editing' = Editing \ {c}
    BY <1>1, <1>2, <1>3 DEF Editing
  <2>2. QED
    BY <1>2, <2>1, ImportSets, FS_RemoveElement
<1>6. RevisionOK'
  <2>1. \A d \in Client : At(d, "bumped")' =>
          At(d, "bumped") /\ request'[d] = request[d] /\ request[d].rev \in Nat
    BY <1>1, <1>3 DEF At, ImportTypeOK, RequestState
  <2>2. QED
    BY <1>3, <1>4, <1>5, <2>1, ImportSets, ImportSetsNext DEF RevisionOK
<1>7. ImportTypeOK'
  <2>1. revision' \in 0 .. MaxRevision
    BY <1>4, <1>5, ImportSets, ImportSetsNext
  <2>2. cache' \in [key : Nat, preview : Preview]
    BY ImportValues DEF BumpWrite
  <2>3. QED
    BY <1>3, <2>1, <2>2 DEF BumpWrite, ImportTypeOK, tables
<1>8. QED
  BY <1>1, <1>2, <1>6, <1>7, QuietStep DEF ImportInv

LEMMA UploadStep ==
    ASSUME ImportInv, NEW c \in Client, Upload(c) PROVE ImportInv'
<1>1. ImportTypeOK /\ revision' = 0 /\ UNCHANGED <<request, tables>>
  BY DEF ImportInv, Upload
<1>2. RevisionOK'
  <2>1. \A d \in Client : request'[d].at = "idle"
    BY <1>1 DEF Upload, At
  <2>2. Editing' = {} /\ \A d \in Client : ~At(d, "bumped")'
    BY <2>1 DEF Editing, At
  <2>3. QED
    BY <1>1, <2>2, ImportSets, FS_EmptySet DEF RevisionOK
<1>3. ImportTypeOK'
  <2>1. /\ cache' \in [key : Nat, preview : Preview] /\ shown' \in [Client -> Preview]
        /\ uploads' \in 0 .. MaxUploads
    BY <1>1, ImportValues, ImportSets DEF Upload, ImportTypeOK
  <2>2. QED
    BY <1>1, <2>1, ImportSets DEF Upload, ImportTypeOK, tables
<1>4. QED
  BY <1>1, <1>2, <1>3, StillStep DEF ImportInv

LEMMA PreviewHitStep ==
    ASSUME ImportInv, NEW c \in Client, PreviewHit(c) PROVE ImportInv'
<1>1. ImportTypeOK /\ RevisionOK /\ UNCHANGED <<request, tables, revision>>
  BY DEF ImportInv, PreviewHit, session
<1>2. RevisionOK' /\ request' = request
  BY <1>1 DEF RevisionOK, Editing, At
<1>3. shown' \in [Client -> Preview]
  BY <1>1 DEF PreviewHit, ImportTypeOK
<1>4. ImportTypeOK'
  BY <1>1, <1>3 DEF PreviewHit, ImportTypeOK, session, tables
<1>5. QED
  BY <1>1, <1>2, <1>4, StillStep DEF ImportInv

LEMMA PreviewMissStep ==
    ASSUME ImportInv, NEW c \in Client, PreviewMiss(c) PROVE ImportInv'
<1> DEFINE q == [Idle EXCEPT !.at = "build", !.rev = revision]
<1>1. revision \in Nat
  BY DEF ImportInv, ImportTypeOK
<1>2. q \in RequestState /\ Quiet(q) /\ q.at = "build"
  BY <1>1 DEF Idle, RequestState, Stage, Quiet
<1>3. /\ Replaced(c, q) /\ revision' = revision /\ UNCHANGED tables
      /\ UNCHANGED <<staged, disk, session, cache, shown, tables, swept, uploads>>
  BY <1>2 DEF PreviewMiss, Ask, Replaced, session
<1>4. RevisionOK'
  BY <1>2, <1>3, NoEdit
<1>5. QED
  BY <1>2, <1>3, <1>4, QuietStep, OthersTyped DEF ImportInv

LEMMA BuildStep ==
    ASSUME ImportInv, NEW c \in Client, Build(c) PROVE ImportInv'
<1> DEFINE q == [request[c] EXCEPT !.at = "show", !.chain = chain]
<1>1. /\ ImportTypeOK /\ CommitOK(c) /\ request[c] \in RequestState
      /\ chain \in SUBSET Group /\ request[c].at = "build"
  BY DEF ImportInv, ImportTypeOK, CommitsOK, Build, At
<1>2. q \in RequestState /\ q.at = "show" /\ Quiet(q)
  BY <1>1 DEF RequestState, Stage, CommitOK, Quiet
<1>3. /\ Replaced(c, q) /\ revision' = revision /\ UNCHANGED tables
      /\ UNCHANGED <<staged, disk, session, cache, shown, tables, swept, uploads>>
  BY <1>1, <1>2 DEF Build, Replaced, session, ImportTypeOK
<1>4. RevisionOK'
  BY <1>2, <1>3, NoEdit
<1>5. QED
  BY <1>2, <1>3, <1>4, QuietStep, OthersTyped DEF ImportInv

LEMMA ShowStep ==
    ASSUME ImportInv, NEW c \in Client, Show(c) PROVE ImportInv'
<1> DEFINE q == [Idle EXCEPT !.at = "persist"]
<1>1. q \in RequestState /\ Quiet(q) /\ q.at = "persist"
  BY ImportValues DEF Stage, Quiet
<1>2. Replaced(c, q) /\ UNCHANGED tables /\ revision' = revision
  BY <1>1 DEF Show, Goto, Replaced, session
<1>3. request' \in [Client -> RequestState] /\ ImportTypeOK
  BY <1>2, ReplacedAt DEF ImportInv
<1>4. [chain |-> request[c].chain, rev |-> revision] \in Preview /\ request[c].rev \in Nat
  BY <1>3 DEF ImportTypeOK, RequestState, Preview
<1>5. cache' \in [key : Nat, preview : Preview] /\ shown' \in [Client -> Preview]
  BY <1>3, <1>4 DEF Show, ImportTypeOK
<1>6. ImportTypeOK'
  BY <1>3, <1>5 DEF Show, ImportTypeOK, session, tables
<1>7. RevisionOK'
  BY <1>1, <1>2, NoEdit
<1>8. QED
  BY <1>1, <1>2, <1>6, <1>7, QuietStep DEF ImportInv

LEMMA DeleteStep ==
    ASSUME ImportInv, NEW c \in Client, Delete(c) PROVE ImportInv'
<1> DEFINE q == [Idle EXCEPT !.at = "purge"]
<1>1. q \in RequestState /\ Quiet(q) /\ q.at = "purge"
  BY ImportValues DEF Stage, Quiet
<1>2. Replaced(c, q) /\ UNCHANGED tables /\ revision' = revision
  BY <1>1 DEF Delete, Goto, Replaced, session
<1>3. request' \in [Client -> RequestState] /\ ImportTypeOK
  BY <1>2, ReplacedAt DEF ImportInv
<1>4. cache' \in [key : Nat, preview : Preview]
  BY ImportValues DEF Delete, Forgotten
<1>5. ImportTypeOK'
  BY <1>3, <1>4 DEF Delete, Forgotten, ImportTypeOK, session, tables
<1>6. RevisionOK'
  BY <1>1, <1>2, NoEdit
<1>7. QED
  BY <1>1, <1>2, <1>5, <1>6, QuietStep DEF ImportInv

LEMMA PurgeStep ==
    ASSUME ImportInv, NEW c \in Client, Purge(c) PROVE ImportInv'
<1>1. Replaced(c, Idle) /\ Quiet(Idle) /\ UNCHANGED tables /\ revision' = revision
  BY ImportValues DEF Purge, End, Replaced, session
<1>2. request' \in [Client -> RequestState] /\ ImportTypeOK
  BY <1>1, ReplacedAt DEF ImportInv
<1>3. ImportTypeOK'
  BY <1>2 DEF Purge, ImportTypeOK, session, tables
<1>4. RevisionOK'
  BY <1>1, ImportValues, NoEdit
<1>5. QED
  BY <1>1, <1>3, <1>4, QuietStep DEF ImportInv

LEMMA ElsewhereStep ==
    ASSUME ImportInv, Janitor \/ Age PROVE ImportInv'
<1>1. /\ ImportTypeOK /\ RevisionOK
      /\ UNCHANGED <<request, tables, session, shown, uploads>>
  BY DEF ImportInv, Janitor, JanitorLooks, JanitorRemoves, Age
<1>2. RevisionOK' /\ request' = request
  BY <1>1 DEF RevisionOK, Editing, At, session
<1>3. cache' \in [key : Nat, preview : Preview]
  BY <1>1, ImportValues
     DEF ImportTypeOK, Janitor, JanitorLooks, JanitorRemoves, Age, Forgotten
<1>4. {staged', swept'} \subseteq BOOLEAN /\ disk' \in {"none", "fresh", "old"}
  BY <1>1 DEF ImportTypeOK, Janitor, JanitorLooks, JanitorRemoves, Age, Forgotten
<1>5. ImportTypeOK'
  BY <1>1, <1>3, <1>4 DEF ImportTypeOK, session, tables
<1>6. QED
  BY <1>1, <1>2, <1>5, StillStep DEF ImportInv

LEMMA RestartStep ==
    ASSUME ImportInv, Restart PROVE ImportInv'
<1>1. /\ ImportTypeOK /\ BatchExact /\ IsFiniteSet(receipts)
      /\ receipts' = receipts /\ batch' = batch /\ revision' = revision
      /\ \A c \in Client : request'[c] = Idle
  BY DEF ImportInv, Restart, tables, session
<1>2. ImportTypeOK'
  <2>1. /\ cache' \in [key : Nat, preview : Preview]
        /\ request' \in [Client -> RequestState]
    BY ImportValues DEF Restart, Forgotten
  <2>2. QED
    BY <1>1, <2>1 DEF Restart, Forgotten, ImportTypeOK, session, tables
<1>3. RevisionOK'
  <2>1. Editing' = {} /\ \A d \in Client : ~At(d, "bumped")'
    BY <1>1, ImportValues DEF Editing, At
  <2>2. QED
    BY <1>1, <2>1, ImportSets, FS_EmptySet DEF RevisionOK, ImportTypeOK
<1>4. SlotsOK'
  <2>1. Starting' = {}
    BY <1>1, ImportValues DEF Starting
  <2>2. QED
    BY <2>1, ImportSetsNext, FS_EmptySet DEF SlotsOK
<1>5. CommitsOK'
  BY <1>1, ImportValues DEF CommitsOK, CommitOK, At, Quiet
<1>6. QED
  BY <1>1, <1>2, <1>3, <1>4, <1>5 DEF ImportInv, BatchExact

-----------------------------------------------------------------------------
(* The steps of a commit.                                                  *)

\* A step of one commit leaves those of the others as they were.
LEMMA OthersCommit ==
    ASSUME ImportInv, NEW c \in Client, NEW q, Replaced(c, q),
           receipts \subseteq receipts',
           \A r \in receipts' \ receipts : OwnsBatch(c) /\ r.batch = request[c].batch,
           \A b \in Batches : batch[b].state # "none" =>
             /\ batch'[b].state # "none"
             /\ batch'[b] = batch[b] \/ b = request[c].batch,
           \/ q.batch \in {0, request[c].batch}
           \/ q.batch \in Free,
           NEW d \in Client, d # c
    PROVE  CommitOK(d)'
<1>1. /\ CommitOK(d) /\ CommitOK(c) /\ request'[c] = q /\ request'[d] = request[d]
      /\ \A e \in Client \ {c} : request'[e] = request[e]
      /\ request[d].after \in SUBSET Batches
  BY ReplacedAt DEF ImportInv, CommitsOK, ImportTypeOK, RequestState
<1>2. 0 \notin Batches /\ \A b \in Free : batch[b].state = "none"
  BY DEF Batches, Free
<1>3. \A s \in receipts' \ receipts : s.batch = request[c].batch
  OBVIOUS
<1>4. ASSUME OwnsBatch(d) PROVE OwnsBatch(d)'
  <2> DEFINE b == request[d].batch
  <2>1. b \in Batches /\ batch[b].state = "open" /\ request[c].batch # b
    BY <1>4 DEF OwnsBatch
  <2>2. {r \in receipts' : r.batch = b} = {r \in receipts : r.batch = b}
    BY <1>3, <2>1
  <2>3. batch'[b].state = "open"
    BY <2>1
  <2>4. q.batch # b
    BY <1>2, <2>1
  <2>5. ASSUME NEW e \in Client, request'[e].batch = b PROVE e = d
    BY <1>1, <1>4, <2>4, <2>5 DEF OwnsBatch
  <2>6. \A r \in receipts' : r.batch = b => r.group \notin request[d].keep
    BY <1>4, <2>2 DEF OwnsBatch
  <2>7. request[d].rev = Cardinality({r \in receipts : r.batch = b})
    BY <1>4 DEF OwnsBatch
  <2>8. request[d].rev = Cardinality({r \in receipts' : r.batch = b})
    BY <2>2, <2>7
  <2>9. QED
    BY <1>1, <2>1, <2>3, <2>5, <2>6, <2>8 DEF OwnsBatch
<1>5. ASSUME NEW e \in Client PROVE request'[e].batch \notin request[d].after
  BY <1>1, <1>2 DEF CommitOK
<1>6. NoDouble(request[d]) => NoDouble(request[d])'
  BY <1>1, <1>3 DEF NoDouble, CommitOK
<1>7. \A b \in request[d].after : batch'[b].state # "none"
  BY <1>1 DEF CommitOK
<1>8. QED
  BY <1>1, <1>4, <1>5, <1>6, <1>7 DEF CommitOK, At

LEMMA CommitStep ==
    ASSUME ImportInv, NEW c \in Client, Commit(c) PROVE ImportInv'
<1> DEFINE q == [Idle EXCEPT !.at = "prepare", !.after = Ended]
<1>1. ImportTypeOK /\ CommitsOK /\ SlotsOK /\ BatchExact /\ IsFiniteSet(receipts)
  BY DEF ImportInv
<1>2. /\ q \in RequestState /\ q.at = "prepare" /\ q.batch = 0 /\ q.rev = 0 /\ q.after = Ended
  BY DEF Idle, RequestState, Stage, Ended, Batches
<1>3. /\ Replaced(c, q) /\ revision' = revision /\ receipts' = receipts /\ batch' = batch
      /\ UNCHANGED <<staged, disk, session, cache, shown, tables, swept, uploads>>
  BY <1>2 DEF Commit, Ask, Replaced, session, tables
<1>4. request'[c] = q /\ \A d \in Client \ {c} : request'[d] = request[d]
  BY <1>1, <1>3, ReplacedAt
<1>5. RevisionOK'
  BY <1>2, <1>3, NoEdit
<1>6. SlotsOK'
  <2>1. Cardinality(Starting) < Cardinality(Free) /\ Free' = Free
    BY <1>3 DEF Commit, Starting, Free
  <2>2. Starting' = Starting \cup {c}
    BY <1>2, <1>4 DEF Starting
  <2>3. Cardinality(Starting') <= Cardinality(Starting) + 1
    <3>1. Cardinality(Starting \cup {c})
            = IF c \in Starting THEN Cardinality(Starting) ELSE Cardinality(Starting) + 1
      BY ImportSets, FS_AddElement
    <3>2. QED
      BY <2>2, <3>1, ImportSets
  <2>4. QED
    BY <2>1, <2>3, ImportSets, ImportSetsNext DEF SlotsOK
<1>7. CommitOK(c)'
  <2>1. \A b \in Ended : batch[b].state # "none"
    BY DEF Ended
  <2>2. \A d \in Client : request'[d].batch \notin Ended
    <3>1. 0 \notin Ended
      BY DEF Ended, Batches
    <3>2. \A d \in Client : request[d].batch \notin Ended
      BY <3>1 DEF Ended, Running
    <3>3. QED
      BY <1>2, <1>4, <3>1, <3>2
  <2>3. QED
    BY <1>2, <1>3, <1>4, <2>1, <2>2 DEF CommitOK, At
<1>8. ASSUME NEW d \in Client, d # c PROVE CommitOK(d)'
  BY <1>2, <1>3, <1>8, OthersCommit
<1>9. BatchExact' /\ IsFiniteSet(receipts')
  BY <1>1, <1>3 DEF BatchExact
<1>10. QED
  BY <1>3, <1>5, <1>6, <1>7, <1>8, <1>9, OthersTyped DEF ImportInv, CommitsOK

\* What prepareSpreadsheetImport keeps has no double among the ended batches.
LEMMA PrepareStep ==
    ASSUME ImportInv, NEW c \in Client, Prepare(c) PROVE ImportInv'
<1> DEFINE found == {g \in Group : Duplicate(g, chain)}
           go == [request[c] EXCEPT !.at = "insert", !.chain = chain]
<1>1. /\ ImportTypeOK /\ CommitsOK /\ SlotsOK /\ BatchExact /\ IsFiniteSet(receipts)
      /\ request[c] \in RequestState /\ chain \in SUBSET Group
  BY DEF ImportInv, ImportTypeOK
<1>2. /\ request[c].at = "prepare" /\ receipts' = receipts /\ batch' = batch
      /\ revision' = revision
      /\ UNCHANGED <<staged, disk, session, cache, shown, tables, swept, uploads>>
  BY DEF Prepare, At, session, tables
<1>3. PICK q \in RequestState :
        /\ request' = [request EXCEPT ![c] = q] /\ q.at = "insert"
        /\ q.batch = request[c].batch /\ q.rev = request[c].rev /\ q.after = request[c].after
        /\ q.chain = chain
        /\ ~q.blind => /\ q.sure \subseteq found
                       /\ q.keep = Group \ (found \ q.sure)
  <2>1. CASE \E sure \in SUBSET found :
               request' = [request EXCEPT ![c] =
                 [go EXCEPT !.sure = sure, !.keep = Group \ (found \ sure)]]
    <3>1. PICK sure \in SUBSET found :
               request' = [request EXCEPT ![c] =
                 [go EXCEPT !.sure = sure, !.keep = Group \ (found \ sure)]]
      BY <2>1
    <3> DEFINE r == [go EXCEPT !.sure = sure, !.keep = Group \ (found \ sure)]
    <3>2. sure \in SUBSET Group /\ Group \ (found \ sure) \in SUBSET Group
      OBVIOUS
    <3>3. /\ r \in RequestState /\ r.at = "insert" /\ r.chain = chain
          /\ r.batch = request[c].batch /\ r.rev = request[c].rev
          /\ r.after = request[c].after
          /\ r.sure = sure /\ r.keep = Group \ (found \ sure)
      BY <1>1, <3>2 DEF RequestState, Stage
    <3> HIDE DEF r, found
    <3>4. QED
      BY <3>1, <3>3 DEF r
  <2>2. CASE request' = [request EXCEPT ![c] = [go EXCEPT !.blind = TRUE, !.keep = Group]]
    <3> DEFINE r == [go EXCEPT !.blind = TRUE, !.keep = Group]
    <3>1. /\ r \in RequestState /\ r.at = "insert" /\ r.chain = chain
          /\ r.batch = request[c].batch /\ r.rev = request[c].rev
          /\ r.after = request[c].after /\ r.blind = TRUE
      BY <1>1 DEF RequestState, Stage
    <3> HIDE DEF r, found
    <3>2. QED
      BY <2>2, <3>1 DEF r
  <2>3. QED
    BY <2>1, <2>2 DEF Prepare
<1>4. /\ Replaced(c, q)
      /\ request'[c] = q /\ \A d \in Client \ {c} : request'[d] = request[d]
  BY <1>1, <1>3, ReplacedAt DEF Replaced
<1>5. RevisionOK'
  BY <1>2, <1>3, <1>4, NoEdit
<1>6. SlotsOK'
  <2>1. Free' = Free /\ Starting' = Starting
    BY <1>2, <1>3, <1>4 DEF Free, Starting
  <2>2. QED
    BY <1>1, <2>1 DEF SlotsOK
<1>7. ~q.blind => NoDouble(q)'
  <2>1. ASSUME ~q.blind, NEW g \in q.keep, g \notin Storeless \cup q.sure, NEW s \in receipts,
               s.group = g
        PROVE  s.edited # (g \in q.chain)
    BY <1>3, <2>1 DEF Duplicate, Doubles
  <2>2. QED
    BY <1>2, <2>1 DEF NoDouble
<1>8. CommitOK(c)'
  <2>1. CommitOK(c) /\ ~At(c, "group") /\ ~At(c, "group")'
    BY <1>1, <1>2, <1>3, <1>4 DEF CommitsOK, At
  <2>2. \A d \in Client : request'[d].batch = request[d].batch
    BY <1>3, <1>4
  <2>3. (~q.blind => NoDouble(q)') => (~request'[c].blind => NoDouble(request[c])')
    BY <1>4 DEF NoDouble
  <2>4. QED
    BY <1>2, <1>3, <1>4, <1>7, <2>1, <2>2, <2>3 DEF CommitOK
<1>9. ASSUME NEW d \in Client, d # c PROVE CommitOK(d)'
  BY <1>2, <1>3, <1>4, <1>9, OthersCommit
<1>10. BatchExact' /\ IsFiniteSet(receipts')
  BY <1>1, <1>2 DEF BatchExact
<1>11. QED
  BY <1>2, <1>4, <1>5, <1>6, <1>8, <1>9, <1>10, OthersTyped DEF ImportInv, CommitsOK

\* The row InsertBatch takes is a free one.
LEMMA LeastFree ==
    ASSUME Free # {}
    PROVE  (CHOOSE x \in Free : \A y \in Free : x <= y) \in Free
<1>1. Free \subseteq Nat
  BY ImportSets DEF Free, Batches
<1>2. \E x \in Free : \A y \in Free : ~(<<y, x>> \in OpToRel(<, Nat))
  BY <1>1, NatLessThanWellFounded, WFMin
<1>3. PICK x \in Free : \A y \in Free : ~(y < x)
  BY <1>1, <1>2 DEF OpToRel
<1>4. \A y \in Free : x <= y
  BY <1>1, <1>3
<1>5. QED
  BY <1>4

LEMMA InsertBatchStep ==
    ASSUME ImportInv, NEW c \in Client, InsertBatch(c) PROVE ImportInv'
<1> DEFINE b == CHOOSE x \in Free : \A y \in Free : x <= y
           q == [request[c] EXCEPT !.at = "group", !.batch = b]
<1>1. /\ ImportTypeOK /\ CommitsOK /\ SlotsOK /\ BatchExact /\ IsFiniteSet(receipts)
      /\ request[c] \in RequestState /\ request[c].at = "insert"
  BY DEF ImportInv, ImportTypeOK, InsertBatch, At
<1>2. /\ receipts' = receipts /\ revision' = revision
      /\ UNCHANGED <<staged, disk, session, cache, shown, swept, uploads>>
  BY DEF InsertBatch, session
<1>3. CASE End(c) /\ UNCHANGED batch
  <2>1. /\ Replaced(c, Idle) /\ Quiet(Idle) /\ UNCHANGED tables
        /\ UNCHANGED <<staged, disk, session, cache, shown, tables, swept, uploads>>
    BY <1>2, <1>3, ImportValues DEF End, Replaced, tables
  <2>2. RevisionOK'
    BY <1>2, <2>1, ImportValues, NoEdit
  <2>3. QED
    BY <2>1, <2>2, QuietStep, OthersTyped DEF ImportInv
<1>4. CASE /\ batch' = [batch EXCEPT ![b].state = "open"]
           /\ request' = [request EXCEPT ![c].at = "group", ![c].batch = b]
  <2>1. c \in Starting /\ b \in Free
    <3>1. c \in Starting
      BY <1>1 DEF Starting
    <3>2. Starting # {} /\ Cardinality(Starting) # 0
      BY <3>1, ImportSets, FS_EmptySet
    <3>3. Cardinality(Free) # 0
      BY <1>1, <3>2, ImportSets DEF SlotsOK
    <3>4. Free # {}
      BY <3>3, FS_EmptySet
    <3>5. QED
      BY <3>1, <3>4, LeastFree
  <2> HIDE DEF b
  <2>2. b \in Batches /\ batch[b].state = "none" /\ batch[b] \in BatchState
    BY <1>1, <2>1 DEF Free, ImportTypeOK
  <2>3. /\ q \in RequestState /\ q.at = "group" /\ q.batch = b /\ q.rev = request[c].rev
        /\ q.after = request[c].after /\ q.keep = request[c].keep /\ q.sure = request[c].sure
        /\ q.chain = request[c].chain /\ q.blind = request[c].blind
    BY <1>1, <2>2 DEF RequestState, Stage
  <2>4. /\ request' = [request EXCEPT ![c] = q]
    BY <1>1, <1>4 DEF ImportTypeOK
  <2> HIDE DEF q
  <2>5. /\ Replaced(c, q)
        /\ request'[c] = q /\ \A d \in Client \ {c} : request'[d] = request[d]
    BY <1>1, <2>3, <2>4, ReplacedAt DEF Replaced
  <2>6. /\ batch'[b].state = "open" /\ \A j \in Batches \ {b} : batch'[j] = batch[j]
        /\ batch' \in [Batches -> BatchState]
    BY <1>1, <1>4, <2>2 DEF ImportTypeOK, BatchState
  <2>7. RevisionOK'
    BY <1>2, <2>3, <2>5, NoEdit
  <2>8. SlotsOK'
    <3>1. Free' = Free \ {b}
      BY <2>6 DEF Free
    <3>2. Starting' = Starting \ {c}
      BY <2>3, <2>5 DEF Starting
    <3>3. Cardinality(Free') = Cardinality(Free) - 1
      BY <2>1, <3>1, ImportSets, FS_RemoveElement
    <3>4. Cardinality(Starting') = Cardinality(Starting) - 1
      BY <2>1, <3>2, ImportSets, FS_RemoveElement
    <3>5. QED
      BY <1>1, <3>3, <3>4, ImportSets, ImportSetsNext DEF SlotsOK
  <2>9. \A r \in receipts : r.batch \in Batches /\ r.batch # b
    BY <1>1, <2>2 DEF BatchExact, ImportTypeOK
  <2>10. CommitOK(c) /\ request[c].rev = 0 /\ request[c].batch = 0
    BY <1>1 DEF CommitsOK, CommitOK
  <2>11. ASSUME NEW d \in Client, d # c PROVE request[d].batch # b
    <3>1. CommitOK(d) /\ b # 0
      BY <1>1, <2>2 DEF CommitsOK, Batches
    <3>2. request[d].batch # 0 => OwnsBatch(d)
      BY <1>1, <3>1 DEF CommitOK, Quiet, At
    <3>3. QED
      BY <2>2, <3>1, <3>2 DEF OwnsBatch
  <2>12. OwnsBatch(c)'
    <3>1. {r \in receipts' : r.batch = b} = {}
      BY <1>2, <2>9
    <3>2. Cardinality({r \in receipts' : r.batch = b}) = 0
      BY <3>1, FS_EmptySet
    <3>3. ASSUME NEW d \in Client, request'[d].batch = b PROVE d = c
      BY <2>5, <2>11, <3>3
    <3>4. \A r \in receipts' : r.batch # b
      BY <1>2, <2>9
    <3>5. QED
      BY <2>2, <2>3, <2>5, <2>6, <2>10, <3>2, <3>3, <3>4 DEF OwnsBatch
  <2>13. CommitOK(c)'
    <3>1. \A j \in request[c].after : batch[j].state # "none" /\ j \in Batches
      BY <1>1, <2>10 DEF CommitOK, RequestState
    <3>2. \A j \in request[c].after : batch'[j].state # "none"
      BY <2>6, <3>1
    <3>3. \A d \in Client : request'[d].batch \notin request[c].after
      BY <2>2, <2>3, <2>5, <2>10, <3>1 DEF CommitOK
    <3>4. NoDouble(request[c]) => NoDouble(request[c])'
      BY <1>2, <2>3, <2>5 DEF NoDouble
    <3>5. QED
      BY <1>1, <2>3, <2>5, <2>10, <2>12, <3>2, <3>3, <3>4 DEF CommitOK, At
  <2>14. ASSUME NEW d \in Client, d # c PROVE CommitOK(d)'
    <3>1. \A j \in Batches : batch[j].state # "none" =>
             batch'[j].state # "none" /\ (batch'[j] = batch[j] \/ j = request[c].batch)
      BY <2>2, <2>6
    <3>2. q.batch \in Free
      BY <2>1, <2>3
    <3>3. QED
      BY <1>2, <2>5, <2>14, <3>1, <3>2, OthersCommit
  <2>15. BatchExact' /\ IsFiniteSet(receipts')
    BY <1>1, <1>2, <2>6, <2>9 DEF BatchExact
  <2>16. ImportTypeOK'
    <3>1. request' \in [Client -> RequestState]
      BY <1>1, <2>5, ReplacedAt
    <3>2. QED
      BY <1>1, <1>2, <2>6, <3>1 DEF ImportTypeOK, session
  <2>17. QED
    BY <2>7, <2>8, <2>13, <2>14, <2>15, <2>16 DEF ImportInv, CommitsOK
<1>5. QED
  BY <1>3, <1>4 DEF InsertBatch

LEMMA CommitGroupStep ==
    ASSUME ImportInv, NEW c \in Client, CommitGroup(c) PROVE ImportInv'
<1> DEFINE g == CHOOSE x \in request[c].keep : TRUE
           b == request[c].batch
           new == [group |-> g, edited |-> g \in request[c].chain, batch |-> b]
<1>1. /\ ImportTypeOK /\ CommitsOK /\ SlotsOK /\ BatchExact /\ IsFiniteSet(receipts)
      /\ request[c] \in RequestState /\ request[c].at = "group"
  BY DEF ImportInv, ImportTypeOK, CommitGroup, At
<1>2. CommitOK(c) /\ OwnsBatch(c) /\ b \in Batches /\ batch[b].state = "open"
  BY <1>1 DEF CommitsOK, CommitOK, At, OwnsBatch
<1>3. /\ batch' = batch /\ revision' = revision
      /\ UNCHANGED <<staged, disk, session, cache, shown, swept, uploads>>
  BY DEF CommitGroup, session
<1>4. g \in request[c].keep /\ g \in Group
  BY <1>1 DEF CommitGroup, RequestState
<1> HIDE DEF g
<1>5. PICK imported \in BOOLEAN :
        /\ receipts' = IF imported THEN receipts \cup {new} ELSE receipts
        /\ request' = [request EXCEPT ![c].keep = @ \ {g},
                                      ![c].rev = Counted(request[c], imported)]
  BY DEF CommitGroup, g
<1>6. PICK q \in RequestState :
        /\ request' = [request EXCEPT ![c] = q] /\ q.at = "group" /\ q.batch = b
        /\ q.rev = (IF imported THEN request[c].rev + 1 ELSE request[c].rev)
        /\ q.after = request[c].after /\ q.keep = request[c].keep \ {g}
        /\ q.sure = request[c].sure /\ q.chain = request[c].chain
        /\ q.blind = request[c].blind
  <2> DEFINE n == Counted(request[c], imported)
             r == [request[c] EXCEPT !.keep = request[c].keep \ {g}, !.rev = n]
  <2>1. /\ n = (IF imported THEN request[c].rev + 1 ELSE request[c].rev) /\ n \in Nat
        /\ request[c].keep \ {g} \in SUBSET Group
    BY <1>1 DEF RequestState, Counted
  <2>2. request' = [request EXCEPT ![c] = r]
    BY <1>1, <1>5 DEF ImportTypeOK
  <2> HIDE DEF n
  <2>3. /\ r \in RequestState /\ r.at = "group" /\ r.batch = b /\ r.rev = n
        /\ r.after = request[c].after /\ r.keep = request[c].keep \ {g}
        /\ r.sure = request[c].sure /\ r.chain = request[c].chain /\ r.blind = request[c].blind
    BY <1>1, <2>1 DEF RequestState
  <2> HIDE DEF r
  <2>4. QED
    BY <2>1, <2>2, <2>3
<1>8. /\ Replaced(c, q)
      /\ request'[c] = q /\ \A d \in Client \ {c} : request'[d] = request[d]
  BY <1>1, <1>6, ReplacedAt DEF Replaced
<1>9. /\ new \in [group : Group, edited : BOOLEAN, batch : Batches]
      /\ new.batch = b /\ new.group = g /\ new.edited = (g \in request[c].chain)
  BY <1>2, <1>4
<1>10. new \notin receipts
  BY <1>2, <1>4, <1>9 DEF OwnsBatch
<1> HIDE DEF new
<1>11. /\ receipts \subseteq receipts' /\ receipts' \subseteq receipts \cup {new}
       /\ \A r \in receipts' \ receipts : r = new
  BY <1>5
<1>12. RevisionOK'
  BY <1>3, <1>6, <1>8, NoEdit
<1>13. SlotsOK'
  <2>1. Free' = Free /\ Starting' = Starting
    BY <1>1, <1>3, <1>6, <1>8 DEF Free, Starting
  <2>2. QED
    BY <1>1, <2>1 DEF SlotsOK
<1>14. OwnsBatch(c)'
  <2> DEFINE mine == {r \in receipts : r.batch = b}
  <2>1. IsFiniteSet(mine) /\ new \notin mine
    BY <1>1, <1>10, FS_Subset
  <2>2. Cardinality(mine \cup {new}) = Cardinality(mine) + 1
    BY <2>1, FS_AddElement
  <2>3. {r \in receipts' : r.batch = b} = IF imported THEN mine \cup {new} ELSE mine
    BY <1>5, <1>9
  <2>4. Cardinality(mine) = request[c].rev
    BY <1>2 DEF OwnsBatch
  <2> HIDE DEF mine
  <2>5. Cardinality({r \in receipts' : r.batch = b}) = q.rev
    BY <1>6, <2>2, <2>3, <2>4
  <2>6. \A r \in receipts' : r.batch = b => r.group \notin q.keep
    BY <1>2, <1>6, <1>9, <1>11 DEF OwnsBatch
  <2>7. ASSUME NEW d \in Client, request'[d].batch = b PROVE d = c
    BY <1>2, <1>8, <2>7 DEF OwnsBatch
  <2> HIDE DEF b
  <2>8. QED
    BY <1>2, <1>3, <1>6, <1>8, <2>5, <2>6, <2>7 DEF OwnsBatch
<1>15. CommitOK(c)'
  <2>1. \A d \in Client : request'[d].batch = request[d].batch
    BY <1>6, <1>8
  <2>2. b \notin request[c].after
    BY <1>2 DEF CommitOK
  <2>3. ~q.blind => NoDouble(q)'
    BY <1>1, <1>2, <1>6, <1>9, <1>11, <2>2 DEF NoDouble, CommitOK
  <2>4. ~request'[c].blind => NoDouble(request[c])'
    BY <1>8, <2>3 DEF NoDouble
  <2>5. QED
    BY <1>2, <1>3, <1>6, <1>8, <1>14, <2>1, <2>4 DEF CommitOK, At
<1>16. ASSUME NEW d \in Client, d # c PROVE CommitOK(d)'
  BY <1>2, <1>3, <1>6, <1>8, <1>9, <1>11, <1>16, OthersCommit
<1>17. BatchExact' /\ IsFiniteSet(receipts')
  <2>1. IsFiniteSet(receipts')
    BY <1>1, <1>5, FS_AddElement
  <2>2. ASSUME NEW j \in Batches, batch'[j].state = "done"
        PROVE  batch'[j].count = Cardinality({r \in receipts' : r.batch = j})
    <3>1. j # b /\ batch[j].state = "done"
      BY <1>2, <1>3, <2>2
    <3>2. {r \in receipts' : r.batch = j} = {r \in receipts : r.batch = j}
      BY <1>9, <1>11, <3>1
    <3>3. QED
      BY <1>1, <1>3, <3>1, <3>2 DEF BatchExact
  <2>3. \A r \in receipts' : batch'[r.batch].state # "none"
    BY <1>1, <1>2, <1>3, <1>9, <1>11 DEF BatchExact
  <2>4. QED
    BY <2>1, <2>2, <2>3 DEF BatchExact
<1>18. ImportTypeOK'
  <2>1. request' \in [Client -> RequestState]
    BY <1>1, <1>8, ReplacedAt
  <2>2. receipts' \subseteq [group : Group, edited : BOOLEAN, batch : Batches]
    BY <1>1, <1>9, <1>11 DEF ImportTypeOK
  <2>3. QED
    BY <1>1, <1>3, <2>1, <2>2 DEF ImportTypeOK, session
<1>19. QED
  BY <1>12, <1>13, <1>15, <1>16, <1>17, <1>18 DEF ImportInv, CommitsOK

LEMMA FinalizeStep ==
    ASSUME ImportInv, NEW c \in Client, Finalize(c) PROVE ImportInv'
<1> DEFINE b == request[c].batch
<1>1. /\ ImportTypeOK /\ CommitsOK /\ SlotsOK /\ BatchExact /\ IsFiniteSet(receipts)
      /\ request[c] \in RequestState /\ request[c].at = "group"
  BY DEF ImportInv, ImportTypeOK, Finalize, At
<1>2. /\ OwnsBatch(c) /\ b \in Batches /\ batch[b].state = "open" /\ batch[b] \in BatchState
      /\ request[c].rev \in Nat
  BY <1>1 DEF CommitsOK, CommitOK, At, OwnsBatch, ImportTypeOK, RequestState
<1>3. /\ receipts' = receipts /\ revision' = revision
      /\ UNCHANGED <<staged, disk, session, cache, shown, swept, uploads>>
      /\ Replaced(c, Idle) /\ Quiet(Idle)
  BY ImportValues DEF Finalize, End, Replaced, session
<1>4. CASE UNCHANGED batch
  <2>1. UNCHANGED tables
    BY <1>3, <1>4 DEF tables
  <2>2. QED
    BY <1>3, <2>1, ImportValues, NoEdit, QuietStep, OthersTyped DEF ImportInv
<1>5. CASE batch' = [batch EXCEPT ![b].state = "done", ![b].count = request[c].rev]
  <2> HIDE DEF b
  <2>1. /\ batch'[b].state = "done" /\ batch'[b].count = request[c].rev
        /\ \A j \in Batches \ {b} : batch'[j] = batch[j]
        /\ batch' \in [Batches -> BatchState]
    BY <1>1, <1>2, <1>5 DEF ImportTypeOK, BatchState
  <2>2. request'[c] = Idle /\ \A d \in Client \ {c} : request'[d] = request[d]
    BY <1>1, <1>3, ReplacedAt
  <2>3. RevisionOK'
    BY <1>3, ImportValues, NoEdit
  <2>4. SlotsOK'
    <3>1. Free' = Free /\ Starting' = Starting
      BY <1>1, <1>2, <2>1, <2>2, ImportValues DEF Free, Starting
    <3>2. QED
      BY <1>1, <3>1 DEF SlotsOK
  <2>5. CommitOK(c)'
    BY <2>2, ImportValues DEF CommitOK, At, Quiet
  <2>6. ASSUME NEW d \in Client, d # c PROVE CommitOK(d)'
    <3>1. \A j \in Batches : batch[j].state # "none" =>
             batch'[j].state # "none" /\ (batch'[j] = batch[j] \/ j = request[c].batch)
      BY <2>1 DEF b
    <3>2. Idle.batch \in {0, request[c].batch}
      BY ImportValues DEF Quiet
    <3>3. QED
      BY <1>3, <2>6, <3>1, <3>2, OthersCommit
  <2>7. BatchExact' /\ IsFiniteSet(receipts')
    <3>1. request[c].rev = Cardinality({r \in receipts : r.batch = b})
      BY <1>2 DEF OwnsBatch, b
    <3>2. QED
      BY <1>1, <1>3, <2>1, <3>1 DEF BatchExact, ImportTypeOK
  <2>8. ImportTypeOK'
    <3>1. request' \in [Client -> RequestState]
      BY <1>1, <1>3, ReplacedAt
    <3>2. QED
      BY <1>1, <1>3, <2>1, <3>1 DEF ImportTypeOK, session
  <2>9. QED
    BY <2>3, <2>4, <2>5, <2>6, <2>7, <2>8 DEF ImportInv, CommitsOK
<1>6. QED
  BY <1>4, <1>5 DEF Finalize

-----------------------------------------------------------------------------
(* The theorems about the import.                                          *)

LEMMA ImportStarts == ImportInit => ImportInv
<1> SUFFICES ASSUME ImportInit PROVE ImportInv
  OBVIOUS
<1>1. \A c \in Client : request[c] = Idle
  BY DEF ImportInit
<1>2. ImportTypeOK
  <2>1. /\ cache \in [key : Nat, preview : Preview] /\ shown \in [Client -> Preview]
        /\ request \in [Client -> RequestState]
    BY ImportValues DEF ImportInit
  <2>2. batch \in [Batches -> BatchState]
    BY DEF ImportInit, NoBatch, BatchState
  <2>3. /\ {staged, swept} \subseteq BOOLEAN /\ disk \in {"none", "fresh", "old"}
        /\ chain \subseteq Group /\ receipts = {}
        /\ revision \in 0 .. MaxRevision /\ uploads \in 0 .. MaxUploads
    <3>1. /\ staged = FALSE /\ swept = FALSE /\ disk = "none" /\ chain = {} /\ receipts = {}
          /\ revision = 0 /\ uploads = 0
      BY DEF ImportInit
    <3>2. {staged, swept} \subseteq BOOLEAN
      BY <3>1, Zenon
    <3>3. revision \in 0 .. MaxRevision /\ uploads \in 0 .. MaxUploads
      BY <3>1, ImportSets
    <3>4. QED
      BY <3>1, <3>2, <3>3
  <2>4. QED
    BY <2>1, <2>2, <2>3 DEF ImportTypeOK
<1>3. BatchExact /\ IsFiniteSet(receipts)
  BY FS_EmptySet DEF ImportInit, BatchExact, NoBatch
<1>4. RevisionOK
  <2>1. Editing = {} /\ \A d \in Client : ~At(d, "bumped")
    BY <1>1, ImportValues DEF Editing, At
  <2>2. QED
    BY <2>1, ImportSets, FS_EmptySet DEF RevisionOK, ImportInit
<1>5. SlotsOK
  <2>1. Starting = {}
    BY <1>1, ImportValues DEF Starting
  <2>2. QED
    BY <2>1, ImportSets, FS_EmptySet DEF SlotsOK
<1>6. CommitsOK
  BY <1>1, ImportValues DEF CommitsOK, CommitOK, At, Quiet
<1>7. QED
  BY <1>2, <1>3, <1>4, <1>5, <1>6 DEF ImportInv

LEMMA ImportSteps == ImportInv /\ [ImportNext]_importVars => ImportInv'
<1> SUFFICES ASSUME ImportInv, [ImportNext]_importVars PROVE ImportInv'
  OBVIOUS
<1>1. CASE UNCHANGED importVars
  <2>1. /\ UNCHANGED <<request, tables, revision>> /\ request' = request
        /\ ImportTypeOK /\ RevisionOK
    BY <1>1 DEF importVars, tables, ImportInv
  <2>2. ImportTypeOK' /\ RevisionOK'
    BY <1>1, <2>1 DEF importVars, ImportTypeOK, RevisionOK, Editing, At
  <2>3. QED
    BY <2>1, <2>2, StillStep DEF ImportInv
<1>2. ASSUME NEW c \in Client, Work(c) PROVE ImportInv'
  BY <1>2, SaveStep, AppendStep, BumpReadStep, BumpWriteStep, BuildStep, ShowStep, PrepareStep,
     InsertBatchStep, CommitGroupStep, FinalizeStep, PurgeStep
     DEF Work
<1>3. ASSUME NEW c \in Client, User(c) PROVE ImportInv'
  BY <1>3, UploadStep, DeleteStep, TransformStep, PreviewHitStep, PreviewMissStep, CommitStep
     DEF User
<1>4. QED
  BY <1>1, <1>2, <1>3, ElsewhereStep, RestartStep DEF ImportNext

\* Any number of clients may transform, commit, delete and retry one import, and
\* any transaction may fail or be cut short: the row of a completed batch counts
\* the receipts that name it, and every receipt names a batch that is there.
THEOREM ImportIsSound == ImportSpec => []ImportSound
<1>1. ImportInv => ImportSound
  BY DEF ImportInv, ImportSound
<1>2. QED
  BY <1>1, ImportStarts, ImportSteps, PTL DEF ImportSpec

\* A commit that begins when another has ended writes none of its receipts a
\* second time, unless the user said so, the duplicate check failed, or there is
\* no store to compare: what prepareSpreadsheetImport has read of an ended batch
\* stays true until the last group, whatever is transformed or committed between.
THEOREM RetriesRepeatNothing == ImportSpec => RetryRepeatsNothing
<1> DEFINE Repeats(c, r, s) == LET q == request[c] IN
       /\ r.batch = q.batch /\ s.batch \in q.after
       /\ r.group = s.group /\ r.edited = s.edited
       => q.blind \/ r.group \in q.sure \cup Storeless
<1>1. ASSUME ImportInv, [ImportNext]_importVars,
             NEW c \in Client, NEW r \in receipts' \ receipts, NEW s \in receipts
      PROVE  Repeats(c, r, s)
  <2>1. ASSUME NEW d \in Client, CommitGroup(d) PROVE Repeats(c, r, s)
    <3> DEFINE g == CHOOSE x \in request[d].keep : TRUE
    <3>1. /\ ImportTypeOK /\ CommitOK(d) /\ OwnsBatch(d) /\ CommitOK(c)
          /\ request[d].at = "group"
      BY <1>1, <2>1 DEF ImportInv, CommitsOK, CommitOK, CommitGroup, At
    <3>2. g \in request[d].keep
      BY <2>1 DEF CommitGroup
    <3>3. r.group = g /\ r.edited = (g \in request[d].chain) /\ r.batch = request[d].batch
      BY <2>1 DEF CommitGroup
    <3> HIDE DEF g
    <3>4. r.batch = request[c].batch => c = d
      BY <3>1, <3>3 DEF OwnsBatch
    <3>5. QED
      BY <3>1, <3>2, <3>3, <3>4 DEF CommitOK, NoDouble
  <2>2. QED
    BY <1>1, <2>1 DEF ImportNext, Work, User, Janitor, Save, Append, BumpRead, BumpWrite, Build,
       Show, Prepare, InsertBatch, Finalize, Purge, Upload, Delete, Transform, PreviewHit,
       PreviewMiss, Commit, Ask, JanitorLooks, JanitorRemoves, Age, Restart, importVars, tables
<1>2. ImportInv /\ [ImportNext]_importVars =>
        [\A c \in Client, r \in receipts' \ receipts, s \in receipts :
           LET q == request[c] IN
           /\ r.batch = q.batch /\ s.batch \in q.after
           /\ r.group = s.group /\ r.edited = s.edited
           => q.blind \/ r.group \in q.sure \cup Storeless]_importVars
  BY <1>1
<1>3. QED
  BY <1>2, ImportStarts, ImportSteps, PTL DEF ImportSpec, RetryRepeatsNothing

-----------------------------------------------------------------------------
(* Matching: what the stages answer.                                       *)

HIDE ImportAssumption

\* A stage is asked when those before it have no answer.
LEMMA First ==
    ASSUME NEW A, NEW B
    PROVE  /\ A # {} => (A ?? B) = A
           /\ A = {} => (A ?? B) = B
BY DEF ??

LEMMA Answers ==
    ASSUME NEW by, NEW S
    PROVE  /\ \A a \in Answer(by, S) : a.by = by /\ a.product \in S
           /\ \A p \in S : \E a \in Answer(by, S) : a.product = p
           /\ Answer(by, S) = {} <=> S = {}
           /\ Products(Answer(by, S)) = S
<1>1. \A p : /\ [by |-> by, product |-> p].by = by /\ [by |-> by, product |-> p].product = p
  OBVIOUS
<1>2. \A p \in S : [by |-> by, product |-> p] \in Answer(by, S)
  BY DEF Answer
<1>3. \A a \in Answer(by, S) : \E p \in S : a = [by |-> by, product |-> p]
  BY DEF Answer
<1>4. \A a \in Answer(by, S) : a.by = by /\ a.product \in S
  BY <1>1, <1>3
<1>5. \A p \in S : \E a \in Answer(by, S) : a.product = p
  BY <1>1, <1>2
<1>6. Products(Answer(by, S)) = S
  BY <1>4, <1>5 DEF Products
<1>7. Answer(by, S) = {} <=> S = {}
  BY <1>4, <1>5
<1>8. QED
  BY <1>4, <1>5, <1>6, <1>7

\* The answer of a stage that has found one product.
One(by, p) == Answer(by, {p})

LEMMA OneAnswer ==
    ASSUME NEW by, NEW p
    PROVE  /\ One(by, p) # {}
           /\ \A a \in One(by, p) : a.by = by /\ a.product = p
           /\ \A q : q \in Products(One(by, p)) <=> q = p
<1>1. {p} # {}
  OBVIOUS
<1>2. \A a \in Answer(by, {p}) : a.product \in {p}
  BY Answers
<1>3. QED
  BY <1>1, <1>2, Answers DEF One

\* A code or an alias has one answer at most.
LEMMA CodeAnswer ==
    ASSUME NEW d, NEW i
    PROVE  /\ ByCode(d, i) # {} <=> /\ i.code # None /\ i.store # Global
                                    /\ d.code[<<i.store, i.code>>] \in Live(d)
           /\ ByCode(d, i) # {} =>
                ByCode(d, i) = One("code", d.code[<<i.store, i.code>>])
<1>1. CASE i.code = None \/ i.store = Global
  <2>1. ByCode(d, i) = Answer("code", {})
    BY <1>1 DEF ByCode
  <2>2. QED
    BY <1>1, <2>1, Answers
<1>2. CASE i.code # None /\ i.store # Global
  <2> DEFINE o == d.code[<<i.store, i.code>>]
  <2>1. ByCode(d, i) = Answer("code", {o} \cap Live(d))
    BY <1>2 DEF ByCode
  <2> HIDE DEF o
  <2>2. CASE o \in Live(d)
    <3>1. {o} \cap Live(d) = {o}
      BY <2>2
    <3>2. QED
      <4>1. ByCode(d, i) = One("code", o)
        BY <2>1, <3>1 DEF One
      <4>2. QED
        BY <1>2, <2>2, <4>1, OneAnswer DEF o
  <2>3. CASE o \notin Live(d)
    <3>1. {o} \cap Live(d) = {}
      BY <2>3
    <3>2. ByCode(d, i) = Answer("code", {}) /\ Answer("code", {}) = {}
      BY <2>1, <3>1, Answers
    <3>3. QED
      BY <2>3, <3>2 DEF o
  <2>4. QED
    BY <2>2, <2>3
<1>3. QED
  BY <1>1, <1>2

LEMMA AliasAnswer ==
    ASSUME NEW d, NEW i
    PROVE  LET own == d.alias[<<i.store, Plain[i.name]>>]
               all == d.alias[<<Global, Plain[i.name]>>]
           IN /\ own \in Live(d) => ByAlias(d, i) = One("alias", own)
              /\ own \notin Live(d) /\ all \in Live(d) => ByAlias(d, i) = One("alias", all)
              /\ own \notin Live(d) /\ all \notin Live(d) => ByAlias(d, i) = {}
<1> DEFINE own == d.alias[<<i.store, Plain[i.name]>>]
           all == d.alias[<<Global, Plain[i.name]>>]
<1>1. ByAlias(d, i) = Answer("alias", IF {own} \cap Live(d) # {} THEN {own} \cap Live(d)
                                      ELSE {all} \cap Live(d))
  BY DEF ByAlias
<1> HIDE DEF own, all
<1>2. own \in Live(d) => {own} \cap Live(d) = {own} /\ {own} # {}
  OBVIOUS
<1>3. own \notin Live(d) => {own} \cap Live(d) = {}
  OBVIOUS
<1>4. all \in Live(d) => {all} \cap Live(d) = {all}
  OBVIOUS
<1>5. all \notin Live(d) => {all} \cap Live(d) = {}
  OBVIOUS
<1>6. Answer("alias", {}) = {}
  BY Answers
<1>7. QED
  BY <1>1, <1>2, <1>3, <1>4, <1>5, <1>6 DEF own, all, One

\* The stages before the fuzzy one ask the database in a session too.
Direct(d, i) == ByCode(d, i) ?? ByRule(d, i) ?? ByAlias(d, i)

LEMMA DirectFirst ==
    ASSUME NEW d, NEW i, NEW s
    PROVE  /\ ByCode(d, i) # {} => Direct(d, i) = ByCode(d, i)
           /\ ByCode(d, i) = {} /\ ByRule(d, i) # {} => Direct(d, i) = ByRule(d, i)
           /\ ByCode(d, i) = {} /\ ByRule(d, i) = {} => Direct(d, i) = ByAlias(d, i)
           /\ Direct(d, i) # {} => /\ EngineMatch(d, i) = Direct(d, i)
                                   /\ SessionMatch(d, s, i) = Direct(d, i)
           /\ Direct(d, i) = {} =>
                /\ EngineMatch(d, i) = (ByFuzzy(Candidates(d, i.store), i)
                                          ?? BySuggestion(d, Candidates(d, i.store), i))
                /\ SessionMatch(d, s, i) = (ByFuzzy(s.candidates, i)
                                              ?? BySuggestion(d, s.candidates, i))
<1> DEFINE C == ByCode(d, i)
           R == ByRule(d, i)
           A == ByAlias(d, i)
           F == ByFuzzy(Candidates(d, i.store), i)
           S == BySuggestion(d, Candidates(d, i.store), i)
           G == ByFuzzy(s.candidates, i)
           T == BySuggestion(d, s.candidates, i)
<1>1. /\ Direct(d, i) = ((C ?? R) ?? A)
      /\ EngineMatch(d, i) = ((((C ?? R) ?? A) ?? F) ?? S)
      /\ SessionMatch(d, s, i) = ((((C ?? R) ?? A) ?? G) ?? T)
  BY DEF Direct, EngineMatch, SessionMatch
<1> HIDE DEF C, R, A, F, S, G, T
<1>2. QED
  BY <1>1 DEF C, R, A, F, S, G, T, ??

\* What each stage says of its answers.
LEMMA DirectAnswers ==
    ASSUME NEW d, NEW i
    PROVE  \A a \in Direct(d, i) :
             /\ a.by \in {"code", "rule", "alias"}
             /\ a.by # "rule" => a.product \in Live(d)
             /\ a.by = "rule" => \E r \in Rule : d.rule[r] # None /\ d.rule[r].product = a.product
<1>1. \A a \in ByCode(d, i) : a.by = "code" /\ a.product \in Live(d)
  BY Answers DEF ByCode
<1>2. \A a \in ByRule(d, i) : /\ a.by = "rule"
                              /\ \E r \in Rule : d.rule[r] # None /\ d.rule[r].product = a.product
  BY Answers DEF ByRule
<1>3. \A a \in ByAlias(d, i) : a.by = "alias" /\ a.product \in Live(d)
  BY Answers DEF ByAlias
<1>4. \/ Direct(d, i) = ByCode(d, i) \/ Direct(d, i) = ByRule(d, i)
      \/ Direct(d, i) = ByAlias(d, i)
  BY DirectFirst
<1>5. QED
  BY <1>1, <1>2, <1>3, <1>4

LEMMA LaterAnswers ==
    ASSUME NEW d, NEW i, NEW candidates
    PROVE  \A a \in (ByFuzzy(candidates, i) ?? BySuggestion(d, candidates, i)) :
             /\ a.by \in {"fuzzy", "suggested"}
             /\ a.product \in Live(d) \/ \E c \in candidates : a.product = c[2]
<1>1. \A k : \A p \in Nearest(candidates, k) : \E c \in candidates : p = c[2]
  BY DEF Nearest
<1>2. \A a \in ByFuzzy(candidates, i) :
        a.by = "fuzzy" /\ \E c \in candidates : a.product = c[2]
  BY <1>1, Answers DEF ByFuzzy
<1>3. \A a \in BySuggestion(d, candidates, i) :
        /\ a.by = "suggested"
        /\ a.product \in Live(d) \/ \E c \in candidates : a.product = c[2]
  BY <1>1, Answers DEF BySuggestion
<1>4. QED
  BY <1>2, <1>3, First

\* The engine's answers are live, but for those of a rule.
LEMMA EngineAnswers ==
    ASSUME NEW d, NEW i
    PROVE  \A a \in EngineMatch(d, i) :
             /\ a.by # "rule" => a.product \in Live(d)
             /\ a.by = "rule" => \E r \in Rule : d.rule[r] # None /\ d.rule[r].product = a.product
             /\ a.by \in {"code", "rule", "alias"} => a \in Direct(d, i)
<1>1. \A c \in Candidates(d, i.store) : c[2] \in Live(d)
  BY DEF Candidates
<1>2. CASE Direct(d, i) # {}
  BY <1>2, DirectFirst, DirectAnswers
<1>3. CASE Direct(d, i) = {}
  <2> DEFINE cs == Candidates(d, i.store)
             later == ByFuzzy(cs, i) ?? BySuggestion(d, cs, i)
  <2>1. EngineMatch(d, i) = later
    BY <1>3, DirectFirst
  <2>2. \A a \in later : /\ a.by \in {"fuzzy", "suggested"}
                         /\ a.product \in Live(d) \/ \E c \in cs : a.product = c[2]
    BY LaterAnswers
  <2> HIDE DEF later, cs
  <2>3. QED
    BY <1>1, <2>1, <2>2 DEF cs
<1>4. QED
  BY <1>2, <1>3

-----------------------------------------------------------------------------
(* Matching: the tables.                                                   *)

LEMMA TablesTyped ==
    ASSUME NEW d \in Tables
    PROVE  /\ d.product \in [Product -> {"absent", "live", "gone"}]
           /\ d.alias \in [Scope \X Key -> Product \cup {None}]
           /\ d.code \in [Store \X Code -> Product \cup {None}]
           /\ d.rule \in [Rule -> RuleRow \cup {None}]
BY DEF Tables

LEMMA InputTyped ==
    ASSUME NEW i \in Input
    PROVE  /\ i.name \in Name /\ i.store \in Scope /\ i.code \in Code \cup {None}
           /\ Plain[i.name] \in Key /\ Stored[i.name] \in Key
           /\ None \notin Product /\ None \notin Code
           /\ i.store # Global => i.store \in Store
           /\ Global \in Scope
BY MatchingAssumption DEF Input, Scope

LEMMA LearnedTyped ==
    ASSUME NEW d \in Tables, NEW i \in Input, NEW p \in Product, NEW over \in BOOLEAN
    PROVE  LET e == Upserted(d, i.store, i.name, p)
               f == Coded(e, i, p, over)
           IN /\ e \in Tables /\ f \in Tables
              /\ f.product = d.product /\ f.rule = d.rule
              /\ f.alias = (IF d.alias[<<i.store, Stored[i.name]>>] = None
                            THEN [d.alias EXCEPT ![<<i.store, Stored[i.name]>>] = p]
                            ELSE d.alias)
              /\ f.code = (IF /\ i.code # None /\ i.store # Global
                              /\ over \/ d.code[<<i.store, i.code>>] = None
                           THEN [d.code EXCEPT ![<<i.store, i.code>>] = p]
                           ELSE d.code)
<1> DEFINE e == Upserted(d, i.store, i.name, p)
           f == Coded(e, i, p, over)
<1>1. /\ i.store \in Scope /\ Stored[i.name] \in Key
      /\ i.code # None /\ i.store # Global => i.code \in Code /\ i.store \in Store
  BY InputTyped
<1>2. /\ e \in Tables /\ e.product = d.product /\ e.rule = d.rule /\ e.code = d.code
      /\ e.alias = (IF d.alias[<<i.store, Stored[i.name]>>] = None
                    THEN [d.alias EXCEPT ![<<i.store, Stored[i.name]>>] = p]
                    ELSE d.alias)
  BY <1>1 DEF Upserted, Tables
<1> HIDE DEF e
<1>3. /\ f \in Tables /\ f.product = e.product /\ f.rule = e.rule /\ f.alias = e.alias
      /\ f.code = (IF /\ i.code # None /\ i.store # Global
                      /\ over \/ e.code[<<i.store, i.code>>] = None
                   THEN [e.code EXCEPT ![<<i.store, i.code>>] = p]
                   ELSE e.code)
  BY <1>1, <1>2 DEF Coded, Tables
<1> HIDE DEF f
<1>4. QED
  BY <1>2, <1>3 DEF e, f

LEMMA DroppedTyped ==
    ASSUME NEW d \in Tables, NEW fk \in ForeignKeys, NEW p \in Product
    PROVE  LET e == Dropped(d, fk, p)
           IN /\ e \in Tables /\ e.rule = d.rule
              /\ \A a \in Scope \X Key :
                   e.alias[a] = (IF fk /\ d.alias[a] = p THEN None ELSE d.alias[a])
              /\ \A c \in Store \X Code :
                   e.code[c] = (IF fk /\ d.code[c] = p THEN None ELSE d.code[c])
              /\ \A q : q \in Live(e) <=> q \in Live(d) /\ q # p
<1> DEFINE A == [a \in Scope \X Key |-> IF fk /\ d.alias[a] = p THEN None ELSE d.alias[a]]
           C == [c \in Store \X Code |-> IF fk /\ d.code[c] = p THEN None ELSE d.code[c]]
           P == [d.product EXCEPT ![p] = "gone"]
           e == [d EXCEPT !.product = P, !.alias = A, !.code = C]
<1>1. /\ d.product \in [Product -> {"absent", "live", "gone"}]
      /\ d.alias \in [Scope \X Key -> Product \cup {None}]
      /\ d.code \in [Store \X Code -> Product \cup {None}]
      /\ DOMAIN d.alias = Scope \X Key /\ DOMAIN d.code = Store \X Code
  BY TablesTyped
<1>2. Dropped(d, fk, p) = e
  BY <1>1 DEF Dropped
<1>3. /\ A \in [Scope \X Key -> Product \cup {None}]
      /\ C \in [Store \X Code -> Product \cup {None}]
      /\ P \in [Product -> {"absent", "live", "gone"}]
  BY <1>1
<1>4. /\ \A a \in Scope \X Key :
           A[a] = (IF fk /\ d.alias[a] = p THEN None ELSE d.alias[a])
      /\ \A c \in Store \X Code :
           C[c] = (IF fk /\ d.code[c] = p THEN None ELSE d.code[c])
  OBVIOUS
<1>5. \A q \in Product : P[q] = "live" <=> q # p /\ d.product[q] = "live"
  BY <1>1
<1> HIDE DEF A, C
<1>6. /\ e \in Tables /\ e.product = P /\ e.alias = A /\ e.code = C /\ e.rule = d.rule
  BY <1>3 DEF Tables
<1> HIDE DEF e
<1>7. \A q : q \in Live(e) <=> q \in Live(d) /\ q # p
  BY <1>5, <1>6 DEF Live
<1>8. QED
  BY <1>2, <1>4, <1>6, <1>7

LEMMA MovedTyped ==
    ASSUME NEW d \in Tables, NEW from \in Product, NEW to \in Product
    PROVE  LET e == Moved(d, from, to)
           IN /\ e \in Tables /\ e.product = d.product /\ e.code = d.code
              /\ \A a \in Scope \X Key :
                   e.alias[a] = (IF d.alias[a] = from THEN to ELSE d.alias[a])
              /\ \A r \in Rule :
                   /\ e.rule[r] = None <=> d.rule[r] = None
                   /\ d.rule[r] # None =>
                        /\ e.rule[r].scope = d.rule[r].scope /\ e.rule[r].when = d.rule[r].when
                        /\ e.rule[r].priority = d.rule[r].priority
                        /\ e.rule[r].product =
                             (IF d.rule[r].product = from THEN to ELSE d.rule[r].product)
<1> DEFINE A == [a \in Scope \X Key |-> IF d.alias[a] = from THEN to ELSE d.alias[a]]
           R == [r \in Rule |-> IF d.rule[r] # None /\ d.rule[r].product = from
                                THEN [d.rule[r] EXCEPT !.product = to] ELSE d.rule[r]]
           e == [d EXCEPT !.alias = A, !.rule = R]
<1>1. /\ d.alias \in [Scope \X Key -> Product \cup {None}]
      /\ DOMAIN d.alias = Scope \X Key
      /\ d.rule \in [Rule -> RuleRow \cup {None}] /\ None \notin RuleRow
  BY TablesTyped, MatchingAssumption
<1>2. Moved(d, from, to) = e
  BY <1>1 DEF Moved
<1>3. A \in [Scope \X Key -> Product \cup {None}]
  BY <1>1
<1>4. ASSUME NEW r \in Rule
      PROVE  /\ R[r] \in RuleRow \cup {None}
             /\ R[r] = None <=> d.rule[r] = None
             /\ d.rule[r] # None =>
                  /\ R[r].scope = d.rule[r].scope /\ R[r].when = d.rule[r].when
                  /\ R[r].priority = d.rule[r].priority
                  /\ R[r].product = (IF d.rule[r].product = from THEN to ELSE d.rule[r].product)
  <2>1. CASE d.rule[r] # None /\ d.rule[r].product = from
    <3> DEFINE n == [d.rule[r] EXCEPT !.product = to]
    <3>1. /\ d.rule[r] \in RuleRow
          /\ n \in RuleRow /\ n.scope = d.rule[r].scope /\ n.when = d.rule[r].when
          /\ n.priority = d.rule[r].priority /\ n.product = to
      BY <1>1, <2>1 DEF RuleRow
    <3>2. R[r] = n
      BY <2>1
    <3> HIDE DEF n, R
    <3>3. QED
      BY <1>1, <2>1, <3>1, <3>2
  <2>2. CASE ~(d.rule[r] # None /\ d.rule[r].product = from)
    <3>1. R[r] = d.rule[r]
      BY <2>2
    <3> HIDE DEF R
    <3>2. QED
      BY <1>1, <2>2, <3>1
  <2>3. QED
    BY <2>1, <2>2
<1>5. R \in [Rule -> RuleRow \cup {None}]
  BY <1>4
<1>6. \A a \in Scope \X Key : A[a] = (IF d.alias[a] = from THEN to ELSE d.alias[a])
  OBVIOUS
<1> HIDE DEF A, R
<1>7. /\ e \in Tables /\ e.product = d.product /\ e.alias = A /\ e.code = d.code
      /\ e.rule = R
  BY <1>3, <1>5 DEF Tables
<1> HIDE DEF e
<1>8. QED
  BY <1>2, <1>4, <1>6, <1>7

-----------------------------------------------------------------------------
(* Matching: the types, the rules, and the receipt that is being written.  *)

\* What an open transaction has changed in the tables, and by which lines: new
\* names and new codes of its store.
Lesson(d, t, L, s) ==
  /\ t.product = d.product /\ t.rule = d.rule
  /\ \A a \in Scope \X Key : t.alias[a] # d.alias[a] =>
       /\ d.alias[a] = None /\ s # Global /\ a[1] = s
       /\ \E m \in L : Stored[m.name] = a[2] /\ t.alias[a] = m.product
  /\ \A c \in Store \X Code : t.code[c] # d.code[c] =>
       /\ d.code[c] = None /\ c[1] = s
       /\ \E m \in L : m.code = c[2] /\ t.code[c] = m.product
  /\ \A m \in L : /\ s # Global /\ m.product \in Live(d)
                   /\ t.alias[<<s, Stored[m.name]>>] # None

\* A transaction is that of an open session and differs by its lessons.
Held ==
  /\ tx.batch = None => tx = NoTx
  /\ tx.batch # None => /\ sess[tx.batch].open
                        /\ Lesson(db, tx.tables, tx.lines, sess[tx.batch].store)

\* The session of a store has the write lock as long as it is open, so that what
\* it has in memory is what the tables have.
Fresh ==
  \A b \in Batch : sess[b].open /\ sess[b].store # Global =>
    /\ tx.batch = b
    /\ sess[b].cached => sess[b].candidates = Candidates(db, sess[b].store)

\* A rule whose product is not there was written that way.
RulesHeld ==
  \A r \in Rule : db.rule[r] # None => r \in late \/ db.rule[r].product \in Live(db)

MatchInv == MatchTypeOK /\ RulesHeld /\ Held /\ Fresh

\* The tables change as one value, and only while no receipt is written.
LEMMA WriteStep ==
    ASSUME MatchInv, tx = NoTx, UNCHANGED ingestion, db' \in Tables, late' \subseteq Rule,
           RulesHeld'
    PROVE  MatchInv'
<1>1. sess' = sess /\ tx' = tx /\ tx.batch = None
  BY DEF ingestion, NoTx
<1>2. MatchTypeOK'
  BY <1>1 DEF MatchInv, MatchTypeOK
<1>3. Held'
  BY <1>1 DEF Held, NoTx
<1>4. Fresh'
  <2>1. ASSUME NEW b \in Batch, sess[b].open, sess[b].store # Global PROVE FALSE
    <3>1. tx.batch = b /\ b # None
      BY <2>1, MatchingAssumption DEF MatchInv, Fresh
    <3>2. QED
      BY <1>1, <3>1
  <2>2. QED
    BY <1>1, <2>1 DEF Fresh
<1>5. QED
  BY <1>2, <1>3, <1>4 DEF MatchInv

\* Nothing is written, or no product and no rule.
LEMMA TablesStep ==
    ASSUME MatchInv, tx = NoTx, UNCHANGED <<ingestion, late>>, db' \in Tables,
           Live(db) \subseteq Live(db'), db'.rule = db.rule
    PROVE  MatchInv'
<1>1. late' \subseteq Rule /\ RulesHeld'
  BY DEF MatchInv, MatchTypeOK, RulesHeld
<1>2. QED
  BY <1>1, WriteStep

LEMMA CreateProductStep ==
    ASSUME MatchInv, tx = NoTx, NEW p \in Product, CreateProduct(p) PROVE MatchInv'
<1> DEFINE P == [db.product EXCEPT ![p] = "live"]
<1>1. db \in Tables /\ UNCHANGED <<ingestion, late>>
  BY DEF MatchInv, MatchTypeOK, CreateProduct
<1>2. db' = [db EXCEPT !.product = P] /\ P \in [Product -> {"absent", "live", "gone"}]
  BY <1>1, TablesTyped DEF CreateProduct
<1>3. \A q \in Product : db.product[q] = "live" => P[q] = "live"
  BY <1>1, TablesTyped
<1> HIDE DEF P
<1>4. db' \in Tables /\ db'.product = P /\ db'.rule = db.rule
  BY <1>1, <1>2 DEF Tables
<1>5. Live(db) \subseteq Live(db')
  BY <1>3, <1>4 DEF Live
<1>6. QED
  BY <1>1, <1>4, <1>5, TablesStep

LEMMA DeleteProductStep ==
    ASSUME MatchInv, tx = NoTx, NEW fk \in ForeignKeys, NEW p \in Product,
           DeleteProduct(fk, p)
    PROVE  MatchInv'
<1> DEFINE R == [r \in Rule |-> IF db.rule[r] # None /\ db.rule[r].product = p
                                THEN None ELSE db.rule[r]]
           d == [db EXCEPT !.rule = R]
<1>1. /\ db \in Tables /\ UNCHANGED <<ingestion, late>> /\ late \subseteq Rule /\ RulesHeld
  BY DEF MatchInv, MatchTypeOK, DeleteProduct
<1>2. R \in [Rule -> RuleRow \cup {None}]
  BY <1>1, TablesTyped
<1>3. \A r \in Rule : R[r] # None => R[r] = db.rule[r] /\ R[r].product # p
  OBVIOUS
<1>4. db' = Dropped(d, fk, p)
  BY DEF DeleteProduct
<1> HIDE DEF R
<1>5. d \in Tables /\ d.rule = R /\ d.product = db.product
  BY <1>1, <1>2 DEF Tables
<1> HIDE DEF d
<1>6. /\ db' \in Tables /\ db'.rule = R
      /\ \A q : q \in Live(db') <=> q \in Live(d) /\ q # p
  <2>1. LET e == Dropped(d, fk, p)
        IN /\ e \in Tables /\ e.rule = d.rule
           /\ \A q : q \in Live(e) <=> q \in Live(d) /\ q # p
    BY <1>5, DroppedTyped
  <2>2. QED
    BY <1>4, <1>5, <2>1
<1>7. Live(d) = Live(db)
  BY <1>5 DEF Live
<1>8. RulesHeld'
  BY <1>1, <1>3, <1>6, <1>7 DEF RulesHeld
<1>9. QED
  BY <1>1, <1>6, <1>8, WriteStep

\* What a merge leaves: aliases and rules of the merged product are the keeper's.
LEMMA Merged ==
    ASSUME db \in Tables, NEW fk \in ForeignKeys, NEW keep \in Product, NEW merged \in Product,
           Merge(fk, keep, merged)
    PROVE  /\ db' \in Tables
           /\ keep \in Live(db') /\ merged \in Live(db)
           /\ \A q : q \in Live(db') <=> q \in Live(db) /\ q # merged
           /\ \A a \in Scope \X Key :
                db'.alias[a] = (IF db.alias[a] = merged THEN keep ELSE db.alias[a])
           /\ \A c \in Store \X Code :
                db'.code[c] = (IF fk /\ db.code[c] = merged THEN None ELSE db.code[c])
           /\ \A r \in Rule :
                /\ db'.rule[r] = None <=> db.rule[r] = None
                /\ db.rule[r] # None =>
                     /\ db'.rule[r].scope = db.rule[r].scope
                     /\ db'.rule[r].when = db.rule[r].when
                     /\ db'.rule[r].priority = db.rule[r].priority
                     /\ db'.rule[r].product =
                          (IF db.rule[r].product = merged THEN keep ELSE db.rule[r].product)
<1> DEFINE d == Moved(db, merged, keep)
<1>1. /\ db' = Dropped(d, fk, merged) 
      /\ keep \in Live(db) /\ merged \in Live(db) /\ keep # merged
  BY DEF Merge
<1>2. /\ d \in Tables /\ d.product = db.product /\ d.code = db.code
      /\ \A a \in Scope \X Key :
           d.alias[a] = (IF db.alias[a] = merged THEN keep ELSE db.alias[a])
      /\ \A r \in Rule :
           /\ d.rule[r] = None <=> db.rule[r] = None
           /\ db.rule[r] # None =>
                /\ d.rule[r].scope = db.rule[r].scope /\ d.rule[r].when = db.rule[r].when
                /\ d.rule[r].priority = db.rule[r].priority
                /\ d.rule[r].product =
                     (IF db.rule[r].product = merged THEN keep ELSE db.rule[r].product)
  BY MovedTyped
<1> HIDE DEF d
<1>3. /\ db' \in Tables /\ db'.rule = d.rule
      /\ \A q : q \in Live(db') <=> q \in Live(d) /\ q # merged
      /\ \A a \in Scope \X Key :
           db'.alias[a] = (IF fk /\ d.alias[a] = merged THEN None ELSE d.alias[a])
      /\ \A c \in Store \X Code :
           db'.code[c] = (IF fk /\ d.code[c] = merged THEN None ELSE d.code[c])
  <2> DEFINE e == Dropped(d, fk, merged)
  <2>1. /\ e \in Tables /\ e.rule = d.rule
        /\ \A q : q \in Live(e) <=> q \in Live(d) /\ q # merged
        /\ \A a \in Scope \X Key :
             e.alias[a] = (IF fk /\ d.alias[a] = merged THEN None ELSE d.alias[a])
        /\ \A c \in Store \X Code :
             e.code[c] = (IF fk /\ d.code[c] = merged THEN None ELSE d.code[c])
    BY <1>2, DroppedTyped
  <2>2. db' = e
    BY <1>1
  <2> HIDE DEF e
  <2>3. QED
    BY <1>2, <2>1, <2>2
<1>4. Live(d) = Live(db)
  BY <1>2 DEF Live
<1>5. \A a \in Scope \X Key : d.alias[a] # merged
  BY <1>1, <1>2
<1>6. QED
  BY <1>1, <1>2, <1>3, <1>4, <1>5

LEMMA MergeStep ==
    ASSUME MatchInv, tx = NoTx, NEW fk \in ForeignKeys, NEW keep \in Product,
           NEW merged \in Product, Merge(fk, keep, merged)
    PROVE  MatchInv'
<1>1. db \in Tables /\ UNCHANGED <<ingestion, late>> /\ late \subseteq Rule /\ RulesHeld
  BY DEF MatchInv, MatchTypeOK, Merge
<1>2. ASSUME NEW r \in Rule, db'.rule[r] # None, r \notin late
      PROVE  db'.rule[r].product \in Live(db')
  <2>1. db.rule[r] # None /\ db.rule[r].product \in Live(db)
    BY <1>1, <1>2, Merged DEF RulesHeld
  <2>2. /\ db'.rule[r].product =
             (IF db.rule[r].product = merged THEN keep ELSE db.rule[r].product)
        /\ keep \in Live(db')
        /\ \A q : q \in Live(db') <=> q \in Live(db) /\ q # merged
    BY <1>1, <2>1, Merged
  <2>3. QED
    BY <2>1, <2>2
<1>3. db' \in Tables
  BY <1>1, Merged
<1>4. RulesHeld'
  BY <1>1, <1>2 DEF RulesHeld
<1>5. QED
  BY <1>1, <1>3, <1>4, WriteStep

LEMMA CreateAliasStep ==
    ASSUME MatchInv, tx = NoTx, NEW fk \in ForeignKeys, NEW scope \in Scope, NEW n \in Name,
           NEW p \in Product, CreateAlias(fk, scope, n, p)
    PROVE  MatchInv'
<1>1. db \in Tables /\ UNCHANGED <<ingestion, late>> /\ Stored[n] \in Key
  BY MatchingAssumption DEF MatchInv, MatchTypeOK, CreateAlias
<1>2. db' \in Tables /\ db'.product = db.product /\ db'.rule = db.rule
  BY <1>1 DEF CreateAlias, Upserted, Tables
<1>3. QED
  BY <1>1, <1>2, TablesStep DEF Live

LEMMA DeleteAliasStep ==
    ASSUME MatchInv, tx = NoTx, NEW scope \in Scope, NEW k \in Key, DeleteAlias(scope, k)
    PROVE  MatchInv'
<1>1. db \in Tables /\ UNCHANGED <<ingestion, late>>
  BY DEF MatchInv, MatchTypeOK, DeleteAlias
<1>2. db' \in Tables /\ db'.product = db.product /\ db'.rule = db.rule
  BY <1>1 DEF DeleteAlias, Tables
<1>3. QED
  BY <1>1, <1>2, TablesStep DEF Live

\* Rules may change, as long as those that get a product that is gone are late.
LEMMA RulesStep ==
    ASSUME MatchInv, tx = NoTx, NEW rules \in SUBSET Rule, NEW p \in Product,
           db' \in Tables, UNCHANGED ingestion, db'.product = db.product,
           late' = LateNow(rules, p),
           \A r \in Rule : IF r \in rules THEN db'.rule[r].product = p
                           ELSE db'.rule[r] = db.rule[r]
    PROVE  MatchInv'
<1>1. RulesHeld /\ late \subseteq Rule
  BY DEF MatchInv, MatchTypeOK
<1>2. Live(db') = Live(db)
  BY DEF Live
<1>3. late' \subseteq Rule /\ RulesHeld'
  BY <1>1, <1>2 DEF RulesHeld, LateNow
<1>4. QED
  BY <1>3, WriteStep

LEMMA WriteRuleStep ==
    ASSUME MatchInv, tx = NoTx, NEW fk \in ForeignKeys, NEW r \in Rule, NEW row \in RuleRow,
           WriteRule(fk, r, row)
    PROVE  MatchInv'
<1>1. /\ db \in Tables /\ UNCHANGED ingestion /\ late' = LateNow({r}, row.product)
      /\ row.product \in Product
  BY DEF MatchInv, MatchTypeOK, WriteRule, RuleRow
<1>2. /\ db' \in Tables /\ db'.product = db.product
      /\ db'.rule[r] = row /\ \A q \in Rule \ {r} : db'.rule[q] = db.rule[q]
  BY <1>1 DEF WriteRule, Tables
<1>3. QED
  BY <1>1, <1>2, RulesStep

LEMMA DeleteRuleStep ==
    ASSUME MatchInv, tx = NoTx, NEW r \in Rule, DeleteRule(r) PROVE MatchInv'
<1>1. /\ db \in Tables /\ UNCHANGED ingestion /\ late' = late \ {r}
      /\ late \subseteq Rule /\ RulesHeld
  BY DEF MatchInv, MatchTypeOK, DeleteRule
<1>2. /\ db' \in Tables /\ db'.product = db.product
      /\ db'.rule[r] = None /\ \A q \in Rule \ {r} : db'.rule[q] = db.rule[q]
  BY <1>1 DEF DeleteRule, Tables
<1>3. late' \subseteq Rule /\ RulesHeld'
  BY <1>1, <1>2 DEF RulesHeld, Live
<1>4. QED
  BY <1>1, <1>2, <1>3, WriteStep

LEMMA ManualMatchStep ==
    ASSUME MatchInv, tx = NoTx, NEW fk \in ForeignKeys, NEW i \in Input, NEW p \in Product,
           NEW rules \in SUBSET Rule, ManualMatch(fk, i, p, rules)
    PROVE  MatchInv'
<1> DEFINE learned == Coded(Upserted(db, i.store, i.name, p), i, p, TRUE)
           new == [scope |-> i.store, when |-> {Plain[i.name]}, priority |-> 0, product |-> p]
           R == [r \in Rule |-> IF r \in rules THEN new ELSE learned.rule[r]]
<1>1. db \in Tables /\ UNCHANGED ingestion /\ late' = LateNow(rules, p)
  BY DEF MatchInv, MatchTypeOK, ManualMatch
<1>2. learned \in Tables /\ learned.product = db.product /\ learned.rule = db.rule
  BY <1>1, LearnedTyped
<1>3. new \in RuleRow /\ new.product = p
  BY InputTyped, MatchingAssumption DEF RuleRow
<1>4. db' = [learned EXCEPT !.rule = R]
  BY DEF ManualMatch
<1> HIDE DEF learned, new
<1>5. /\ R \in [Rule -> RuleRow \cup {None}]
      /\ \A r \in Rule : R[r] = IF r \in rules THEN new ELSE db.rule[r]
  BY <1>1, <1>2, <1>3, TablesTyped
<1> HIDE DEF R
<1>6. db' \in Tables /\ db'.product = db.product /\ db'.rule = R
  BY <1>2, <1>4, <1>5 DEF Tables
<1>7. QED
  BY <1>1, <1>3, <1>5, <1>6, RulesStep

LEMMA BackfillStep ==
    ASSUME MatchInv, tx = NoTx, NEW fk \in ForeignKeys,
           NEW seen \in SUBSET ((Store \X Code) \X Product), Backfill(fk, seen)
    PROVE  MatchInv'
<1> DEFINE written == {s \in seen : s[1] \notin Conflicts(seen)}
           C == [c \in Store \X Code |->
                   IF db.code[c] = None /\ \E s \in written : s[1] = c
                   THEN CHOOSE p \in Product : <<c, p>> \in written ELSE db.code[c]]
<1>1. db \in Tables /\ UNCHANGED <<ingestion, late>>
  BY DEF MatchInv, MatchTypeOK, Backfill
<1>2. db.code \in [Store \X Code -> Product \cup {None}] /\ DOMAIN db.code = Store \X Code
  BY <1>1, TablesTyped
<1>3. db' = [db EXCEPT !.code = C]
  BY <1>2 DEF Backfill
<1>4. ASSUME NEW c \in Store \X Code PROVE C[c] \in Product \cup {None}
  <2>1. CASE db.code[c] = None /\ \E s \in written : s[1] = c
    <3>1. PICK s \in written : s[1] = c
      BY <2>1
    <3>2. s \in (Store \X Code) \X Product
      OBVIOUS
    <3> HIDE DEF written
    <3>3. s = <<c, s[2]>> /\ s[2] \in Product
      BY <3>1, <3>2
    <3>4. (CHOOSE p \in Product : <<c, p>> \in written) \in Product
      BY <3>1, <3>3
    <3>5. QED
      BY <2>1, <3>4
  <2>2. CASE ~(db.code[c] = None /\ \E s \in written : s[1] = c)
    <3> HIDE DEF written
    <3>1. QED
      BY <1>2, <2>2
  <2>3. QED
    BY <2>1, <2>2
<1> HIDE DEF written
<1>5. C \in [Store \X Code -> Product \cup {None}]
  BY <1>4
<1> HIDE DEF C
<1>6. db' \in Tables /\ db'.product = db.product /\ db'.rule = db.rule
  BY <1>1, <1>3, <1>5 DEF Tables
<1>7. QED
  BY <1>1, <1>6, TablesStep DEF Live

LEMMA ClosedTyped == Closed \in Session /\ Closed.open = FALSE
BY MatchingAssumption DEF Closed, Session, Scope

\* What an answer may be.
LEMMA FoundTyped ==
    ASSUME MatchTypeOK, NEW b \in Batch, NEW i \in Input, NEW a \in Found(b, i)
    PROVE  a.product \in Product
<1>1. db \in Tables /\ sess[b].candidates \in SUBSET Candidate
  BY DEF MatchTypeOK, Session
<1>2. \A r \in Rule : db.rule[r] # None => db.rule[r].product \in Product
  BY <1>1, TablesTyped DEF RuleRow
<1>3. Live(db) \subseteq Product
  BY DEF Live
<1>4. \A c \in sess[b].candidates : c[2] \in Product
  BY <1>1 DEF Candidate
<1>5. \A x \in EngineMatch(db, i) : x.product \in Product
  BY <1>2, <1>3, EngineAnswers
<1>6. \A x \in SessionMatch(db, sess[b], i) : x.product \in Product
  <2> DEFINE cs == sess[b].candidates
             later == ByFuzzy(cs, i) ?? BySuggestion(db, cs, i)
  <2>1. \A x \in Direct(db, i) : x.product \in Product
    BY <1>2, <1>3, DirectAnswers
  <2>2. \A x \in later : x.product \in Live(db) \/ \E c \in cs : x.product = c[2]
    BY LaterAnswers
  <2>3. SessionMatch(db, sess[b], i) \in {Direct(db, i), later}
    BY DirectFirst
  <2> HIDE DEF later, cs
  <2>4. QED
    BY <1>3, <1>4, <2>1, <2>2, <2>3 DEF cs
<1>7. QED
  BY <1>5, <1>6 DEF Found

LEMMA NoTxTyped == NoTx \in Transaction /\ NoTx.batch = None /\ Empty \in Tables
<1>1. Empty \in Tables
  BY DEF Empty, Tables
<1> HIDE DEF Empty
<1>2. QED
  BY <1>1 DEF NoTx, Transaction

LEMMA OpenedTyped ==
    ASSUME NEW s \in Scope, NEW cached \in BOOLEAN
    PROVE  /\ Opened(s, cached) \in Session
           /\ Opened(s, cached).open /\ Opened(s, cached).store = s
           /\ Opened(s, cached).cached => Opened(s, cached).candidates = Candidates(db, s)
<1> DEFINE cs == IF cached THEN Candidates(db, s) ELSE {}
<1>1. cs \in SUBSET Candidate /\ (cached => cs = Candidates(db, s))
  BY DEF Candidates
<1> HIDE DEF cs
<1>2. Opened(s, cached) = [open |-> TRUE, cached |-> cached, store |-> s, candidates |-> cs]
  BY DEF Opened, cs
<1>3. QED
  BY <1>1, <1>2 DEF Session

LEMMA BegunTyped ==
    ASSUME db \in Tables, NEW fk \in BOOLEAN, NEW b \in Batch, NEW s
    PROVE  /\ Begun(fk, b) \in Transaction /\ Begun(fk, b).batch = b
           /\ Lesson(db, Begun(fk, b).tables, Begun(fk, b).lines, s)
<1>1. /\ Begun(fk, b) \in Transaction /\ Begun(fk, b).batch = b
      /\ Begun(fk, b).tables = db /\ Begun(fk, b).lines = {}
  BY DEF Begun, Transaction
<1>2. QED
  BY <1>1 DEF Lesson

LEMMA OpenStep ==
    ASSUME MatchInv, NEW fk \in ForeignKeys, NEW b \in Batch, NEW s \in Scope,
           NEW cached \in BOOLEAN, Open(fk, b, s, cached)
    PROVE  MatchInv'
<1> DEFINE new == Opened(s, cached)
           t == Begun(fk, b)
<1>1. /\ MatchTypeOK /\ RulesHeld /\ Fresh /\ tx.batch = None /\ b # None
      /\ db' = db /\ late' = late /\ sess' = [sess EXCEPT ![b] = new] /\ tx' = t
      /\ fk \in BOOLEAN
  BY NoTxTyped, MatchingAssumption DEF Open, MatchInv
<1>2. /\ new \in Session /\ new.open /\ new.store = s
      /\ new.cached => new.candidates = Candidates(db, s)
  BY OpenedTyped
<1>3. t \in Transaction /\ t.batch = b /\ Lesson(db, t.tables, t.lines, s)
  BY <1>1, BegunTyped DEF MatchTypeOK
<1> HIDE DEF new, t
<1>4. /\ sess' \in [Batch -> Session] /\ sess'[b] = new
      /\ \A o \in Batch \ {b} : sess'[o] = sess[o]
  BY <1>1, <1>2 DEF MatchTypeOK
<1>5. MatchTypeOK' /\ RulesHeld'
  BY <1>1, <1>3, <1>4 DEF MatchTypeOK, RulesHeld, Live
<1>6. Held'
  BY <1>1, <1>2, <1>3, <1>4 DEF Held
<1>7. Fresh'
  <2>1. ASSUME NEW o \in Batch, o # b, sess[o].open, sess[o].store # Global PROVE FALSE
    BY <1>1, <2>1, MatchingAssumption DEF Fresh
  <2>2. QED
    BY <1>1, <1>2, <1>3, <1>4, <2>1 DEF Fresh
<1>8. QED
  BY <1>5, <1>6, <1>7 DEF MatchInv

LEMMA OpenAheadStep ==
    ASSUME MatchInv, NEW b \in Batch, NEW cached \in BOOLEAN, OpenAhead(b, cached)
    PROVE  MatchInv'
<1> DEFINE new == Opened(Global, cached)
<1>1. /\ MatchTypeOK /\ RulesHeld /\ Fresh /\ Held /\ ~sess[b].open
      /\ db' = db /\ late' = late /\ sess' = [sess EXCEPT ![b] = new] /\ tx' = tx
  BY DEF OpenAhead, MatchInv
<1>2. new \in Session /\ new.open /\ new.store = Global
  BY OpenedTyped DEF Scope
<1> HIDE DEF new
<1>3. /\ sess' \in [Batch -> Session] /\ sess'[b] = new
      /\ \A o \in Batch \ {b} : sess'[o] = sess[o]
  BY <1>1, <1>2 DEF MatchTypeOK
<1>4. MatchTypeOK' /\ RulesHeld'
  BY <1>1, <1>3 DEF MatchTypeOK, RulesHeld, Live
<1>5. Held'
  <2>1. tx.batch # None => tx.batch \in Batch \ {b}
    BY <1>1 DEF Held, MatchTypeOK, Transaction
  <2>2. QED
    BY <1>1, <1>3, <2>1 DEF Held
<1>6. Fresh'
  BY <1>1, <1>2, <1>3 DEF Fresh
<1>7. QED
  BY <1>4, <1>5, <1>6 DEF MatchInv

LEMMA BeginStep ==
    ASSUME MatchInv, NEW fk \in ForeignKeys, NEW b \in Batch, Begin(fk, b)
    PROVE  MatchInv'
<1> DEFINE t == Begun(fk, b)
<1>1. /\ MatchTypeOK /\ RulesHeld /\ Fresh /\ tx.batch = None /\ b # None /\ sess[b].open
      /\ db' = db /\ late' = late /\ sess' = sess /\ tx' = t /\ fk \in BOOLEAN
  BY NoTxTyped, MatchingAssumption DEF Begin, MatchInv
<1>2. t \in Transaction /\ t.batch = b /\ Lesson(db, t.tables, t.lines, sess[b].store)
  BY <1>1, BegunTyped DEF MatchTypeOK
<1> HIDE DEF t
<1>3. MatchTypeOK' /\ RulesHeld'
  BY <1>1, <1>2 DEF MatchTypeOK, RulesHeld, Live
<1>4. Held'
  BY <1>1, <1>2 DEF Held
<1>5. Fresh'
  <2>1. ASSUME NEW o \in Batch, sess[o].open, sess[o].store # Global PROVE FALSE
    BY <1>1, <2>1, MatchingAssumption DEF Fresh
  <2>2. QED
    BY <1>1, <2>1 DEF Fresh
<1>6. QED
  BY <1>3, <1>4, <1>5 DEF MatchInv

\* One more line teaches a new name and a new code, and leaves known ones.
LEMMA LessonGrows ==
    ASSUME NEW d \in Tables, NEW t \in Tables, NEW L \in SUBSET Line, NEW i \in Input,
           NEW p \in Live(d), i.store # Global, Lesson(d, t, L, i.store)
    PROVE  LET m == [name |-> i.name, code |-> i.code, product |-> p]
           IN /\ Taught(t, i, p) \in Tables /\ m \in Line
              /\ Lesson(d, Taught(t, i, p), L \cup {m}, i.store)
<1> DEFINE e == Taught(t, i, p)
           m == [name |-> i.name, code |-> i.code, product |-> p]
           k == <<i.store, Stored[i.name]>>
           c == <<i.store, i.code>>
<1>1. p \in Product /\ p # None
  BY InputTyped DEF Live
<1>2. /\ i.name \in Name /\ k \in Scope \X Key /\ i.code \in Code \cup {None}
      /\ i.code # None => c \in Store \X Code
      /\ t.alias \in [Scope \X Key -> Product \cup {None}]
      /\ t.code \in [Store \X Code -> Product \cup {None}]
  BY InputTyped, TablesTyped
<1>3. m \in Line /\ m.name = i.name /\ m.code = i.code /\ m.product = p
  BY <1>1, <1>2 DEF Line
<1>4. /\ e \in Tables /\ e.product = t.product /\ e.rule = t.rule
      /\ e.alias = (IF t.alias[k] = None THEN [t.alias EXCEPT ![k] = p] ELSE t.alias)
      /\ e.code = (IF i.code # None /\ t.code[c] = None
                   THEN [t.code EXCEPT ![c] = p] ELSE t.code)
  BY <1>1, LearnedTyped DEF Taught
<1> HIDE DEF e, m
<1>5. \A a \in Scope \X Key : e.alias[a] # t.alias[a] => a = k /\ t.alias[a] = None /\ e.alias[a] = p
  <2> HIDE DEF k
  <2>1. QED
    BY <1>2, <1>4
<1>6. \A x \in Store \X Code :
        e.code[x] # t.code[x] => /\ i.code # None /\ x = c /\ t.code[x] = None
                                 /\ e.code[x] = p
  <2> HIDE DEF c
  <2>1. QED
    BY <1>2, <1>4
<1>7. e.alias[k] # None /\ \A a \in Scope \X Key : t.alias[a] # None => e.alias[a] # None
  <2> HIDE DEF k
  <2>1. QED
    BY <1>1, <1>2, <1>4
<1>8. ASSUME NEW a \in Scope \X Key, e.alias[a] # d.alias[a]
      PROVE  /\ d.alias[a] = None /\ a[1] = i.store
             /\ \E x \in L \cup {m} : Stored[x.name] = a[2] /\ e.alias[a] = x.product
  <2>1. CASE e.alias[a] = t.alias[a]
    BY <1>8, <2>1 DEF Lesson
  <2>2. CASE e.alias[a] # t.alias[a]
    <3>1. a = k /\ t.alias[a] = None /\ e.alias[a] = p
      BY <1>5, <2>2
    <3>2. d.alias[a] = None
      BY <3>1 DEF Lesson
    <3>3. a[1] = i.store /\ a[2] = Stored[i.name]
      BY <3>1
    <3>4. QED
      BY <1>3, <3>1, <3>2, <3>3
  <2>3. QED
    BY <2>1, <2>2
<1>9. ASSUME NEW x \in Store \X Code, e.code[x] # d.code[x]
      PROVE  /\ d.code[x] = None /\ x[1] = i.store
             /\ \E y \in L \cup {m} : y.code = x[2] /\ e.code[x] = y.product
  <2>1. CASE e.code[x] = t.code[x]
    BY <1>9, <2>1 DEF Lesson
  <2>2. CASE e.code[x] # t.code[x]
    <3>1. x = c /\ t.code[x] = None /\ e.code[x] = p
      BY <1>6, <2>2
    <3>2. d.code[x] = None
      BY <3>1 DEF Lesson
    <3>3. x[1] = i.store /\ x[2] = i.code
      BY <3>1
    <3>4. QED
      BY <1>3, <3>1, <3>2, <3>3
  <2>3. QED
    BY <2>1, <2>2
<1>10. ASSUME NEW x \in L \cup {m}
       PROVE  x.product \in Live(d) /\ e.alias[<<i.store, Stored[x.name]>>] # None
  <2>1. CASE x = m
    BY <1>3, <1>7, <2>1
  <2>2. CASE x \in L
    <3>1. <<i.store, Stored[x.name]>> \in Scope \X Key
      BY <2>2, InputTyped, MatchingAssumption DEF Line
    <3>2. QED
      BY <1>7, <2>2, <3>1 DEF Lesson
  <2>3. QED
    BY <2>1, <2>2
<1>11. e.product = d.product /\ e.rule = d.rule
  BY <1>4 DEF Lesson
<1>12. Lesson(d, e, L \cup {m}, i.store)
  BY <1>8, <1>9, <1>10, <1>11 DEF Lesson
<1>13. QED
  BY <1>3, <1>4, <1>12 DEF e, m

LEMMA IngestStep ==
    ASSUME MatchInv, NEW b \in Batch, NEW i \in Input, NEW answer \in Found(b, i),
           Ingest(b, i, answer)
    PROVE  MatchInv'
<1> DEFINE p == answer.product
           m == [name |-> i.name, code |-> i.code, product |-> p]
<1>1. /\ MatchTypeOK /\ RulesHeld /\ Fresh /\ Held /\ tx.batch = b /\ b # None
      /\ db' = db /\ late' = late /\ sess' = sess /\ i.store = sess[b].store
      /\ db \in Tables
  BY MatchingAssumption DEF Ingest, MatchInv, MatchTypeOK
<1>2. CASE tx' = tx
  BY <1>1, <1>2 DEF MatchInv, MatchTypeOK, RulesHeld, Held, Fresh, Live
<1>3. CASE tx' # tx
  <2>1. /\ i.store # Global
        /\ tx' = [tx EXCEPT !.tables = Taught(@, i, p), !.lines = @ \cup {m}]
        /\ CanLearn(tx.fk, i, p)
    BY <1>3 DEF Ingest
  <2>2. p \in Live(db)
    BY <2>1 DEF CanLearn
  <2>3. /\ tx.tables \in Tables /\ tx.lines \in SUBSET Line
        /\ Lesson(db, tx.tables, tx.lines, i.store) /\ sess[b].open
    BY <1>1 DEF Held, MatchTypeOK, Transaction
  <2>4. /\ Taught(tx.tables, i, p) \in Tables /\ m \in Line
        /\ Lesson(db, Taught(tx.tables, i, p), tx.lines \cup {m}, i.store)
    BY <1>1, <2>1, <2>2, <2>3, LessonGrows
  <2> HIDE DEF m
  <2>5. /\ tx' \in Transaction /\ tx'.batch = b /\ tx'.tables = Taught(tx.tables, i, p)
        /\ tx'.lines = tx.lines \cup {m}
    BY <1>1, <2>1, <2>3, <2>4 DEF MatchTypeOK, Transaction
  <2>6. MatchTypeOK' /\ RulesHeld'
    BY <1>1, <2>5 DEF MatchTypeOK, RulesHeld, Live
  <2>7. Held'
    BY <1>1, <2>3, <2>4, <2>5 DEF Held
  <2>8. Fresh'
    BY <1>1, <2>5 DEF Fresh
  <2>9. QED
    BY <2>6, <2>7, <2>8 DEF MatchInv
<1>4. QED
  BY <1>2, <1>3

LEMMA CommitReceiptStep ==
    ASSUME MatchInv, NEW b \in Batch, CommitReceipt(b) PROVE MatchInv'
<1>1. /\ MatchTypeOK /\ RulesHeld /\ Fresh /\ Held /\ tx.batch = b /\ b # None
      /\ db' = tx.tables /\ late' = late /\ sess' = [sess EXCEPT ![b] = Closed] /\ tx' = NoTx
  BY MatchingAssumption DEF CommitReceipt, MatchInv
<1>2. /\ sess' \in [Batch -> Session] /\ sess'[b].open = FALSE
      /\ \A o \in Batch \ {b} : sess'[o] = sess[o]
  BY <1>1, ClosedTyped DEF MatchTypeOK
<1>3. /\ db' \in Tables /\ db'.product = db.product /\ db'.rule = db.rule
  BY <1>1 DEF Held, Lesson, MatchTypeOK, Transaction
<1>4. MatchTypeOK' /\ RulesHeld'
  BY <1>1, <1>2, <1>3, NoTxTyped DEF MatchTypeOK, RulesHeld, Live
<1>5. Held'
  BY <1>1, NoTxTyped DEF Held
<1>6. Fresh'
  <2>1. ASSUME NEW o \in Batch, sess'[o].open, sess'[o].store # Global PROVE FALSE
    BY <1>1, <1>2, <2>1 DEF Fresh
  <2>2. QED
    BY <2>1 DEF Fresh
<1>7. QED
  BY <1>4, <1>5, <1>6 DEF MatchInv

LEMMA DropStep ==
    ASSUME MatchInv, NEW b \in Batch, Drop(b) PROVE MatchInv'
<1>1. /\ MatchTypeOK /\ RulesHeld /\ Fresh /\ Held
      /\ db' = db /\ late' = late /\ sess' = [sess EXCEPT ![b] = Closed]
      /\ tx' = IF tx.batch = b THEN NoTx ELSE tx
  BY DEF Drop, MatchInv
<1>2. /\ sess' \in [Batch -> Session] /\ sess'[b].open = FALSE
      /\ \A o \in Batch \ {b} : sess'[o] = sess[o]
  BY <1>1, ClosedTyped DEF MatchTypeOK
<1>3. MatchTypeOK' /\ RulesHeld'
  BY <1>1, <1>2, NoTxTyped DEF MatchTypeOK, RulesHeld, Live
<1>4. Held'
  <2>1. CASE tx.batch = b
    BY <1>1, <2>1, NoTxTyped DEF Held
  <2>2. CASE tx.batch # b
    <3>1. tx' = tx /\ (tx.batch # None => tx.batch \in Batch \ {b})
      BY <1>1, <2>2 DEF MatchTypeOK, Transaction
    <3>2. QED
      BY <1>1, <1>2, <3>1 DEF Held
  <2>3. QED
    BY <2>1, <2>2
<1>5. Fresh'
  <2>1. ASSUME NEW o \in Batch, sess'[o].open, sess'[o].store # Global
        PROVE  /\ tx'.batch = o
               /\ sess'[o].cached => sess'[o].candidates = Candidates(db', sess'[o].store)
    <3>1. o # b /\ sess'[o] = sess[o]
      BY <1>2, <2>1
    <3>2. tx.batch = o
      BY <1>1, <2>1, <3>1 DEF Fresh
    <3>3. QED
      BY <1>1, <2>1, <3>1, <3>2 DEF Fresh
  <2>2. QED
    BY <2>1 DEF Fresh
<1>6. QED
  BY <1>3, <1>4, <1>5 DEF MatchInv

LEMMA MatchStarts == Init => MatchInv
<1> SUFFICES ASSUME Init PROVE MatchInv
  OBVIOUS
<1>1. db \in Tables /\ sess \in [Batch -> Session] /\ tx \in Transaction /\ late \subseteq Rule
  BY ClosedTyped, NoTxTyped DEF Init
<1>2. RulesHeld
  BY DEF Init, Empty, RulesHeld
<1>3. Held
  BY NoTxTyped DEF Init, Held
<1>4. Fresh
  BY ClosedTyped DEF Init, Fresh
<1>5. QED
  BY <1>1, <1>2, <1>3, <1>4 DEF MatchInv, MatchTypeOK

LEMMA MatchSteps == MatchInv /\ [Next]_vars => MatchInv'
<1> SUFFICES ASSUME MatchInv, [Next]_vars PROVE MatchInv'
  OBVIOUS
<1>1. CASE UNCHANGED vars
  BY <1>1 DEF vars, MatchInv, MatchTypeOK, RulesHeld, Held, Fresh, Live, Candidates
<1>2. CASE tx = NoTx /\ Manage
  BY <1>2, CreateProductStep, DeleteProductStep, MergeStep, CreateAliasStep, DeleteAliasStep,
     DeleteRuleStep, WriteRuleStep
     DEF Manage
<1>3. CASE tx = NoTx /\ ByHand
  <2>1. ASSUME NEW fk \in ForeignKeys, NEW i \in Input, NEW p \in Product,
               NEW rules \in {{}} \cup {{r} : r \in {x \in Rule : db.rule[x] = None}},
               ManualMatch(fk, i, p, rules)
        PROVE  MatchInv'
    <3>1. rules \in SUBSET Rule
      OBVIOUS
    <3>2. QED
      BY <1>3, <2>1, <3>1, ManualMatchStep
  <2>2. QED
    BY <1>3, <2>1, BackfillStep DEF ByHand
<1>4. ASSUME NEW b \in Batch, Receipt(b) PROVE MatchInv'
  <2>1. ASSUME NEW fk \in ForeignKeys, NEW s \in Scope, NEW cached \in BOOLEAN,
               Open(fk, b, s, cached)
        PROVE  MatchInv'
    BY <2>1, OpenStep
  <2>2. ASSUME NEW fk \in ForeignKeys, Begin(fk, b) PROVE MatchInv'
    BY <2>2, BeginStep
  <2>3. ASSUME NEW cached \in BOOLEAN, OpenAhead(b, cached) PROVE MatchInv'
    BY <2>3, OpenAheadStep
  <2>4. ASSUME NEW i \in Input, NEW answer \in Found(b, i), Ingest(b, i, answer)
        PROVE  MatchInv'
    BY <2>4, IngestStep
  <2>5. ASSUME CommitReceipt(b) PROVE MatchInv'
    BY <2>5, CommitReceiptStep
  <2>6. ASSUME Drop(b) PROVE MatchInv'
    BY <2>6, DropStep
  <2>7. QED
    BY <1>4, <2>1, <2>2, <2>3, <2>4, <2>5, <2>6 DEF Receipt
<1>5. QED
  BY <1>1, <1>2, <1>3, <1>4 DEF Next

-----------------------------------------------------------------------------
(* The theorems about matching.                                            *)

\* Any edits, merges, deletions and lessons, with foreign keys or without, leave
\* tables whose matches are products that are there: the joins of the code and
\* alias stages and the candidates' query see to it, and a rule, which is read
\* without its product, dies or moves with the product it gives, unless it was
\* written when that had gone already.
THEOREM MatchingIsSound == Spec => []MatchSound
<1>1. MatchInv => MatchSound
  <2>1. ASSUME MatchInv, NEW i \in Input, NEW a \in EngineMatch(db, i),
               a.product \notin Live(db)
        PROVE  a.by = "rule" /\ \E r \in late : /\ db.rule[r] # None
                                               /\ db.rule[r].product = a.product
    <3>1. a.by = "rule"
      BY <2>1, EngineAnswers
    <3>2. PICK r \in Rule : db.rule[r] # None /\ db.rule[r].product = a.product
      BY <3>1, EngineAnswers
    <3>3. r \in late
      BY <2>1, <3>2 DEF MatchInv, RulesHeld
    <3>4. QED
      BY <3>1, <3>2, <3>3
  <2>2. QED
    BY <2>1 DEF MatchSound, MatchInv
<1>2. QED
  BY <1>1, MatchStarts, MatchSteps, PTL DEF Spec

\* Session.MatchInput answers like Engine.MatchInput for every line of a receipt
\* with a store, because nobody else writes between the first line and the last,
\* and without a store as long as its candidates are those of the database or a
\* code, a rule or an alias answers.
THEOREM SessionsAgree == Spec => []SessionAgrees
<1>1. MatchInv => SessionAgrees
  <2> SUFFICES ASSUME MatchInv PROVE SessionAgrees
    OBVIOUS
  <2>1. ASSUME NEW b \in Batch, NEW i \in Input,
               sess[b].candidates = Candidates(db, i.store)
        PROVE  SessionMatch(db, sess[b], i) = EngineMatch(db, i)
    BY <2>1 DEF SessionMatch, EngineMatch
  <2>2. ASSUME NEW b \in Batch, NEW i \in Input,
               NEW a \in EngineMatch(db, i), a.by \in {"code", "rule", "alias"}
        PROVE  SessionMatch(db, sess[b], i) = EngineMatch(db, i)
    <3>1. a \in Direct(db, i)
      BY <2>2, EngineAnswers
    <3>2. QED
      BY <3>1, DirectFirst
  <2>3. ASSUME NEW b \in Batch, NEW i \in Input, sess[b].open, sess[b].cached,
               sess[b].store = i.store, i.store # Global
        PROVE  sess[b].candidates = Candidates(db, i.store)
    BY <2>3 DEF MatchInv, Fresh
  <2>4. QED
    BY <2>1, <2>2, <2>3 DEF SessionAgrees
<1>2. QED
  BY <1>1, MatchStarts, MatchSteps, PTL DEF Spec

\* What a match of the store is after a receipt of it.
LEMMA Settled ==
    ASSUME MatchInv, NEW b \in Batch, CommitReceipt(b), NEW i \in Input,
           i.store = sess[b].store, i.store # Global, Plain[i.name] = Stored[i.name],
           db'.alias[<<i.store, Stored[i.name]>>] \in Live(db') \cup {None},
           \/ Sure(EngineMatch(db, i))
           \/ \E m \in tx.lines : m.name = i.name /\ m.code = i.code
    PROVE  \/ Sure(EngineMatch(db, i)) /\ EngineMatch(db', i) = EngineMatch(db, i)
           \/ /\ EngineMatch(db', i) # {}
              /\ Products(EngineMatch(db', i)) \subseteq TaughtFor(i)
<1> DEFINE k == <<i.store, Stored[i.name]>>
           g == <<Global, Stored[i.name]>>
           c == <<i.store, i.code>>
<1>1. /\ db \in Tables /\ db' \in Tables /\ db' = tx.tables
      /\ Lesson(db, db', tx.lines, i.store)
  <2>1. tx.batch = b /\ b # None /\ db' = tx.tables /\ tx \in Transaction
    BY MatchingAssumption DEF CommitReceipt, MatchInv, MatchTypeOK
  <2>2. QED
    BY <2>1 DEF MatchInv, MatchTypeOK, Held, Transaction
<1>names. \A a \in Scope \X Key : db'.alias[a] # db.alias[a] =>
        /\ db.alias[a] = None /\ a[1] = i.store
        /\ \E m \in tx.lines : Stored[m.name] = a[2] /\ db'.alias[a] = m.product
  BY <1>1 DEF Lesson
<1>codes. \A a \in Store \X Code : db'.code[a] # db.code[a] =>
        /\ db.code[a] = None
        /\ \E m \in tx.lines : m.code = a[2] /\ db'.code[a] = m.product
  BY <1>1 DEF Lesson
<1>2. /\ k \in Scope \X Key /\ g \in Scope \X Key
      /\ i.code # None => c \in Store \X Code
      /\ k[1] = i.store /\ k[2] = Stored[i.name] /\ g[1] = Global
      /\ c[1] = i.store /\ c[2] = i.code
      /\ None \notin Live(db)
  BY InputTyped DEF Live
<1>3. Live(db') = Live(db) /\ ByRule(db', i) = ByRule(db, i)
  BY <1>1 DEF Lesson, Live, ByRule
<1>4. db'.alias[k] # db.alias[k] => db'.alias[k] \in TaughtFor(i) /\ db'.alias[k] \in Live(db)
  <2>1. SUFFICES ASSUME db'.alias[k] # db.alias[k]
                 PROVE  db'.alias[k] \in TaughtFor(i) /\ db'.alias[k] \in Live(db)
    OBVIOUS
  <2>2. db.alias[k] = None /\ \E m \in tx.lines : Stored[m.name] = k[2] /\ db'.alias[k] = m.product
    <3> HIDE DEF k
    <3>1. QED
      BY <1>names, <1>2, <2>1
  <2>3. PICK m \in tx.lines : Stored[m.name] = Stored[i.name] /\ db'.alias[k] = m.product
    BY <1>2, <2>2
  <2>4. m.product \in TaughtFor(i)
    BY <2>2, <2>3 DEF TaughtFor
  <2>5. m.product \in Live(db)
    BY <1>1 DEF Lesson
  <2>6. QED
    BY <2>3, <2>4, <2>5
<1>5. i.code # None /\ db'.code[c] # db.code[c] =>
        db.code[c] = None /\ db'.code[c] \in TaughtFor(i)
  <2>1. SUFFICES ASSUME i.code # None, db'.code[c] # db.code[c]
                 PROVE  db.code[c] = None /\ db'.code[c] \in TaughtFor(i)
    OBVIOUS
  <2>2. db.code[c] = None /\ \E m \in tx.lines : m.code = c[2] /\ db'.code[c] = m.product
    <3> HIDE DEF c
    <3>1. QED
      BY <1>codes, <1>2, <2>1
  <2>3. PICK m \in tx.lines : m.code = i.code /\ db'.code[c] = m.product
    BY <1>2, <2>2
  <2>4. m.product \in TaughtFor(i)
    BY <2>1, <2>2, <2>3 DEF TaughtFor
  <2>5. QED
    BY <2>2, <2>3, <2>4
<1>6. db'.alias[g] = db.alias[g]
  <2> HIDE DEF g
  <2>1. g \in Scope \X Key /\ g[1] # i.store
    BY <1>2
  <2>2. QED
    BY <1>names, <2>1
<1>7. Direct(db, i) # {} => Sure(EngineMatch(db, i))
  BY DirectFirst, DirectAnswers DEF Sure
<1>8. Sure(EngineMatch(db, i)) => Direct(db, i) # {}
  BY EngineAnswers DEF Sure
<1>9. \A by, p : p \in TaughtFor(i) /\ EngineMatch(db', i) = One(by, p) =>
        /\ EngineMatch(db', i) # {}
        /\ Products(EngineMatch(db', i)) \subseteq TaughtFor(i)
  <2>1. SUFFICES ASSUME NEW by, NEW p \in TaughtFor(i), EngineMatch(db', i) = One(by, p)
                 PROVE  /\ One(by, p) # {}
                        /\ \A q \in Products(One(by, p)) : q \in TaughtFor(i)
    OBVIOUS
  <2>2. QED
    BY OneAnswer
<1>10. CASE ByCode(db, i) # {}
  <2>1. i.code # None /\ db.code[c] \in Live(db) /\ ByCode(db, i) = One("code", db.code[c])
    BY <1>10, CodeAnswer
  <2>2. db'.code[c] = db.code[c]
    BY <1>2, <1>5, <2>1
  <2>3. ByCode(db', i) # {} /\ ByCode(db', i) = ByCode(db, i)
    BY <1>3, <2>1, <2>2, CodeAnswer
  <2>4. Direct(db, i) = ByCode(db, i) /\ Direct(db', i) = ByCode(db, i)
    BY <1>10, <2>3, DirectFirst
  <2>5. EngineMatch(db', i) = ByCode(db, i) /\ EngineMatch(db, i) = ByCode(db, i)
    BY <1>10, <2>4, DirectFirst
  <2>6. QED
    BY <1>7, <1>10, <2>4, <2>5
<1>11. CASE ByCode(db, i) = {} /\ ByCode(db', i) # {}
  <2>1. /\ i.code # None /\ db'.code[c] \in Live(db) /\ db.code[c] \notin Live(db)
        /\ ByCode(db', i) = One("code", db'.code[c])
    BY <1>3, <1>11, CodeAnswer
  <2>2. db'.code[c] \in TaughtFor(i)
    BY <1>5, <2>1
  <2>3. Direct(db', i) = One("code", db'.code[c]) /\ Direct(db', i) # {}
    BY <1>11, <2>1, DirectFirst
  <2>4. EngineMatch(db', i) = One("code", db'.code[c])
    BY <2>3, DirectFirst
  <2>5. QED
    BY <1>9, <2>2, <2>4
<1>12. CASE ByCode(db, i) = {} /\ ByCode(db', i) = {} /\ ByRule(db, i) # {}
  <2>1. Direct(db, i) = ByRule(db, i) /\ Direct(db', i) = ByRule(db, i)
    BY <1>3, <1>12, DirectFirst
  <2>2. EngineMatch(db', i) = ByRule(db, i) /\ EngineMatch(db, i) = ByRule(db, i)
    BY <1>12, <2>1, DirectFirst
  <2>3. QED
    BY <1>7, <1>12, <2>1, <2>2
<1>13. CASE ByCode(db, i) = {} /\ ByCode(db', i) = {} /\ ByRule(db, i) = {}
  <2>1. Direct(db, i) = ByAlias(db, i) /\ Direct(db', i) = ByAlias(db', i)
    BY <1>3, <1>13, DirectFirst
  <2>2. \A d : d.alias[k] \in Live(d) => ByAlias(d, i) = One("alias", d.alias[k])
    BY AliasAnswer
  <2>3. CASE db'.alias[k] # db.alias[k]
    <3>1. db'.alias[k] \in TaughtFor(i) /\ db'.alias[k] \in Live(db')
      BY <1>3, <1>4, <2>3
    <3>2. ByAlias(db', i) = One("alias", db'.alias[k])
      BY <2>2, <3>1
    <3>3. ByAlias(db', i) # {}
      BY <3>2, OneAnswer
    <3>4. EngineMatch(db', i) = One("alias", db'.alias[k])
      BY <2>1, <3>2, <3>3, DirectFirst
    <3>5. QED
      BY <1>9, <3>1, <3>4
  <2>4. CASE db'.alias[k] = db.alias[k]
    <3>1. ByAlias(db', i) = ByAlias(db, i)
      BY <1>3, <1>6, <2>4 DEF ByAlias
    <3>2. CASE Direct(db, i) # {}
      <4>1. EngineMatch(db', i) = ByAlias(db, i) /\ EngineMatch(db, i) = ByAlias(db, i)
        BY <2>1, <3>1, <3>2, DirectFirst
      <4>2. QED
        BY <1>7, <3>2, <4>1
    <3>3. CASE Direct(db, i) = {}
      <4>1. PICK m \in tx.lines : m.name = i.name /\ m.code = i.code
        BY <1>8, <3>3
      <4>2. db'.alias[k] # None
        BY <1>1, <4>1 DEF Lesson
      <4>3. db.alias[k] \in Live(db)
        BY <1>3, <2>4, <4>2
      <4>4. ByAlias(db, i) = One("alias", db.alias[k])
        BY <2>2, <4>3
      <4>5. ByAlias(db, i) # {}
        BY <4>4, OneAnswer
      <4>6. QED
        BY <2>1, <3>3, <4>5
    <3>4. QED
      BY <3>2, <3>3
  <2>5. QED
    BY <2>3, <2>4
<1>14. QED
  BY <1>10, <1>11, <1>12, <1>13

\* A receipt leaves the matches of its store that a code, a rule or an alias made,
\* and settles those of its own lines: UpsertAlias and UpsertReceipt write what
\* nobody had before, and of lines that did not see each other the first is heard.
THEOREM LinesSettle == Spec => Settles
<1>1. MatchInv /\ [Next]_vars =>
        [\A b \in Batch : CommitReceipt(b) =>
           \A i \in Input :
           /\ i.store = sess[b].store /\ i.store # Global
           /\ Plain[i.name] = Stored[i.name]
           /\ db'.alias[<<i.store, Stored[i.name]>>] \in Live(db') \cup {None}
           /\ \/ Sure(EngineMatch(db, i))
              \/ \E m \in tx.lines : m.name = i.name /\ m.code = i.code
           => \/ Sure(EngineMatch(db, i)) /\ EngineMatch(db', i) = EngineMatch(db, i)
              \/ /\ EngineMatch(db', i) # {}
                 /\ Products(EngineMatch(db', i)) \subseteq TaughtFor(i)]_vars
  BY Settled
<1>2. QED
  BY <1>1, MatchStarts, MatchSteps, PTL DEF Spec, Settles

\* The engine asks a store's own rows and those of all stores, and no others.
LEMMA SameAnswers ==
    ASSUME NEW d, NEW e, NEW i \in Input, d.product = e.product, d.rule = e.rule,
           i.store # Global =>
             \A c \in Code : d.code[<<i.store, c>>] = e.code[<<i.store, c>>],
           \A scope \in {i.store, Global}, k \in Key :
             d.alias[<<scope, k>>] = e.alias[<<scope, k>>]
    PROVE  EngineMatch(d, i) = EngineMatch(e, i)
<1>1. Live(d) = Live(e)
  BY DEF Live
<1>2. i.code \in Code \cup {None} /\ Plain[i.name] \in Key
  BY InputTyped
<1>3. ByCode(d, i) = ByCode(e, i)
  BY <1>1, <1>2 DEF ByCode
<1>4. ByRule(d, i) = ByRule(e, i)
  BY DEF ByRule
<1>5. ByAlias(d, i) = ByAlias(e, i)
  <2>1. /\ d.alias[<<i.store, Plain[i.name]>>] = e.alias[<<i.store, Plain[i.name]>>]
        /\ d.alias[<<Global, Plain[i.name]>>] = e.alias[<<Global, Plain[i.name]>>]
    BY <1>2
  <2>2. QED
    BY <1>1, <2>1 DEF ByAlias
<1>6. Candidates(d, i.store) = Candidates(e, i.store)
  <2>1. \A c \in Candidate : c[1] \in Key
    BY DEF Candidate
  <2>2. \A c \in Candidate :
          (\E scope \in {i.store, Global} : d.alias[<<scope, c[1]>>] = c[2])
            <=> (\E scope \in {i.store, Global} : e.alias[<<scope, c[1]>>] = c[2])
    BY <2>1
  <2>3. QED
    BY <1>1, <2>2 DEF Candidates
<1>7. \A cs : BySuggestion(d, cs, i) = BySuggestion(e, cs, i)
  BY <1>1 DEF BySuggestion
<1>8. QED
  BY <1>3, <1>4, <1>5, <1>6, <1>7 DEF EngineMatch

\* What a receipt teaches changes no match of another store, nor of a line
\* without a store: UpsertAlias and UpsertReceipt write under the receipt's own
\* store, and every stage reads those of the line's.
THEOREM StoresStayApart == Spec => StoresApart
<1>1. ASSUME MatchInv, NEW b \in Batch, sess[b].open, ~sess'[b].open, Next,
             NEW i \in Input, i.store # sess[b].store
      PROVE  EngineMatch(db', i) = EngineMatch(db, i)
  <2>1. sess \in [Batch -> Session]
    BY <1>1 DEF MatchInv, MatchTypeOK
  <2>2. CASE db' = db
    BY <2>2
  <2>3. ASSUME NEW o \in Batch, CommitReceipt(o)
        PROVE  EngineMatch(db', i) = EngineMatch(db, i)
    <3> DEFINE s == sess[b].store
    <3>1. o = b
      BY <1>1, <2>1, <2>3 DEF CommitReceipt
    <3>2. Lesson(db, db', tx.lines, s)
      <4>1. tx.batch = b /\ b # None /\ db' = tx.tables
        BY <2>3, <3>1, MatchingAssumption DEF CommitReceipt
      <4>2. QED
        BY <1>1, <4>1 DEF MatchInv, Held
    <3> HIDE DEF s
    <3>3. i.store # s
      BY <1>1 DEF s
    <3>4. i.store # Global =>
            \A x \in Code : db'.code[<<i.store, x>>] = db.code[<<i.store, x>>]
      <4>1. ASSUME i.store # Global, NEW x \in Code
            PROVE  db'.code[<<i.store, x>>] = db.code[<<i.store, x>>]
        <5>1. <<i.store, x>> \in Store \X Code /\ <<i.store, x>>[1] = i.store
          BY <4>1, InputTyped
        <5>2. QED
          BY <3>2, <3>3, <5>1 DEF Lesson
      <4>2. QED
        BY <4>1
    <3>5. \A scope \in {i.store, Global}, x \in Key :
            db'.alias[<<scope, x>>] = db.alias[<<scope, x>>]
      <4>1. ASSUME NEW scope \in {i.store, Global}, NEW x \in Key
            PROVE  db'.alias[<<scope, x>>] = db.alias[<<scope, x>>]
        <5>1. <<scope, x>> \in Scope \X Key /\ <<scope, x>>[1] = scope
          BY <4>1, InputTyped
        <5>2. QED
          BY <3>2, <3>3, <5>1 DEF Lesson
      <4>2. QED
        BY <4>1
    <3>6. db'.product = db.product /\ db'.rule = db.rule
      BY <3>2 DEF Lesson
    <3>7. QED
      BY <3>4, <3>5, <3>6, SameAnswers
  <2>4. CASE Manage \/ ByHand
    <3>1. sess' = sess
      BY <2>4 DEF Manage, ByHand, CreateProduct, DeleteProduct, Merge, CreateAlias, DeleteAlias,
         DeleteRule, WriteRule, ManualMatch, Backfill, ingestion
    <3>2. QED
      BY <1>1, <3>1
  <2>5. ASSUME NEW o \in Batch, Receipt(o), ~CommitReceipt(o) PROVE db' = db
    <3>1. CASE \E fk \in ForeignKeys, x \in Scope, cached \in BOOLEAN : Open(fk, o, x, cached)
      BY <3>1 DEF Open
    <3>2. CASE \E fk \in ForeignKeys : Begin(fk, o)
      BY <3>2 DEF Begin
    <3>3. CASE \E cached \in BOOLEAN : OpenAhead(o, cached)
      BY <3>3 DEF OpenAhead
    <3>4. CASE \E j \in Input : \E answer \in Found(o, j) : Ingest(o, j, answer)
      BY <3>4 DEF Ingest
    <3>5. CASE Drop(o)
      BY <3>5 DEF Drop
    <3>6. QED
      BY <2>5, <3>1, <3>2, <3>3, <3>4, <3>5 DEF Receipt
  <2>6. QED
    BY <1>1, <2>2, <2>3, <2>4, <2>5 DEF Next
<1>2. MatchInv /\ [Next]_vars =>
        [\A b \in Batch : sess[b].open /\ ~sess'[b].open =>
           \A i \in Input : i.store # sess[b].store
             => EngineMatch(db', i) = EngineMatch(db, i)]_vars
  BY <1>1
<1>3. QED
  BY <1>2, MatchStarts, MatchSteps, PTL DEF Spec, StoresApart

\* A line that a rule or an alias gave to the merged product goes to the keeper.
LEMMA Remembered ==
    ASSUME db \in Tables, NEW fk \in ForeignKeys, NEW keep \in Product, NEW merged \in Product,
           Merge(fk, keep, merged), NEW i \in Input,
           EngineMatch(db, i) # {},
           \A a \in EngineMatch(db, i) : a.by \in {"rule", "alias"} /\ a.product = merged
    PROVE  Products(EngineMatch(db', i)) = {keep}
<1> DEFINE holds(d) == {r \in Rule : /\ d.rule[r] # None
                                     /\ d.rule[r].scope \in {Global, i.store}
                                     /\ Plain[i.name] \in d.rule[r].when}
           top(d) == {r \in holds(d) :
                        \A q \in holds(d) : d.rule[q].priority <= d.rule[r].priority}
           own == <<i.store, Plain[i.name]>>
           all == <<Global, Plain[i.name]>>
<1>1. \A d : ByRule(d, i) = Answer("rule", {d.rule[r].product : r \in top(d)})
  BY DEF ByRule
<1>2. top(db') = top(db)
  <2>1. \A r \in Rule : db'.rule[r] = None <=> db.rule[r] = None
    BY Merged
  <2>2. \A r \in Rule : db.rule[r] # None => /\ db'.rule[r].scope = db.rule[r].scope
                                             /\ db'.rule[r].when = db.rule[r].when
                                             /\ db'.rule[r].priority = db.rule[r].priority
    BY Merged
  <2>3. holds(db') = holds(db)
    BY <2>1, <2>2
  <2>4. \A r \in holds(db) : db'.rule[r].priority = db.rule[r].priority
    BY <2>2
  <2> HIDE DEF holds
  <2>5. QED
    BY <2>3, <2>4
<1>3. \A r \in top(db) : r \in Rule /\ db.rule[r] # None
  OBVIOUS
<1> HIDE DEF top
<1>4. /\ own \in Scope \X Key /\ all \in Scope \X Key /\ keep \in Live(db')
      /\ i.code # None /\ i.store # Global => <<i.store, i.code>> \in Store \X Code
      /\ None \notin Live(db) /\ None \notin Live(db')
      /\ merged \in Live(db) /\ keep # None
      /\ \A q : q \in Live(db') <=> q \in Live(db) /\ q # merged
  <2>1. /\ i.store \in Scope /\ Global \in Scope /\ Plain[i.name] \in Key
        /\ i.code # None => i.code \in Code
        /\ i.store # Global => i.store \in Store
        /\ None \notin Product
    BY InputTyped
  <2>2. /\ keep \in Live(db') /\ merged \in Live(db)
        /\ \A q : q \in Live(db') <=> q \in Live(db) /\ q # merged
    BY Merged
  <2>3. Live(db) \subseteq Product
    BY DEF Live
  <2>4. QED
    BY <2>1, <2>2, <2>3
<1>5. \A a \in EngineMatch(db, i) : a \in Direct(db, i)
  BY EngineAnswers
<1>6. Direct(db, i) # {} /\ EngineMatch(db, i) = Direct(db, i)
  BY <1>5, DirectFirst
<1>7. ByCode(db, i) = {}
  <2>1. \A a \in ByCode(db, i) : a.by = "code"
    BY Answers DEF ByCode
  <2>2. QED
    BY <1>6, <2>1, DirectFirst
<1>8. ByCode(db', i) = {}
  <2>1. SUFFICES ASSUME i.code # None, i.store # Global
                 PROVE  db'.code[<<i.store, i.code>>] \notin Live(db')
    BY CodeAnswer
  <2>2. db.code[<<i.store, i.code>>] \notin Live(db)
    BY <1>7, <2>1, CodeAnswer
  <2>3. db'.code[<<i.store, i.code>>] \in {db.code[<<i.store, i.code>>], None}
    BY <1>4, <2>1, Merged
  <2>4. QED
    BY <1>4, <2>2, <2>3
<1>9. CASE ByRule(db, i) # {}
  <2> DEFINE T == {db.rule[r].product : r \in top(db)}
             U == {db'.rule[r].product : r \in top(db')}
  <2>1. EngineMatch(db, i) = ByRule(db, i) /\ ByRule(db, i) = Answer("rule", T)
    BY <1>1, <1>6, <1>7, <1>9, DirectFirst
  <2>2. T # {} /\ \A p \in T : p = merged
    <3> HIDE DEF T
    <3>1. T # {}
      BY <1>9, <2>1, Answers
    <3>2. \A p \in T : \E a \in Answer("rule", T) : a.product = p
      BY Answers
    <3>3. QED
      BY <2>1, <3>1, <3>2
  <2>3. top(db) # {} /\ \A r \in top(db) : db.rule[r].product = merged
    BY <2>2
  <2>4. \A r \in top(db) : db'.rule[r].product = keep
    BY <1>3, <2>3, Merged
  <2>5. U = {keep}
    BY <1>2, <2>3, <2>4
  <2>6. ByRule(db', i) = Answer("rule", U)
    BY <1>1
  <2> HIDE DEF U
  <2>7. ByRule(db', i) = One("rule", keep) /\ ByRule(db', i) # {}
    BY <2>5, <2>6, OneAnswer DEF One
  <2>8. Direct(db', i) = ByRule(db', i)
    BY <1>8, <2>7, DirectFirst
  <2>9. EngineMatch(db', i) = One("rule", keep)
    BY <2>7, <2>8, DirectFirst
  <2>10. QED
    BY <2>9, OneAnswer
<1>10. CASE ByRule(db, i) = {}
  <2> DEFINE T == {db.rule[r].product : r \in top(db)}
             U == {db'.rule[r].product : r \in top(db')}
  <2>1. ByRule(db', i) = {}
    <3>1. ByRule(db, i) = Answer("rule", T) /\ ByRule(db', i) = Answer("rule", U)
      BY <1>1
    <3>2. T = {} => U = {}
      BY <1>2
    <3> HIDE DEF T, U
    <3>3. T = {}
      BY <1>10, <3>1, Answers
    <3>4. QED
      BY <3>1, <3>2, <3>3, Answers
  <2>2. EngineMatch(db, i) = ByAlias(db, i) /\ ByAlias(db, i) # {}
    BY <1>6, <1>7, <1>10, DirectFirst
  <2>3. \/ db.alias[own] = merged
        \/ db.alias[own] \notin Live(db) /\ db.alias[all] = merged
    <3>1. CASE db.alias[own] \in Live(db)
      <4>1. EngineMatch(db, i) = One("alias", db.alias[own])
        BY <2>2, <3>1, AliasAnswer
      <4>2. QED
        BY <4>1, OneAnswer
    <3>2. CASE db.alias[own] \notin Live(db) /\ db.alias[all] \in Live(db)
      <4>1. EngineMatch(db, i) = One("alias", db.alias[all])
        BY <2>2, <3>2, AliasAnswer
      <4>2. QED
        BY <3>2, <4>1, OneAnswer
    <3>3. CASE db.alias[own] \notin Live(db) /\ db.alias[all] \notin Live(db)
      BY <2>2, <3>3, AliasAnswer
    <3>4. QED
      BY <3>1, <3>2, <3>3
  <2>4. /\ db'.alias[own] = (IF db.alias[own] = merged THEN keep ELSE db.alias[own])
        /\ db'.alias[all] = (IF db.alias[all] = merged THEN keep ELSE db.alias[all])
    BY <1>4, Merged
  <2>5. \/ db'.alias[own] = keep
        \/ db'.alias[own] \notin Live(db') /\ db'.alias[all] = keep
    BY <1>4, <2>3, <2>4
  <2>6. ByAlias(db', i) = One("alias", keep)
    BY <1>4, <2>5, AliasAnswer
  <2>7. Direct(db', i) = ByAlias(db', i) /\ ByAlias(db', i) # {}
    BY <1>8, <2>1, <2>6, OneAnswer, DirectFirst
  <2>8. EngineMatch(db', i) = One("alias", keep)
    BY <2>6, <2>7, DirectFirst
  <2>9. QED
    BY <2>8, OneAnswer
<1>11. QED
  BY <1>9, <1>10

\* POST /products/merge repoints the aliases and rules before it deletes the
\* product they named, so that whatever they found finds the keeper from then on,
\* whether or not the connection that deletes has its foreign keys.
THEOREM MergesRemember == Spec => MergeRemembers
<1>1. ASSUME MatchInv, NEW fk \in ForeignKeys, NEW keep \in Product, NEW merged \in Product,
             Merge(fk, keep, merged), NEW i \in Input,
             EngineMatch(db, i) \in (SUBSET [by : {"rule", "alias"}, product : {merged}]) \ {{}}
      PROVE  Products(EngineMatch(db', i)) = {keep}
  <2>1. db \in Tables
    BY <1>1 DEF MatchInv, MatchTypeOK
  <2>2. /\ EngineMatch(db, i) # {}
        /\ \A a \in EngineMatch(db, i) : a.by \in {"rule", "alias"} /\ a.product = merged
    <3> DEFINE S == [by : {"rule", "alias"}, product : {merged}]
    <3>1. EngineMatch(db, i) \in (SUBSET S) \ {{}}
      BY <1>1
    <3>2. \A a \in S : a.by \in {"rule", "alias"} /\ a.product = merged
      OBVIOUS
    <3> HIDE DEF S
    <3>3. EngineMatch(db, i) # {} /\ EngineMatch(db, i) \subseteq S
      BY <3>1
    <3>4. QED
      BY <3>2, <3>3
  <2>3. QED
    BY <1>1, <2>1, <2>2, Remembered
<1>2. MatchInv /\ [Next]_vars =>
        [\A fk \in ForeignKeys, keep, merged \in Product : Merge(fk, keep, merged) =>
           \A i \in Input :
           EngineMatch(db, i) \in (SUBSET [by : {"rule", "alias"}, product : {merged}]) \ {{}}
           => Products(EngineMatch(db', i)) = {keep}]_vars
  BY <1>1
<1>3. QED
  BY <1>2, MatchStarts, MatchSteps, PTL DEF Spec, MergeRemembers

==============================================================================

---------------------------- MODULE NotebookProofs ----------------------------
(***************************************************************************)
(* Proofs about clients that change a note with one request at a time:     *)
(* while any number of uploads are under way, the note's row describes     *)
(* what is stored, If-Match protects it, and the endpoints are the atomic  *)
(* operations of Notebook.                                                 *)
(***************************************************************************)
EXTENDS AttachmentsProofs

\* Never two requests at a time that change the note.
OneWriter ==
    \A v, w \in Workers : v # w /\ req[v].op \in NoteOps => req[w].op \notin NoteOps

\* The row the request has read is the note, and the note is active.
HasNote(w) == seen[w].note = note /\ IsActive

\* A PUT that goes on with a note knows it as it is, in the version its
\* If-Match names; one that inserts it goes on because there is none.
KnowsPut(w) ==
    LET r == req[w] IN
    r.op = "put" =>
        /\ attachment_stats(attachments) = [count |-> r.body.count, total |-> r.body.total]
        /\ pc[w] \in {"put_blob", "put_title", "put_flush"} =>
             HasNote(w) /\ Matches(r.match, note.etag)
        /\ pc[w] \in {"recompute", "recompute_files", "commit"} =>
             \/ HasNote(w) /\ Matches(r.match, note.etag)
             \/ seen[w].note = NoNote /\ note.state = "absent"
        /\ pc[w] \in {"put_flush", "recompute", "recompute_files", "commit"} =>
             seen[w].blob = blob
        /\ pc[w] = "commit" => seen[w].row = NoteRow(r.body, attachments)

\* complete and DELETE attachment know the note, the attachment they change,
\* and the body the new row of the note is computed from.
KnowsFile(w) ==
    LET r == req[w]
        exists == r.a \in DOMAIN attachments
    IN
    /\ r.op = "complete" =>
         /\ pc[w] \in Loaded \ {"complete_note"} => HasNote(w)
         /\ pc[w] \in Storing \cup {"complete_digest"} =>
              seen[w].file = IF exists THEN attachments[r.a] ELSE None
    /\ r.op = "remove" =>
         /\ HasNote(w) /\ (pc[w] # "remove_file" => exists)
         /\ pc[w] \in {"remove_cascade"} \cup FileLabels => Deleted(w) = {r.a}
    /\ r.op \in {"complete", "remove"} =>
         /\ pc[w] \in {"recompute_files", "commit"} => seen[w].blob = blob
         /\ pc[w] = "commit" => seen[w].row = NoteRow(blob, VisibleFiles(w))

\* DELETE note has locked every attachment there is.
KnowsDelete(w) ==
    req[w].op = "delete" =>
        /\ IsActive
        /\ pc[w] = "delete_chunks" => DOMAIN attachments \subseteq Deleted(w)

Knows(w) == KnowsPut(w) /\ KnowsFile(w) /\ KnowsDelete(w)

NotebookInv == NoteIsCurrent /\ TombstoneIsEmpty /\ \A w \in Workers : Knows(w)

-----------------------------------------------------------------------------

LEMMA BystanderKnows ==
    ASSUME NEW v \in Workers, req'[v].op \notin NoteOps
    PROVE  Knows(v)'
BY DEF Knows, KnowsPut, KnowsFile, KnowsDelete, NoteOps

LEMMA KnowsFrame ==
    ASSUME NEW v \in Workers, Knows(v), UNCHANGED <<note, blob, attachments>>,
           pc'[v] = pc[v], req'[v] = req[v], seen'[v] = seen[v], Deleted(v)' = Deleted(v)
    PROVE  Knows(v)'
BY DEF Knows, KnowsPut, KnowsFile, KnowsDelete, HasNote, IsActive, Matches, VisibleFiles

\* What a step of w leaves to the other workers here.
OthersAsBefore(w) ==
    \A v \in Workers \ {w} :
        /\ pc'[v] = pc[v] /\ req'[v] = req[v] /\ seen'[v] = seen[v]
        /\ Deleted(v)' = Deleted(v)

\* Taking and releasing its own locks leaves the rows others have deleted.
LEMMA LocksApart ==
    ASSUME RowsInv, NEW w \in Workers,
           UNCHANGED lock \/ Release(w) \/ \E rows : Lock(rows, w),
           NEW v \in Workers \ {w}
    PROVE  Deleted(v)' = Deleted(v)
<1>1. v # None /\ \A a \in Attachments : FileRow(a) \in LockedRows
    BY TableAssumption, RowNames
<1>2. CASE UNCHANGED lock
    BY <1>2 DEF Deleted
<1>3. CASE Release(w)
    BY <1>1, <1>3 DEF Release, Deleted
<1>4. CASE \E rows : Lock(rows, w)
    BY <1>1, <1>4 DEF Lock, Available, Deleted
<1> QED BY <1>2, <1>3, <1>4

LEMMA QuietNotebook ==
    ASSUME NotebookInv, NEW w \in Workers, OthersAsBefore(w), Knows(w)',
           UNCHANGED <<note, blob, attachments>>
    PROVE  NotebookInv'
<1>1. NoteIsCurrent' /\ TombstoneIsEmpty'
    BY DEF NotebookInv, NoteIsCurrent, TombstoneIsEmpty
<1>2. ASSUME NEW v \in Workers \ {w}
      PROVE  Knows(v)'
    BY KnowsFrame DEF NotebookInv, OthersAsBefore
<1> QED BY <1>1, <1>2 DEF NotebookInv

LEMMA RespondKnows ==
    ASSUME RowsInv, NEW w \in Workers, Respond(w)
    PROVE  OthersAsBefore(w) /\ Knows(w)'
<1>1. OthersAsBefore(w) /\ req'[w] = NoReq
    BY LocksApart DEF Respond, OthersAsBefore, RowsInv, TypeOK
<1> QED BY <1>1, BystanderKnows DEF NoReq, NoteOps

\* A response of a request that has not changed the note.
LEMMA RespondNotebook ==
    ASSUME RowsInv, NotebookInv, NEW w \in Workers, Respond(w),
           UNCHANGED <<note, blob, attachments>>
    PROVE  NotebookInv'
BY RespondKnows, QuietNotebook

LEMMA RollBackNotebook ==
    ASSUME RowsInv, NotebookInv, NEW w \in Workers, RollBack(w)
    PROVE  NotebookInv'
BY RespondNotebook DEF RollBack, tables

\* A commit of the one request that changes the note.
LEMMA CommitNotebook ==
    ASSUME RowsInv, NotebookInv, OneWriter, NEW w \in Workers, Respond(w),
           req[w].op \in NoteOps, NoteIsCurrent', TombstoneIsEmpty'
    PROVE  NotebookInv'
<1>1. OthersAsBefore(w) /\ Knows(w)'
    BY RespondKnows
<1>2. ASSUME NEW v \in Workers \ {w}
      PROVE  Knows(v)'
    BY <1>1, BystanderKnows DEF OneWriter, OthersAsBefore
<1> QED BY <1>1, <1>2 DEF NotebookInv

-----------------------------------------------------------------------------
(* One step per action.                                                    *)

LEMMA RequestNotebook ==
    ASSUME RowsInv, NotebookInv, NEW w \in Workers, Request(w)
    PROVE  NotebookInv'
<1> USE DEF Goto, OthersAsBefore, Deleted, RowsInv, TypeOK, NoWrites, tables
<1>1. ASSUME NEW a \in Attachments, NEW size \in TotalSizes, InitUpload(w, a, size)
      PROVE  NotebookInv'
    <2>1. /\ OthersAsBefore(w) /\ req'[w].op \notin NoteOps
          /\ UNCHANGED <<note, blob, attachments>>
        BY <1>1 DEF InitUpload, NoteOps
    <2> QED BY <2>1, BystanderKnows, QuietNotebook
<1>2. ASSUME NEW a \in Attachments, NEW u, NEW i, UploadChunk(w, a, u, i)
      PROVE  NotebookInv'
    <2>1. /\ OthersAsBefore(w) /\ req'[w].op \notin NoteOps
          /\ UNCHANGED <<note, blob, attachments>>
        BY <1>2 DEF UploadChunk, SelectExpired, NoteOps
    <2> QED BY <2>1, BystanderKnows, QuietNotebook
<1>3. ASSUME NEW a \in Attachments, NEW u, NEW match, CompleteUpload(w, a, u, match)
      PROVE  NotebookInv'
    <2>1. /\ OthersAsBefore(w) /\ req'[w].op = "complete" /\ pc'[w] \in {"cleanup", "session"}
          /\ UNCHANGED <<note, blob, attachments>>
        BY <1>3 DEF CompleteUpload, SelectExpired, AfterCleanup
    <2>2. Knows(w)'
        BY <2>1 DEF Knows, KnowsPut, KnowsFile, KnowsDelete, Loaded, Storing, FileLabels
    <2> QED BY <2>1, <2>2, QuietNotebook
<1>4. ASSUME NEW a \in Attachments, RemoveAttachment(w, a)
      PROVE  NotebookInv'
    <2>1. /\ OthersAsBefore(w) /\ req'[w].op = "remove" /\ pc'[w] = "remove_file"
          /\ seen'[w].note = note /\ IsActive /\ UNCHANGED <<note, blob, attachments>>
        BY <1>4 DEF RemoveAttachment, Seen
    <2>2. Knows(w)'
        BY <2>1 DEF Knows, KnowsPut, KnowsFile, KnowsDelete, HasNote, IsActive, FileLabels
    <2> QED BY <2>1, <2>2, QuietNotebook
<1>5. ASSUME NEW body \in Bodies, NEW match, PutBody(w, body, match)
      PROVE  NotebookInv'
    <2>1. /\ OthersAsBefore(w) /\ req'[w].op = "put" /\ pc'[w] = "put_note"
          /\ req'[w].body = body /\ UNCHANGED <<note, blob, attachments>>
          /\ attachment_stats(attachments) = [count |-> body.count, total |-> body.total]
        BY <1>5 DEF PutBody
    <2>2. Knows(w)'
        BY <2>1 DEF Knows, KnowsPut, KnowsFile, KnowsDelete
    <2> QED BY <2>1, <2>2, QuietNotebook
<1>6. ASSUME DeleteNote(w)
      PROVE  NotebookInv'
    <2>1. /\ OthersAsBefore(w) /\ req'[w].op = "delete" /\ IsActive
          /\ pc'[w] = "delete_mark" /\ UNCHANGED <<note, blob, attachments>>
        BY <1>6 DEF DeleteNote
    <2>2. Knows(w)'
        BY <2>1 DEF Knows, KnowsPut, KnowsFile, KnowsDelete, IsActive
    <2> QED BY <2>1, <2>2, QuietNotebook
<1> QED BY <1>1, <1>2, <1>3, <1>4, <1>5, <1>6 DEF Request, MayCall

LEMMA UploadStepNotebook ==
    ASSUME RowsInv, NotebookInv, NEW w \in Workers, UploadStep(w)
    PROVE  NotebookInv'
<1>1. UNCHANGED <<note, blob, attachments>>
    BY DEF UploadStep, AbortExpired, InitCleanup, SelectOpen, CommitInit, ReadSession,
           AbortSession, ReceiveChunk, InsertChunk, OverwriteChunk, StoreChunk, LoadChunks,
           RollBack, NoWrites, tables
<1>2. CASE Respond(w)
    BY <1>1, <1>2, RespondNotebook
<1>3. CASE ~Respond(w)
    <2>1. /\ OthersAsBefore(w) /\ req'[w] = req[w]
          /\ pc'[w] \notin Loaded \ {"complete_note"}
          /\ req[w].op \in {"init", "chunk", "complete"}
        <3> USE DEF Goto, OthersAsBefore, Deleted, RowsInv, TypeOK, LocalsOK, LabelOK,
                    Loaded, FileLabels
        <3>1. CASE AbortExpired(w)
            BY <1>3, <3>1 DEF AbortExpired, RollBack, AfterCleanup
        <3>2. CASE InitCleanup(w)
            BY <1>3, <3>2 DEF InitCleanup, SelectExpired, AfterCleanup
        <3>3. CASE SelectOpen(w)
            BY <1>3, <3>3 DEF SelectOpen
        <3>4. CASE ReadSession(w)
            BY <1>3, <3>4 DEF ReadSession, RollBack
        <3>5. CASE \E data \in Data : ReceiveChunk(w, data)
            BY <1>3, <3>5 DEF ReceiveChunk, RollBack
        <3>6. CASE LoadChunks(w)
            BY <1>3, <3>6 DEF LoadChunks, RollBack
        <3>7. CASE CommitInit(w) \/ AbortSession(w) \/ InsertChunk(w) \/ OverwriteChunk(w)
            BY <1>3, <3>7 DEF CommitInit, AbortSession, InsertChunk, OverwriteChunk,
                              StoreChunk, RollBack
        <3> QED BY <3>1, <3>2, <3>3, <3>4, <3>5, <3>6, <3>7 DEF UploadStep
    <2>2. Knows(w)'
        BY <2>1 DEF Knows, KnowsPut, KnowsFile, KnowsDelete, Loaded, Storing, FileLabels
    <2> QED BY <1>1, <2>1, <2>2, QuietNotebook
<1> QED BY <1>2, <1>3

\* What a statement of a request that goes on leaves alone.
LEMMA StepStays ==
    ASSUME RowsInv, NEW w \in Workers, NoteStep(w), ~Respond(w)
    PROVE  /\ OthersAsBefore(w) /\ req'[w] = req[w]
           /\ UNCHANGED <<note, blob, attachments>>
<1> DEFINE Others == \A v \in Workers \ {w} :
                       pc'[v] = pc[v] /\ req'[v] = req[v] /\ seen'[v] = seen[v]
           Stays == /\ Others /\ req'[w] = req[w] /\ UNCHANGED <<note, blob, attachments>>
                    /\ UNCHANGED lock \/ \E rows : Lock(rows, w)
<1>1. Stays
    <2> USE DEF Goto, RowsInv, TypeOK, NoWrites, tables, RollBack
    <2>1. CASE PutReadNote(w) \/ PutInsert(w) \/ PutReadBlob(w) \/ PutTitle(w) \/ PutFlush(w)
        BY <2>1 DEF PutReadNote, PutInsert, PutReadBlob, PutTitle, PutFlush
    <2>2. CASE \/ CompleteReadNote(w) \/ CompleteReadFile(w) \/ ComputeDigest(w)
               \/ UpsertFile(w) \/ DeleteChunks(w) \/ PromoteChunks(w)
        BY <2>2 DEF CompleteReadNote, CompleteReadFile, ComputeDigest, UpsertFile, DeleteChunks,
                    PromoteChunks
    <2>3. CASE \/ RemoveReadFile(w) \/ RemoveLoadChunks(w) \/ RemoveChunks(w)
               \/ RemoveFlush(w) \/ RemoveCascade(w)
        BY <2>3 DEF RemoveReadFile, RemoveLoadChunks, RemoveChunks, RemoveFlush, RemoveCascade
    <2>4. CASE DeleteMark(w) \/ DeleteBlob(w) \/ DeleteFiles(w)
        BY <2>4 DEF DeleteMark, DeleteBlob, DeleteFiles
    <2>5. CASE RecomputeNote(w) \/ RecomputeBlob(w) \/ RecomputeFiles(w)
        BY <2>5 DEF RecomputeNote, RecomputeBlob, RecomputeFiles
    <2>6. CASE CommitPut(w) \/ CommitComplete(w) \/ CommitRemove(w) \/ CommitDelete(w)
        BY <2>6 DEF CommitPut, CommitComplete, CommitRemove, CommitDelete
    <2> QED BY <2>1, <2>2, <2>3, <2>4, <2>5, <2>6 DEF NoteStep
<1> QED BY <1>1, LocksApart DEF OthersAsBefore

LEMMA PutKnows ==
    ASSUME RowsInv, RowsInv', NotebookInv, NEW w \in Workers, NoteStep(w), ~Respond(w),
           \/ PutReadNote(w) \/ PutInsert(w) \/ PutReadBlob(w) \/ PutTitle(w) \/ PutFlush(w)
    PROVE  Knows(w)'
<1>1. req'[w] = req[w] /\ UNCHANGED <<note, blob, attachments>> /\ ~RollBack(w)
    BY StepStays DEF RollBack
<1>2. req[w].op = "put" /\ Knows(w) /\ PutMissed(w)
    BY DEF PutReadNote, PutInsert, PutReadBlob, PutTitle, PutFlush,
           RowsInv, TypeOK, LocalsOK, LabelOK, NotebookInv, Held
<1> USE <1>1, <1>2 DEF Goto, Knows, KnowsPut, KnowsFile, KnowsDelete, HasNote, IsActive
<1>3. CASE PutReadNote(w)
    <2>1. \/ /\ IsActive /\ Matches(req[w].match, note.etag)
             /\ seen'[w].note = note /\ pc'[w] \in {"put_blob", "put_title"}
          \/ pc'[w] = "put_insert"
        BY <1>3 DEF PutReadNote, RowsInv, TypeOK, Seen
    <2> QED BY <2>1 DEF Matches
<1>4. CASE PutInsert(w)
    <2>1. /\ pc[w] = "put_insert" /\ pc'[w] = "recompute" /\ seen'[w] = seen[w]
          /\ note.state = "absent"
        BY <1>4 DEF PutInsert, CanInsertNote, RowsInv, TypeOK
    <2>2. seen[w].note = NoNote /\ seen[w].blob = None /\ blob = None
        BY <2>1 DEF PutMissed, RowsInv, BodyIffActive
    <2> QED BY <2>1, <2>2
<1>5. CASE PutReadBlob(w)
    <2>1. /\ pc[w] = "put_blob" /\ pc'[w] = "put_flush"
          /\ seen'[w].note = seen[w].note /\ seen'[w].blob = blob
        BY <1>5 DEF PutReadBlob, RowsInv, TypeOK, Seen
    <2> QED BY <2>1 DEF Matches
<1>6. CASE PutTitle(w) \/ PutFlush(w)
    <2>1. /\ \/ pc[w] = "put_title" /\ pc'[w] = "put_blob"
             \/ pc[w] = "put_flush" /\ pc'[w] = "recompute"
          /\ seen'[w] = seen[w]
        BY <1>6 DEF PutTitle, PutFlush, RowsInv, TypeOK
    <2> QED BY <2>1 DEF Matches
<1> QED BY <1>3, <1>4, <1>5, <1>6

LEMMA CompleteKnows ==
    ASSUME RowsInv, NotebookInv, NEW w \in Workers, NoteStep(w), ~Respond(w),
           \/ CompleteReadNote(w) \/ CompleteReadFile(w) \/ ComputeDigest(w)
           \/ UpsertFile(w) \/ DeleteChunks(w) \/ PromoteChunks(w)
    PROVE  Knows(w)'
<1>1. req'[w] = req[w] /\ UNCHANGED <<note, blob, attachments>> /\ ~RollBack(w)
    BY StepStays DEF RollBack
<1>2. req[w].op = "complete" /\ Knows(w)
    BY DEF CompleteReadNote, CompleteReadFile, ComputeDigest, UpsertFile, DeleteChunks,
           PromoteChunks, RowsInv, TypeOK, LocalsOK, LabelOK, NotebookInv
<1> USE <1>1, <1>2 DEF Goto, Knows, KnowsPut, KnowsFile, KnowsDelete, HasNote, IsActive,
                       Loaded, Storing, FileLabels
<1>3. CASE CompleteReadNote(w)
    <2>1. IsActive /\ seen'[w].note = note /\ pc'[w] = "complete_file"
        BY <1>3 DEF CompleteReadNote, RowsInv, TypeOK, Seen
    <2> QED BY <2>1
<1>4. CASE CompleteReadFile(w)
    <2>1. /\ pc[w] = "complete_file" /\ pc'[w] = "complete_digest"
          /\ seen'[w].note = seen[w].note
          /\ seen'[w].file =
               IF req[w].a \in DOMAIN attachments THEN attachments[req[w].a] ELSE None
        BY <1>4 DEF CompleteReadFile, RowsInv, TypeOK, Seen
    <2> QED BY <2>1
<1>5. CASE ComputeDigest(w)
    <2>1. /\ pc[w] = "complete_digest" /\ pc'[w] = "complete_upsert"
          /\ seen'[w].note = seen[w].note /\ seen'[w].file = seen[w].file
        BY <1>5 DEF ComputeDigest, RowsInv, TypeOK, Seen
    <2> QED BY <2>1
<1>6. CASE UpsertFile(w) \/ DeleteChunks(w) \/ PromoteChunks(w)
    <2>1. /\ pc[w] \in {"complete_upsert", "complete_chunks", "complete_promote"}
          /\ pc'[w] \in {"complete_chunks", "complete_promote", "recompute"}
          /\ seen'[w] = seen[w]
        BY <1>6 DEF UpsertFile, DeleteChunks, PromoteChunks, RowsInv, TypeOK
    <2> QED BY <2>1
<1> QED BY <1>3, <1>4, <1>5, <1>6

LEMMA RemoveKnows ==
    ASSUME RowsInv, LocksHeld, NotebookInv, NEW w \in Workers, NoteStep(w), ~Respond(w),
           \/ RemoveReadFile(w) \/ RemoveLoadChunks(w) \/ RemoveChunks(w)
           \/ RemoveFlush(w) \/ RemoveCascade(w)
    PROVE  Knows(w)'
<1>1. req'[w] = req[w] /\ UNCHANGED <<note, blob, attachments>> /\ ~RollBack(w)
    BY StepStays DEF RollBack
<1>2. /\ Knows(w) /\ seen' = seen
      /\ req[w].op = "remove" /\ req[w].a \in DOMAIN attachments /\ req[w].a \in Attachments
      /\ pc'[w] \in {"remove_load", "remove_chunks", "remove_flush", "remove_cascade",
                     "recompute"}
    BY <1>1, RequestKinds
       DEF RemoveReadFile, RemoveLoadChunks, RemoveChunks, RemoveFlush, RemoveCascade, Goto,
           RowsInv, TypeOK, LocalsOK, LabelOK, NotebookInv, Knows, KnowsFile
<1>3. pc'[w] \in {"remove_cascade", "recompute"} => Deleted(w)' = {req[w].a}
    <2>1. CASE RemoveFlush(w)
        <3>1. Deleted(w)' = Deleted(w) \cup {req[w].a}
            BY <1>2, <2>1, RowNames DEF RemoveFlush, Lock, Deleted
        <3> QED BY <1>2, <3>1, RemovesOwnFile
    <2>2. CASE RemoveCascade(w)
        <3>1. Deleted(w)' = Deleted(w)
            BY <2>2, RowNames DEF RemoveCascade, Lock, StoredChunks, Deleted
        <3>2. Deleted(w) = {req[w].a}
            BY <1>2, <2>2 DEF RemoveCascade, Knows, KnowsFile
        <3> QED BY <3>1, <3>2
    <2>3. CASE RemoveReadFile(w) \/ RemoveLoadChunks(w) \/ RemoveChunks(w)
        BY <1>1, <2>3 DEF RemoveReadFile, RemoveLoadChunks, RemoveChunks, Goto, RowsInv, TypeOK
    <2> QED BY <2>1, <2>2, <2>3
<1> QED BY <1>1, <1>2, <1>3
        DEF Knows, KnowsPut, KnowsFile, KnowsDelete, HasNote, IsActive, FileLabels

LEMMA DeleteKnows ==
    ASSUME RowsInv, NotebookInv, NEW w \in Workers, NoteStep(w), ~Respond(w),
           DeleteMark(w) \/ DeleteBlob(w) \/ DeleteFiles(w)
    PROVE  Knows(w)'
<1>1. req'[w] = req[w] /\ UNCHANGED <<note, blob, attachments>>
    BY StepStays
<1>2. Knows(w) /\ req[w].op = "delete"
    BY DEF DeleteMark, DeleteBlob, DeleteFiles, RowsInv, TypeOK, LocalsOK, LabelOK, NotebookInv
<1>3. pc'[w] = "delete_chunks" => DOMAIN attachments \subseteq Deleted(w)'
    <2>1. DOMAIN attachments \subseteq Attachments
        BY DEF RowsInv, TypeOK, TablesOK, IsTable
    <2>2. CASE DeleteFiles(w)
        BY <2>1, <2>2, RowNames DEF DeleteFiles, Lock, Deleted
    <2>3. CASE DeleteMark(w) \/ DeleteBlob(w)
        BY <2>3 DEF DeleteMark, DeleteBlob, Goto, RowsInv, TypeOK
    <2> QED BY <2>2, <2>3
<1> QED BY <1>1, <1>2, <1>3 DEF Knows, KnowsPut, KnowsFile, KnowsDelete, IsActive

\* The title of the note's row is the body's: keeping it is computing it.
LEMMA TitleKept ==
    ASSUME NotebookInv, NEW w \in Workers, HasNote(w), NEW files
    PROVE  [NoteRow(blob, files) EXCEPT !.title = seen[w].note.title] = NoteRow(blob, files)
<1>1. seen[w].note.title = blob.title
    BY DEF HasNote, IsActive, NotebookInv, NoteIsCurrent, NoteRow
<1> QED BY <1>1 DEF NoteRow

LEMMA RecomputeKnows ==
    ASSUME RowsInv, NotebookInv, NEW w \in Workers, NoteStep(w), ~Respond(w),
           RecomputeNote(w) \/ RecomputeBlob(w) \/ RecomputeFiles(w)
    PROVE  Knows(w)'
<1>1. req'[w] = req[w] /\ UNCHANGED <<note, blob, attachments>> /\ ~RollBack(w)
    BY StepStays DEF RollBack
<1>2. /\ Knows(w) /\ req[w].op \in {"put", "complete", "remove"}
      /\ pc[w] \in {"recompute", "recompute_blob", "recompute_files"}
    BY DEF RecomputeNote, RecomputeBlob, RecomputeFiles, RowsInv, TypeOK, LocalsOK, LabelOK,
           NotebookInv
<1>3. CASE RecomputeNote(w)
    <2>1. /\ pc[w] = "recompute" /\ seen'[w] = seen[w] /\ Deleted(w)' = Deleted(w)
          /\ pc'[w] = IF req[w].op = "put" THEN "recompute_files" ELSE "recompute_blob"
        BY <1>1, <1>3 DEF RecomputeNote, Deleted, Goto, RowsInv, TypeOK
    <2> QED BY <1>1, <1>2, <2>1
            DEF Knows, KnowsPut, KnowsFile, KnowsDelete, HasNote, IsActive, Matches,
                Loaded, Storing, FileLabels
<1>4. CASE RecomputeBlob(w)
    <2>1. /\ pc[w] = "recompute_blob" /\ pc'[w] = "recompute_files"
          /\ seen'[w].note = seen[w].note /\ seen'[w].file = seen[w].file
          /\ seen'[w].blob = blob /\ Deleted(w)' = Deleted(w)
        BY <1>1, <1>4 DEF RecomputeBlob, Deleted, Goto, RowsInv, TypeOK, Seen
    <2>2. req[w].op # "put"
        BY <2>1 DEF RowsInv, TypeOK, LocalsOK, LabelOK
    <2> QED BY <1>1, <1>2, <2>1, <2>2
            DEF Knows, KnowsPut, KnowsFile, KnowsDelete, HasNote, IsActive,
                Loaded, Storing, FileLabels
<1>5. CASE RecomputeFiles(w)
    <2> DEFINE row == NoteRow(IF req[w].op = "put" THEN req[w].body ELSE seen[w].blob,
                              VisibleFiles(w))
    <2>1. /\ pc[w] = "recompute_files" /\ pc'[w] = "commit"
          /\ seen'[w].note = seen[w].note /\ seen'[w].file = seen[w].file
          /\ seen'[w].blob = seen[w].blob /\ seen'[w].new = seen[w].new
          /\ seen'[w].row = IF req[w].op = "put"
                              THEN row
                              ELSE [row EXCEPT !.title = seen[w].note.title]
        BY <1>5 DEF RecomputeFiles, Goto, RowsInv, TypeOK, Seen
    <2>2. VisibleFiles(w)' = VisibleFiles(w) /\ Deleted(w)' = Deleted(w)
        BY <1>1, <1>5, <2>1 DEF RecomputeFiles, VisibleFiles, Deleted
    <2>3. CASE req[w].op = "put"
        <3>1. seen'[w].row = NoteRow(req[w].body, attachments)
            BY <2>1, <2>3 DEF VisibleFiles
        <3> QED BY <1>1, <1>2, <2>1, <2>3, <3>1
                DEF Knows, KnowsPut, KnowsFile, KnowsDelete, HasNote, IsActive, Matches
    <2>4. CASE req[w].op # "put"
        <3>1. HasNote(w) /\ seen[w].blob = blob
            BY <1>2, <2>1, <2>4 DEF Knows, KnowsFile, Loaded, Storing, FileLabels
        <3>2. seen'[w].row = NoteRow(blob, VisibleFiles(w))
            BY <2>1, <2>4, <3>1, TitleKept
        <3> QED BY <1>1, <1>2, <2>1, <2>2, <2>4, <3>1, <3>2
                DEF Knows, KnowsPut, KnowsFile, KnowsDelete, HasNote, IsActive,
                    Loaded, Storing, FileLabels
    <2> QED BY <2>3, <2>4
<1> QED BY <1>3, <1>4, <1>5

-----------------------------------------------------------------------------
(* The commits.                                                            *)

\* UpdatedNote writes the columns that differ from the row read, which is the
\* current one: the note becomes the row that was computed.
LEMMA RowStored ==
    ASSUME RowsInv, NotebookInv, NEW w \in Workers, pc[w] = "commit", StoreNote(w)
    PROVE  note' = seen[w].row
<1>1. /\ Knows(w) /\ seen[w].row \in NoteType /\ note \in NoteType
      /\ seen[w].row.state = "active"
      /\ req[w].op \in {"put", "complete", "remove"}
    BY DEF RowsInv, TypeOK, TablesOK, LocalsOK, LabelOK, Seen, Held, RowComputed, NotebookInv
<1>2. \/ HasNote(w)
      \/ req[w].op = "put" /\ seen[w].note = NoNote
    BY <1>1 DEF Knows, KnowsPut, KnowsFile, Loaded, FileLabels
<1>3. CASE HasNote(w)
    <2>1. note.state = "active" /\ seen[w].note = note /\ ~OwnNote(w)
        BY <1>3, NoNoteType DEF HasNote, IsActive, OwnNote
    <2>2. UpdatedNote(note, seen[w].row) = seen[w].row
        BY <1>1, <2>1 DEF UpdatedNote, Changed, NoteType
    <2> QED BY <2>1, <2>2 DEF StoreNote
<1>4. CASE req[w].op = "put" /\ seen[w].note = NoNote
    BY <1>1, <1>4, NoNoteType DEF StoreNote, OwnNote
<1> QED BY <1>2, <1>3, <1>4

\* What each commit stores: the operations of Notebook, with their values.
LEMMA PutStores ==
    ASSUME RowsInv, NotebookInv, NEW w \in Workers, CommitPut(w)
    PROVE  /\ req[w].body \in Bodies /\ note.state # "deleted"
           /\ attachment_stats(attachments) =
                [count |-> req[w].body.count, total |-> req[w].body.total]
           /\ blob' = req[w].body /\ note' = NoteRow(req[w].body, attachments)
           /\ UNCHANGED <<attachments, chunks>>
<1>1. /\ pc[w] = "commit" /\ req[w].op = "put" /\ Knows(w) /\ req[w] \in Requests
      /\ note' = seen[w].row /\ UNCHANGED <<attachments, chunks>>
      /\ blob' = IF req[w].body = seen[w].blob THEN blob ELSE req[w].body
    BY RowStored DEF CommitPut, NotebookInv, RowsInv, TypeOK
<1> QED BY <1>1, RequestKinds DEF Knows, KnowsPut, HasNote, IsActive

LEMMA CompleteStores ==
    ASSUME RowsInv, NotebookInv, NEW w \in Workers, CommitComplete(w)
    PROVE  /\ note.state = "active" /\ req[w].a \in Attachments /\ seen[w].new \in File
           /\ attachments' = Upsert(attachments, req[w].a, seen[w].new)
           /\ chunks' = [chunks EXCEPT ![req[w].a] = up[w].promoted]
           /\ blob' = blob /\ note' = NoteRow(blob, attachments')
<1> DEFINE a == req[w].a
           file == IF seen[w].file = None
                     THEN seen[w].new
                     ELSE UpdatedFile(attachments[a], seen[w].file, seen[w].new)
<1>1. /\ pc[w] = "commit" /\ req[w].op = "complete" /\ Knows(w) /\ Held(w)
      /\ req[w] \in Requests /\ seen[w].new \in File /\ note' = seen[w].row
      /\ attachments' = Upsert(attachments, a, file)
      /\ chunks' = [chunks EXCEPT ![a] = up[w].promoted] /\ blob' = blob
    BY RowStored DEF CommitComplete, NotebookInv, RowsInv, TypeOK, LocalsOK
<1>2. /\ note.state = "active" /\ seen[w].row = NoteRow(blob, VisibleFiles(w))
      /\ seen[w].file = IF a \in DOMAIN attachments THEN attachments[a] ELSE None
    BY <1>1 DEF Knows, KnowsFile, HasNote, IsActive, Loaded, Storing, FileLabels
<1>3. seen[w].file = None <=> a \notin DOMAIN attachments
    BY <1>1 DEF Held, FileHeld, FileLabels
<1>4. file = seen[w].new
    BY <1>1, <1>2, <1>3 DEF UpdatedFile, Changed, File
<1>5. VisibleFiles(w) = Upsert(attachments, a, seen[w].new)
    BY <1>1 DEF VisibleFiles
<1> QED BY <1>1, <1>2, <1>4, <1>5, RequestKinds

LEMMA RemoveStores ==
    ASSUME RowsInv, NotebookInv, NEW w \in Workers, CommitRemove(w)
    PROVE  /\ req[w].a \in Attachments /\ req[w].a \in DOMAIN attachments
           /\ attachments' = Without(attachments, {req[w].a})
           /\ chunks' = [chunks EXCEPT ![req[w].a] = NoRows]
           /\ blob' = blob /\ note' = NoteRow(blob, attachments')
<1>1. /\ pc[w] = "commit" /\ req[w].op = "remove" /\ Knows(w) /\ req[w] \in Requests
      /\ note' = seen[w].row /\ blob' = blob /\ DeleteFilesOf(w)
    BY RowStored DEF CommitRemove, NotebookInv, RowsInv, TypeOK
<1>2. Deleted(w) = {req[w].a}
    BY <1>1 DEF Knows, KnowsFile, FileLabels
<1>3. chunks' = [chunks EXCEPT ![req[w].a] = NoRows]
    BY <1>1, <1>2 DEF DeleteFilesOf, RowsInv, TypeOK, TablesOK
<1> QED BY <1>1, <1>2, <1>3, RequestKinds DEF Knows, KnowsFile, VisibleFiles, DeleteFilesOf

LEMMA DeleteStores ==
    ASSUME RowsInv, NotebookInv, NEW w \in Workers, CommitDelete(w)
    PROVE  /\ req[w].op = "delete" /\ note.state = "active"
           /\ note' = [note EXCEPT !.state = "deleted"] /\ note'.state = "deleted"
           /\ blob' = None /\ attachments' = NoRows
<1>1. req[w].op = "delete" /\ pc[w] = "delete_chunks" /\ Knows(w) /\ note \in NoteType
    BY DEF CommitDelete, RowsInv, TypeOK, TablesOK, LocalsOK, LabelOK, NotebookInv
<1>2. note' = [note EXCEPT !.state = "deleted"] /\ blob' = None
    BY DEF CommitDelete
<1>3. note'.state = "deleted"
    BY <1>1, <1>2 DEF NoteType
<1>4. attachments' = NoRows
    <2>1. DOMAIN attachments \ Deleted(w) = {}
        BY <1>1 DEF Knows, KnowsDelete
    <2> QED BY <2>1 DEF CommitDelete, DeleteFilesOf, Without, Restrict, NoRows
<1> QED BY <1>1, <1>2, <1>3, <1>4 DEF Knows, KnowsDelete, IsActive

LEMMA CommitsNotebook ==
    ASSUME RowsInv, NotebookInv, OneWriter, NEW w \in Workers,
           CommitPut(w) \/ CommitComplete(w) \/ CommitRemove(w) \/ CommitDelete(w)
    PROVE  NotebookInv'
<1>1. Respond(w) /\ req[w].op \in NoteOps
    BY DeleteStores DEF CommitPut, CommitComplete, CommitRemove, CommitDelete, NoteOps
<1>2. NoteIsCurrent'
    BY PutStores, CompleteStores, RemoveStores, DeleteStores DEF NoteIsCurrent
<1>3. TombstoneIsEmpty'
    <2>1. \A body, files : NoteRow(body, files).state = "active"
        BY DEF NoteRow
    <2> QED BY <2>1, PutStores, CompleteStores, RemoveStores, DeleteStores DEF TombstoneIsEmpty
<1> QED BY <1>1, <1>2, <1>3, CommitNotebook

LEMMA NoteStepNotebook ==
    ASSUME RowsInv, RowsInv', LocksHeld, NotebookInv, OneWriter, NEW w \in Workers, NoteStep(w)
    PROVE  NotebookInv'
<1>1. CASE CommitPut(w) \/ CommitComplete(w) \/ CommitRemove(w) \/ CommitDelete(w)
    BY <1>1, CommitsNotebook
<1>2. CASE Respond(w) /\ ~(CommitPut(w) \/ CommitComplete(w) \/ CommitRemove(w) \/ CommitDelete(w))
    <2>1. UNCHANGED <<note, blob, attachments>>
        BY <1>2 DEF NoteStep, PutReadNote, PutInsert, PutReadBlob, PutTitle, PutFlush,
               CompleteReadNote, CompleteReadFile, ComputeDigest, UpsertFile, DeleteChunks,
               PromoteChunks, RemoveReadFile, RemoveLoadChunks, RemoveChunks, RemoveFlush,
               RemoveCascade, RecomputeNote, RecomputeBlob, RecomputeFiles, DeleteMark,
               DeleteBlob, DeleteFiles, RollBack, NoWrites, tables
    <2> QED BY <1>2, <2>1, RespondNotebook
<1>3. CASE ~Respond(w)
    <2>1. Knows(w)'
        BY <1>3, PutKnows, CompleteKnows, RemoveKnows, DeleteKnows, RecomputeKnows
           DEF NoteStep, CommitPut, CommitComplete, CommitRemove, CommitDelete
    <2> QED BY <1>3, <2>1, StepStays, QuietNotebook
<1> QED BY <1>1, <1>2, <1>3

LEMMA NextNotebookInv ==
    RowsInv /\ RowsInv' /\ LocksHeld /\ NotebookInv /\ OneWriter /\ [Next]_vars
      => NotebookInv'
<1> SUFFICES ASSUME RowsInv, RowsInv', LocksHeld, NotebookInv, OneWriter, [Next]_vars
             PROVE  NotebookInv'
    OBVIOUS
<1>1. ASSUME NEW w \in Workers, Request(w) \/ Step(w) PROVE NotebookInv'
    BY <1>1, RequestNotebook, UploadStepNotebook, NoteStepNotebook DEF Step
<1>2. ASSUME NEW w \in Workers, Crash(w) \/ DeadlockVictim(w) PROVE NotebookInv'
    BY <1>2, RollBackNotebook DEF Crash, DeadlockVictim
<1>3. CASE UNCHANGED <<tables, locals, lock>>
    <2>1. UNCHANGED <<note, blob, attachments, pc, req, seen, lock>>
        BY <1>3 DEF tables, locals
    <2>2. NoteIsCurrent' /\ TombstoneIsEmpty'
        BY <2>1 DEF NotebookInv, NoteIsCurrent, TombstoneIsEmpty
    <2>3. ASSUME NEW v \in Workers PROVE Knows(v)'
        BY <2>1, KnowsFrame DEF NotebookInv, Deleted
    <2> QED BY <2>2, <2>3 DEF NotebookInv
<1> QED BY <1>1, <1>2, <1>3 DEF Next, Tick, vars

LEMMA InitNotebookInv == Init => NotebookInv
<1> SUFFICES ASSUME Init PROVE NotebookInv
    OBVIOUS
<1>1. NoteIsCurrent /\ TombstoneIsEmpty
    BY NoNoteType DEF Init, NoteIsCurrent, TombstoneIsEmpty, NoteRow
<1>2. \A w \in Workers : Knows(w)
    BY DEF Init, NoReq, Knows, KnowsPut, KnowsFile, KnowsDelete
<1> QED BY <1>1, <1>2 DEF NotebookInv

\* While one request at a time changes the note, its row (title, etag and
\* updated_at) describes the stored body and attachments, whatever uploads are
\* under way (recompute_note_sync_metadata, service.py:206).
THEOREM RowIsCurrent == Spec /\ []OneWriter => []NoteIsCurrent
<1>1. NotebookInv => NoteIsCurrent
    BY DEF NotebookInv
<1> QED BY <1>1, InitRowsInv, NextRowsInv, InitLocksHeld, NextLocksHeld,
           InitNotebookInv, NextNotebookInv, PTL DEF Spec

\* And a deleted note keeps no attachment: no complete runs into the DELETE
\* (service.py:443-454), as it can without this discipline.
THEOREM TombstonesAreEmpty == Spec /\ []OneWriter => []TombstoneIsEmpty
<1>1. NotebookInv => TombstoneIsEmpty
    BY DEF NotebookInv
<1> QED BY <1>1, InitRowsInv, NextRowsInv, InitLocksHeld, NextLocksHeld,
           InitNotebookInv, NextNotebookInv, PTL DEF Spec

\* Then a PUT with If-Match replaces only the version it names: nothing can
\* come between the comparison and the commit (service.py:277).
THEOREM IfMatchIsEnough == Spec /\ []OneWriter => IfMatchHolds
<1> DEFINE Kept == \A w \in Workers :
                     /\ pc[w] = "commit" /\ req[w].op = "put" /\ req[w].match # AnyEtag
                     /\ IsActive /\ blob' # blob
                     => note.etag = req[w].match
<1>1. NotebookInv => Kept
    BY DEF NotebookInv, Knows, KnowsPut, HasNote, IsActive, Matches
<1>2. NotebookInv /\ [Next]_vars => [Kept]_vars
    BY <1>1
<1> HIDE DEF Kept
<1>3. Spec /\ []OneWriter => [][Kept]_vars
    BY <1>2, InitRowsInv, NextRowsInv, InitLocksHeld, NextLocksHeld,
           InitNotebookInv, NextNotebookInv, PTL DEF Spec
<1> QED BY <1>3 DEF IfMatchHolds, Kept

\* And no request ever waits for a row of the note: locks only delay a request
\* that changes the note for another one that does.
THEOREM OneWriterNeverWaits ==
    Spec /\ []OneWriter => [](\A w \in Workers : WaitsFor(w) = {})
<1> DEFINE NobodyWaits == \A w \in Workers : WaitsFor(w) = {}
<1>1. RowsInv /\ LocksHeld /\ OneWriter => NobodyWaits
    <2> SUFFICES ASSUME RowsInv, LocksHeld, OneWriter, NEW w \in Workers, NEW v \in WaitsFor(w)
                 PROVE  FALSE
        OBVIOUS
    <2> QED BY WaitsAreFor DEF OneWriter
<1> HIDE DEF NobodyWaits
<1>2. Spec /\ []OneWriter => []NobodyWaits
    BY <1>1, InitRowsInv, NextRowsInv, InitLocksHeld, NextLocksHeld, PTL DEF Spec
<1> QED BY <1>2 DEF NobodyWaits

-----------------------------------------------------------------------------
(* The refinement.                                                         *)

\* The operators of Notebook are those of NotesApi.
LEMMA SameOperators ==
    /\ TheNotebook!NoNote = NoNote /\ TheNotebook!NoRows = NoRows
    /\ \A body, files : TheNotebook!NoteRow(body, files) = NoteRow(body, files)
    /\ \A files : TheNotebook!attachment_stats(files) = attachment_stats(files)
    /\ \A table, key, row : TheNotebook!Upsert(table, key, row) = Upsert(table, key, row)
    /\ \A table, keys : TheNotebook!Without(table, keys) = Without(table, keys)
    /\ \A size : TheNotebook!WholeFiles(size) =
                    {rows \in [ChunkIndexes(size) -> Data] :
                       \A i \in ChunkIndexes(size) :
                         rows[i].len = expected_attachment_chunk_size(size, i)}
<1>1. TheNotebook!NoNote = NoNote /\ TheNotebook!NoRows = NoRows
    BY DEF NoNote, TheNotebook!NoNote, NoRows, TheNotebook!NoRows
<1>2. ASSUME NEW body, NEW files
      PROVE  TheNotebook!NoteRow(body, files) = NoteRow(body, files)
    BY DEF NoteRow, TheNotebook!NoteRow, compute_composite_etag,
           TheNotebook!compute_composite_etag, Latest, TheNotebook!Latest,
           Max, TheNotebook!Max
<1>3. ASSUME NEW files
      PROVE  TheNotebook!attachment_stats(files) = attachment_stats(files)
    <2>1. TheNotebook!Cardinality(DOMAIN files) = Cardinality(DOMAIN files)
        BY DEF Cardinality, TheNotebook!Cardinality
    <2>2. TheNotebook!MapThenSumSet(LAMBDA a : files[a].size_bytes, DOMAIN files)
            = MapThenSumSet(LAMBDA a : files[a].size_bytes, DOMAIN files)
        BY DEF MapThenSumSet, TheNotebook!MapThenSumSet,
               MapThenFoldSet, TheNotebook!MapThenFoldSet
    <2> QED BY <2>1, <2>2 DEF attachment_stats, TheNotebook!attachment_stats
<1>4. ASSUME NEW table, NEW key, NEW row
      PROVE  TheNotebook!Upsert(table, key, row) = Upsert(table, key, row)
    BY DEF Upsert, TheNotebook!Upsert
<1>5. ASSUME NEW table, NEW keys
      PROVE  TheNotebook!Without(table, keys) = Without(table, keys)
    BY DEF Without, TheNotebook!Without, Restrict, TheNotebook!Restrict
<1>6. ASSUME NEW size
      PROVE  TheNotebook!WholeFiles(size) =
                {rows \in [ChunkIndexes(size) -> Data] :
                   \A i \in ChunkIndexes(size) :
                     rows[i].len = expected_attachment_chunk_size(size, i)}
    BY DEF TheNotebook!WholeFiles, ChunkIndexes, TheNotebook!ChunkIndexes,
           Data, TheNotebook!Data, expected_attachment_chunk_size,
           TheNotebook!expected_attachment_chunk_size, total_chunks_for_size,
           TheNotebook!total_chunks_for_size
<1> QED BY <1>1, <1>2, <1>3, <1>4, <1>5, <1>6

\* What complete stores is the whole upload it had checked.
LEMMA PromotedWhole ==
    ASSUME RowsInv, UploadsInv, AttachmentsInv, NEW w \in Workers, CommitComplete(w)
    PROVE  LET new == seen[w].new IN
           /\ up[w].promoted = new.etag
           /\ new.etag \in TheNotebook!WholeFiles(new.size_bytes)
<1> DEFINE u == req[w].u
           size == up[w].session.total_size
<1>1. pc[w] = "commit" /\ req[w].op = "complete" /\ req[w].u \in UploadIds
    BY RequestKinds DEF CommitComplete, RowsInv, TypeOK
<1>2. /\ up[w].promoted = staged[u] /\ seen[w].new.etag = staged[u]
      /\ seen[w].new.size_bytes = size /\ DOMAIN staged[u] = ChunkIndexes(size)
    BY <1>1 DEF AttachmentsInv, Own, OwnFile, Loaded, Storing, FileLabels
<1>3. u \in DOMAIN sessions /\ sessions[u].total_size = size
    BY <1>1 DEF AttachmentsInv, Own, OwnUpload, InUse, OpenUploads, OpenSessions
<1>4. staged[u] \in [ChunkIndexes(size) -> Data]
    BY <1>1, <1>2, StagedTypes, TableIs DEF ChunkRows, IsTable
<1>5. \A i \in ChunkIndexes(size) :
        staged[u][i].len = expected_attachment_chunk_size(size, i)
    BY <1>1, <1>2, <1>3 DEF UploadsInv, StagedChunksFit
<1> QED BY <1>2, <1>4, <1>5, SameOperators

LEMMA CommitImplements ==
    ASSUME RowsInv, UploadsInv, AttachmentsInv, NotebookInv, NEW w \in Workers,
           CommitPut(w) \/ CommitComplete(w) \/ CommitRemove(w) \/ CommitDelete(w)
    PROVE  TheNotebook!Next
<1>1. CASE CommitPut(w)
    <2>1. TheNotebook!Save(req[w].body)
        BY <1>1, PutStores, SameOperators DEF TheNotebook!Save
    <2> QED BY <1>1, <2>1, PutStores DEF TheNotebook!Next
<1>2. CASE CommitComplete(w)
    <2>1. PICK a \in Attachments, new \in File :
            /\ note.state = "active"
            /\ attachments' = Upsert(attachments, a, new)
            /\ chunks' = [chunks EXCEPT ![a] = new.etag]
            /\ blob' = blob /\ note' = NoteRow(blob, attachments')
            /\ new.etag \in TheNotebook!WholeFiles(new.size_bytes)
        BY <1>2, CompleteStores, PromotedWhole
    <2>2. new = [size_bytes |-> new.size_bytes, etag |-> new.etag, updated_at |-> new.updated_at]
        BY DEF File
    <2>3. [b \in DOMAIN attachments' |-> chunks'[b]]
            = Upsert([b \in DOMAIN attachments |-> chunks[b]], a, new.etag)
        BY <2>1 DEF Upsert, RowsInv, TypeOK, TablesOK, IsTable
    <2>4. TheNotebook!Attach(a, new.size_bytes, new.etag, new.updated_at)
        BY <2>1, <2>2, <2>3, SameOperators DEF TheNotebook!Attach
    <2>5. new.size_bytes \in TotalSizes /\ new.updated_at \in 0 .. MaxClock
        BY DEF File
    <2> QED BY <2>1, <2>4, <2>5 DEF TheNotebook!Next
<1>3. CASE CommitRemove(w)
    <2>1. PICK a \in Attachments :
            /\ a \in DOMAIN attachments
            /\ attachments' = Without(attachments, {a})
            /\ chunks' = [chunks EXCEPT ![a] = NoRows]
            /\ blob' = blob /\ note' = NoteRow(blob, attachments')
        BY <1>3, RemoveStores
    <2>2. [b \in DOMAIN attachments' |-> chunks'[b]]
            = Without([b \in DOMAIN attachments |-> chunks[b]], {a})
        BY <2>1 DEF Without, Restrict, RowsInv, TypeOK, TablesOK, IsTable
    <2>3. TheNotebook!Detach(a)
        BY <2>1, <2>2, SameOperators DEF TheNotebook!Detach
    <2> QED BY <2>3 DEF TheNotebook!Next
<1>4. CASE CommitDelete(w)
    <2>1. /\ note.state = "active" /\ note' = [note EXCEPT !.state = "deleted"]
          /\ blob' = None /\ attachments' = NoRows
        BY <1>4, DeleteStores
    <2>2. [b \in DOMAIN attachments' |-> chunks'[b]] = NoRows
        BY <2>1 DEF NoRows
    <2>3. TheNotebook!Trash
        BY <2>1, <2>2, SameOperators DEF TheNotebook!Trash
    <2> QED BY <2>3 DEF TheNotebook!Next
<1> QED BY <1>1, <1>2, <1>3, <1>4

LEMMA NextImplements ==
    RowsInv /\ UploadsInv /\ AttachmentsInv /\ NotebookInv /\ [Next]_vars
      => [TheNotebook!Next]_(TheNotebook!vars)
<1> SUFFICES ASSUME RowsInv, UploadsInv, AttachmentsInv, NotebookInv, [Next]_vars
             PROVE  [TheNotebook!Next]_(TheNotebook!vars)
    OBVIOUS
<1>1. CASE UNCHANGED tables
    BY <1>1 DEF tables, TheNotebook!vars
<1>2. ASSUME NEW w \in Workers,
             CommitPut(w) \/ CommitComplete(w) \/ CommitRemove(w) \/ CommitDelete(w)
      PROVE  TheNotebook!Next
    BY <1>2, CommitImplements
<1>3. ASSUME NEW w \in Workers, Request(w) \/ UploadStep(w) \/ Crash(w) \/ DeadlockVictim(w)
      PROVE  UNCHANGED tables
    <2>1. CASE Request(w)
        BY <2>1 DEF Request, InitUpload, UploadChunk, CompleteUpload, RemoveAttachment,
               PutBody, DeleteNote, NoWrites
    <2>2. CASE UploadStep(w)
        BY <2>2 DEF UploadStep, AbortExpired, InitCleanup, SelectOpen, CommitInit, ReadSession,
               AbortSession, ReceiveChunk, InsertChunk, OverwriteChunk, StoreChunk, LoadChunks,
               RollBack, NoWrites
    <2> QED BY <1>3, <2>1, <2>2 DEF Crash, DeadlockVictim, RollBack
<1>4. ASSUME NEW w \in Workers, NoteStep(w),
             ~(CommitPut(w) \/ CommitComplete(w) \/ CommitRemove(w) \/ CommitDelete(w))
      PROVE  UNCHANGED tables
    BY <1>4 DEF NoteStep, PutReadNote, PutInsert, PutReadBlob, PutTitle, PutFlush,
           CompleteReadNote, CompleteReadFile, ComputeDigest, UpsertFile, DeleteChunks,
           PromoteChunks, RemoveReadFile, RemoveLoadChunks, RemoveChunks, RemoveFlush,
           RemoveCascade, RecomputeNote, RecomputeBlob, RecomputeFiles, DeleteMark,
           DeleteBlob, DeleteFiles, RollBack, NoWrites
<1>5. CASE Tick \/ UNCHANGED vars
    BY <1>1, <1>5 DEF Tick, vars
<1> QED BY <1>1, <1>2, <1>3, <1>4, <1>5 DEF Next, Step

LEMMA InitImplements == Init => TheNotebook!Init
<1> SUFFICES ASSUME Init PROVE TheNotebook!Init
    OBVIOUS
<1>1. [b \in DOMAIN attachments |-> chunks[b]] = NoRows
    BY DEF Init, NoRows
<1> QED BY <1>1, SameOperators DEF Init, TheNotebook!Init

\* The note endpoints are the atomic operations of Notebook: while one request
\* at a time changes the note and no cleanup cuts an upload short, what is
\* committed is the body, the whole attachment and the recomputed notes row
\* together, or nothing, with uploads of other attachments in parallel.
THEOREM NotesImplementNotebook ==
    ASSUME TakingTurns
    PROVE  Spec /\ []OneWriter /\ []CleanupSpares => ImplementsNotebook
<1>1. RowsInv /\ RowsInv' /\ UploadsInv /\ UploadsInv' /\ AttachmentsInv /\ CleanupSpares
        /\ [Next]_vars => AttachmentsInv'
    BY NextAttachmentsInv
<1> QED BY <1>1, InitRowsInv, NextRowsInv, InitUploadsInv, NextUploadsInv, InitAttachmentsInv,
           InitLocksHeld, NextLocksHeld, InitNotebookInv, NextNotebookInv,
           InitImplements, NextImplements, PTL
        DEF Spec, ImplementsNotebook, TheNotebook!Spec

-----------------------------------------------------------------------------
(* One request at a time: the hypotheses above come for free.              *)

LEMMA OneRequest ==
    ASSUME \A v, w \in Workers : v = w
    PROVE  TakingTurns /\ OneWriter /\ CleanupSpares
BY DEF TakingTurns, OneWriter, CleanupSpares

\* A client that waits for each answer has a notebook: no crash, expiry or
\* failed request shows in it.
THEOREM OneRequestImplementsNotebook ==
    ASSUME \A v, w \in Workers : v = w
    PROVE  Spec => ImplementsNotebook
<1>1. Spec /\ []OneWriter /\ []CleanupSpares => ImplementsNotebook
    BY OneRequest, NotesImplementNotebook
<1>2. OneWriter /\ CleanupSpares
    BY OneRequest
<1> QED BY <1>1, <1>2, PTL

\* ... and its PUTs with If-Match replace only the version they name
\* (service.py:277).
THEOREM OneRequestIfMatch ==
    ASSUME \A v, w \in Workers : v = w
    PROVE  Spec => IfMatchHolds
<1>1. OneWriter
    BY OneRequest
<1> QED BY <1>1, IfMatchIsEnough, PTL

\* Uploads of such a client are in order too: nothing is left of one that was
\* aborted (uploads.py:45-48, 66-69), one at a time is open per attachment, and
\* complete stores the whole attachment.
THEOREM OneRequestKeepsUploads ==
    ASSUME \A v, w \in Workers : v = w
    PROVE  Spec => []AbortedHoldsNothing /\ []OneOpenUpload /\ []AttachmentsWhole
<1>1. Spec /\ []CleanupSpares => []AttachmentsInv
    BY OneRequest, AttachmentsInvariant
<1>2. CleanupSpares
    BY OneRequest
<1>3. AttachmentsInv => AbortedHoldsNothing /\ OneOpenUpload /\ AttachmentsWhole
    BY DEF AttachmentsInv
<1> QED BY <1>1, <1>2, <1>3, PTL

=============================================================================

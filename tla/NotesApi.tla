------------------------------ MODULE NotesApi ------------------------------
(***************************************************************************)
(* The note and upload endpoints served together: workers interleave their *)
(* requests statement by statement on the same tables.                     *)
(***************************************************************************)
EXTENDS Notes

CONSTANTS
    Ops,           \* the endpoints the clients of a run call
    SendsIfMatch,  \* whether clients also send the etag they know
    PerAttachment  \* whether a client keeps one request per attachment open

ASSUME ClientAssumption ==
    /\ Ops \subseteq {"init", "chunk", "complete", "put", "remove", "delete"}
    /\ SendsIfMatch \in BOOLEAN /\ PerAttachment \in BOOLEAN

AttachmentOps == {"init", "chunk", "complete", "remove"}

\* Whether a request about the attachment may be sent while others are open.
Alone(a) ==
    PerAttachment => \A v \in Workers : req[v].op \in AttachmentOps => req[v].a # a

MayCall(op, a) == op \in Ops /\ Alone(a)

\* A client sends no If-Match, the current etag or one it got earlier.
IfMatchValues(current, earlier) ==
    {AnyEtag} \cup (IF SendsIfMatch THEN {current} \cup earlier ELSE {})

NoteEtags == IfMatchValues(note.etag, {compute_composite_etag(b, NoRows) : b \in Bodies})
FileEtags(a) ==
    IfMatchValues(IF a \in DOMAIN attachments THEN attachments[a].etag ELSE None, {NoRows})

\* A client's request reaches the server, which executes its first statement.
Request(w) ==
    \/ \E a \in Attachments :
         \/ MayCall("init", a) /\ \E size \in TotalSizes : InitUpload(w, a, size)
         \/ MayCall("chunk", a) /\ \E u \in 1 .. issued, i \in Indexes : UploadChunk(w, a, u, i)
         \/ MayCall("complete", a) /\ \E u \in 1 .. issued, match \in FileEtags(a) :
                                        CompleteUpload(w, a, u, match)
         \/ MayCall("remove", a) /\ RemoveAttachment(w, a)
    \/ "put" \in Ops /\ \E body \in Bodies, match \in NoteEtags :
                          PutBody(w, body, match)
    \/ "delete" \in Ops /\ DeleteNote(w)

UploadStep(w) ==
    \/ AbortExpired(w)
    \/ InitCleanup(w) \/ SelectOpen(w) \/ CommitInit(w)
    \/ ReadSession(w) \/ AbortSession(w)
    \/ \E data \in Data : ReceiveChunk(w, data)
    \/ InsertChunk(w) \/ OverwriteChunk(w)
    \/ LoadChunks(w)

NoteStep(w) ==
    \/ PutReadNote(w) \/ PutInsert(w) \/ PutReadBlob(w) \/ PutTitle(w) \/ PutFlush(w)
    \/ CompleteReadNote(w) \/ CompleteReadFile(w) \/ ComputeDigest(w)
    \/ UpsertFile(w) \/ DeleteChunks(w) \/ PromoteChunks(w)
    \/ RemoveReadFile(w) \/ RemoveLoadChunks(w)
    \/ RemoveChunks(w) \/ RemoveFlush(w) \/ RemoveCascade(w)
    \/ RecomputeNote(w) \/ RecomputeBlob(w) \/ RecomputeFiles(w)
    \/ CommitPut(w) \/ CommitComplete(w) \/ CommitRemove(w)
    \/ DeleteMark(w) \/ DeleteBlob(w) \/ DeleteFiles(w) \/ CommitDelete(w)

Step(w) == UploadStep(w) \/ NoteStep(w)

-----------------------------------------------------------------------------
(* Lock waits.  PostgreSQL aborts a transaction that finds itself in a     *)
(* cycle of waits.                                                         *)

\* The rows whose locks a worker's next statement needs.
Needs(w) ==
    CASE pc[w] \in {"put_title", "delete_mark"} -> {TheNote}
      [] pc[w] = "put_insert" -> {TheNote, TheBlob}
      [] pc[w] = "put_flush" /\ req[w].body # seen[w].blob -> {TheBlob}
      [] pc[w] = "delete_blob" -> {TheBlob}
      [] pc[w] = "delete_files" -> {FileRow(a) : a \in DOMAIN attachments}
      [] pc[w] \in {"delete_chunks", "remove_cascade"} -> StoredChunks(Deleted(w))
      [] pc[w] = "complete_upsert" -> UpsertedRow(w)
      [] pc[w] = "complete_chunks" -> StoredChunks({req[w].a})
      [] pc[w] = "remove_chunks" -> LoadedChunks(w)
      [] pc[w] = "remove_flush" -> {FileRow(a) : a \in {req[w].a} \cap DOMAIN attachments}
      [] pc[w] = "commit" /\ seen[w].row # seen[w].note -> {TheNote}
      [] OTHER -> {}

WaitsFor(w) == {lock[r] : r \in Needs(w)} \ {None, w}

WaitCycle(S) == \A v \in S : WaitsFor(v) \cap S # {}
Deadlocked(w) == \E S \in SUBSET Workers : w \in S /\ WaitCycle(S)

DeadlockVictim(w) == Deadlocked(w) /\ RollBack(w)

Next ==
    \/ \E w \in Workers : Request(w) \/ Step(w) \/ Crash(w) \/ DeadlockVictim(w)
    \/ Tick

Spec == Init /\ [][Next]_vars

(***************************************************************************)
(* Fairness: the event loop and PostgreSQL keep executing the statements   *)
(* of open requests, and row locks are granted in the order of their queue *)
(* (strong fairness); a started body arrives.  Nothing obliges clients to  *)
(* send requests, workers to crash or time to pass.                        *)
(***************************************************************************)
Fairness == \A w \in Workers : SF_vars(Step(w)) /\ WF_vars(DeadlockVictim(w))
FairSpec == Spec /\ Fairness

-----------------------------------------------------------------------------
(* Properties that hold however requests interleave.                       *)

Labels == {"idle", "cleanup",
    "init_cleanup", "init_open", "init_commit", "session", "expired", "chunk_body",
    "chunk_commit", "complete_load", "complete_note", "complete_file", "complete_digest",
    "complete_upsert", "complete_chunks", "complete_promote", "put_note", "put_insert",
    "put_blob", "put_title", "put_flush", "remove_file", "remove_load", "remove_chunks",
    "remove_flush", "remove_cascade", "recompute", "recompute_blob", "recompute_files",
    "commit", "delete_mark", "delete_blob", "delete_files", "delete_chunks"}

\* The statements of each endpoint, in no particular order.
LabelOK(op, label) ==
    \/ op = "none" /\ label = "idle"
    \/ op = "init" /\ label \in {"init_cleanup", "cleanup", "init_open", "init_commit"}
    \/ op = "chunk" /\ label \in {"cleanup", "session", "expired", "chunk_body", "chunk_commit"}
    \/ op = "complete" /\ label \in {"cleanup", "session", "expired", "complete_load",
            "complete_note", "complete_file", "complete_digest", "complete_upsert",
            "complete_chunks", "complete_promote", "recompute", "recompute_blob",
            "recompute_files", "commit"}
    \/ op = "put" /\ label \in {"put_note", "put_insert", "put_blob", "put_title",
            "put_flush", "recompute", "recompute_files", "commit"}
    \/ op = "remove" /\ label \in {"remove_file", "remove_load", "remove_chunks",
            "remove_flush", "remove_cascade", "recompute", "recompute_blob",
            "recompute_files", "commit"}
    \/ op = "delete" /\ label \in {"delete_mark", "delete_blob", "delete_files",
            "delete_chunks"}

Etags == CompositeEtag \cup ChunkRows \cup {None}

Requests ==
    {NoReq}
      \cup [op : {"init"}, a : Attachments, size : TotalSizes]
      \cup [op : {"chunk"}, a : Attachments, u : UploadIds, i : Indexes]
      \cup [op : {"complete"}, a : Attachments, u : UploadIds, match : Etags]
      \cup [op : {"put"}, body : Bodies, match : Etags]
      \cup [op : {"remove"}, a : Attachments]
      \cup [op : {"delete"}]

TablesOK ==
    /\ note \in NoteType
    /\ blob \in Bodies \cup {None}
    /\ IsTable(attachments, Attachments, File)
    /\ chunks \in [Attachments -> ChunkRows]

UploadsOK ==
    /\ IsTable(sessions, 1 .. issued, Session)
    /\ staged \in [UploadIds -> ChunkRows]
    /\ issued \in 0 .. MaxUploads

\* What a worker has read by the time it needs it.
LocalsOK(w) ==
    /\ LabelOK(req[w].op, pc[w])
    /\ req[w].op \in {"chunk", "complete"} => req[w].u <= issued
    /\ pc[w] \in {"chunk_body", "chunk_commit"} \/
         (req[w].op = "complete" /\ pc[w] \notin {"cleanup", "session", "expired"})
         => up[w].session \in Session
    /\ pc[w] = "chunk_commit" => up[w].data \in Data
    /\ req[w].op = "complete" /\ pc[w] \in {"complete_upsert", "complete_chunks",
         "complete_promote", "recompute", "recompute_blob", "recompute_files", "commit"}
         => seen[w].new \in File
    /\ pc[w] = "recompute_files" /\ req[w].op # "put" => seen[w].blob \in Bodies

\* The types of the tables, of the locks and of what open requests hold, and
\* at each statement the rows the handler must have read to execute it.
TypeOK ==
    /\ TablesOK /\ UploadsOK
    /\ lock \in [LockedRows -> Workers \cup {None}]
    /\ clock \in 0 .. MaxClock
    /\ pc \in [Workers -> Labels]
    /\ req \in [Workers -> Requests]
    /\ seen \in [Workers -> Seen]
    /\ up \in [Workers -> Up]
    /\ \A w \in Workers : LocalsOK(w)

\* upload_chunk counts from a row it read earlier (uploads.py:188), so parallel
\* requests may lose counts; they never count a chunk that is not staged.
\* complete_upload (uploads.py:223) relies on it to refuse partial uploads.
CounterNeverOvercounts ==
    \A u \in OpenSessions :
        sessions[u].received_chunks <= Cardinality(DOMAIN staged[u])

\* Whatever is staged for a session is a chunk of it: a valid index with the
\* only length that index may have (uploads.py:26 and :170), and nothing is
\* staged for a session that is gone.
StagedChunksFit ==
    \A u \in UploadIds : \A i \in DOMAIN staged[u] :
        /\ u \in DOMAIN sessions
        /\ i \in ChunkIndexes(sessions[u].total_size)
        /\ staged[u][i].len = expected_attachment_chunk_size(sessions[u].total_size, i)

\* A request that got past the count check of complete_upload had, when it
\* loaded the chunks, each of them: what it holds is the whole upload
\* (uploads.py:223-239), whatever other requests do to the session later.
LoadedIsWhole ==
    \A w \in Workers : pc[w] \in {"complete_note", "complete_file", "complete_digest",
                         "complete_upsert", "complete_chunks", "complete_promote"} =>
        LET size == up[w].session.total_size IN
        /\ DOMAIN up[w].loaded = ChunkIndexes(size)
        /\ TotalBytes(up[w].loaded) = size

\* A note has a stored body exactly while it is active: PUT, DELETE and the
\* primary keys keep notes and note_blobs in step under every interleaving.
BodyIffActive == note.state = "active" <=> blob # None

\* No request brings a deleted note back (there is no undelete endpoint), and
\* none reopens an aborted upload session (uploads.py:35-70, 95-106).
NoResurrection ==
    [][/\ note.state = "deleted" => note'.state = "deleted"
       /\ \A u \in DOMAIN sessions \cap DOMAIN sessions' :
            sessions[u].status = "aborted" => sessions'[u].status = "aborted"]_vars

\* Every request ends, with a response or a rollback: lock waits do not last,
\* since PostgreSQL breaks the cycles they can build.
EveryRequestEnds == \A w \in Workers : pc[w] # "idle" ~> pc[w] = "idle"

\* Requests deadlock on the rows of a note only around a DELETE note, between
\* two PUT body, or between a DELETE attachment and another request of the same
\* attachment, which lock the attachment and its chunks in opposite order
\* (service.py:125 and 416).  complete requests never do among themselves, nor
\* with one PUT body, nor requests of different attachments: the note is the
\* last row they lock (service.py:389, 417).
DeadlocksHaveTwoOrders ==
    \A S \in (SUBSET Workers) \ {{}} : WaitCycle(S) =>
        \/ \E w \in S : req[w].op = "delete"
        \/ \E v, w \in S : v # w /\ req[v].op = "put" /\ req[w].op = "put"
        \/ \E v, w \in S :
             /\ v # w /\ req[v].op = "remove" /\ req[w].op \in {"remove", "complete"}
             /\ req[v].a = req[w].a

-----------------------------------------------------------------------------
(* Properties that need a client discipline: one request at a time, or one *)
(* per attachment.                                                         *)

\* A stored attachment is complete and is the one its etag names: its chunks
\* are all there, each with its length, and hash to the etag
\* (promote_upload_chunks, service.py:118, after the checks of uploads.py:223).
AttachmentsWhole ==
    /\ \A a \in DOMAIN attachments :
        LET size == attachments[a].size_bytes IN
        /\ DOMAIN chunks[a] = ChunkIndexes(size)
        /\ \A i \in ChunkIndexes(size) :
             chunks[a][i].len = expected_attachment_chunk_size(size, i)
        /\ attachments[a].etag = chunks[a]
    /\ \A a \in Attachments \ DOMAIN attachments : chunks[a] = NoRows

\* init_upload aborts the attachment's open session before it opens another
\* (uploads.py:132).
OneOpenUpload ==
    \A u, v \in OpenSessions :
        sessions[u].attachment_id = sessions[v].attachment_id => u = v

\* When every chunk of an open session is staged the session has counted them
\* all, so that complete_upload does not answer "Upload is missing chunks."
\* (uploads.py:223).
StagedIsCounted ==
    \A u \in OpenSessions :
        DOMAIN staged[u] = ChunkIndexes(sessions[u].total_size)
          => sessions[u].received_chunks = expected_chunks(sessions[u])

\* An aborted session keeps no staged bytes (uploads.py:45-48, 66-69).
AbortedHoldsNothing ==
    \A u \in DOMAIN sessions : sessions[u].status = "aborted" => staged[u] = NoRows

\* DELETE note removes the body and every attachment (service.py:443-454), also
\* those of a complete it runs into.
TombstoneIsEmpty == note.state = "deleted" => blob = None /\ attachments = NoRows

\* The notes row describes what is stored: title and etag of the body and
\* attachments, the latest of their times (service.py:206-252).
NoteIsCurrent ==
    note.state = "active" => note = NoteRow(blob, attachments)

\* A PUT with If-Match replaces only the version it names (service.py:277);
\* without a note there is no version to compare.
IfMatchHolds ==
    [][\A w \in Workers :
         /\ pc[w] = "commit" /\ req[w].op = "put" /\ req[w].match # AnyEtag
         /\ IsActive /\ blob' # blob
         => note.etag = req[w].match]_vars

\* With one request at a time, the endpoints are the atomic operations of
\* Notebook: what they commit is the body, the whole attachment and the
\* recomputed notes row together (service.py), or nothing.
TheNotebook ==
    INSTANCE Notebook WITH
        entry <- note,
        body <- blob,
        manifest <- attachments,
        files <- [a \in DOMAIN attachments |-> chunks[a]]

ImplementsNotebook == TheNotebook!Spec

=============================================================================

------------------------------- MODULE Notes --------------------------------
(***************************************************************************)
(* The handlers that change a note (app/notes/service.py): PUT body, the   *)
(* second half of POST complete, DELETE attachment and DELETE note.  All   *)
(* but the last end in recompute_note_sync_metadata, three reads that give *)
(* the composite etag and updated_at the commit stores in the notes row.   *)
(***************************************************************************)
EXTENDS Uploads

AnyEtag == None

\* Mutant: If-Match is ignored.
MatchesAll(match, etag) == TRUE

\* If-Match is compared with the row the handler has read, when both exist.
Matches(match, etag) == match = AnyEtag \/ etag = match

-----------------------------------------------------------------------------
(* PUT /notes/{note}/body                                                  *)

PutBody(w, body, match) ==
    /\ pc[w] = "idle"
    /\ attachment_stats(attachments) = [count |-> body.count, total |-> body.total]
    /\ req' = [req EXCEPT ![w] = [op |-> "put", body |-> body, match |-> match]]
    /\ Goto(w, "put_note")
    /\ UNCHANGED <<seen, up, lock>> /\ NoWrites

PutReadNote(w) ==
    /\ pc[w] = "put_note"
    /\ \/ /\ IsActive /\ Matches(req[w].match, note.etag)
          /\ seen' = [seen EXCEPT ![w].note = note]
          /\ Goto(w, IF req[w].body.title = note.title THEN "put_blob" ELSE "put_title")
          /\ UNCHANGED <<req, up, lock>> /\ NoWrites
       \/ /\ ~IsActive
          /\ Goto(w, "put_insert")
          /\ UNCHANGED <<req, seen, up, lock>> /\ NoWrites
       \/ /\ IsActive /\ ~Matches(req[w].match, note.etag)
          /\ RollBack(w)

\* Mutant: PUT takes over a deleted row.
CanReviveNote == note.state # "active"

\* A row that exists, a tombstone too, is a primary key conflict.
CanInsertNote == note.state = "absent"

\* INSERT notes and note_blobs; a row being inserted by another is waited for.
PutInsert(w) ==
    /\ pc[w] = "put_insert"
    /\ Available(TheNote, w)
    /\ \/ /\ CanInsertNote
          /\ Lock({TheNote, TheBlob}, w)
          /\ Goto(w, "recompute")
          /\ UNCHANGED <<req, seen, up>> /\ NoWrites
       \/ ~CanInsertNote /\ RollBack(w)

\* The SELECT of the blob first flushes the UPDATE of a title that changed.
PutTitle(w) ==
    /\ pc[w] = "put_title"
    /\ Lock({TheNote}, w)
    /\ Goto(w, "put_blob")
    /\ UNCHANGED <<req, seen, up>> /\ NoWrites

PutReadBlob(w) ==
    /\ pc[w] = "put_blob"
    /\ seen' = [seen EXCEPT ![w].blob = blob]
    /\ Goto(w, "put_flush")
    /\ UNCHANGED <<req, up, lock>> /\ NoWrites

\* UPDATE note_blobs, or INSERT when the handler saw no blob: it fails when
\* the row has gone, or come, since.
PutFlush(w) ==
    /\ pc[w] = "put_flush"
    /\ \/ /\ req[w].body = seen[w].blob
          /\ Goto(w, "recompute")
          /\ UNCHANGED <<req, seen, up, lock>> /\ NoWrites
       \/ /\ req[w].body # seen[w].blob
          /\ (seen[w].blob = None) <=> (blob = None)
          /\ Lock({TheBlob}, w)
          /\ Goto(w, "recompute")
          /\ UNCHANGED <<req, seen, up>> /\ NoWrites
       \/ /\ req[w].body # seen[w].blob
          /\ Available(TheBlob, w)
          /\ ~((seen[w].blob = None) <=> (blob = None))
          /\ RollBack(w)

-----------------------------------------------------------------------------
(* POST complete, from finalize_chunked_upload on.                         *)

CompleteReadNote(w) ==
    /\ pc[w] = "complete_note"
    /\ \/ /\ IsActive
          /\ seen' = [seen EXCEPT ![w].note = note]
          /\ Goto(w, "complete_file")
          /\ UNCHANGED <<req, up, lock>> /\ NoWrites
       \/ ~IsActive /\ RollBack(w)

CompleteReadFile(w) ==
    LET a == req[w].a
        exists == a \in DOMAIN attachments
    IN
    /\ pc[w] = "complete_file"
    /\ \/ /\ exists => Matches(req[w].match, attachments[a].etag)
          /\ seen' = [seen EXCEPT ![w].file = IF exists THEN attachments[a] ELSE None]
          /\ Goto(w, "complete_digest")
          /\ UNCHANGED <<req, up, lock>> /\ NoWrites
       \/ /\ exists /\ ~Matches(req[w].match, attachments[a].etag)
          /\ RollBack(w)

\* Mutant: the first chunk is skipped.
StillStagedSkipsFirst(w) == Restrict(up[w].loaded, DOMAIN up[w].loaded \ {0})

\* A row selected again keeps the data the session loaded before: only the
\* set of rows is current.
StillStaged(w) == Restrict(up[w].loaded, DOMAIN up[w].loaded \cap DOMAIN staged[req[w].u])

ComputeDigest(w) ==
    /\ pc[w] = "complete_digest"
    /\ seen' = [seen EXCEPT ![w].new =
                  [size_bytes |-> up[w].session.total_size,
                   etag |-> StillStaged(w), updated_at |-> clock]]
    /\ Goto(w, "complete_upsert")
    /\ UNCHANGED <<req, up, lock>> /\ NoWrites

\* The row of an attachment being inserted is waited for, a row to update
\* only when there is one.
UpsertedRow(w) ==
    {FileRow(a) : a \in {req[w].a} \cap (IF seen[w].file = None THEN Attachments
                                                             ELSE DOMAIN attachments)}

\* INSERT or UPDATE note_attachments: an attachment that came or went since
\* CompleteReadFile makes the statement fail.  (When no column has changed
\* there is no UPDATE and the first chunk's foreign key locks the row.)
UpsertFile(w) ==
    LET conflict == (seen[w].file = None) <=> (req[w].a \in DOMAIN attachments) IN
    /\ pc[w] = "complete_upsert"
    /\ \/ /\ ~conflict
          /\ Lock(UpsertedRow(w), w)
          /\ Goto(w, "complete_chunks")
          /\ UNCHANGED <<req, seen, up>> /\ NoWrites
       \/ /\ conflict /\ \A row \in UpsertedRow(w) : Available(row, w)
          /\ RollBack(w)

\* The locks of the chunks stored for some attachments.
StoredChunks(files) == {ChunksOf(a) : a \in {b \in files : chunks[b] # NoRows}}

\* DELETE FROM attachment_chunks: the chunks of the version it replaces.
DeleteChunks(w) ==
    /\ pc[w] = "complete_chunks"
    /\ Lock(StoredChunks({req[w].a}), w)
    /\ Goto(w, "complete_promote")
    /\ UNCHANGED <<req, seen, up>> /\ NoWrites

\* The second SELECT of the staged chunks gives the rows to insert.
PromoteChunks(w) ==
    /\ pc[w] = "complete_promote"
    /\ up' = [up EXCEPT ![w].promoted = StillStaged(w)]
    /\ Goto(w, "recompute")
    /\ UNCHANGED <<req, seen, lock>> /\ NoWrites

-----------------------------------------------------------------------------
(* DELETE /notes/{note}/attachments/{a}                                    *)

RemoveAttachment(w, a) ==
    /\ pc[w] = "idle"
    /\ IsActive
    /\ req' = [req EXCEPT ![w] = [op |-> "remove", a |-> a]]
    /\ seen' = [seen EXCEPT ![w].note = note]
    /\ Goto(w, "remove_file")
    /\ UNCHANGED <<up, lock>> /\ NoWrites

RemoveReadFile(w) ==
    /\ pc[w] = "remove_file"
    /\ \/ /\ req[w].a \in DOMAIN attachments
          /\ Goto(w, "remove_load")
          /\ UNCHANGED <<req, seen, up, lock>> /\ NoWrites
       \/ req[w].a \notin DOMAIN attachments /\ RollBack(w)

\* db.delete cascades in the ORM: it loads the attachment's chunks ...
RemoveLoadChunks(w) ==
    /\ pc[w] = "remove_load"
    /\ up' = [up EXCEPT ![w].loaded = chunks[req[w].a]]
    /\ Goto(w, "remove_chunks")
    /\ UNCHANGED <<req, seen, lock>> /\ NoWrites

\* ... and the flush deletes those that are still there ...
LoadedChunks(w) ==
    {ChunksOf(a) : a \in {b \in {req[w].a} : DOMAIN up[w].loaded \cap DOMAIN chunks[b] # {}}}

RemoveChunks(w) ==
    /\ pc[w] = "remove_chunks"
    /\ Lock(LoadedChunks(w), w)
    /\ Goto(w, "remove_flush")
    /\ UNCHANGED <<req, seen, up>> /\ NoWrites

\* ... then the row; one that is already gone is not an error.
RemoveFlush(w) ==
    /\ pc[w] = "remove_flush"
    /\ Lock({FileRow(a) : a \in {req[w].a} \cap DOMAIN attachments}, w)
    /\ Goto(w, "remove_cascade")
    /\ UNCHANGED <<req, seen, up>> /\ NoWrites

\* The attachments whose rows a DELETE has locked.
Deleted(w) == {a \in Attachments : lock[FileRow(a)] = w}

\* The foreign key deletes the chunks that have been stored since.
RemoveCascade(w) ==
    /\ pc[w] = "remove_cascade"
    /\ Lock(StoredChunks(Deleted(w)), w)
    /\ Goto(w, "recompute")
    /\ UNCHANGED <<req, seen, up>> /\ NoWrites

-----------------------------------------------------------------------------
(* recompute_note_sync_metadata                                            *)

\* A PUT that found no note sees the row it has inserted itself.
OwnNote(w) == req[w].op = "put" /\ seen[w].note = NoNote

RecomputeNote(w) ==
    /\ pc[w] = "recompute"
    /\ \/ /\ IsActive \/ OwnNote(w)
          /\ Goto(w, IF req[w].op = "put" THEN "recompute_files" ELSE "recompute_blob")
          /\ UNCHANGED <<req, seen, up, lock>> /\ NoWrites
       \/ ~IsActive /\ ~OwnNote(w) /\ RollBack(w)

\* Mutant: the blob is used without checking that there is one.
RecomputeBlobUnchecked(w) ==
    /\ pc[w] = "recompute_blob"
    /\ seen' = [seen EXCEPT ![w].blob = blob]
    /\ Goto(w, "recompute_files")
    /\ UNCHANGED <<req, up, lock>> /\ NoWrites
\* Mutant: the blob is read FOR UPDATE.
RecomputeBlobLocked(w) ==
    /\ pc[w] = "recompute_blob"
    /\ blob # None
    /\ Lock({TheBlob}, w)
    /\ seen' = [seen EXCEPT ![w].blob = blob]
    /\ Goto(w, "recompute_files")
    /\ UNCHANGED <<req, up>> /\ NoWrites
RecomputeBlob(w) ==
    /\ pc[w] = "recompute_blob"
    /\ \/ /\ blob # None
          /\ seen' = [seen EXCEPT ![w].blob = blob]
          /\ Goto(w, "recompute_files")
          /\ UNCHANGED <<req, up, lock>> /\ NoWrites
       \/ blob = None /\ RollBack(w)

\* Mutant: the metadata is computed before the handler's own write.
CommittedFiles(w) == attachments

\* The attachments as the transaction sees them, its own write included.
VisibleFiles(w) ==
    CASE req[w].op = "put" -> attachments
      [] req[w].op = "complete" -> Upsert(attachments, req[w].a, seen[w].new)
      [] req[w].op = "remove" -> Without(attachments, Deleted(w))

\* Only PUT changes the title of the row the handler had read.
RecomputeFiles(w) ==
    LET put == req[w].op = "put"
        row == NoteRow(IF put THEN req[w].body ELSE seen[w].blob, VisibleFiles(w))
    IN
    /\ pc[w] = "recompute_files"
    /\ seen' = [seen EXCEPT ![w].row =
                  IF put THEN row ELSE [row EXCEPT !.title = seen[w].note.title]]
    /\ Goto(w, "commit")
    /\ UNCHANGED <<req, up, lock>> /\ NoWrites

-----------------------------------------------------------------------------
(* The flush of the notes row and the commit.                              *)

UpdatedNote(old, new) ==
    [note EXCEPT !.title = Changed(new.title, old.title, @),
                 !.etag = Changed(new.etag, old.etag, @),
                 !.updated_at = Changed(new.updated_at, old.updated_at, @)]

\* UPDATE notes needs the row's lock, unless no column has changed.
StoreNote(w) ==
    \/ seen[w].row = seen[w].note /\ UNCHANGED note
    \/ /\ seen[w].row # seen[w].note
       /\ Available(TheNote, w)
       /\ note' = IF OwnNote(w) THEN seen[w].row ELSE UpdatedNote(seen[w].note, seen[w].row)

CommitPut(w) ==
    /\ pc[w] = "commit" /\ req[w].op = "put"
    /\ StoreNote(w)
    /\ blob' = IF req[w].body = seen[w].blob THEN blob ELSE req[w].body
    /\ Respond(w)
    /\ UNCHANGED <<attachments, chunks, uploads>>

UpdatedFile(row, old, new) ==
    [size_bytes |-> Changed(new.size_bytes, old.size_bytes, row.size_bytes),
     etag |-> Changed(new.etag, old.etag, row.etag),
     updated_at |-> Changed(new.updated_at, old.updated_at, row.updated_at)]

\* The attachment row, its chunks and the note are stored, the upload session
\* and what it staged are deleted.
CommitComplete(w) ==
    LET a == req[w].a
        u == req[w].u
        file == IF seen[w].file = None
                  THEN seen[w].new
                  ELSE UpdatedFile(attachments[a], seen[w].file, seen[w].new)
    IN
    /\ pc[w] = "commit" /\ req[w].op = "complete"
    /\ StoreNote(w)
    /\ attachments' = Upsert(attachments, a, file)
    /\ chunks' = [chunks EXCEPT ![a] = up[w].promoted]
    /\ sessions' = Without(sessions, {u})
    /\ DropStaged({u})
    /\ Respond(w)
    /\ UNCHANGED <<blob, issued>>

DeleteFilesOf(w) ==
    /\ attachments' = Without(attachments, Deleted(w))
    /\ chunks' = [a \in Attachments |-> IF a \in Deleted(w) THEN NoRows ELSE chunks[a]]

CommitRemove(w) ==
    /\ pc[w] = "commit" /\ req[w].op = "remove"
    /\ StoreNote(w)
    /\ DeleteFilesOf(w)
    /\ Respond(w)
    /\ UNCHANGED <<blob, uploads>>

-----------------------------------------------------------------------------
(* DELETE /notes/{note}: the tombstone, then the body, then the            *)
(* attachments.  Upload sessions and shares stay.                          *)

DeleteNote(w) ==
    /\ pc[w] = "idle"
    /\ IsActive
    /\ req' = [req EXCEPT ![w] = [op |-> "delete"]]
    /\ Goto(w, "delete_mark")
    /\ UNCHANGED <<seen, up, lock>> /\ NoWrites

DeleteMark(w) ==
    /\ pc[w] = "delete_mark"
    /\ Lock({TheNote}, w)
    /\ Goto(w, "delete_blob")
    /\ UNCHANGED <<req, seen, up>> /\ NoWrites

DeleteBlob(w) ==
    /\ pc[w] = "delete_blob"
    /\ Lock({TheBlob}, w)
    /\ Goto(w, "delete_files")
    /\ UNCHANGED <<req, seen, up>> /\ NoWrites

\* Rows another transaction is inserting are not visible to this DELETE.
DeleteFiles(w) ==
    /\ pc[w] = "delete_files"
    /\ Lock({FileRow(a) : a \in DOMAIN attachments}, w)
    /\ Goto(w, "delete_chunks")
    /\ UNCHANGED <<req, seen, up>> /\ NoWrites

\* The foreign key's cascade to the chunks, and the commit.
CommitDelete(w) ==
    /\ pc[w] = "delete_chunks"
    /\ \A row \in StoredChunks(Deleted(w)) : Available(row, w)
    /\ note' = [note EXCEPT !.state = "deleted"]
    /\ blob' = None
    /\ DeleteFilesOf(w)
    /\ Respond(w)
    /\ UNCHANGED uploads

=============================================================================

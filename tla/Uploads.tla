------------------------------ MODULE Uploads -------------------------------
(***************************************************************************)
(* The handlers of app/notes/uploads.py that own the upload sessions:      *)
(* POST uploads (init), PUT chunk, and the first half of POST complete,    *)
(* up to the point where the staged chunks are accepted.  Every request    *)
(* first aborts the user's expired sessions, in a transaction of its own.  *)
(***************************************************************************)
EXTENDS NotesDB

\* Mutant: the deleted_at IS NULL condition is missing.
IsPresent == note.state # "absent"
IsActive == note.state = "active"

OpenSessions == {u \in DOMAIN sessions : sessions[u].status = "in_progress"}
Expired(s) == s.expires_at < clock

\* Mutants: only the staged chunks, or only the status, are dealt with.
AbortKeepsOpen(ids, table) == table
DropNothing(ids) == staged' = staged

\* UPDATE upload_sessions SET status = 'aborted' and DELETE FROM upload_chunks
\* for the given sessions.
Abort(ids, table) ==
    [u \in DOMAIN table |->
        IF u \in ids THEN [table[u] EXCEPT !.status = "aborted"] ELSE table[u]]
DropStaged(ids) ==
    staged' = [u \in UploadIds |-> IF u \in ids THEN NoRows ELSE staged[u]]

\* Where a request goes on after _cleanup_expired_sessions.
AfterCleanup(op) == IF op = "init" THEN "init_open" ELSE "session"

-----------------------------------------------------------------------------
(* _cleanup_expired_sessions: a SELECT, then the aborts and their commit.  *)
(* A selected row that is gone by then makes the UPDATE fail.              *)

SelectExpired(w, r) ==
    LET doomed == {u \in OpenSessions : Expired(sessions[u])} IN
    /\ req' = [req EXCEPT ![w] = r]
    /\ up' = [up EXCEPT ![w].doomed = doomed]
    /\ Goto(w, IF doomed = {} THEN AfterCleanup(r.op) ELSE "cleanup")

AbortExpired(w) ==
    /\ pc[w] = "cleanup"
    /\ \/ /\ up[w].doomed \subseteq DOMAIN sessions
          /\ sessions' = Abort(up[w].doomed, sessions)
          /\ DropStaged(up[w].doomed)
          /\ up' = [up EXCEPT ![w].doomed = {}]
          /\ Goto(w, AfterCleanup(req[w].op))
          /\ UNCHANGED <<tables, issued, lock, clock, req, seen>>
       \/ ~(up[w].doomed \subseteq DOMAIN sessions) /\ RollBack(w)

-----------------------------------------------------------------------------
(* POST /notes/{note}/attachments/{a}/uploads                              *)

InitUpload(w, a, size) ==
    /\ pc[w] = "idle"
    /\ issued < MaxUploads
    /\ IsActive
    /\ req' = [req EXCEPT ![w] = [op |-> "init", a |-> a, size |-> size]]
    /\ Goto(w, "init_cleanup")
    /\ UNCHANGED <<seen, up, lock>> /\ NoWrites

InitCleanup(w) ==
    /\ pc[w] = "init_cleanup"
    /\ SelectExpired(w, req[w])
    /\ UNCHANGED <<seen, lock>> /\ NoWrites

\* Mutant: init does not look for open sessions.
NoOpenUploads(a) == {}
OpenUploads(a) == {u \in OpenSessions : sessions[u].attachment_id = a}

\* _abort_in_progress_sessions selects the attachment's open sessions ...
SelectOpen(w) ==
    /\ pc[w] = "init_open"
    /\ up' = [up EXCEPT ![w].doomed = OpenUploads(req[w].a)]
    /\ Goto(w, "init_commit")
    /\ UNCHANGED <<req, seen, lock>> /\ NoWrites

NewSession(r) ==
    [attachment_id |-> r.a, total_size |-> r.size, received_chunks |-> 0,
     status |-> "in_progress", expires_at |-> clock + UPLOAD_SESSION_TTL]

\* ... and the commit aborts them and inserts the new session.
CommitInit(w) ==
    /\ pc[w] = "init_commit"
    /\ \/ /\ up[w].doomed \subseteq DOMAIN sessions
          /\ issued < MaxUploads
          /\ issued' = issued + 1
          /\ sessions' = Upsert(Abort(up[w].doomed, sessions), issued', NewSession(req[w]))
          /\ DropStaged(up[w].doomed)
          /\ Respond(w)
          /\ UNCHANGED tables
       \/ /\ ~(up[w].doomed \subseteq DOMAIN sessions) \/ issued = MaxUploads
          /\ RollBack(w)

-----------------------------------------------------------------------------
(* PUT .../uploads/{u}/chunks/{i} and POST .../uploads/{u}/complete start  *)
(* with _get_upload_session.                                               *)

UploadChunk(w, a, u, i) ==
    /\ pc[w] = "idle"
    /\ SelectExpired(w, [op |-> "chunk", a |-> a, u |-> u, i |-> i])
    /\ UNCHANGED <<seen, lock>> /\ NoWrites

CompleteUpload(w, a, u, match) ==
    /\ pc[w] = "idle"
    /\ SelectExpired(w, [op |-> "complete", a |-> a, u |-> u, match |-> match])
    /\ UNCHANGED <<seen, lock>> /\ NoWrites

\* Mutant: the index may be one past the last.
MayProceedPastEnd(r, s) ==
    IF r.op = "chunk" THEN r.i <= expected_chunks(s) ELSE s.received_chunks = expected_chunks(s)

\* A chunk needs a valid index, complete needs every chunk to be counted.
MayProceed(r, s) ==
    IF r.op = "chunk"
      THEN r.i \in ChunkIndexes(s.total_size)
      ELSE s.received_chunks = expected_chunks(s)

\* The request keeps the session row it has read here until it commits.
ReadSession(w) ==
    LET r == req[w]
        found == r.u \in DOMAIN sessions /\ sessions[r.u].attachment_id = r.a
        s == sessions[r.u]
    IN
    /\ pc[w] = "session"
    /\ \/ /\ found /\ ~Expired(s) /\ s.status = "in_progress" /\ MayProceed(r, s)
          /\ up' = [up EXCEPT ![w].session = s]
          /\ Goto(w, IF r.op = "chunk" THEN "chunk_body" ELSE "complete_load")
          /\ UNCHANGED <<req, seen, lock>> /\ NoWrites
       \/ /\ found /\ Expired(s)
          /\ Goto(w, "expired")
          /\ UNCHANGED <<req, seen, up, lock>> /\ NoWrites
       \/ /\ found => ~Expired(s) /\ (s.status # "in_progress" \/ ~MayProceed(r, s))
          /\ RollBack(w)

\* The session expired since the cleanup, or was aborted before: 409.
AbortSession(w) ==
    /\ pc[w] = "expired"
    /\ sessions' = Abort({req[w].u}, sessions)
    /\ DropStaged({req[w].u})
    /\ Respond(w)
    /\ UNCHANGED <<tables, issued>>

-----------------------------------------------------------------------------
(* PUT chunk: the body arrives, the chunk is looked up, then written.      *)

ReceiveChunk(w, data) ==
    LET r == req[w]
        s == up[w].session
    IN
    /\ pc[w] = "chunk_body"
    /\ \/ /\ data.len = expected_attachment_chunk_size(s.total_size, r.i)
          /\ up' = [up EXCEPT ![w].data = data,
                              ![w].loaded = Restrict(staged[r.u], DOMAIN staged[r.u] \cap {r.i})]
          /\ Goto(w, "chunk_commit")
          /\ UNCHANGED <<req, seen, lock>> /\ NoWrites
       \/ /\ data.len # expected_attachment_chunk_size(s.total_size, r.i)
          /\ RollBack(w)

\* Mutant: a new chunk is not counted.
CountNothing(s, snapshot) == s

\* The counter is written from the row read by ReadSession, not from the
\* current one.
CountChunk(s, snapshot) ==
    [s EXCEPT !.received_chunks = snapshot.received_chunks + 1]

StoreChunk(w, u, i, data) ==
    /\ staged' = [staged EXCEPT ![u] = Upsert(@, i, data)]
    /\ UNCHANGED <<tables, issued>>
    /\ Respond(w)

\* The chunk was not there: UPDATE the session's counter, INSERT the chunk.
\* Another request may have inserted it, or removed the session, meanwhile.
InsertChunk(w) ==
    LET r == req[w] IN
    /\ pc[w] = "chunk_commit" /\ up[w].loaded = NoRows
    /\ \/ /\ r.u \in DOMAIN sessions /\ r.i \notin DOMAIN staged[r.u]
          /\ sessions' = [sessions EXCEPT ![r.u] = CountChunk(@, up[w].session)]
          /\ StoreChunk(w, r.u, r.i, up[w].data)
       \/ /\ ~(r.u \in DOMAIN sessions /\ r.i \notin DOMAIN staged[r.u])
          /\ RollBack(w)

\* The chunk was there: UPDATE its data, if it is different.
OverwriteChunk(w) ==
    LET r == req[w] IN
    /\ pc[w] = "chunk_commit" /\ up[w].loaded # NoRows
    /\ \/ /\ r.i \in DOMAIN staged[r.u] /\ up[w].data # up[w].loaded[r.i]
          /\ StoreChunk(w, r.u, r.i, up[w].data)
          /\ UNCHANGED sessions
       \/ /\ r.i \in DOMAIN staged[r.u] => up[w].data = up[w].loaded[r.i]
          /\ RollBack(w)

-----------------------------------------------------------------------------
(* POST complete: every staged chunk is loaded and checked.                *)

\* Mutant: the counter checked by MayProceed is trusted.
TrustCounter(s, rows) == TRUE
Whole(s, rows) ==
    /\ Cardinality(DOMAIN rows) = expected_chunks(s)
    /\ TotalBytes(rows) = s.total_size

LoadChunks(w) ==
    LET s == up[w].session
        rows == staged[req[w].u]
    IN
    /\ pc[w] = "complete_load"
    /\ \/ /\ Whole(s, rows)
          /\ up' = [up EXCEPT ![w].loaded = rows]
          /\ Goto(w, "complete_note")
          /\ UNCHANGED <<req, seen, lock>> /\ NoWrites
       \/ ~Whole(s, rows) /\ RollBack(w)

=============================================================================

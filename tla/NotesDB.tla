------------------------------ MODULE NotesDB -------------------------------
(***************************************************************************)
(* The PostgreSQL tables behind one note of one owner, and what a request  *)
(* being served by a worker holds: its parameters, what it has read so far *)
(* and its row locks.  Isolation is READ COMMITTED: a statement sees what  *)
(* was committed before it, plus the transaction's own writes.  A worker's *)
(* writes stay in its locals until it commits; from the statement that     *)
(* first writes a row until the commit it holds that row's lock.           *)
(***************************************************************************)
EXTENDS Content

CONSTANTS
    Workers,       \* requests that can be in progress at the same time
    UPLOAD_SESSION_TTL,
    MaxUploads,    \* bound: upload sessions ever created
    StartBody      \* the note's body at the start, or None for no note yet

ASSUME TableAssumption ==
    /\ MaxUploads \in Nat /\ UPLOAD_SESSION_TTL \in Nat
    /\ StartBody \in Bodies \cup {None}
    /\ None \notin Workers

VARIABLES
    note,          \* notes: the row, state "absent" when there is none
    blob,          \* note_blobs: the stored body or None
    attachments,   \* note_attachments: attachment id -> row
    chunks,        \* attachment_chunks: attachment id -> (chunk index -> data)
    sessions,      \* upload_sessions: upload id -> row
    staged,        \* upload_chunks: upload id -> (chunk index -> data)
    issued,        \* upload ids handed out so far
    lock,          \* row -> the worker whose transaction has written it
    clock,
    pc,            \* worker -> the statement it executes next
    req,           \* worker -> the request's parameters
    seen,          \* worker -> what it has read of the note
    up             \* worker -> what it has read of the upload tables

tables == <<note, blob, attachments, chunks>>
uploads == <<sessions, staged, issued>>
locals == <<pc, req, seen, up>>
vars == <<tables, uploads, lock, clock, locals>>

-----------------------------------------------------------------------------

UploadIds == 1 .. MaxUploads

Session == [attachment_id : Attachments, total_size : TotalSizes,
            received_chunks : Nat, status : {"in_progress", "aborted"},
            expires_at : Nat]

expected_chunks(s) == total_chunks_for_size(s.total_size)

(***************************************************************************)
(* The rows a transaction can have locked, named by table and attachment.  *)
(* All chunks of an attachment are locked as one: the statements that      *)
(* write them write every chunk of it.                                     *)
(***************************************************************************)
TheNote == <<"notes", None>>
TheBlob == <<"note_blobs", None>>
FileRow(a) == <<"note_attachments", a>>
ChunksOf(a) == <<"attachment_chunks", a>>

LockedRows ==
    {TheNote, TheBlob}
      \cup {FileRow(a) : a \in Attachments} \cup {ChunksOf(a) : a \in Attachments}

-----------------------------------------------------------------------------
(* The life of a request.                                                  *)

NoReq == [op |-> "none"]

\* note, blob, file: rows read; new: the attachment row to store; row: the
\* recomputed notes row.
Seen == [note : NoteType, blob : Bodies \cup {None}, file : File \cup {None},
         new : File \cup {None}, row : NoteType]
NothingSeen ==
    [note |-> NoNote, blob |-> None, file |-> None, new |-> None, row |-> NoNote]

\* doomed: sessions to abort; session: the row read; loaded: staged chunks
\* read; promoted: those to store in the attachment; data: the chunk received.
Up == [doomed : SUBSET UploadIds, session : Session \cup {None},
       loaded : ChunkRows, promoted : ChunkRows, data : Data \cup {None}]
NothingUp == [doomed |-> {}, session |-> None, loaded |-> NoRows,
              promoted |-> NoRows, data |-> None]

Init ==
    /\ note = IF StartBody = None THEN NoNote ELSE NoteRow(StartBody, NoRows)
    /\ blob = StartBody
    /\ attachments = NoRows
    /\ chunks = [a \in Attachments |-> NoRows]
    /\ sessions = NoRows
    /\ staged = [u \in UploadIds |-> NoRows]
    /\ issued = 0
    /\ lock = [r \in LockedRows |-> None]
    /\ clock = 0
    /\ pc = [w \in Workers |-> "idle"]
    /\ req = [w \in Workers |-> NoReq]
    /\ seen = [w \in Workers |-> NothingSeen]
    /\ up = [w \in Workers |-> NothingUp]

\* Mutant: the session is not closed, its locks stay.
ReleaseNothing(w) == UNCHANGED lock

\* The transaction ends.
Release(w) == lock' = [r \in LockedRows |-> IF lock[r] = w THEN None ELSE lock[r]]

\* The request is over: its transaction's locks are released and the
\* session with everything it has read is dropped.
Respond(w) ==
    /\ pc' = [pc EXCEPT ![w] = "idle"]
    /\ req' = [req EXCEPT ![w] = NoReq]
    /\ seen' = [seen EXCEPT ![w] = NothingSeen]
    /\ up' = [up EXCEPT ![w] = NothingUp]
    /\ Release(w)
    /\ UNCHANGED clock

\* An APIError, a database error or a lost client: get_db closes the session
\* and the open transaction rolls back.
RollBack(w) == Respond(w) /\ UNCHANGED <<tables, uploads>>

Goto(w, label) == pc' = [pc EXCEPT ![w] = label]

Available(row, w) == lock[row] \in {None, w}

\* A statement that writes rows waits until it can have all of them.
Lock(rows, w) ==
    /\ \A row \in rows : Available(row, w)
    /\ lock' = [row \in LockedRows |-> IF row \in rows THEN w ELSE lock[row]]

\* A statement that only reads, or whose writes are not committed yet.
NoWrites == UNCHANGED <<tables, uploads, clock>>

Tick ==
    /\ clock < MaxClock
    /\ clock' = clock + 1
    /\ UNCHANGED <<tables, uploads, lock, locals>>

\* The process or the connection dies, or the client goes away.
Crash(w) == pc[w] # "idle" /\ RollBack(w)

=============================================================================

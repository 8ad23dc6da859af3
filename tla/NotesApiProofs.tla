---------------------------- MODULE NotesApiProofs ----------------------------
(***************************************************************************)
(* Proofs about NotesApi, for any number of workers, attachments, uploads, *)
(* sizes and contents: the types, that a body is stored exactly while the  *)
(* note is active, and that nothing deleted or aborted comes back.         *)
(***************************************************************************)
EXTENDS NotesApi, ContentProofs

(***************************************************************************)
(* What the row locks give a request between the statement that wrote a    *)
(* row and its commit: nobody else has changed whether the row exists.     *)
(***************************************************************************)

FileLabels == {"complete_chunks", "complete_promote", "recompute", "recompute_blob",
               "recompute_files", "commit"}

\* complete holds the attachment's row.
FileHeld(w) ==
    req[w].op = "complete" /\ pc[w] \in FileLabels =>
        /\ lock[FileRow(req[w].a)] = w
        /\ seen[w].file = None <=> req[w].a \notin DOMAIN attachments

\* A PUT that inserted the note holds both rows of a note that is not there
\* for anyone else; one that found it and changed the blob holds the blob.
PutHeld(w) ==
    req[w].op = "put" /\ pc[w] \in {"recompute", "recompute_files", "commit"} =>
        IF seen[w].note = NoNote
          THEN /\ lock[TheNote] = w /\ lock[TheBlob] = w
               /\ note.state = "absent" /\ seen[w].blob = None
          ELSE req[w].body # seen[w].blob =>
                 /\ lock[TheBlob] = w
                 /\ seen[w].blob = None <=> blob = None
                 /\ pc[w] # "recompute" => seen[w].blob # None

\* A PUT on its way to the blob has found an active note.
PutFound(w) ==
    req[w].op = "put" /\ pc[w] \in {"put_blob", "put_title", "put_flush"} =>
        seen[w].note # NoNote
PutMissed(w) ==
    pc[w] = "idle" \/ (req[w].op = "put" /\ pc[w] \in {"put_note", "put_insert"}) =>
        seen[w].note = NoNote /\ seen[w].blob = None

\* What is about to be stored is an active note.
RowComputed(w) == pc[w] = "commit" => seen[w].row.state = "active"

\* DELETE note locks the note first, then the blob.
DeleteHeld(w) ==
    /\ pc[w] \in {"delete_blob", "delete_files", "delete_chunks"} => lock[TheNote] = w
    /\ pc[w] \in {"delete_files", "delete_chunks"} => lock[TheBlob] = w

\* The note can have been deleted by another request since DELETE checked
\* it, but it is there.
DeleteFound(w) == req[w].op = "delete" => note.state # "absent"

Held(w) ==
    /\ FileHeld(w) /\ PutHeld(w) /\ PutFound(w) /\ PutMissed(w)
    /\ DeleteHeld(w) /\ DeleteFound(w) /\ RowComputed(w)

RowsInv == TypeOK /\ BodyIffActive /\ \A w \in Workers : Held(w)

-----------------------------------------------------------------------------

\* The rows are all different, and whatever has a lock is one of them.
LEMMA RowNames ==
    /\ TheNote \in LockedRows /\ TheBlob \in LockedRows /\ TheNote # TheBlob
    /\ \A a \in Attachments :
         /\ FileRow(a) \in LockedRows \ {TheNote, TheBlob}
         /\ ChunksOf(a) \in LockedRows \ {TheNote, TheBlob}
    /\ \A a, b : /\ FileRow(a) = FileRow(b) => a = b
                 /\ ChunksOf(a) = ChunksOf(b) => a = b
                 /\ FileRow(a) # ChunksOf(b)
BY DEF TheNote, TheBlob, FileRow, ChunksOf, LockedRows

\* What a statement needs is among the rows.
LEMMA NeededRows ==
    ASSUME NEW files \in SUBSET Attachments
    PROVE  /\ {FileRow(a) : a \in files} \subseteq LockedRows
           /\ StoredChunks(files) \subseteq LockedRows
BY RowNames DEF StoredChunks

\* The rows a statement locks, and the others.
LEMMA Locked ==
    ASSUME NEW w \in Workers, NEW rows \in SUBSET LockedRows, Lock(rows, w)
    PROVE  /\ \A row \in rows : lock'[row] = w
           /\ \A row \in LockedRows \ rows : lock'[row] = lock[row]
           /\ \A row \in LockedRows : lock[row] = w => lock'[row] = w
BY DEF Lock

\* A request is a record of the shape of its operation.
LEMMA RequestKinds ==
    ASSUME NEW r \in Requests
    PROVE  /\ r.op = "init" => r.a \in Attachments /\ r.size \in TotalSizes
           /\ r.op = "chunk" => r.a \in Attachments /\ r.u \in UploadIds /\ r.i \in Indexes
           /\ r.op = "complete" => r.a \in Attachments /\ r.u \in UploadIds
           /\ r.op = "put" => r.body \in Bodies
           /\ r.op = "remove" => r.a \in Attachments
BY DEF Requests, NoReq

LEMMA NothingTypes ==
    /\ NothingSeen \in Seen /\ NothingSeen.note = NoNote /\ NothingSeen.blob = None
    /\ NothingUp \in Up
    /\ NoReq \in Requests /\ NoReq.op = "none"
<1>1. NoRows \in ChunkRows
    BY EmptyTable, TableIs DEF ChunkRows
<1> QED BY <1>1, NoNoteType DEF NothingSeen, Seen, NothingUp, Up, NoReq, Requests

\* What a step of w leaves alone: the other workers' locals and the rows
\* they have locked.
OthersKeep(w) ==
    /\ pc' \in [Workers -> Labels] /\ req' \in [Workers -> Requests]
    /\ seen' \in [Workers -> Seen] /\ up' \in [Workers -> Up]
    /\ \A v \in Workers \ {w} :
         pc'[v] = pc[v] /\ req'[v] = req[v] /\ seen'[v] = seen[v] /\ up'[v] = up[v]
    /\ lock' \in [LockedRows -> Workers \cup {None}]
    /\ \A row \in LockedRows : lock[row] \notin {None, w} => lock'[row] = lock[row]

\* Whether a locked row exists is up to the worker that has locked it.
LockedStay(w) ==
    /\ \A a \in Attachments :
         lock[FileRow(a)] \notin {None, w} =>
           (a \in DOMAIN attachments' <=> a \in DOMAIN attachments)
    /\ lock[TheNote] \notin {None, w} /\ note.state = "absent" => note'.state = "absent"
    /\ lock[TheBlob] \notin {None, w} => (blob' = None <=> blob = None)
    /\ note.state # "absent" => note'.state # "absent"

LEMMA FrameInv ==
    ASSUME RowsInv, NEW w \in Workers, OthersKeep(w), LockedStay(w),
           TablesOK', UploadsOK', BodyIffActive', clock' \in 0 .. MaxClock,
           issued <= issued', LocalsOK(w)', Held(w)'
    PROVE  RowsInv'
<1>1. ASSUME NEW v \in Workers \ {w}
      PROVE  LocalsOK(v)'
    <2>1. req[v].op \in {"chunk", "complete"} => req[v].u \in 1 .. MaxUploads
        BY RequestKinds DEF RowsInv, TypeOK, UploadIds
    <2>2. issued \in Nat /\ issued' \in Nat /\ MaxUploads \in Nat
        BY TableAssumption DEF RowsInv, TypeOK, UploadsOK
    <2>3. LocalsOK(v)
        BY DEF RowsInv, TypeOK
    <2>4. req'[v].op \in {"chunk", "complete"} => req'[v].u <= issued'
        BY <2>1, <2>2, <2>3 DEF LocalsOK, OthersKeep
    <2> QED BY <2>3, <2>4 DEF LocalsOK, OthersKeep
<1>2. ASSUME NEW v \in Workers \ {w}
      PROVE  Held(v)'
    <2>1. v # None /\ v # w /\ req[v] \in Requests
        BY TableAssumption DEF RowsInv, TypeOK
    <2>2. /\ pc'[v] = pc[v] /\ req'[v] = req[v] /\ seen'[v] = seen[v]
          /\ \A row \in LockedRows : lock[row] = v => lock'[row] = v
        BY <2>1 DEF OthersKeep
    <2>3. Held(v)
        BY DEF RowsInv
    <2>4. FileHeld(v)'
        BY <2>1, <2>2, <2>3, RequestKinds, RowNames DEF FileHeld, Held, LockedStay
    <2>5. PutHeld(v)'
        BY <2>1, <2>2, <2>3, RowNames DEF PutHeld, Held, LockedStay
    <2>6. (PutFound(v) /\ PutMissed(v) /\ DeleteHeld(v) /\ DeleteFound(v) /\ RowComputed(v))'
        BY <2>1, <2>2, <2>3, RowNames
           DEF PutFound, PutMissed, DeleteHeld, DeleteFound, RowComputed, Held, LockedStay
    <2> QED BY <2>4, <2>5, <2>6 DEF Held
<1> QED BY <1>1, <1>2 DEF RowsInv, TypeOK, OthersKeep

\* A step that writes no table and keeps or takes locks.
Quiet(w) ==
    /\ UNCHANGED <<tables, uploads, clock>>
    /\ \/ UNCHANGED lock
       \/ \E rows \in SUBSET LockedRows : Lock(rows, w)

LEMMA QuietInv ==
    ASSUME RowsInv, NEW w \in Workers, Quiet(w),
           NEW label \in Labels, pc' = [pc EXCEPT ![w] = label],
           req' \in [Workers -> Requests], seen' \in [Workers -> Seen], up' \in [Workers -> Up],
           \A v \in Workers \ {w} : req'[v] = req[v] /\ seen'[v] = seen[v] /\ up'[v] = up[v],
           LocalsOK(w)', Held(w)'
    PROVE  RowsInv'
<1>1. /\ UNCHANGED <<note, blob, attachments, chunks, sessions, staged, issued, clock>>
    BY DEF Quiet, tables, uploads
<1>2. lock' \in [LockedRows -> Workers \cup {None}]
      /\ \A row \in LockedRows : lock[row] \notin {None, w} => lock'[row] = lock[row]
    BY DEF Quiet, Available, Lock, RowsInv, TypeOK
<1>3. OthersKeep(w)
    BY <1>2 DEF OthersKeep, RowsInv, TypeOK
<1>4. LockedStay(w)
    BY <1>1 DEF LockedStay
<1>5. TablesOK' /\ UploadsOK' /\ BodyIffActive' /\ clock' \in 0 .. MaxClock /\ issued <= issued'
    BY <1>1, TableAssumption DEF RowsInv, TypeOK, TablesOK, UploadsOK, BodyIffActive
<1> QED BY <1>3, <1>4, <1>5, FrameInv

\* A request that ends drops what it holds; the tables it commits must be
\* well typed.
LEMMA RespondInv ==
    ASSUME RowsInv, NEW w \in Workers, Respond(w), LockedStay(w),
           TablesOK', UploadsOK', BodyIffActive', issued <= issued'
    PROVE  RowsInv'
<1>1. OthersKeep(w)
    <2>1. /\ lock' \in [LockedRows -> Workers \cup {None}]
          /\ \A row \in LockedRows : lock[row] \notin {None, w} => lock'[row] = lock[row]
        BY DEF Respond, Release, RowsInv, TypeOK
    <2>2. /\ pc' = [pc EXCEPT ![w] = "idle"] /\ req' = [req EXCEPT ![w] = NoReq]
          /\ seen' = [seen EXCEPT ![w] = NothingSeen] /\ up' = [up EXCEPT ![w] = NothingUp]
        BY DEF Respond
    <2>3. /\ pc' \in [Workers -> Labels] /\ req' \in [Workers -> Requests]
          /\ seen' \in [Workers -> Seen] /\ up' \in [Workers -> Up]
        <3>1. pc' \in [Workers -> Labels]
            BY <2>2 DEF RowsInv, TypeOK, Labels
        <3>2. req' \in [Workers -> Requests]
            BY <2>2, NothingTypes DEF RowsInv, TypeOK
        <3>3. seen' \in [Workers -> Seen]
            BY <2>2, NothingTypes DEF RowsInv, TypeOK
        <3>4. up' \in [Workers -> Up]
            BY <2>2, NothingTypes DEF RowsInv, TypeOK
        <3> QED BY <3>1, <3>2, <3>3, <3>4
    <2> QED BY <2>1, <2>2, <2>3 DEF OthersKeep, RowsInv, TypeOK
<1>2. /\ pc'[w] = "idle" /\ req'[w] = NoReq /\ seen'[w] = NothingSeen
      /\ clock' = clock
    BY DEF Respond, RowsInv, TypeOK
<1>3. LocalsOK(w)'
    BY <1>2, NothingTypes DEF LocalsOK, LabelOK
<1>4. Held(w)'
    BY <1>2, NothingTypes
       DEF Held, FileHeld, PutHeld, PutFound, PutMissed, DeleteHeld, DeleteFound, RowComputed
<1> QED BY <1>1, <1>2, <1>3, <1>4, FrameInv DEF RowsInv, TypeOK

LEMMA RollBackInv ==
    ASSUME RowsInv, NEW w \in Workers, RollBack(w)
    PROVE  RowsInv'
<1>1. UNCHANGED <<note, blob, attachments, chunks, sessions, staged, issued>> /\ Respond(w)
    BY DEF RollBack, tables, uploads
<1>2. LockedStay(w) /\ TablesOK' /\ UploadsOK' /\ BodyIffActive' /\ issued <= issued'
    BY <1>1, TableAssumption
       DEF LockedStay, RowsInv, TypeOK, TablesOK, UploadsOK, BodyIffActive
<1> QED BY <1>1, <1>2, RespondInv

-----------------------------------------------------------------------------
(* The upload handlers.                                                    *)

LEMMA AbortTable ==
    ASSUME NEW keys, NEW table, IsTable(table, keys, Session), NEW ids
    PROVE  /\ IsTable(Abort(ids, table), keys, Session)
           /\ DOMAIN Abort(ids, table) = DOMAIN table
           /\ \A u \in DOMAIN table :
                /\ Abort(ids, table)[u].total_size = table[u].total_size
                /\ Abort(ids, table)[u].received_chunks = table[u].received_chunks
                /\ Abort(ids, table)[u].status =
                     IF u \in ids THEN "aborted" ELSE table[u].status
<1>1. \A u \in DOMAIN table : table[u] \in Session
    BY DEF IsTable
<1>2. \A u \in DOMAIN table :
        LET s == [table[u] EXCEPT !.status = "aborted"] IN
        /\ s \in Session /\ s.status = "aborted"
        /\ s.total_size = table[u].total_size
        /\ s.received_chunks = table[u].received_chunks
    BY <1>1 DEF Session
<1> QED BY <1>1, <1>2 DEF Abort, IsTable

LEMMA DroppedType ==
    ASSUME UploadsOK, NEW ids, DropStaged(ids)
    PROVE  /\ staged' \in [UploadIds -> ChunkRows]
           /\ \A u \in UploadIds : staged'[u] = IF u \in ids THEN NoRows ELSE staged[u]
<1>1. NoRows \in ChunkRows
    BY EmptyTable, TableIs DEF ChunkRows
<1> QED BY <1>1 DEF DropStaged, UploadsOK

LEMMA TablesKept ==
    ASSUME RowsInv, NEW w \in Workers, UNCHANGED tables
    PROVE  LockedStay(w) /\ TablesOK' /\ BodyIffActive'
BY DEF LockedStay, RowsInv, TypeOK, TablesOK, BodyIffActive, tables

\* The requests that hold no row: everything before complete writes.
NoHeld == {"cleanup", "init_cleanup", "init_open", "init_commit", "session",
           "expired", "chunk_body", "chunk_commit", "complete_load", "complete_note",
           "complete_file", "complete_digest", "complete_upsert", "remove_file",
           "remove_load", "remove_chunks"}

LEMMA InitUploadInv ==
    ASSUME RowsInv, NEW w \in Workers, NEW a \in Attachments, NEW size \in TotalSizes,
           InitUpload(w, a, size)
    PROVE  RowsInv'
<1> DEFINE r == [op |-> "init", a |-> a, size |-> size]
<1>1. /\ pc' = [pc EXCEPT ![w] = "init_cleanup"] /\ req' = [req EXCEPT ![w] = r]
      /\ UNCHANGED <<seen, up>> /\ Quiet(w)
    BY DEF InitUpload, Goto, NoWrites, Quiet
<1>2. r \in Requests
    BY DEF Requests
<1>3. pc'[w] = "init_cleanup" /\ req'[w] = r
    BY <1>1 DEF RowsInv, TypeOK
<1>4. LocalsOK(w)'
    BY <1>3 DEF LocalsOK, LabelOK
<1>5. Held(w)'
    BY <1>3 DEF NoHeld, Held, FileHeld, PutHeld, PutFound, PutMissed, DeleteHeld,
                DeleteFound, RowComputed, FileLabels
<1> QED BY <1>1, <1>2, <1>4, <1>5, QuietInv DEF RowsInv, TypeOK, Labels

LEMMA SelectExpiredInv ==
    ASSUME RowsInv, NEW w \in Workers, NEW r \in Requests,
           r.op \in {"init", "chunk", "complete"},
           r.op \in {"chunk", "complete"} => r.u <= issued,
           SelectExpired(w, r), UNCHANGED <<seen, lock>>, NoWrites
    PROVE  RowsInv'
<1> DEFINE doomed == {u \in OpenSessions : Expired(sessions[u])}
<1>1. PICK label \in {"cleanup", "init_open", "session"} :
        /\ pc' = [pc EXCEPT ![w] = label] /\ req' = [req EXCEPT ![w] = r]
        /\ up' = [up EXCEPT ![w].doomed = doomed]
        /\ label # "cleanup" => label = AfterCleanup(r.op)
    BY DEF SelectExpired, Goto, AfterCleanup
<1>2. doomed \in SUBSET UploadIds
    BY TableAssumption DEF OpenSessions, RowsInv, TypeOK, UploadsOK, IsTable, UploadIds
<1>3. up' \in [Workers -> Up]
    BY <1>1, <1>2 DEF RowsInv, TypeOK, Up
<1>4. pc'[w] = label /\ req'[w] = r /\ issued' = issued /\ Quiet(w)
    BY <1>1 DEF RowsInv, TypeOK, NoWrites, uploads, Quiet
<1>5. LocalsOK(w)'
    BY <1>1, <1>4 DEF LocalsOK, LabelOK, AfterCleanup
<1>6. Held(w)'
    BY <1>4 DEF NoHeld, Held, FileHeld, PutHeld, PutFound, PutMissed, DeleteHeld,
                DeleteFound, RowComputed, FileLabels
<1> QED BY <1>1, <1>3, <1>4, <1>5, <1>6, QuietInv DEF RowsInv, TypeOK, Labels

LEMMA AbortExpiredInv ==
    ASSUME RowsInv, NEW w \in Workers, AbortExpired(w)
    PROVE  RowsInv'
<1>1. CASE RollBack(w)
    BY <1>1, RollBackInv
<1>2. CASE ~RollBack(w)
    <2>1. /\ pc[w] = "cleanup"
          /\ sessions' = Abort(up[w].doomed, sessions) /\ DropStaged(up[w].doomed)
          /\ up' = [up EXCEPT ![w].doomed = {}]
          /\ pc' = [pc EXCEPT ![w] = AfterCleanup(req[w].op)]
          /\ UNCHANGED <<tables, issued, lock, clock, req, seen>>
        BY <1>2 DEF AbortExpired, Goto
    <2>2. UploadsOK'
        BY <2>1, AbortTable, DroppedType DEF RowsInv, TypeOK, UploadsOK
    <2>3. AfterCleanup(req[w].op) \in {"init_open", "session"} /\ LocalsOK(w)
        BY DEF AfterCleanup, RowsInv, TypeOK
    <2>4. up' \in [Workers -> Up]
        BY <2>1 DEF RowsInv, TypeOK, Up
    <2>5. pc'[w] = AfterCleanup(req[w].op) /\ req'[w] = req[w]
        BY <2>1 DEF RowsInv, TypeOK
    <2>6. LocalsOK(w)' /\ Held(w)'
        <3>1. req[w].op \in {"init", "chunk", "complete"}
            BY <2>1, <2>3 DEF LocalsOK, LabelOK
        <3>2. LocalsOK(w)'
            BY <2>1, <2>3, <2>5, <3>1 DEF LocalsOK, LabelOK, AfterCleanup
        <3>3. Held(w)'
            BY <2>3, <2>5, <3>1
               DEF Held, FileHeld, PutHeld, PutFound, PutMissed, DeleteHeld, DeleteFound, RowComputed,
                   FileLabels
        <3> QED BY <3>2, <3>3
    <2>7. OthersKeep(w)
        BY <2>1, <2>3, <2>4 DEF OthersKeep, RowsInv, TypeOK, Labels
    <2>8. clock' \in 0 .. MaxClock /\ issued <= issued'
        BY <2>1, TableAssumption DEF RowsInv, TypeOK, UploadsOK
    <2> QED BY <2>1, <2>2, <2>6, <2>7, <2>8, TablesKept, FrameInv
<1> QED BY <1>1, <1>2

\* A step of a request that holds no row before or after it.
LEMMA UnheldInv ==
    ASSUME RowsInv, NEW w \in Workers, NoWrites, UNCHANGED <<req, lock>>,
           req[w].op \in {"init", "chunk", "complete", "remove"},
           NEW label \in NoHeld, pc' = [pc EXCEPT ![w] = label],
           seen' \in [Workers -> Seen], up' \in [Workers -> Up],
           \A v \in Workers \ {w} : seen'[v] = seen[v] /\ up'[v] = up[v],
           LocalsOK(w)'
    PROVE  RowsInv'
<1>1. pc'[w] = label /\ req'[w] = req[w] /\ label \in Labels
    BY DEF RowsInv, TypeOK, NoHeld, Labels
<1>2. Held(w)'
    BY <1>1 DEF NoHeld, Held, FileHeld, PutHeld, PutFound, PutMissed, DeleteHeld,
                DeleteFound, RowComputed, FileLabels
<1>3. Quiet(w) /\ req' \in [Workers -> Requests]
    BY DEF NoWrites, Quiet, RowsInv, TypeOK
<1> QED BY <1>1, <1>2, <1>3, QuietInv

LEMMA InitCleanupInv ==
    ASSUME RowsInv, NEW w \in Workers, InitCleanup(w)
    PROVE  RowsInv'
<1>1. req[w] \in Requests /\ req[w].op = "init"
    BY DEF InitCleanup, RowsInv, TypeOK, LocalsOK, LabelOK
<1>2. SelectExpired(w, req[w]) /\ UNCHANGED <<seen, lock>> /\ NoWrites
    BY DEF InitCleanup
<1> QED BY <1>1, <1>2, SelectExpiredInv

LEMMA SelectOpenInv ==
    ASSUME RowsInv, NEW w \in Workers, SelectOpen(w)
    PROVE  RowsInv'
<1> DEFINE doomed == OpenUploads(req[w].a)
<1>1. /\ pc[w] = "init_open" /\ pc' = [pc EXCEPT ![w] = "init_commit"]
      /\ up' = [up EXCEPT ![w].doomed = doomed]
      /\ UNCHANGED <<req, seen, lock>> /\ NoWrites
    BY DEF SelectOpen, Goto
<1>2. doomed \in SUBSET UploadIds
    BY TableAssumption
       DEF OpenUploads, OpenSessions, RowsInv, TypeOK, UploadsOK, IsTable, UploadIds
<1>3. up' \in [Workers -> Up]
    BY <1>1, <1>2 DEF RowsInv, TypeOK, Up
<1>4. req[w].op = "init"
    BY <1>1 DEF RowsInv, TypeOK, LocalsOK, LabelOK
<1>5. LocalsOK(w)'
    BY <1>1, <1>4 DEF LocalsOK, LabelOK, RowsInv, TypeOK
<1> QED BY <1>1, <1>3, <1>4, <1>5, UnheldInv DEF RowsInv, TypeOK, NoHeld

LEMMA CommitInitInv ==
    ASSUME RowsInv, NEW w \in Workers, CommitInit(w)
    PROVE  RowsInv'
<1>1. CASE RollBack(w)
    BY <1>1, RollBackInv
<1>2. CASE ~RollBack(w)
    <2>1. /\ pc[w] = "init_commit" /\ issued < MaxUploads /\ issued' = issued + 1
          /\ sessions' = Upsert(Abort(up[w].doomed, sessions), issued', NewSession(req[w]))
          /\ DropStaged(up[w].doomed) /\ Respond(w) /\ UNCHANGED tables
        BY <1>2 DEF CommitInit
    <2>2. req[w].a \in Attachments /\ req[w].size \in TotalSizes
        <3>1. req[w].op = "init" /\ req[w] \in Requests
            BY <2>1 DEF RowsInv, TypeOK, LocalsOK, LabelOK
        <3> QED BY <3>1, RequestKinds
    <2>3. NewSession(req[w]) \in Session
        BY <2>2, TableAssumption, ContentAssumption DEF NewSession, Session, RowsInv, TypeOK
    <2>4. issued' \in 0 .. MaxUploads /\ issued' \in 1 .. issued' /\ issued <= issued'
        BY <2>1, TableAssumption DEF RowsInv, TypeOK, UploadsOK
    <2>5. IsTable(sessions', 1 .. issued', Session)
        <3>1. IsTable(sessions, 1 .. issued', Session)
            BY <2>1, TableAssumption DEF RowsInv, TypeOK, UploadsOK, IsTable
        <3>2. IsTable(Abort(up[w].doomed, sessions), 1 .. issued', Session)
            BY <3>1, AbortTable
        <3> QED BY <2>1, <2>3, <2>4, <3>2, UpsertTable
    <2>6. UploadsOK'
        BY <2>1, <2>4, <2>5, DroppedType DEF RowsInv, TypeOK, UploadsOK
    <2> QED BY <2>1, <2>4, <2>6, TablesKept, RespondInv
<1> QED BY <1>1, <1>2

LEMMA UploadRequestInv ==
    ASSUME RowsInv, NEW w \in Workers, NEW a \in Attachments, NEW u \in 1 .. issued,
           \/ \E i \in Indexes : UploadChunk(w, a, u, i)
           \/ \E match \in FileEtags(a) : CompleteUpload(w, a, u, match)
    PROVE  RowsInv'
<1>1. u \in UploadIds /\ u <= issued
    BY TableAssumption DEF RowsInv, TypeOK, UploadsOK, UploadIds
<1>2. ASSUME NEW i \in Indexes, UploadChunk(w, a, u, i)
      PROVE  RowsInv'
    <2> DEFINE r == [op |-> "chunk", a |-> a, u |-> u, i |-> i]
    <2>1. r \in Requests
        BY <1>1 DEF Requests
    <2>2. SelectExpired(w, r) /\ UNCHANGED <<seen, lock>> /\ NoWrites
        BY <1>2 DEF UploadChunk
    <2>3. r.op \in {"init", "chunk", "complete"} /\ r.u <= issued
        BY <1>1
    <2> HIDE DEF r
    <2> QED BY <2>1, <2>2, <2>3, SelectExpiredInv
<1>3. ASSUME NEW match \in FileEtags(a), CompleteUpload(w, a, u, match)
      PROVE  RowsInv'
    <2> DEFINE r == [op |-> "complete", a |-> a, u |-> u, match |-> match]
    <2>1. match \in Etags
        <3>1. NoRows \in ChunkRows
            BY EmptyTable, TableIs DEF ChunkRows
        <3>2. \A b \in DOMAIN attachments : attachments[b].etag \in ChunkRows
            BY DEF RowsInv, TypeOK, TablesOK, IsTable, File
        <3> QED BY <3>1, <3>2 DEF FileEtags, IfMatchValues, AnyEtag, Etags
    <2>2. r \in Requests
        BY <1>1, <2>1 DEF Requests
    <2>3. SelectExpired(w, r) /\ UNCHANGED <<seen, lock>> /\ NoWrites
        BY <1>3 DEF CompleteUpload
    <2>4. r.op \in {"init", "chunk", "complete"} /\ r.u <= issued
        BY <1>1
    <2> HIDE DEF r
    <2> QED BY <2>2, <2>3, <2>4, SelectExpiredInv
<1> QED BY <1>2, <1>3

LEMMA ReadSessionInv ==
    ASSUME RowsInv, NEW w \in Workers, ReadSession(w)
    PROVE  RowsInv'
<1> DEFINE s == sessions[req[w].u]
<1>1. pc[w] = "session" /\ req[w].op \in {"chunk", "complete"} /\ LocalsOK(w)
    BY DEF ReadSession, RowsInv, TypeOK, LocalsOK, LabelOK
<1>2. CASE RollBack(w)
    BY <1>2, RollBackInv
<1>3. ASSUME req[w].u \in DOMAIN sessions, up' = [up EXCEPT ![w].session = s],
             pc' = [pc EXCEPT ![w] = IF req[w].op = "chunk" THEN "chunk_body" ELSE "complete_load"],
             UNCHANGED <<req, seen, lock>>, NoWrites
      PROVE  RowsInv'
    <2>1. s \in Session
        BY <1>3 DEF RowsInv, TypeOK, UploadsOK, IsTable
    <2>2. up' \in [Workers -> Up] /\ up'[w].session = s
        BY <1>3, <2>1 DEF RowsInv, TypeOK, Up
    <2>3. LocalsOK(w)'
        BY <1>1, <1>3, <2>1, <2>2
           DEF LocalsOK, LabelOK, RowsInv, TypeOK, NoWrites, uploads
    <2> QED BY <1>1, <1>3, <2>2, <2>3, UnheldInv DEF RowsInv, TypeOK, NoHeld
<1>4. ASSUME pc' = [pc EXCEPT ![w] = "expired"], UNCHANGED <<req, seen, up, lock>>, NoWrites
      PROVE  RowsInv'
    <2>1. LocalsOK(w)'
        BY <1>1, <1>4 DEF LocalsOK, LabelOK, RowsInv, TypeOK, NoWrites, uploads
    <2> QED BY <1>1, <1>4, <2>1, UnheldInv DEF RowsInv, TypeOK, NoHeld
<1> QED BY <1>2, <1>3, <1>4 DEF ReadSession, Goto

LEMMA AbortSessionInv ==
    ASSUME RowsInv, NEW w \in Workers, AbortSession(w)
    PROVE  RowsInv'
<1>1. /\ sessions' = Abort({req[w].u}, sessions) /\ DropStaged({req[w].u})
      /\ Respond(w) /\ UNCHANGED <<tables, issued>>
    BY DEF AbortSession
<1>2. UploadsOK'
    BY <1>1, AbortTable, DroppedType DEF RowsInv, TypeOK, UploadsOK
<1>3. issued <= issued'
    BY <1>1, TableAssumption DEF RowsInv, TypeOK, UploadsOK
<1> QED BY <1>1, <1>2, <1>3, TablesKept, RespondInv

LEMMA ReceiveChunkInv ==
    ASSUME RowsInv, NEW w \in Workers, NEW data \in Data, ReceiveChunk(w, data)
    PROVE  RowsInv'
<1>1. CASE RollBack(w)
    BY <1>1, RollBackInv
<1>2. CASE ~RollBack(w)
    <2> DEFINE rows == staged[req[w].u]
               found == Restrict(rows, DOMAIN rows \cap {req[w].i})
    <2>1. /\ pc[w] = "chunk_body" /\ pc' = [pc EXCEPT ![w] = "chunk_commit"]
          /\ up' = [up EXCEPT ![w].data = data, ![w].loaded = found]
          /\ UNCHANGED <<req, seen, lock>> /\ NoWrites
        BY <1>2 DEF ReceiveChunk, Goto
    <2>2. req[w].op = "chunk" /\ req[w] \in Requests /\ LocalsOK(w)
        BY <2>1 DEF RowsInv, TypeOK, LocalsOK, LabelOK
    <2>3. found \in ChunkRows
        <3>1. rows \in ChunkRows
            BY <2>2, RequestKinds DEF RowsInv, TypeOK, UploadsOK
        <3> QED BY <3>1, TableIs, RestrictTable DEF ChunkRows
    <2>4. up' \in [Workers -> Up] /\ up'[w].data = data /\ up'[w].session = up[w].session
        BY <2>1, <2>3 DEF RowsInv, TypeOK, Up
    <2>5. LocalsOK(w)'
        BY <2>1, <2>2, <2>4 DEF LocalsOK, LabelOK, RowsInv, TypeOK, NoWrites, uploads
    <2> QED BY <2>1, <2>2, <2>4, <2>5, UnheldInv DEF RowsInv, TypeOK, NoHeld
<1> QED BY <1>1, <1>2

LEMMA StoreChunkInv ==
    ASSUME RowsInv, NEW w \in Workers, InsertChunk(w) \/ OverwriteChunk(w)
    PROVE  RowsInv'
<1> DEFINE r == req[w]
<1>1. CASE RollBack(w)
    BY <1>1, RollBackInv
<1>2. CASE ~RollBack(w)
    <2>1. /\ pc[w] = "chunk_commit" /\ StoreChunk(w, r.u, r.i, up[w].data)
          /\ \/ sessions' = sessions
             \/ /\ r.u \in DOMAIN sessions
                /\ sessions' = [sessions EXCEPT ![r.u] = CountChunk(@, up[w].session)]
        BY <1>2 DEF InsertChunk, OverwriteChunk
    <2>2. r.u \in UploadIds /\ r.i \in Indexes /\ up[w].data \in Data /\ up[w].session \in Session
        <3>1. r.op = "chunk" /\ r \in Requests /\ LocalsOK(w)
            BY <2>1 DEF RowsInv, TypeOK, LocalsOK, LabelOK
        <3> QED BY <2>1, <3>1, RequestKinds DEF LocalsOK
    <2>3. staged' \in [UploadIds -> ChunkRows]
        <3>1. staged[r.u] \in ChunkRows
            BY <2>2 DEF RowsInv, TypeOK, UploadsOK
        <3>2. Upsert(staged[r.u], r.i, up[w].data) \in ChunkRows
            BY <2>2, <3>1, TableIs, UpsertTable DEF ChunkRows
        <3>3. staged' = [staged EXCEPT ![r.u] = Upsert(staged[r.u], r.i, up[w].data)]
            BY <2>1 DEF StoreChunk
        <3> QED BY <3>2, <3>3 DEF RowsInv, TypeOK, UploadsOK
    <2>4. IsTable(sessions', 1 .. issued, Session)
        <3>1. IsTable(sessions, 1 .. issued, Session)
            BY DEF RowsInv, TypeOK, UploadsOK
        <3>2. \A s \in Session : CountChunk(s, up[w].session) \in Session
            BY <2>2 DEF CountChunk, Session
        <3> QED BY <2>1, <3>1, <3>2 DEF IsTable
    <2>5. Respond(w) /\ UNCHANGED tables /\ issued' = issued
        BY <2>1 DEF StoreChunk
    <2>6. UploadsOK' /\ issued <= issued'
        BY <2>3, <2>4, <2>5, TableAssumption DEF RowsInv, TypeOK, UploadsOK
    <2> QED BY <2>5, <2>6, TablesKept, RespondInv
<1> QED BY <1>1, <1>2

LEMMA LoadChunksInv ==
    ASSUME RowsInv, NEW w \in Workers, LoadChunks(w)
    PROVE  RowsInv'
<1>1. CASE RollBack(w)
    BY <1>1, RollBackInv
<1>2. CASE ~RollBack(w)
    <2>1. /\ pc[w] = "complete_load" /\ pc' = [pc EXCEPT ![w] = "complete_note"]
          /\ up' = [up EXCEPT ![w].loaded = staged[req[w].u]]
          /\ UNCHANGED <<req, seen, lock>> /\ NoWrites
        BY <1>2 DEF LoadChunks, Goto
    <2>2. req[w].op = "complete" /\ req[w] \in Requests /\ LocalsOK(w)
        BY <2>1 DEF RowsInv, TypeOK, LocalsOK, LabelOK
    <2>3. staged[req[w].u] \in ChunkRows
        BY <2>2, RequestKinds DEF RowsInv, TypeOK, UploadsOK
    <2>4. up' \in [Workers -> Up] /\ up'[w].session = up[w].session
        BY <2>1, <2>3 DEF RowsInv, TypeOK, Up
    <2>5. LocalsOK(w)'
        BY <2>1, <2>2, <2>4 DEF LocalsOK, LabelOK, RowsInv, TypeOK, NoWrites, uploads
    <2> QED BY <2>1, <2>2, <2>4, <2>5, UnheldInv DEF RowsInv, TypeOK, NoHeld
<1> QED BY <1>1, <1>2

-----------------------------------------------------------------------------
(* PUT body.                                                               *)

LEMMA NoteEtagsType ==
    ASSUME RowsInv
    PROVE  NoteEtags \subseteq Etags
<1>1. \A b \in Bodies : compute_composite_etag(b, NoRows) \in CompositeEtag
    BY EmptyTable, CompositeType
<1>2. note.etag \in CompositeEtag \cup {None}
    BY DEF RowsInv, TypeOK, TablesOK, NoteType
<1> QED BY <1>1, <1>2 DEF NoteEtags, IfMatchValues, AnyEtag, Etags

LEMMA PutBodyInv ==
    ASSUME RowsInv, NEW w \in Workers, NEW body \in Bodies, NEW match \in NoteEtags,
           PutBody(w, body, match)
    PROVE  RowsInv'
<1> DEFINE r == [op |-> "put", body |-> body, match |-> match]
<1>1. /\ pc[w] = "idle" /\ pc' = [pc EXCEPT ![w] = "put_note"] /\ req' = [req EXCEPT ![w] = r]
      /\ UNCHANGED <<seen, up>> /\ Quiet(w)
    BY DEF PutBody, Goto, NoWrites, Quiet
<1>2. r \in Requests
    BY NoteEtagsType DEF Requests
<1>3. pc'[w] = "put_note" /\ req'[w] = r /\ seen'[w] = seen[w]
    BY <1>1 DEF RowsInv, TypeOK
<1>4. LocalsOK(w)'
    BY <1>3 DEF LocalsOK, LabelOK
<1>5. Held(w)'
    BY <1>1, <1>3 DEF Held, FileHeld, PutHeld, PutFound, PutMissed, DeleteHeld, DeleteFound,
                RowComputed, FileLabels, RowsInv
<1> QED BY <1>1, <1>2, <1>4, <1>5, QuietInv DEF RowsInv, TypeOK, Labels

LEMMA PutReadNoteInv ==
    ASSUME RowsInv, NEW w \in Workers, PutReadNote(w)
    PROVE  RowsInv'
<1>1. CASE RollBack(w)
    BY <1>1, RollBackInv
<1>2. req[w].op = "put" /\ LocalsOK(w) /\ Held(w) /\ pc[w] = "put_note"
    BY DEF PutReadNote, RowsInv, TypeOK, LocalsOK, LabelOK
<1>3. ASSUME IsActive, seen' = [seen EXCEPT ![w].note = note],
             NEW label \in {"put_blob", "put_title"}, pc' = [pc EXCEPT ![w] = label],
             UNCHANGED <<req, up, lock>>, NoWrites
      PROVE  RowsInv'
    <2>1. seen' \in [Workers -> Seen] /\ seen'[w].note = note
        BY <1>3 DEF RowsInv, TypeOK, TablesOK, Seen
    <2>2. pc'[w] = label /\ req'[w] = req[w] /\ Quiet(w)
        BY <1>3 DEF RowsInv, TypeOK, Quiet, NoWrites
    <2>3. LocalsOK(w)'
        BY <1>2, <2>2 DEF LocalsOK, LabelOK
    <2>4. Held(w)'
        BY <1>2, <1>3, <2>1, <2>2, NoNoteType
           DEF Held, FileHeld, PutHeld, PutFound, PutMissed, DeleteHeld, DeleteFound,
               RowComputed, IsActive
    <2> QED BY <1>3, <2>1, <2>2, <2>3, <2>4, QuietInv DEF RowsInv, TypeOK, Labels
<1>4. ASSUME pc' = [pc EXCEPT ![w] = "put_insert"], UNCHANGED <<req, seen, up, lock>>, NoWrites
      PROVE  RowsInv'
    <2>1. pc'[w] = "put_insert" /\ req'[w] = req[w] /\ seen'[w] = seen[w] /\ Quiet(w)
        BY <1>4 DEF RowsInv, TypeOK, Quiet, NoWrites
    <2>2. LocalsOK(w)'
        BY <1>2, <2>1 DEF LocalsOK, LabelOK
    <2>3. Held(w)'
        BY <1>2, <2>1 DEF Held, FileHeld, PutHeld, PutFound, PutMissed, DeleteHeld, DeleteFound,
                    RowComputed
    <2> QED BY <1>4, <2>1, <2>2, <2>3, QuietInv DEF RowsInv, TypeOK, Labels
<1> QED BY <1>1, <1>3, <1>4 DEF PutReadNote, Goto

LEMMA PutInsertInv ==
    ASSUME RowsInv, NEW w \in Workers, PutInsert(w)
    PROVE  RowsInv'
<1>1. CASE RollBack(w)
    BY <1>1, RollBackInv
<1>2. CASE ~RollBack(w)
    <2>1. /\ pc[w] = "put_insert" /\ note.state = "absent"
          /\ Lock({TheNote, TheBlob}, w)
          /\ pc' = [pc EXCEPT ![w] = "recompute"]
          /\ UNCHANGED <<req, seen, up>> /\ NoWrites
        BY <1>2 DEF PutInsert, CanInsertNote, Goto
    <2>2. req[w].op = "put" /\ LocalsOK(w) /\ Held(w)
        BY <2>1 DEF RowsInv, TypeOK, LocalsOK, LabelOK
    <2>3. /\ pc'[w] = "recompute" /\ req'[w] = req[w] /\ seen'[w] = seen[w] /\ note' = note
          /\ Quiet(w)
        BY <2>1, RowNames DEF RowsInv, TypeOK, NoWrites, Quiet, tables
    <2>4. lock'[TheNote] = w /\ lock'[TheBlob] = w
        BY <2>1, RowNames, Locked
    <2>5. LocalsOK(w)'
        BY <2>2, <2>3 DEF LocalsOK, LabelOK
    <2>6. Held(w)'
        BY <2>1, <2>2, <2>3, <2>4
           DEF Held, FileHeld, PutHeld, PutFound, PutMissed, DeleteHeld, DeleteFound, RowComputed
    <2> QED BY <2>1, <2>3, <2>5, <2>6, QuietInv DEF RowsInv, TypeOK, Labels
<1> QED BY <1>1, <1>2

LEMMA PutReadBlobInv ==
    ASSUME RowsInv, NEW w \in Workers, PutReadBlob(w)
    PROVE  RowsInv'
<1>2. /\ pc[w] = "put_blob" /\ pc' = [pc EXCEPT ![w] = "put_flush"]
      /\ seen' = [seen EXCEPT ![w].blob = blob] /\ UNCHANGED <<req, up, lock>> /\ NoWrites
    BY DEF PutReadBlob, Goto
<1>3. req[w].op = "put" /\ LocalsOK(w) /\ Held(w)
    BY <1>2 DEF RowsInv, TypeOK, LocalsOK, LabelOK
<1>4. seen' \in [Workers -> Seen] /\ seen'[w].note = seen[w].note
    BY <1>2 DEF RowsInv, TypeOK, TablesOK, Seen
<1>5. pc'[w] = "put_flush" /\ req'[w] = req[w] /\ Quiet(w)
    BY <1>2 DEF RowsInv, TypeOK, NoWrites, Quiet
<1>6. LocalsOK(w)'
    BY <1>3, <1>5 DEF LocalsOK, LabelOK
<1>7. Held(w)'
    BY <1>2, <1>3, <1>4, <1>5
       DEF Held, FileHeld, PutHeld, PutFound, PutMissed, DeleteHeld, DeleteFound, RowComputed
<1> QED BY <1>2, <1>4, <1>5, <1>6, <1>7, QuietInv DEF RowsInv, TypeOK, Labels

LEMMA PutTitleInv ==
    ASSUME RowsInv, NEW w \in Workers, PutTitle(w)
    PROVE  RowsInv'
<1>1. /\ pc[w] = "put_title" /\ pc' = [pc EXCEPT ![w] = "put_blob"]
      /\ Lock({TheNote}, w)
      /\ UNCHANGED <<req, seen, up>> /\ NoWrites
    BY DEF PutTitle, Goto
<1>2. req[w].op = "put" /\ LocalsOK(w) /\ Held(w)
    BY <1>1 DEF RowsInv, TypeOK, LocalsOK, LabelOK
<1>3. pc'[w] = "put_blob" /\ req'[w] = req[w] /\ seen'[w] = seen[w] /\ Quiet(w)
    BY <1>1, RowNames DEF RowsInv, TypeOK, NoWrites, Quiet
<1>4. LocalsOK(w)'
    BY <1>2, <1>3 DEF LocalsOK, LabelOK
<1>5. Held(w)'
    BY <1>1, <1>2, <1>3
       DEF Held, FileHeld, PutHeld, PutFound, PutMissed, DeleteHeld, DeleteFound, RowComputed
<1> QED BY <1>1, <1>3, <1>4, <1>5, QuietInv DEF RowsInv, TypeOK, Labels

LEMMA PutFlushInv ==
    ASSUME RowsInv, NEW w \in Workers, PutFlush(w)
    PROVE  RowsInv'
<1>1. CASE RollBack(w)
    BY <1>1, RollBackInv
<1>2. CASE ~RollBack(w)
    <2>1. /\ pc[w] = "put_flush" /\ pc' = [pc EXCEPT ![w] = "recompute"]
          /\ UNCHANGED <<req, seen, up>> /\ NoWrites
          /\ \/ req[w].body = seen[w].blob /\ UNCHANGED lock
             \/ /\ Lock({TheBlob}, w)
                /\ seen[w].blob = None <=> blob = None
        BY <1>2 DEF PutFlush, Goto
    <2>2. req[w].op = "put" /\ LocalsOK(w) /\ Held(w)
        BY <2>1 DEF RowsInv, TypeOK, LocalsOK, LabelOK
    <2>3. pc'[w] = "recompute" /\ req'[w] = req[w] /\ seen'[w] = seen[w] /\ blob' = blob
        BY <2>1 DEF RowsInv, TypeOK, NoWrites, tables
    <2>4. Quiet(w)
        BY <2>1, RowNames DEF NoWrites, Quiet
    <2>5. LocalsOK(w)'
        BY <2>2, <2>3 DEF LocalsOK, LabelOK
    <2>6. PutHeld(w)'
        <3>1. seen[w].note # NoNote
            BY <2>1, <2>2 DEF Held, PutFound
        <3>2. req[w].body # seen[w].blob =>
                lock'[TheBlob] = w /\ (seen[w].blob = None <=> blob = None)
            BY <2>1, RowNames, Locked
        <3> QED BY <2>3, <3>1, <3>2 DEF PutHeld
    <2>7. Held(w)'
        BY <2>1, <2>2, <2>3, <2>6
           DEF Held, FileHeld, PutFound, PutMissed, DeleteHeld, DeleteFound, RowComputed
    <2> QED BY <2>1, <2>3, <2>4, <2>5, <2>7, QuietInv DEF RowsInv, TypeOK, Labels
<1> QED BY <1>1, <1>2

-----------------------------------------------------------------------------
(* POST complete and DELETE attachment, up to the recomputation.           *)

LEMMA CompleteReadNoteInv ==
    ASSUME RowsInv, NEW w \in Workers, CompleteReadNote(w)
    PROVE  RowsInv'
<1>1. CASE RollBack(w)
    BY <1>1, RollBackInv
<1>2. CASE ~RollBack(w)
    <2>1. /\ pc[w] = "complete_note" /\ pc' = [pc EXCEPT ![w] = "complete_file"]
          /\ seen' = [seen EXCEPT ![w].note = note]
          /\ UNCHANGED <<req, up, lock>> /\ NoWrites
        BY <1>2 DEF CompleteReadNote, Goto
    <2>2. req[w].op = "complete" /\ LocalsOK(w)
        BY <2>1 DEF RowsInv, TypeOK, LocalsOK, LabelOK
    <2>3. seen' \in [Workers -> Seen]
        BY <2>1 DEF RowsInv, TypeOK, TablesOK, Seen
    <2>4. LocalsOK(w)'
        BY <2>1, <2>2 DEF LocalsOK, LabelOK, RowsInv, TypeOK, NoWrites, uploads
    <2> QED BY <2>1, <2>2, <2>3, <2>4, UnheldInv DEF RowsInv, TypeOK, NoHeld
<1> QED BY <1>1, <1>2

LEMMA CompleteReadFileInv ==
    ASSUME RowsInv, NEW w \in Workers, CompleteReadFile(w)
    PROVE  RowsInv'
<1>1. CASE RollBack(w)
    BY <1>1, RollBackInv
<1>2. CASE ~RollBack(w)
    <2> DEFINE a == req[w].a
               file == IF a \in DOMAIN attachments THEN attachments[a] ELSE None
    <2>1. /\ pc[w] = "complete_file" /\ pc' = [pc EXCEPT ![w] = "complete_digest"]
          /\ seen' = [seen EXCEPT ![w].file = file]
          /\ UNCHANGED <<req, up, lock>> /\ NoWrites
        BY <1>2 DEF CompleteReadFile, Goto
    <2>2. req[w].op = "complete" /\ LocalsOK(w)
        BY <2>1 DEF RowsInv, TypeOK, LocalsOK, LabelOK
    <2>3. file \in File \cup {None}
        BY DEF RowsInv, TypeOK, TablesOK, IsTable
    <2>4. seen' \in [Workers -> Seen]
        BY <2>1, <2>3 DEF RowsInv, TypeOK, Seen
    <2>5. LocalsOK(w)'
        BY <2>1, <2>2 DEF LocalsOK, LabelOK, RowsInv, TypeOK, NoWrites, uploads
    <2> QED BY <2>1, <2>2, <2>4, <2>5, UnheldInv DEF RowsInv, TypeOK, NoHeld
<1> QED BY <1>1, <1>2

\* What is left of the loaded chunks is still a table of chunks.
LEMMA StillStagedType ==
    ASSUME TypeOK, NEW w \in Workers
    PROVE  StillStaged(w) \in ChunkRows
<1>1. up[w].loaded \in ChunkRows
    BY DEF TypeOK, Up
<1> QED BY <1>1, TableIs, RestrictTable DEF StillStaged, ChunkRows

LEMMA ComputeDigestInv ==
    ASSUME RowsInv, NEW w \in Workers, ComputeDigest(w)
    PROVE  RowsInv'
<1> DEFINE new == [size_bytes |-> up[w].session.total_size,
                   etag |-> StillStaged(w), updated_at |-> clock]
<1>1. /\ pc[w] = "complete_digest" /\ pc' = [pc EXCEPT ![w] = "complete_upsert"]
      /\ seen' = [seen EXCEPT ![w].new = new]
      /\ UNCHANGED <<req, up, lock>> /\ NoWrites
    BY DEF ComputeDigest, Goto
<1>2. req[w].op = "complete" /\ LocalsOK(w) /\ up[w].session \in Session
    BY <1>1 DEF RowsInv, TypeOK, LocalsOK, LabelOK
<1>3. new \in File
    BY <1>2, StillStagedType DEF RowsInv, TypeOK, Session, File
<1>4. seen' \in [Workers -> Seen] /\ seen'[w].new = new
    BY <1>1, <1>3 DEF RowsInv, TypeOK, Seen
<1>5. LocalsOK(w)'
    BY <1>1, <1>2, <1>3, <1>4 DEF LocalsOK, LabelOK, RowsInv, TypeOK, NoWrites, uploads
<1> QED BY <1>1, <1>2, <1>4, <1>5, UnheldInv DEF RowsInv, TypeOK, NoHeld

LEMMA UpsertFileInv ==
    ASSUME RowsInv, NEW w \in Workers, UpsertFile(w)
    PROVE  RowsInv'
<1>1. CASE RollBack(w)
    BY <1>1, RollBackInv
<1>2. CASE ~RollBack(w)
    <2>1. /\ pc[w] = "complete_upsert" /\ pc' = [pc EXCEPT ![w] = "complete_chunks"]
          /\ Lock(UpsertedRow(w), w)
          /\ ~((seen[w].file = None) <=> (req[w].a \in DOMAIN attachments))
          /\ UNCHANGED <<req, seen, up>> /\ NoWrites
        BY <1>2 DEF UpsertFile, Goto
    <2>2. req[w].op = "complete" /\ LocalsOK(w) /\ Held(w) /\ req[w].a \in Attachments
        BY <2>1, RequestKinds DEF RowsInv, TypeOK, LocalsOK, LabelOK
    <2>3. /\ pc'[w] = "complete_chunks" /\ req'[w] = req[w] /\ seen'[w] = seen[w]
          /\ attachments' = attachments /\ issued' = issued /\ up'[w] = up[w]
        BY <2>1 DEF RowsInv, TypeOK, NoWrites, tables, uploads
    <2>4. /\ UpsertedRow(w) = {FileRow(req[w].a)} /\ FileRow(req[w].a) \in LockedRows
          /\ lock'[FileRow(req[w].a)] = w
        <3>1. UpsertedRow(w) = {FileRow(req[w].a)}
            BY <2>1, <2>2 DEF UpsertedRow
        <3> QED BY <2>1, <2>2, <3>1, RowNames, Locked
    <2>5. Quiet(w)
        BY <2>1, <2>4 DEF NoWrites, Quiet
    <2>6. LocalsOK(w)'
        BY <2>1, <2>2, <2>3 DEF LocalsOK, LabelOK
    <2>7. Held(w)'
        BY <2>1, <2>2, <2>3, <2>4
           DEF Held, FileHeld, PutHeld, PutFound, PutMissed, DeleteHeld, DeleteFound, RowComputed
    <2> QED BY <2>1, <2>5, <2>6, <2>7, QuietInv DEF RowsInv, TypeOK, Labels
<1> QED BY <1>1, <1>2

LEMMA DeleteChunksInv ==
    ASSUME RowsInv, NEW w \in Workers, DeleteChunks(w)
    PROVE  RowsInv'
<1>1. /\ pc[w] = "complete_chunks" /\ pc' = [pc EXCEPT ![w] = "complete_promote"]
      /\ Lock(StoredChunks({req[w].a}), w)
      /\ UNCHANGED <<req, seen, up>> /\ NoWrites
    BY DEF DeleteChunks, Goto
<1>2. req[w].op = "complete" /\ LocalsOK(w) /\ Held(w) /\ req[w].a \in Attachments
    BY <1>1, RequestKinds DEF RowsInv, TypeOK, LocalsOK, LabelOK
<1>3. StoredChunks({req[w].a}) \subseteq LockedRows
    BY <1>2, NeededRows
<1>4. /\ pc'[w] = "complete_promote" /\ req'[w] = req[w] /\ seen'[w] = seen[w]
      /\ attachments' = attachments /\ issued' = issued /\ up'[w] = up[w] /\ Quiet(w)
    BY <1>1, <1>3 DEF RowsInv, TypeOK, NoWrites, Quiet, tables, uploads
<1>5. FileHeld(w)'
    <2>1. lock[FileRow(req[w].a)] = w
        BY <1>1, <1>2 DEF Held, FileHeld, FileLabels
    <2>2. FileRow(req[w].a) \in LockedRows
        BY <1>2, RowNames
    <2>3. lock'[FileRow(req[w].a)] = w
        BY <1>1, <1>3, <2>1, <2>2, Locked
    <2> QED BY <1>1, <1>2, <1>4, <2>3 DEF Held, FileHeld, FileLabels
<1>6. LocalsOK(w)'
    BY <1>1, <1>2, <1>4 DEF LocalsOK, LabelOK
<1>7. Held(w)'
    BY <1>2, <1>4, <1>5 DEF Held, PutHeld, PutFound, PutMissed, DeleteHeld, DeleteFound, RowComputed
<1> QED BY <1>1, <1>4, <1>6, <1>7, QuietInv DEF RowsInv, TypeOK, Labels

LEMMA PromoteChunksInv ==
    ASSUME RowsInv, NEW w \in Workers, PromoteChunks(w)
    PROVE  RowsInv'
<1>1. /\ pc[w] = "complete_promote" /\ pc' = [pc EXCEPT ![w] = "recompute"]
      /\ up' = [up EXCEPT ![w].promoted = StillStaged(w)]
      /\ UNCHANGED <<req, seen, lock>> /\ NoWrites
    BY DEF PromoteChunks, Goto
<1>2. req[w].op = "complete" /\ LocalsOK(w) /\ Held(w)
    BY <1>1 DEF RowsInv, TypeOK, LocalsOK, LabelOK
<1>3. up' \in [Workers -> Up] /\ up'[w].session = up[w].session
    BY <1>1, StillStagedType DEF RowsInv, TypeOK, Up
<1>4. /\ pc'[w] = "recompute" /\ req'[w] = req[w] /\ seen'[w] = seen[w] /\ lock' = lock
      /\ attachments' = attachments /\ issued' = issued /\ Quiet(w)
    BY <1>1 DEF RowsInv, TypeOK, NoWrites, Quiet, tables, uploads
<1>5. LocalsOK(w)'
    BY <1>1, <1>2, <1>3, <1>4 DEF LocalsOK, LabelOK
<1>6. Held(w)'
    BY <1>1, <1>2, <1>4
       DEF Held, FileHeld, PutHeld, PutFound, PutMissed, DeleteHeld, DeleteFound, RowComputed,
           FileLabels
<1> QED BY <1>1, <1>3, <1>4, <1>5, <1>6, QuietInv DEF RowsInv, TypeOK, Labels

LEMMA RemoveAttachmentInv ==
    ASSUME RowsInv, NEW w \in Workers, NEW a \in Attachments, RemoveAttachment(w, a)
    PROVE  RowsInv'
<1> DEFINE r == [op |-> "remove", a |-> a]
<1>1. /\ pc' = [pc EXCEPT ![w] = "remove_file"] /\ req' = [req EXCEPT ![w] = r]
      /\ seen' = [seen EXCEPT ![w].note = note] /\ UNCHANGED up /\ Quiet(w)
    BY DEF RemoveAttachment, Goto, NoWrites, Quiet
<1>2. r \in Requests
    BY DEF Requests
<1>3. pc'[w] = "remove_file" /\ req'[w] = r
    BY <1>1 DEF RowsInv, TypeOK
<1>4. seen' \in [Workers -> Seen]
    BY <1>1 DEF RowsInv, TypeOK, TablesOK, Seen
<1>5. LocalsOK(w)'
    BY <1>3 DEF LocalsOK, LabelOK
<1>6. Held(w)'
    BY <1>3 DEF Held, FileHeld, PutHeld, PutFound, PutMissed, DeleteHeld,
                DeleteFound, RowComputed, FileLabels
<1> QED BY <1>1, <1>2, <1>4, <1>5, <1>6, QuietInv DEF RowsInv, TypeOK, Labels

LEMMA RemoveReadFileInv ==
    ASSUME RowsInv, NEW w \in Workers, RemoveReadFile(w)
    PROVE  RowsInv'
<1>1. CASE RollBack(w)
    BY <1>1, RollBackInv
<1>2. CASE ~RollBack(w)
    <2>1. /\ pc[w] = "remove_file" /\ pc' = [pc EXCEPT ![w] = "remove_load"]
          /\ UNCHANGED <<req, seen, up, lock>> /\ NoWrites
        BY <1>2 DEF RemoveReadFile, Goto
    <2>2. req[w].op = "remove" /\ LocalsOK(w)
        BY <2>1 DEF RowsInv, TypeOK, LocalsOK, LabelOK
    <2>3. LocalsOK(w)'
        BY <2>1, <2>2 DEF LocalsOK, LabelOK, RowsInv, TypeOK
    <2> QED BY <2>1, <2>2, <2>3, UnheldInv DEF RowsInv, TypeOK, NoHeld
<1> QED BY <1>1, <1>2

LEMMA RemoveLoadChunksInv ==
    ASSUME RowsInv, NEW w \in Workers, RemoveLoadChunks(w)
    PROVE  RowsInv'
<1>1. /\ pc[w] = "remove_load" /\ pc' = [pc EXCEPT ![w] = "remove_chunks"]
      /\ up' = [up EXCEPT ![w].loaded = chunks[req[w].a]]
      /\ UNCHANGED <<req, seen, lock>> /\ NoWrites
    BY DEF RemoveLoadChunks, Goto
<1>2. req[w].op = "remove" /\ LocalsOK(w) /\ req[w].a \in Attachments
    BY <1>1, RequestKinds DEF RowsInv, TypeOK, LocalsOK, LabelOK
<1>3. up' \in [Workers -> Up]
    <2>1. chunks[req[w].a] \in ChunkRows
        BY <1>2 DEF RowsInv, TypeOK, TablesOK
    <2> QED BY <1>1, <2>1 DEF RowsInv, TypeOK, Up
<1>4. LocalsOK(w)'
    BY <1>1, <1>2 DEF LocalsOK, LabelOK, RowsInv, TypeOK
<1> QED BY <1>1, <1>2, <1>3, <1>4, UnheldInv DEF RowsInv, TypeOK, NoHeld

\* The statements of DELETE attachment that lock what they delete.
LEMMA RemoveLocksInv ==
    ASSUME RowsInv, NEW w \in Workers, RemoveChunks(w) \/ RemoveFlush(w) \/ RemoveCascade(w)
    PROVE  RowsInv'
<1>1. PICK label \in {"remove_flush", "remove_cascade", "recompute"}, rows \in {LoadedChunks(w),
             {FileRow(a) : a \in {req[w].a} \cap DOMAIN attachments}, StoredChunks(Deleted(w))} :
        /\ pc[w] \in {"remove_chunks", "remove_flush", "remove_cascade"}
        /\ pc' = [pc EXCEPT ![w] = label]
        /\ Lock(rows, w) /\ UNCHANGED <<req, seen, up>> /\ NoWrites
    BY DEF RemoveChunks, RemoveFlush, RemoveCascade, Goto
<1>2. req[w].op = "remove" /\ LocalsOK(w) /\ Held(w) /\ req[w].a \in Attachments
    BY <1>1, RequestKinds DEF RowsInv, TypeOK, LocalsOK, LabelOK
<1>3. rows \subseteq LockedRows
    <2>1. LoadedChunks(w) \subseteq LockedRows
        BY <1>2, RowNames DEF LoadedChunks
    <2> QED BY <1>1, <1>2, <2>1, NeededRows DEF Deleted
<1>4. pc'[w] = label /\ req'[w] = req[w] /\ seen'[w] = seen[w] /\ Quiet(w)
    BY <1>1, <1>3 DEF RowsInv, TypeOK, NoWrites, Quiet
<1>5. LocalsOK(w)'
    BY <1>2, <1>4 DEF LocalsOK, LabelOK
<1>6. Held(w)'
    BY <1>1, <1>2, <1>4
       DEF Held, FileHeld, PutHeld, PutFound, PutMissed, DeleteHeld, DeleteFound, RowComputed
<1> QED BY <1>1, <1>4, <1>5, <1>6, QuietInv DEF RowsInv, TypeOK, Labels

-----------------------------------------------------------------------------
(* recompute_note_sync_metadata.                                           *)

LEMMA RecomputeNoteInv ==
    ASSUME RowsInv, NEW w \in Workers, RecomputeNote(w)
    PROVE  RowsInv'
<1>1. CASE RollBack(w)
    BY <1>1, RollBackInv
<1>2. CASE ~RollBack(w)
    <2>1. PICK label \in {"recompute_files", "recompute_blob"} :
            /\ pc[w] = "recompute" /\ pc' = [pc EXCEPT ![w] = label]
            /\ label = IF req[w].op = "put" THEN "recompute_files" ELSE "recompute_blob"
            /\ IsActive \/ OwnNote(w)
            /\ UNCHANGED <<req, seen, up, lock>> /\ NoWrites
        BY <1>2 DEF RecomputeNote, Goto
    <2>2. req[w].op \in {"put", "complete", "remove"} /\ LocalsOK(w) /\ Held(w)
        BY <2>1 DEF RowsInv, TypeOK, LocalsOK, LabelOK
    <2>3. /\ pc'[w] = label /\ UNCHANGED <<req, seen, up, lock, note, blob, attachments, issued>>
          /\ Quiet(w)
        BY <2>1 DEF RowsInv, TypeOK, NoWrites, Quiet, tables, uploads
    <2>4. LocalsOK(w)'
        BY <2>1, <2>2, <2>3 DEF LocalsOK, LabelOK
    <2>5. PutHeld(w)'
        <3>1. IsActive => blob # None
            BY DEF RowsInv, BodyIffActive, IsActive
        <3> QED BY <2>1, <2>2, <2>3, <3>1 DEF Held, PutHeld, OwnNote
    <2>6. Held(w)'
        BY <2>1, <2>2, <2>3, <2>5
           DEF Held, FileHeld, PutFound, PutMissed, DeleteHeld, DeleteFound, RowComputed,
               FileLabels
    <2> QED BY <2>1, <2>3, <2>4, <2>6, QuietInv DEF RowsInv, TypeOK, Labels
<1> QED BY <1>1, <1>2

LEMMA RecomputeBlobInv ==
    ASSUME RowsInv, NEW w \in Workers, RecomputeBlob(w)
    PROVE  RowsInv'
<1>1. CASE RollBack(w)
    BY <1>1, RollBackInv
<1>2. CASE ~RollBack(w)
    <2>1. /\ pc[w] = "recompute_blob" /\ pc' = [pc EXCEPT ![w] = "recompute_files"]
          /\ blob # None /\ seen' = [seen EXCEPT ![w].blob = blob]
          /\ UNCHANGED <<req, up, lock>> /\ NoWrites
        BY <1>2 DEF RecomputeBlob, Goto
    <2>2. req[w].op \in {"complete", "remove"} /\ LocalsOK(w) /\ Held(w)
        BY <2>1 DEF RowsInv, TypeOK, LocalsOK, LabelOK
    <2>3. blob \in Bodies
        BY <2>1 DEF RowsInv, TypeOK, TablesOK
    <2>4. /\ seen' \in [Workers -> Seen] /\ seen'[w].blob = blob
          /\ seen'[w].file = seen[w].file /\ seen'[w].new = seen[w].new
        BY <2>1, <2>3 DEF RowsInv, TypeOK, Seen
    <2>5. /\ pc'[w] = "recompute_files" /\ Quiet(w)
          /\ UNCHANGED <<req, up, lock, note, attachments, issued>>
        BY <2>1 DEF RowsInv, TypeOK, NoWrites, Quiet, tables, uploads
    <2>6. LocalsOK(w)'
        BY <2>1, <2>2, <2>3, <2>4, <2>5 DEF LocalsOK, LabelOK
    <2>7. Held(w)'
        BY <2>1, <2>2, <2>4, <2>5
           DEF Held, FileHeld, PutHeld, PutFound, PutMissed, DeleteHeld, DeleteFound, RowComputed,
               FileLabels
    <2> QED BY <2>1, <2>4, <2>5, <2>6, <2>7, QuietInv DEF RowsInv, TypeOK, Labels
<1> QED BY <1>1, <1>2

\* The attachments a transaction sees are attachment rows.
LEMMA VisibleFilesType ==
    ASSUME RowsInv, NEW w \in Workers, pc[w] = "recompute_files"
    PROVE  IsTable(VisibleFiles(w), Attachments, File)
<1>1. req[w].op \in {"put", "complete", "remove"} /\ LocalsOK(w) /\ req[w] \in Requests
    BY DEF RowsInv, TypeOK, LocalsOK, LabelOK
<1>2. IsTable(attachments, Attachments, File)
    BY DEF RowsInv, TypeOK, TablesOK
<1>3. CASE req[w].op = "put"
    BY <1>2, <1>3 DEF VisibleFiles
<1>4. CASE req[w].op = "complete"
    <2>1. req[w].a \in Attachments /\ seen[w].new \in File
        BY <1>1, <1>4, RequestKinds DEF LocalsOK
    <2>2. VisibleFiles(w) = Upsert(attachments, req[w].a, seen[w].new)
        BY <1>4 DEF VisibleFiles
    <2>3. IsTable(Upsert(attachments, req[w].a, seen[w].new), Attachments, File)
        BY <1>2, <2>1, UpsertTable
    <2> QED BY <2>2, <2>3
<1>5. CASE req[w].op = "remove"
    <2>1. VisibleFiles(w) = Without(attachments, Deleted(w))
        BY <1>5 DEF VisibleFiles
    <2>2. IsTable(Without(attachments, Deleted(w)), Attachments, File)
        BY <1>2, WithoutTable
    <2> QED BY <2>1, <2>2
<1> QED BY <1>1, <1>3, <1>4, <1>5

LEMMA RecomputeFilesInv ==
    ASSUME RowsInv, NEW w \in Workers, RecomputeFiles(w)
    PROVE  RowsInv'
<1> DEFINE put == req[w].op = "put"
           body == IF put THEN req[w].body ELSE seen[w].blob
           computed == NoteRow(body, VisibleFiles(w))
           row == IF put THEN computed ELSE [computed EXCEPT !.title = seen[w].note.title]
<1>1. /\ pc[w] = "recompute_files" /\ pc' = [pc EXCEPT ![w] = "commit"]
      /\ seen' = [seen EXCEPT ![w].row = row]
      /\ UNCHANGED <<req, up, lock>> /\ NoWrites
    BY DEF RecomputeFiles, Goto
<1>2. /\ req[w].op \in {"put", "complete", "remove"} /\ LocalsOK(w) /\ Held(w)
      /\ req[w] \in Requests /\ seen[w] \in Seen
    BY <1>1 DEF RowsInv, TypeOK, LocalsOK, LabelOK
<1>3. body \in Bodies
    BY <1>1, <1>2, RequestKinds DEF LocalsOK
<1>4. computed \in NoteType /\ computed.state = "active"
    BY <1>1, <1>3, VisibleFilesType, NoteRowType
<1>5. row \in NoteType /\ row.state = "active"
    <2>1. seen[w].note.title \in {b.title : b \in Bodies} \cup {None}
        BY <1>2 DEF Seen, NoteType
    <2> HIDE DEF computed
    <2> QED BY <1>4, <2>1 DEF NoteType
<1> HIDE DEF row
<1>6. /\ seen' \in [Workers -> Seen] /\ seen'[w].row = row
      /\ seen'[w].note = seen[w].note /\ seen'[w].blob = seen[w].blob
      /\ seen'[w].file = seen[w].file /\ seen'[w].new = seen[w].new
    BY <1>1, <1>5 DEF RowsInv, TypeOK, Seen
<1>7. /\ pc'[w] = "commit" /\ Quiet(w)
      /\ UNCHANGED <<req, up, lock, note, blob, attachments, issued>>
    BY <1>1 DEF RowsInv, TypeOK, NoWrites, Quiet, tables, uploads
<1>8. LocalsOK(w)'
    BY <1>1, <1>2, <1>6, <1>7 DEF LocalsOK, LabelOK
<1>9. Held(w)'
    BY <1>1, <1>2, <1>5, <1>6, <1>7
       DEF Held, FileHeld, PutHeld, PutFound, PutMissed, DeleteHeld, DeleteFound, RowComputed,
           FileLabels
<1> QED BY <1>1, <1>6, <1>7, <1>8, <1>9, QuietInv DEF RowsInv, TypeOK, Labels

-----------------------------------------------------------------------------
(* The commits.                                                            *)

\* The flush of the notes row: only the PUT that inserted the note makes it
\* active; every other request leaves its state alone.
LEMMA StoreNoteFacts ==
    ASSUME RowsInv, NEW w \in Workers, pc[w] = "commit", StoreNote(w)
    PROVE  /\ note' \in NoteType
           /\ OwnNote(w) => note'.state = "active" /\ lock[TheNote] = w
           /\ ~OwnNote(w) => note'.state = note.state
<1>1. /\ seen[w] \in Seen /\ note \in NoteType /\ Held(w)
      /\ seen[w].row.state = "active" /\ seen[w].row \in NoteType /\ seen[w].note \in NoteType
    BY DEF RowsInv, TypeOK, TablesOK, Held, RowComputed, Seen
<1>2. CASE seen[w].row = seen[w].note /\ note' = note
    BY <1>1, <1>2, NoNoteType DEF OwnNote
<1>3. CASE OwnNote(w) /\ note' = seen[w].row
    BY <1>1, <1>3 DEF OwnNote, Held, PutHeld
<1>4. CASE ~OwnNote(w) /\ note' = UpdatedNote(seen[w].note, seen[w].row)
    BY <1>1, <1>4 DEF UpdatedNote, Changed, NoteType
<1> QED BY <1>2, <1>3, <1>4 DEF StoreNote

LEMMA CommitPutInv ==
    ASSUME RowsInv, NEW w \in Workers, CommitPut(w)
    PROVE  RowsInv'
<1>1. /\ pc[w] = "commit" /\ req[w].op = "put" /\ StoreNote(w) /\ Respond(w)
      /\ blob' = (IF req[w].body = seen[w].blob THEN blob ELSE req[w].body)
      /\ UNCHANGED <<attachments, chunks, sessions, staged, issued>>
    BY DEF CommitPut, uploads
<1>2. /\ Held(w) /\ req[w].body \in Bodies /\ req[w].body # None
      /\ blob \in Bodies \cup {None} /\ BodyIffActive
    BY <1>1, RequestKinds, ContentAssumption DEF RowsInv, TypeOK, TablesOK
<1>3. CASE OwnNote(w)
    <2>1. /\ lock[TheNote] = w /\ lock[TheBlob] = w
          /\ note.state = "absent" /\ seen[w].blob = None
        BY <1>1, <1>2, <1>3 DEF Held, PutHeld, OwnNote
    <2>2. note' \in NoteType /\ note'.state = "active"
        BY <1>1, <1>3, StoreNoteFacts
    <2>3. blob' \in Bodies /\ blob' # None
        BY <1>1, <1>2, <2>1
    <2>4. LockedStay(w) /\ TablesOK' /\ UploadsOK' /\ BodyIffActive' /\ issued <= issued'
        BY <1>1, <2>1, <2>2, <2>3, TableAssumption
           DEF LockedStay, RowsInv, TypeOK, TablesOK, UploadsOK, BodyIffActive
    <2> QED BY <1>1, <2>4, RespondInv
<1>4. CASE ~OwnNote(w)
    <2>1. req[w].body # seen[w].blob => lock[TheBlob] = w /\ blob # None
        BY <1>1, <1>2, <1>4 DEF Held, PutHeld, OwnNote
    <2>2. note' \in NoteType /\ note'.state = note.state
        BY <1>1, <1>4, StoreNoteFacts
    <2>3. blob' \in Bodies \cup {None} /\ (blob' = None <=> blob = None)
        BY <1>1, <1>2, <2>1
    <2>4. LockedStay(w) /\ TablesOK' /\ UploadsOK' /\ BodyIffActive' /\ issued <= issued'
        BY <1>1, <2>2, <2>3, TableAssumption
           DEF LockedStay, RowsInv, TypeOK, TablesOK, UploadsOK, BodyIffActive
    <2> QED BY <1>1, <2>4, RespondInv
<1> QED BY <1>3, <1>4

\* A commit that changes attachments whose rows it holds, and the note.
LEMMA CommitFileInv ==
    ASSUME RowsInv, NEW w \in Workers, Respond(w),
           pc[w] = "commit", ~OwnNote(w), StoreNote(w), blob' = blob,
           IsTable(attachments', Attachments, File),
           \A a \in Attachments : lock[FileRow(a)] # w =>
             (a \in DOMAIN attachments' <=> a \in DOMAIN attachments),
           chunks' \in [Attachments -> ChunkRows],
           UploadsOK', issued' = issued
    PROVE  RowsInv'
<1>1. note' \in NoteType /\ note'.state = note.state
    BY StoreNoteFacts
<1>2. TablesOK' /\ BodyIffActive'
    BY <1>1 DEF RowsInv, TypeOK, TablesOK, BodyIffActive
<1>3. LockedStay(w)
    BY <1>1 DEF LockedStay
<1>4. issued <= issued'
    BY TableAssumption DEF RowsInv, TypeOK, UploadsOK
<1> QED BY <1>2, <1>3, <1>4, RespondInv

LEMMA CommitCompleteInv ==
    ASSUME RowsInv, NEW w \in Workers, CommitComplete(w)
    PROVE  RowsInv'
<1> DEFINE a == req[w].a
           file == IF seen[w].file = None
                     THEN seen[w].new
                     ELSE UpdatedFile(attachments[a], seen[w].file, seen[w].new)
<1>1. /\ pc[w] = "commit" /\ req[w].op = "complete" /\ StoreNote(w) /\ Respond(w)
      /\ attachments' = Upsert(attachments, a, file)
      /\ chunks' = [chunks EXCEPT ![a] = up[w].promoted]
      /\ sessions' = Without(sessions, {req[w].u}) /\ DropStaged({req[w].u})
      /\ blob' = blob /\ issued' = issued
    BY DEF CommitComplete
<1>2. /\ Held(w) /\ LocalsOK(w) /\ req[w] \in Requests /\ seen[w] \in Seen /\ up[w] \in Up
      /\ IsTable(attachments, Attachments, File)
    BY DEF RowsInv, TypeOK, TablesOK
<1>3. a \in Attachments /\ up[w].promoted \in ChunkRows /\ ~OwnNote(w)
    BY <1>1, <1>2, RequestKinds DEF Up, OwnNote
<1>4. lock[FileRow(a)] = w /\ (seen[w].file = None <=> a \notin DOMAIN attachments)
    BY <1>1, <1>2 DEF Held, FileHeld, FileLabels
<1>5. file \in File
    <2>1. seen[w].new \in File
        BY <1>1, <1>2 DEF LocalsOK
    <2>2. CASE seen[w].file = None
        BY <2>1, <2>2
    <2>3. CASE seen[w].file # None
        <3>1. attachments[a] \in File
            BY <1>2, <1>4, <2>3 DEF IsTable
        <3>2. UpdatedFile(attachments[a], seen[w].file, seen[w].new) \in File
            BY <2>1, <3>1 DEF UpdatedFile, Changed, File
        <3> QED BY <2>3, <3>2
    <2> QED BY <2>2, <2>3
<1> HIDE DEF file
<1>6. /\ IsTable(attachments', Attachments, File)
      /\ \A b \in Attachments : lock[FileRow(b)] # w =>
           (b \in DOMAIN attachments' <=> b \in DOMAIN attachments)
    <2>1. IsTable(Upsert(attachments, a, file), Attachments, File)
        BY <1>2, <1>3, <1>5, UpsertTable
    <2>2. DOMAIN Upsert(attachments, a, file) = DOMAIN attachments \cup {a}
        BY DEF Upsert
    <2> QED BY <1>1, <1>4, <2>1, <2>2
<1>7. UploadsOK'
    <2>1. IsTable(sessions, 1 .. issued, Session) /\ UploadsOK
        BY DEF RowsInv, TypeOK, UploadsOK
    <2>2. IsTable(Without(sessions, {req[w].u}), 1 .. issued, Session)
        BY <2>1, WithoutTable
    <2> QED BY <1>1, <2>1, <2>2, DroppedType DEF UploadsOK
<1>8. chunks' \in [Attachments -> ChunkRows]
    BY <1>1, <1>3 DEF RowsInv, TypeOK, TablesOK
<1> HIDE DEF a
<1> QED BY <1>1, <1>3, <1>6, <1>7, <1>8, CommitFileInv

\* What a DELETE of attachments leaves: only rows it holds are gone.
LEMMA DeletedFiles ==
    ASSUME TablesOK, NEW w \in Workers, DeleteFilesOf(w)
    PROVE  /\ IsTable(attachments', Attachments, File)
           /\ \A a \in Attachments : lock[FileRow(a)] # w =>
                (a \in DOMAIN attachments' <=> a \in DOMAIN attachments)
           /\ chunks' \in [Attachments -> ChunkRows]
<1>1. NoRows \in ChunkRows
    BY EmptyTable, TableIs DEF ChunkRows
<1>2. IsTable(Without(attachments, Deleted(w)), Attachments, File)
    BY WithoutTable DEF TablesOK
<1>3. DOMAIN Without(attachments, Deleted(w)) = DOMAIN attachments \ Deleted(w)
    BY DEF Without, Restrict
<1> QED BY <1>1, <1>2, <1>3 DEF DeleteFilesOf, Deleted, TablesOK

LEMMA CommitRemoveInv ==
    ASSUME RowsInv, NEW w \in Workers, CommitRemove(w)
    PROVE  RowsInv'
<1>1. /\ pc[w] = "commit" /\ req[w].op = "remove" /\ StoreNote(w) /\ Respond(w)
      /\ DeleteFilesOf(w) /\ UNCHANGED <<blob, sessions, staged, issued>>
    BY DEF CommitRemove, uploads
<1>2. TablesOK /\ ~OwnNote(w)
    BY <1>1 DEF RowsInv, TypeOK, OwnNote
<1>3. UploadsOK'
    BY <1>1 DEF RowsInv, TypeOK, UploadsOK
<1> QED BY <1>1, <1>2, <1>3, DeletedFiles, CommitFileInv

-----------------------------------------------------------------------------
(* DELETE note.                                                            *)

LEMMA DeleteNoteInv ==
    ASSUME RowsInv, NEW w \in Workers, DeleteNote(w)
    PROVE  RowsInv'
<1> DEFINE r == [op |-> "delete"]
<1>1. /\ IsActive /\ pc' = [pc EXCEPT ![w] = "delete_mark"] /\ req' = [req EXCEPT ![w] = r]
      /\ UNCHANGED <<seen, up, note>> /\ Quiet(w)
    BY DEF DeleteNote, Goto, NoWrites, Quiet, tables
<1>2. r \in Requests
    BY DEF Requests
<1>3. pc'[w] = "delete_mark" /\ req'[w] = r
    BY <1>1 DEF RowsInv, TypeOK
<1>4. LocalsOK(w)'
    BY <1>3 DEF LocalsOK, LabelOK
<1>5. Held(w)'
    BY <1>1, <1>3 DEF Held, FileHeld, PutHeld, PutFound, PutMissed, DeleteHeld, DeleteFound,
                      RowComputed, FileLabels, IsActive
<1> QED BY <1>1, <1>2, <1>4, <1>5, QuietInv DEF RowsInv, TypeOK, Labels

LEMMA DeleteMarkInv ==
    ASSUME RowsInv, NEW w \in Workers, DeleteMark(w) \/ DeleteBlob(w)
    PROVE  RowsInv'
<1>1. PICK row \in {TheNote, TheBlob}, label \in {"delete_blob", "delete_files"} :
        /\ pc[w] = IF row = TheNote THEN "delete_mark" ELSE "delete_blob"
        /\ label = IF row = TheNote THEN "delete_blob" ELSE "delete_files"
        /\ pc' = [pc EXCEPT ![w] = label]
        /\ Lock({row}, w)
        /\ UNCHANGED <<req, seen, up>> /\ NoWrites
    BY RowNames DEF DeleteMark, DeleteBlob, Goto
<1>2. req[w].op = "delete" /\ LocalsOK(w) /\ Held(w)
    BY <1>1 DEF RowsInv, TypeOK, LocalsOK, LabelOK
<1>3. /\ pc'[w] = label /\ req'[w] = req[w] /\ seen'[w] = seen[w] /\ note' = note
      /\ Quiet(w)
    BY <1>1, RowNames DEF RowsInv, TypeOK, NoWrites, Quiet, tables
<1>4. lock'[row] = w /\ (row # TheNote => lock'[TheNote] = lock[TheNote])
    BY <1>1, RowNames, Locked
<1>5. LocalsOK(w)'
    BY <1>1, <1>2, <1>3 DEF LocalsOK, LabelOK
<1>6. Held(w)'
    BY <1>1, <1>2, <1>3, <1>4
       DEF Held, FileHeld, PutHeld, PutFound, PutMissed, DeleteHeld, DeleteFound, RowComputed
<1> QED BY <1>1, <1>3, <1>5, <1>6, QuietInv DEF RowsInv, TypeOK, Labels

LEMMA DeleteFilesInv ==
    ASSUME RowsInv, NEW w \in Workers, DeleteFiles(w)
    PROVE  RowsInv'
<1> DEFINE rows == {FileRow(a) : a \in DOMAIN attachments}
<1>1. /\ pc[w] = "delete_files" /\ pc' = [pc EXCEPT ![w] = "delete_chunks"]
      /\ Lock(rows, w) /\ UNCHANGED <<req, seen, up>> /\ NoWrites
    BY DEF DeleteFiles, Goto
<1>2. req[w].op = "delete" /\ LocalsOK(w) /\ Held(w)
    BY <1>1 DEF RowsInv, TypeOK, LocalsOK, LabelOK
<1>3. DOMAIN attachments \subseteq Attachments /\ rows \subseteq LockedRows
    BY NeededRows DEF RowsInv, TypeOK, TablesOK, IsTable
<1>4. /\ pc'[w] = "delete_chunks" /\ req'[w] = req[w] /\ seen'[w] = seen[w] /\ note' = note
      /\ Quiet(w)
    BY <1>1, <1>3 DEF RowsInv, TypeOK, NoWrites, Quiet, tables
<1>5. LocalsOK(w)'
    BY <1>1, <1>2, <1>4 DEF LocalsOK, LabelOK
<1>6. lock'[TheNote] = w /\ lock'[TheBlob] = w
    <2>1. lock[TheNote] = w /\ lock[TheBlob] = w
        BY <1>1, <1>2 DEF Held, DeleteHeld
    <2>2. TheNote \in LockedRows \ rows /\ TheBlob \in LockedRows \ rows
        BY <1>3, RowNames
    <2> HIDE DEF rows
    <2> QED BY <1>1, <1>3, <2>1, <2>2, Locked
<1>7. Held(w)'
    BY <1>1, <1>2, <1>4, <1>6
       DEF Held, FileHeld, PutHeld, PutFound, PutMissed, DeleteHeld, DeleteFound, RowComputed
<1> QED BY <1>1, <1>4, <1>5, <1>7, QuietInv DEF RowsInv, TypeOK, Labels

LEMMA CommitDeleteInv ==
    ASSUME RowsInv, NEW w \in Workers, CommitDelete(w)
    PROVE  RowsInv'
<1>1. /\ pc[w] = "delete_chunks" /\ Respond(w)
      /\ note' = [note EXCEPT !.state = "deleted"] /\ blob' = None
      /\ DeleteFilesOf(w) /\ UNCHANGED <<sessions, staged, issued>>
    BY DEF CommitDelete, uploads
<1>2. req[w].op = "delete" /\ Held(w)
    BY <1>1 DEF RowsInv, TypeOK, LocalsOK, LabelOK
<1>3. lock[TheNote] = w /\ lock[TheBlob] = w
    BY <1>1, <1>2 DEF Held, DeleteHeld
<1>4. note' \in NoteType /\ note'.state = "deleted"
    BY <1>1 DEF RowsInv, TypeOK, TablesOK, NoteType
<1>5. TablesOK
    BY DEF RowsInv, TypeOK
<1>6. LockedStay(w)
    BY <1>1, <1>3, <1>4, <1>5, DeletedFiles DEF LockedStay
<1>7. TablesOK'
    BY <1>1, <1>4, <1>5, DeletedFiles DEF TablesOK
<1>8. BodyIffActive' /\ UploadsOK' /\ issued <= issued'
    BY <1>1, <1>4, TableAssumption DEF BodyIffActive, RowsInv, TypeOK, UploadsOK
<1> QED BY <1>1, <1>6, <1>7, <1>8, RespondInv

-----------------------------------------------------------------------------
(* The specification.                                                      *)

LEMMA InitRowsInv == Init => RowsInv
<1> SUFFICES ASSUME Init PROVE RowsInv
    OBVIOUS
<1>1. NoRows \in ChunkRows /\ \A keys, rows : IsTable(NoRows, keys, rows)
    BY EmptyTable, TableIs DEF ChunkRows
<1>2. note \in NoteType /\ BodyIffActive
    <2>1. CASE StartBody = None
        BY <2>1, NoNoteType DEF Init, BodyIffActive
    <2>2. CASE StartBody # None
        BY <2>2, <1>1, TableAssumption, NoteRowType DEF Init, BodyIffActive
    <2> QED BY <2>1, <2>2
<1>3. TablesOK
    BY <1>1, <1>2, TableAssumption DEF Init, TablesOK
<1>4. UploadsOK
    BY <1>1, TableAssumption DEF Init, UploadsOK
<1>5. \A w \in Workers : /\ pc[w] = "idle" /\ req[w] = NoReq
                         /\ seen[w] = NothingSeen /\ up[w] = NothingUp
    BY DEF Init
<1>6. /\ pc \in [Workers -> Labels] /\ req \in [Workers -> Requests]
      /\ seen \in [Workers -> Seen] /\ up \in [Workers -> Up]
    BY NothingTypes DEF Init, Labels
<1>7. \A w \in Workers : LocalsOK(w)
    BY <1>5, NothingTypes DEF LocalsOK, LabelOK
<1>8. \A w \in Workers : Held(w)
    BY <1>5, NothingTypes
       DEF Held, FileHeld, PutHeld, PutFound, PutMissed, DeleteHeld, DeleteFound, RowComputed
<1>9. lock \in [LockedRows -> Workers \cup {None}] /\ clock \in 0 .. MaxClock
    BY ContentAssumption DEF Init
<1> QED BY <1>2, <1>3, <1>4, <1>6, <1>7, <1>8, <1>9 DEF RowsInv, TypeOK

\* Time passes, or nothing happens.
LEMMA SameRowsInv ==
    ASSUME RowsInv, UNCHANGED <<tables, uploads, lock, locals>>, clock' \in 0 .. MaxClock
    PROVE  RowsInv'
<1>1. UNCHANGED <<note, blob, attachments, chunks, sessions, staged, issued, lock,
                  pc, req, seen, up>>
    BY DEF tables, uploads, locals
<1>2. TablesOK' /\ UploadsOK' /\ BodyIffActive'
    BY <1>1 DEF RowsInv, TypeOK, TablesOK, UploadsOK, BodyIffActive
<1>3. ASSUME NEW w \in Workers PROVE LocalsOK(w)' /\ Held(w)'
    BY <1>1 DEF RowsInv, TypeOK, LocalsOK, Held, FileHeld, PutHeld, PutFound, PutMissed,
                DeleteHeld, DeleteFound, RowComputed
<1> QED BY <1>1, <1>2, <1>3 DEF RowsInv, TypeOK

LEMMA RequestInv ==
    ASSUME RowsInv, NEW w \in Workers, Request(w)
    PROVE  RowsInv'
<1>1. ASSUME NEW a \in Attachments, NEW size \in TotalSizes, InitUpload(w, a, size)
      PROVE  RowsInv'
    BY <1>1, InitUploadInv
<1>2. ASSUME NEW a \in Attachments, NEW u \in 1 .. issued, NEW i \in Indexes,
             UploadChunk(w, a, u, i)
      PROVE  RowsInv'
    BY <1>2, UploadRequestInv
<1>3. ASSUME NEW a \in Attachments, NEW u \in 1 .. issued, NEW match \in FileEtags(a),
             CompleteUpload(w, a, u, match)
      PROVE  RowsInv'
    BY <1>3, UploadRequestInv
<1>4. ASSUME NEW a \in Attachments, RemoveAttachment(w, a)
      PROVE  RowsInv'
    BY <1>4, RemoveAttachmentInv
<1>5. ASSUME NEW body \in Bodies, NEW match \in NoteEtags, PutBody(w, body, match)
      PROVE  RowsInv'
    BY <1>5, PutBodyInv
<1>6. ASSUME DeleteNote(w)
      PROVE  RowsInv'
    BY <1>6, DeleteNoteInv
<1> QED BY <1>1, <1>2, <1>3, <1>4, <1>5, <1>6 DEF Request

LEMMA StepInv ==
    ASSUME RowsInv, NEW w \in Workers, Step(w)
    PROVE  RowsInv'
<1>1. CASE UploadStep(w)
    BY <1>1, AbortExpiredInv, InitCleanupInv, SelectOpenInv, CommitInitInv, ReadSessionInv,
       AbortSessionInv, ReceiveChunkInv, StoreChunkInv, LoadChunksInv DEF UploadStep
<1>2. CASE NoteStep(w)
    <2>1. CASE PutReadNote(w) \/ PutInsert(w) \/ PutReadBlob(w) \/ PutTitle(w) \/ PutFlush(w)
        BY <2>1, PutReadNoteInv, PutInsertInv, PutReadBlobInv, PutTitleInv, PutFlushInv
    <2>2. CASE CompleteReadNote(w) \/ CompleteReadFile(w) \/ ComputeDigest(w)
                 \/ UpsertFile(w) \/ DeleteChunks(w) \/ PromoteChunks(w)
        BY <2>2, CompleteReadNoteInv, CompleteReadFileInv, ComputeDigestInv, UpsertFileInv,
           DeleteChunksInv, PromoteChunksInv
    <2>3. CASE RemoveReadFile(w) \/ RemoveLoadChunks(w)
                 \/ RemoveChunks(w) \/ RemoveFlush(w) \/ RemoveCascade(w)
        BY <2>3, RemoveReadFileInv, RemoveLoadChunksInv, RemoveLocksInv
    <2>4. CASE RecomputeNote(w) \/ RecomputeBlob(w) \/ RecomputeFiles(w)
        BY <2>4, RecomputeNoteInv, RecomputeBlobInv, RecomputeFilesInv
    <2>5. CASE CommitPut(w) \/ CommitComplete(w) \/ CommitRemove(w)
        BY <2>5, CommitPutInv, CommitCompleteInv, CommitRemoveInv
    <2>6. CASE DeleteMark(w) \/ DeleteBlob(w) \/ DeleteFiles(w) \/ CommitDelete(w)
        BY <2>6, DeleteMarkInv, DeleteFilesInv, CommitDeleteInv
    <2> QED BY <1>2, <2>1, <2>2, <2>3, <2>4, <2>5, <2>6 DEF NoteStep
<1> QED BY <1>1, <1>2 DEF Step

LEMMA NextRowsInv == RowsInv /\ [Next]_vars => RowsInv'
<1> SUFFICES ASSUME RowsInv, [Next]_vars PROVE RowsInv'
    OBVIOUS
<1>1. ASSUME NEW w \in Workers, Request(w) \/ Step(w) PROVE RowsInv'
    BY <1>1, RequestInv, StepInv
<1>2. ASSUME NEW w \in Workers, Crash(w) \/ DeadlockVictim(w) PROVE RowsInv'
    BY <1>2, RollBackInv DEF Crash, DeadlockVictim
<1>3. CASE Tick
    BY <1>3, ContentAssumption, SameRowsInv DEF Tick, RowsInv, TypeOK
<1>4. CASE UNCHANGED vars
    BY <1>4, SameRowsInv DEF vars, RowsInv, TypeOK
<1> QED BY <1>1, <1>2, <1>3, <1>4 DEF Next

\* The tables, the locks and what every request holds have their types in
\* every reachable state, and a handler has read what it uses by then.
THEOREM TypeCorrect == Spec => []TypeOK
<1>1. RowsInv => TypeOK
    BY DEF RowsInv
<1> QED BY <1>1, InitRowsInv, NextRowsInv, PTL DEF Spec

\* A body is stored exactly while the note is active, however PUT, DELETE
\* and the other handlers interleave, crash or fall victim to a deadlock.
THEOREM BodyKept == Spec => []BodyIffActive
<1>1. RowsInv => BodyIffActive
    BY DEF RowsInv
<1> QED BY <1>1, InitRowsInv, NextRowsInv, PTL DEF Spec

-----------------------------------------------------------------------------
(* Nothing comes back.                                                     *)

NoteStaysDeleted == note.state = "deleted" => note'.state = "deleted"
UploadsStayAborted ==
    \A u \in DOMAIN sessions \cap DOMAIN sessions' :
        sessions[u].status = "aborted" => sessions'[u].status = "aborted"
NothingReturns == NoteStaysDeleted /\ UploadsStayAborted

LEMMA UnwrittenReturnsNothing ==
    ASSUME UNCHANGED <<tables, uploads>>
    PROVE  NothingReturns
BY DEF NothingReturns, NoteStaysDeleted, UploadsStayAborted, tables, uploads

LEMMA UploadStepReturnsNothing ==
    ASSUME RowsInv, NEW w \in Workers, UploadStep(w)
    PROVE  NothingReturns
<1> USE DEF NothingReturns, NoteStaysDeleted, UploadsStayAborted
<1>1. IsTable(sessions, 1 .. issued, Session) /\ issued \in Nat
    BY TableAssumption DEF RowsInv, TypeOK, UploadsOK
<1>2. ASSUME NEW ids, UNCHANGED tables, sessions' = Abort(ids, sessions)
      PROVE  NothingReturns
    BY <1>1, <1>2, AbortTable DEF tables
<1>3. CASE UNCHANGED <<tables, uploads>>
    BY <1>3, UnwrittenReturnsNothing
<1>4. CASE AbortExpired(w) \/ AbortSession(w)
    BY <1>2, <1>3, <1>4 DEF AbortExpired, AbortSession, RollBack
<1>5. CASE CommitInit(w) /\ ~RollBack(w)
    <2>1. /\ UNCHANGED tables /\ issued' = issued + 1
          /\ sessions' = Upsert(Abort(up[w].doomed, sessions), issued', NewSession(req[w]))
        BY <1>5 DEF CommitInit
    <2>2. issued' \notin DOMAIN sessions
        BY <1>1, <2>1 DEF IsTable
    <2>3. \A u \in DOMAIN sessions : sessions'[u] = Abort(up[w].doomed, sessions)[u]
        BY <2>1, <2>2 DEF Upsert, Abort
    <2> QED BY <1>1, <2>1, <2>3, AbortTable DEF tables
<1>6. CASE (InsertChunk(w) \/ OverwriteChunk(w)) /\ ~RollBack(w)
    <2>1. /\ UNCHANGED tables
          /\ \/ sessions' = sessions
             \/ sessions' = [sessions EXCEPT ![req[w].u] = CountChunk(@, up[w].session)]
        BY <1>6 DEF InsertChunk, OverwriteChunk, StoreChunk
    <2>2. \A s \in Session : CountChunk(s, up[w].session).status = s.status
        BY DEF CountChunk, Session
    <2>3. \A u \in DOMAIN sessions : sessions[u] \in Session
        BY <1>1 DEF IsTable
    <2>4. \A u \in DOMAIN sessions : sessions'[u].status = sessions[u].status
        BY <2>1, <2>2, <2>3
    <2>5. note' = note
        BY <2>1 DEF tables
    <2> QED BY <2>4, <2>5
<1>7. CASE InitCleanup(w) \/ SelectOpen(w) \/ ReadSession(w) \/ LoadChunks(w)
             \/ \E data \in Data : ReceiveChunk(w, data)
    BY <1>3, <1>7 DEF InitCleanup, SelectOpen, ReadSession, LoadChunks, ReceiveChunk, RollBack,
                      NoWrites
<1> QED BY <1>3, <1>4, <1>5, <1>6, <1>7 DEF UploadStep, RollBack

LEMMA NoteStepReturnsNothing ==
    ASSUME RowsInv, NEW w \in Workers, NoteStep(w)
    PROVE  NothingReturns
<1> USE DEF NothingReturns, NoteStaysDeleted, UploadsStayAborted
<1>1. ASSUME pc[w] = "commit", StoreNote(w)
      PROVE  NoteStaysDeleted
    BY <1>1, StoreNoteFacts DEF OwnNote, RowsInv, Held, PutHeld, TypeOK, LocalsOK
<1>2. CASE UNCHANGED <<tables, uploads>>
    BY <1>2, UnwrittenReturnsNothing
<1>3. CASE CommitPut(w) \/ CommitRemove(w)
    BY <1>1, <1>3 DEF CommitPut, CommitRemove, uploads
<1>4. CASE CommitComplete(w)
    BY <1>1, <1>4 DEF CommitComplete, Without, Restrict
<1>5. CASE CommitDelete(w)
    BY <1>5 DEF CommitDelete, uploads, RowsInv, TypeOK, TablesOK, NoteType
<1>6. CASE PutReadNote(w) \/ PutInsert(w) \/ PutReadBlob(w) \/ PutTitle(w) \/ PutFlush(w)
    BY <1>2, <1>6 DEF PutReadNote, PutInsert, PutReadBlob, PutTitle, PutFlush, RollBack, NoWrites
<1>7. CASE CompleteReadNote(w) \/ CompleteReadFile(w) \/ ComputeDigest(w)
             \/ UpsertFile(w) \/ DeleteChunks(w) \/ PromoteChunks(w)
    BY <1>2, <1>7 DEF CompleteReadNote, CompleteReadFile, ComputeDigest, UpsertFile,
                      DeleteChunks, PromoteChunks, RollBack, NoWrites
<1>8. CASE RemoveReadFile(w) \/ RemoveLoadChunks(w) \/ RemoveChunks(w) \/ RemoveFlush(w)
             \/ RemoveCascade(w) \/ DeleteMark(w) \/ DeleteBlob(w) \/ DeleteFiles(w)
    BY <1>2, <1>8 DEF RemoveReadFile, RemoveLoadChunks, RemoveChunks, RemoveFlush,
                      RemoveCascade, DeleteMark, DeleteBlob, DeleteFiles, RollBack, NoWrites
<1>9. CASE RecomputeNote(w) \/ RecomputeBlob(w) \/ RecomputeFiles(w)
    BY <1>2, <1>9 DEF RecomputeNote, RecomputeBlob, RecomputeFiles, RollBack, NoWrites
<1> QED BY <1>3, <1>4, <1>5, <1>6, <1>7, <1>8, <1>9 DEF NoteStep

\* Requests start with reads only.
LEMMA RequestReturnsNothing ==
    ASSUME NEW w \in Workers, Request(w)
    PROVE  NothingReturns
<1>1. UNCHANGED <<tables, uploads>>
    BY DEF Request, InitUpload, UploadChunk, CompleteUpload, RemoveAttachment, PutBody,
           DeleteNote, NoWrites
<1> QED BY <1>1, UnwrittenReturnsNothing

\* A deleted note stays deleted and an aborted upload stays aborted, in
\* every step of any number of requests: there is no path back to either.
THEOREM DeletedForGood == Spec => NoResurrection
<1>1. ASSUME RowsInv, [Next]_vars
      PROVE  [NothingReturns]_vars
    <2>1. ASSUME NEW w \in Workers, Request(w) \/ Step(w)
          PROVE  NothingReturns
        BY <1>1, <2>1, RequestReturnsNothing, UploadStepReturnsNothing, NoteStepReturnsNothing
           DEF Step
    <2>2. ASSUME NEW w \in Workers, Crash(w) \/ DeadlockVictim(w)
          PROVE  NothingReturns
        BY <2>2, UnwrittenReturnsNothing DEF Crash, DeadlockVictim, RollBack
    <2>3. CASE Tick
        BY <2>3, UnwrittenReturnsNothing DEF Tick
    <2> QED BY <1>1, <2>1, <2>2, <2>3 DEF Next
<1> QED BY <1>1, InitRowsInv, NextRowsInv, PTL
        DEF Spec, NoResurrection, NothingReturns, NoteStaysDeleted, UploadsStayAborted

-----------------------------------------------------------------------------
(* Locks.                                                                  *)

\* The rows a request can have locked when it is about to execute a statement.
LocksOf(w) ==
    LET r == req[w] IN
    {row \in LockedRows :
        \/ r.op = "put" /\ pc[w] \in {"put_blob", "put_flush"} /\ row = TheNote
        \/ /\ r.op = "put" /\ pc[w] \in {"recompute", "recompute_files", "commit"}
           /\ row \in {TheNote, TheBlob}
        \/ /\ r.op = "complete" /\ pc[w] \in FileLabels
           /\ row \in {FileRow(r.a), ChunksOf(r.a)}
        \/ /\ r.op = "remove" /\ pc[w] \in {"remove_flush", "remove_cascade"} \cup FileLabels
           /\ row \in {FileRow(r.a), ChunksOf(r.a)}
        \/ r.op = "delete" /\ pc[w] = "delete_blob" /\ row = TheNote
        \/ /\ r.op = "delete" /\ pc[w] \in {"delete_files", "delete_chunks"}
           /\ row \in {TheNote, TheBlob}
        \/ r.op = "delete" /\ pc[w] = "delete_chunks" /\ \E a \in Attachments : row = FileRow(a)}

LocksHeld ==
    \A row \in LockedRows : lock[row] # None => row \in LocksOf(lock[row])

\* A step of w that keeps what w has locked and takes rows it can hold next.
LEMMA LocksFrame ==
    ASSUME RowsInv, LocksHeld, NEW w \in Workers,
           \A v \in Workers \ {w} : pc'[v] = pc[v] /\ req'[v] = req[v],
           \A row \in LockedRows :
             \/ lock'[row] \in {None, lock[row]}
             \/ lock'[row] = w /\ row \in LocksOf(w)',
           LocksOf(w) \subseteq LocksOf(w)' \/ \A row \in LockedRows : lock'[row] # w
    PROVE  LocksHeld'
<1>1. \A v \in Workers \ {w} : LocksOf(v)' = LocksOf(v)
    BY DEF LocksOf
<1>2. \A row \in LockedRows : lock[row] \in Workers \cup {None}
    BY DEF RowsInv, TypeOK
<1> QED BY <1>1, <1>2 DEF LocksHeld

\* A statement that locks rows its request can hold from then on, or none.
LEMMA LockingLocks ==
    ASSUME RowsInv, LocksHeld, NEW w \in Workers,
           \A v \in Workers \ {w} : pc'[v] = pc[v] /\ req'[v] = req[v],
           LocksOf(w) \subseteq LocksOf(w)',
           UNCHANGED lock \/ \E rows \in SUBSET LocksOf(w)' : Lock(rows, w)
    PROVE  LocksHeld'
<1>1. LocksOf(w)' \subseteq LockedRows
    BY DEF LocksOf
<1>2. ASSUME NEW rows \in SUBSET LocksOf(w)', Lock(rows, w)
      PROVE  \A row \in LockedRows :
               lock'[row] = lock[row] \/ (lock'[row] = w /\ row \in LocksOf(w)')
    BY <1>1, <1>2, Locked
<1> QED BY <1>2, LocksFrame

LEMMA RespondLocks ==
    ASSUME RowsInv, LocksHeld, NEW w \in Workers, Respond(w)
    PROVE  LocksHeld'
<1>1. /\ \A v \in Workers \ {w} : pc'[v] = pc[v] /\ req'[v] = req[v]
      /\ \A row \in LockedRows : lock'[row] \in {None, lock[row]} /\ lock'[row] # w
    BY TableAssumption DEF Respond, Release, RowsInv, TypeOK
<1> QED BY <1>1, LocksFrame

\* A request without locks that takes none.
LEMMA LocklessLocks ==
    ASSUME RowsInv, LocksHeld, NEW w \in Workers,
           \A v \in Workers \ {w} : pc'[v] = pc[v] /\ req'[v] = req[v],
           LocksOf(w) = {}, UNCHANGED lock
    PROVE  LocksHeld'
BY LocksFrame

LEMMA RequestLocks ==
    ASSUME RowsInv, LocksHeld, NEW w \in Workers, Request(w)
    PROVE  LocksHeld'
<1>1. pc[w] = "idle" /\ UNCHANGED lock
    BY DEF Request, InitUpload, UploadChunk, CompleteUpload, RemoveAttachment, PutBody,
           DeleteNote
<1>2. \A v \in Workers \ {w} : pc'[v] = pc[v] /\ req'[v] = req[v]
    BY DEF Request, InitUpload, UploadChunk, CompleteUpload, RemoveAttachment, PutBody,
           DeleteNote, SelectExpired, Goto, RowsInv, TypeOK
<1>3. LocksOf(w) = {}
    BY <1>1 DEF LocksOf, FileLabels
<1> QED BY <1>1, <1>2, <1>3, LocklessLocks

LEMMA UploadStepLocks ==
    ASSUME RowsInv, LocksHeld, NEW w \in Workers, UploadStep(w)
    PROVE  LocksHeld'
<1>1. CASE Respond(w)
    BY <1>1, RespondLocks
<1>2. CASE ~Respond(w)
    <2>1. /\ UNCHANGED lock
          /\ \A v \in Workers \ {w} : pc'[v] = pc[v] /\ req'[v] = req[v]
          /\ pc[w] \notin FileLabels \cup {"put_blob", "put_flush", "remove_flush",
                "remove_cascade", "delete_blob", "delete_files", "delete_chunks"}
        BY <1>2 DEF UploadStep, AbortExpired, InitCleanup, SelectOpen, CommitInit, ReadSession,
               AbortSession, ReceiveChunk, InsertChunk, OverwriteChunk, StoreChunk, LoadChunks,
               SelectExpired, RollBack, Goto, RowsInv, TypeOK, FileLabels
    <2>2. LocksOf(w) = {}
        BY <2>1 DEF LocksOf, FileLabels
    <2> QED BY <2>1, <2>2, LocklessLocks
<1> QED BY <1>1, <1>2

\* DELETE attachment holds the row of no other attachment.
LEMMA RemovesOwnFile ==
    ASSUME RowsInv, LocksHeld, NEW w \in Workers, req[w].op = "remove", NEW a \in Deleted(w)
    PROVE  a = req[w].a
<1>1. a \in Attachments /\ lock[FileRow(a)] = w /\ w # None
    BY TableAssumption DEF Deleted
<1>2. FileRow(a) \in LocksOf(w)
    BY <1>1, RowNames DEF LocksHeld
<1> QED BY <1>1, <1>2, RowNames DEF LocksOf

LEMMA NoteStepLocks ==
    ASSUME RowsInv, LocksHeld, NEW w \in Workers, NoteStep(w)
    PROVE  LocksHeld'
<1>1. CASE Respond(w)
    BY <1>1, RespondLocks
<1>2. CASE ~Respond(w)
    <2> DEFINE Others == \A v \in Workers \ {w} : pc'[v] = pc[v] /\ req'[v] = req[v]
               May == LocksOf(w)'
    <2>1. req[w] \in Requests /\ LocalsOK(w)
        BY DEF RowsInv, TypeOK
    <2> USE DEF Goto, RowsInv, TypeOK, RollBack
    <2>2. CASE \/ PutReadNote(w) \/ PutInsert(w) \/ PutReadBlob(w) \/ PutTitle(w)
               \/ PutFlush(w)
        <3>1. Others /\ req'[w] = req[w] /\ req[w].op = "put"
              /\ \/ pc[w] = "put_note" /\ lock' = lock
                 \/ pc[w] = "put_blob" /\ pc'[w] = "put_flush" /\ lock' = lock
                 \/ /\ pc[w] = "put_insert" /\ pc'[w] = "recompute"
                    /\ Lock({TheNote, TheBlob}, w)
                 \/ /\ pc[w] = "put_title" /\ pc'[w] = "put_blob"
                    /\ Lock({TheNote}, w)
                 \/ /\ pc[w] = "put_flush" /\ pc'[w] = "recompute"
                    /\ lock' = lock \/ Lock({TheBlob}, w)
            BY <1>2, <2>1, <2>2 DEF PutReadNote, PutInsert, PutReadBlob, PutTitle, PutFlush,
                                    LocalsOK, LabelOK
        <3>2. LocksOf(w) \subseteq May
            BY <3>1 DEF LocksOf
        <3>3. /\ pc'[w] \in {"put_blob", "put_flush"} => TheNote \in May
              /\ pc'[w] = "recompute" => TheNote \in May /\ TheBlob \in May
            BY <3>1, RowNames DEF LocksOf
        <3>4. UNCHANGED lock \/ \E rows \in SUBSET May : Lock(rows, w)
            BY <3>1, <3>3
        <3> QED BY <3>1, <3>2, <3>4, LockingLocks
    <2>3. CASE \/ CompleteReadNote(w) \/ CompleteReadFile(w) \/ ComputeDigest(w)
               \/ UpsertFile(w) \/ DeleteChunks(w) \/ PromoteChunks(w)
        <3>1. Others /\ req'[w] = req[w] /\ req[w].op = "complete"
              /\ \/ pc[w] \in {"complete_note", "complete_file", "complete_digest"}
                    /\ lock' = lock
                 \/ /\ pc[w] = "complete_upsert" /\ pc'[w] = "complete_chunks"
                    /\ Lock(UpsertedRow(w), w)
                 \/ /\ pc[w] = "complete_chunks" /\ pc'[w] = "complete_promote"
                    /\ Lock(StoredChunks({req[w].a}), w)
                 \/ /\ pc[w] = "complete_promote" /\ pc'[w] = "recompute"
                    /\ lock' = lock
            BY <1>2, <2>1, <2>3 DEF CompleteReadNote, CompleteReadFile, ComputeDigest, UpsertFile,
                                    DeleteChunks, PromoteChunks, LocalsOK, LabelOK
        <3>2. LocksOf(w) \subseteq May
            BY <3>1 DEF LocksOf, FileLabels
        <3>3. req[w].a \in Attachments
            BY <2>1, <3>1, RequestKinds
        <3>4. pc'[w] \in FileLabels =>
                UpsertedRow(w) \subseteq May /\ StoredChunks({req[w].a}) \subseteq May
            BY <3>1, <3>3, RowNames DEF LocksOf, UpsertedRow, StoredChunks
        <3>5. UNCHANGED lock \/ \E rows \in SUBSET May : Lock(rows, w)
            BY <3>1, <3>4 DEF FileLabels
        <3> QED BY <3>1, <3>2, <3>5, LockingLocks
    <2>4. CASE \/ RemoveReadFile(w) \/ RemoveLoadChunks(w) \/ RemoveChunks(w)
               \/ RemoveFlush(w) \/ RemoveCascade(w)
        <3> DEFINE mine == {FileRow(a) : a \in {req[w].a} \cap DOMAIN attachments}
        <3>1. Others /\ req'[w] = req[w] /\ req[w].op = "remove"
              /\ \/ pc[w] \in {"remove_file", "remove_load"} /\ lock' = lock
                 \/ /\ pc[w] = "remove_chunks" /\ pc'[w] = "remove_flush"
                    /\ Lock(LoadedChunks(w), w)
                 \/ /\ pc[w] = "remove_flush" /\ pc'[w] = "remove_cascade"
                    /\ Lock(mine, w)
                 \/ /\ pc[w] = "remove_cascade" /\ pc'[w] = "recompute"
                    /\ Lock(StoredChunks(Deleted(w)), w)
            BY <1>2, <2>1, <2>4 DEF RemoveReadFile, RemoveLoadChunks, RemoveChunks, RemoveFlush,
                                    RemoveCascade, LocalsOK, LabelOK
        <3>2. LocksOf(w) \subseteq May
            BY <3>1 DEF LocksOf, FileLabels
        <3>3. req[w].a \in Attachments
            BY <2>1, <3>1, RequestKinds
        <3>4. Deleted(w) \subseteq {req[w].a}
            BY <3>1, RemovesOwnFile
        <3>5. pc'[w] \in {"remove_flush", "remove_cascade", "recompute"} =>
                FileRow(req[w].a) \in May /\ ChunksOf(req[w].a) \in May
            BY <3>1, <3>3, RowNames DEF LocksOf, FileLabels
        <3>6. pc'[w] \in {"remove_flush", "remove_cascade", "recompute"} =>
                /\ LoadedChunks(w) \subseteq May /\ mine \subseteq May
                /\ StoredChunks(Deleted(w)) \subseteq May
            BY <3>4, <3>5 DEF LoadedChunks, StoredChunks
        <3> HIDE DEF mine
        <3>7. UNCHANGED lock \/ \E rows \in SUBSET May : Lock(rows, w)
            BY <3>1, <3>6
        <3> QED BY <3>1, <3>2, <3>7, LockingLocks
    <2>5. CASE RecomputeNote(w) \/ RecomputeBlob(w) \/ RecomputeFiles(w)
        <3>1. /\ Others /\ req'[w] = req[w] /\ lock' = lock
              /\ \/ pc[w] = "recompute" /\ pc'[w] \in {"recompute_blob", "recompute_files"}
                 \/ pc[w] = "recompute_blob" /\ pc'[w] = "recompute_files"
                 \/ pc[w] = "recompute_files" /\ pc'[w] = "commit"
              /\ req[w].op = "put" => pc'[w] # "recompute_blob"
            BY <1>2, <2>1, <2>5 DEF RecomputeNote, RecomputeBlob, RecomputeFiles, LocalsOK, LabelOK
        <3>2. LocksOf(w) \subseteq May
            BY <3>1 DEF LocksOf, FileLabels
        <3> QED BY <3>1, <3>2, LockingLocks
    <2>6. CASE DeleteMark(w) \/ DeleteBlob(w) \/ DeleteFiles(w)
        <3> DEFINE files == {FileRow(a) : a \in DOMAIN attachments}
        <3>1. /\ Others /\ req'[w] = req[w] /\ req[w].op = "delete"
              /\ \/ /\ pc[w] = "delete_mark" /\ pc'[w] = "delete_blob"
                    /\ Lock({TheNote}, w)
                 \/ /\ pc[w] = "delete_blob" /\ pc'[w] = "delete_files"
                    /\ Lock({TheBlob}, w)
                 \/ /\ pc[w] = "delete_files" /\ pc'[w] = "delete_chunks"
                    /\ Lock(files, w)
            BY <2>1, <2>6 DEF DeleteMark, DeleteBlob, DeleteFiles, LocalsOK, LabelOK
        <3>2. LocksOf(w) \subseteq May
            BY <3>1 DEF LocksOf
        <3>3. /\ pc'[w] = "delete_blob" => TheNote \in May
              /\ pc'[w] = "delete_files" => TheBlob \in May
            BY <3>1, RowNames DEF LocksOf
        <3>4. pc'[w] = "delete_chunks" => files \subseteq May
            <4>1. DOMAIN attachments \subseteq Attachments
                BY DEF TablesOK, IsTable
            <4> QED BY <3>1, <4>1, RowNames DEF LocksOf
        <3> HIDE DEF files
        <3>5. \E rows \in SUBSET May : Lock(rows, w)
            BY <3>1, <3>3, <3>4
        <3> QED BY <3>1, <3>2, <3>5, LockingLocks
    <2> QED BY <1>2, <2>2, <2>3, <2>4, <2>5, <2>6
            DEF NoteStep, CommitPut, CommitComplete, CommitRemove, CommitDelete
<1> QED BY <1>1, <1>2

LEMMA NextLocksHeld == RowsInv /\ LocksHeld /\ [Next]_vars => LocksHeld'
<1> SUFFICES ASSUME RowsInv, LocksHeld, [Next]_vars PROVE LocksHeld'
    OBVIOUS
<1>1. ASSUME NEW w \in Workers, Request(w) \/ Step(w) PROVE LocksHeld'
    BY <1>1, RequestLocks, UploadStepLocks, NoteStepLocks DEF Step
<1>2. ASSUME NEW w \in Workers, Crash(w) \/ DeadlockVictim(w) PROVE LocksHeld'
    BY <1>2, RespondLocks DEF Crash, DeadlockVictim, RollBack
<1>3. CASE UNCHANGED <<lock, locals>>
    BY <1>3 DEF locals, LocksHeld, LocksOf
<1> QED BY <1>1, <1>2, <1>3 DEF Next, Tick, vars

LEMMA InitLocksHeld == Init => LocksHeld
BY DEF Init, LocksHeld

\* The requests that change a note; init and chunk only write upload tables.
NoteOps == {"put", "complete", "remove", "delete"}

\* Two requests that write one attachment.
SameFile(v, w) ==
    /\ req[v].op \in {"complete", "remove"} /\ req[w].op \in {"complete", "remove"}
    /\ req[v].a = req[w].a

\* What a request waits for, and which request holds it.
LEMMA WaitsAreFor ==
    ASSUME RowsInv, LocksHeld, NEW w \in Workers, NEW v \in WaitsFor(w)
    PROVE  /\ v \in Workers /\ v # w
           /\ req[v].op \in NoteOps /\ req[w].op \in NoteOps
           /\ \/ req[w].op = "delete" \/ req[v].op = "delete"
              \/ req[v].op = "put"
              \/ /\ SameFile(v, w)
                 /\ \/ req[v].op = "remove" \/ req[w].op = "remove"
                    \/ pc[w] \notin FileLabels /\ pc[v] \in FileLabels
           /\ req[w].op = "put" => req[v].op \in {"put", "delete"}
<1>1. PICK row \in Needs(w) : v = lock[row] /\ v # None /\ v # w
    BY DEF WaitsFor
<1>2. req[w] \in Requests /\ LabelOK(req[w].op, pc[w]) /\ Held(w)
    BY DEF RowsInv, TypeOK, LocalsOK
<1>3. DOMAIN attachments \subseteq Attachments
    BY DEF RowsInv, TypeOK, TablesOK, IsTable
<1>4. req[w].op \in NoteOps
    BY <1>1, <1>2 DEF Needs, LabelOK, NoteOps
<1>5. \/ req[w].op = "delete" /\ row \in LockedRows
      \/ row \in {TheNote, TheBlob}
      \/ /\ req[w].op \in {"complete", "remove"} /\ req[w].a \in Attachments
         /\ row \in {FileRow(req[w].a), ChunksOf(req[w].a)}
         /\ req[w].op = "complete" => pc[w] \in {"complete_upsert", "complete_chunks"}
    <2>1. CASE req[w].op = "put"
        BY <1>1, <1>2, <2>1 DEF Needs, LabelOK
    <2>2. CASE req[w].op = "delete"
        BY <1>1, <1>2, <1>3, <2>2, NeededRows, RowNames DEF Needs, LabelOK, Deleted
    <2>3. CASE req[w].op = "complete"
        BY <1>1, <1>2, <2>3, RequestKinds DEF Needs, LabelOK, UpsertedRow, StoredChunks
    <2>4. CASE req[w].op = "remove"
        <3>1. Deleted(w) \subseteq {req[w].a}
            BY <2>4, RemovesOwnFile
        <3> QED BY <1>1, <1>2, <2>4, <3>1, RequestKinds
                DEF Needs, LabelOK, LoadedChunks, StoredChunks
    <2> QED BY <1>4, <2>1, <2>2, <2>3, <2>4 DEF NoteOps
<1>6. v \in Workers /\ row \in LockedRows /\ row \in LocksOf(v)
    BY <1>1, <1>5, RowNames DEF LocksHeld, RowsInv, TypeOK
<1>7. req[v] \in Requests /\ Held(v)
    BY <1>6 DEF RowsInv, TypeOK
<1>8. req[v].op \in NoteOps
    BY <1>6 DEF LocksOf, NoteOps
<1>9. row \in {TheNote, TheBlob} => req[v].op \in {"put", "delete"}
    BY <1>6, <1>7, RequestKinds, RowNames DEF LocksOf
<1>10. ASSUME NEW a \in Attachments, row \in {FileRow(a), ChunksOf(a)}
       PROVE  \/ req[v].op = "delete"
              \/ req[v].op = "complete" /\ pc[v] \in FileLabels /\ req[v].a = a
              \/ req[v].op = "remove" /\ req[v].a = a
    BY <1>6, <1>10, RowNames DEF LocksOf
<1>11. ASSUME req[w].op = "complete", req[v].op = "complete", req[v].a = req[w].a,
              pc[v] \in FileLabels
       PROVE  pc[w] \notin FileLabels
    BY <1>1, <1>2, <1>7, <1>11 DEF Held, FileHeld
<1> QED BY <1>1, <1>4, <1>5, <1>6, <1>8, <1>9, <1>10, <1>11 DEF SameFile, NoteOps

\* No deadlock on the rows of a note comes from complete requests, nor from
\* them and one PUT body, nor from requests of different attachments: it takes
\* a DELETE note, a second PUT, or a DELETE attachment that meets another
\* request of its attachment.
THEOREM DeadlocksExplained == Spec => []DeadlocksHaveTwoOrders
<1>1. RowsInv /\ LocksHeld => DeadlocksHaveTwoOrders
    <2> SUFFICES ASSUME RowsInv, LocksHeld, NEW S \in (SUBSET Workers) \ {{}},
                        \A v \in S : WaitsFor(v) \cap S # {},
                        ~ \E w \in S : req[w].op = "delete",
                        ~ \E v, w \in S : v # w /\ req[v].op = "put" /\ req[w].op = "put",
                        ~ \E v, w \in S :
                            /\ v # w /\ req[v].op = "remove"
                            /\ req[w].op \in {"remove", "complete"} /\ req[v].a = req[w].a
                 PROVE  FALSE
        BY DEF DeadlocksHaveTwoOrders, WaitCycle
    <2>1. ASSUME NEW w \in S
          PROVE  \E v \in S : v \in WaitsFor(w)
        OBVIOUS
    <2>2. ASSUME NEW w \in S, req[w].op = "put"
          PROVE  FALSE
        <3>1. PICK v \in S : v \in WaitsFor(w)
            BY <2>1
        <3>2. v # w /\ req[v].op \in {"put", "delete"}
            BY <2>2, <3>1, WaitsAreFor
        <3> QED BY <2>2, <3>2
    <2>3. ASSUME NEW w \in S
          PROVE  pc[w] \notin FileLabels /\ \E v \in S : pc[v] \in FileLabels
        <3>1. PICK v \in S : v \in WaitsFor(w)
            BY <2>1
        <3>2. req[v].op \notin {"put", "delete"} /\ req[w].op \notin {"put", "delete"}
            BY <2>2
        <3>3. v # w /\ SameFile(v, w)
              /\ \/ req[v].op = "remove" \/ req[w].op = "remove"
                 \/ pc[w] \notin FileLabels /\ pc[v] \in FileLabels
            BY <3>1, <3>2, WaitsAreFor
        <3> QED BY <3>3 DEF SameFile
    <2> QED BY <2>3
<1> QED BY <1>1, InitRowsInv, NextRowsInv, InitLocksHeld, NextLocksHeld, PTL DEF Spec

=============================================================================

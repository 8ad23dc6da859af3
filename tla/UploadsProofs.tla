---------------------------- MODULE UploadsProofs ----------------------------
(***************************************************************************)
(* Proofs about the upload sessions of NotesApi, for any number of         *)
(* workers, uploads and chunks: the counter never gets ahead of the chunks *)
(* that are staged, these fit their session, and complete only accepts     *)
(* whole uploads.                                                          *)
(***************************************************************************)
EXTENDS NotesApiProofs

\* A chunk or complete request relies on the session row it has read: the
\* size is still the session's, and the count it will build on is not more
\* than what is staged while the session is open.
SnapshotFits(w) ==
    LET u == req[w].u
        i == req[w].i
        s == up[w].session
    IN
    /\ pc[w] \in {"chunk_body", "chunk_commit", "complete_load"} =>
         (u \in DOMAIN sessions => sessions[u].total_size = s.total_size)
    /\ pc[w] \in {"chunk_body", "chunk_commit"} =>
         /\ i \in ChunkIndexes(s.total_size)
         /\ u \in OpenSessions => s.received_chunks <= Cardinality(DOMAIN staged[u])
    /\ pc[w] = "chunk_commit" =>
         up[w].data.len = expected_attachment_chunk_size(s.total_size, i)

WholeLoaded(w) ==
    pc[w] \in {"complete_note", "complete_file", "complete_digest",
               "complete_upsert", "complete_chunks", "complete_promote"} =>
        LET size == up[w].session.total_size IN
        /\ DOMAIN up[w].loaded = ChunkIndexes(size)
        /\ TotalBytes(up[w].loaded) = size

WorkersOK == \A w \in Workers : SnapshotFits(w) /\ WholeLoaded(w)

\* RowsInv supplies the types.
UploadsInv == CounterNeverOvercounts /\ StagedChunksFit /\ WorkersOK

-----------------------------------------------------------------------------

OthersStay(w) ==
    \A v \in Workers \ {w} : pc'[v] = pc[v] /\ req'[v] = req[v] /\ up'[v] = up[v]

\* Sessions keep their size, none reopens, and open ones lose no chunk.
UploadsStay ==
    \A u \in 1 .. issued :
        /\ u \in DOMAIN sessions' =>
             u \in DOMAIN sessions /\ sessions'[u].total_size = sessions[u].total_size
        /\ u \in OpenSessions' =>
             /\ u \in OpenSessions
             /\ Cardinality(DOMAIN staged[u]) <= Cardinality(DOMAIN staged'[u])

\* The types an open request's snapshot has.
LEMMA SnapshotTypes ==
    ASSUME RowsInv, NEW w \in Workers
    PROVE  /\ pc[w] \in {"chunk_body", "chunk_commit"} =>
                /\ req[w].op = "chunk" /\ req[w].u \in UploadIds /\ req[w].u \in 1 .. issued
                /\ req[w].i \in Indexes /\ up[w].session \in Session
           /\ pc[w] = "complete_load" =>
                /\ req[w].op = "complete" /\ req[w].u \in UploadIds /\ req[w].u \in 1 .. issued
                /\ up[w].session \in Session
<1>1. LocalsOK(w) /\ req[w] \in Requests /\ issued \in 0 .. MaxUploads /\ MaxUploads \in Nat
    BY TableAssumption DEF RowsInv, TypeOK, UploadsOK
<1>2. req[w].op \in {"chunk", "complete"} =>
        req[w].u \in UploadIds /\ req[w].u \in 1 .. issued
    BY <1>1, RequestKinds DEF LocalsOK, UploadIds
<1>3. pc[w] \in {"chunk_body", "chunk_commit"} => req[w].op = "chunk"
    BY <1>1 DEF LocalsOK, LabelOK
<1>4. pc[w] = "complete_load" => req[w].op = "complete"
    BY <1>1 DEF LocalsOK, LabelOK
<1> QED BY <1>1, <1>2, <1>3, <1>4, RequestKinds DEF LocalsOK

\* The number of chunks staged for a session.
LEMMA StagedTypes ==
    ASSUME RowsInv, NEW u \in UploadIds
    PROVE  /\ staged[u] \in ChunkRows /\ IsFiniteSet(DOMAIN staged[u])
           /\ Cardinality(DOMAIN staged[u]) \in Nat
<1>1. staged[u] \in ChunkRows
    BY DEF RowsInv, TypeOK, UploadsOK
<1> QED BY <1>1, ChunkRowsFinite

LEMMA SessionTypes ==
    ASSUME RowsInv
    PROVE  /\ \A u \in DOMAIN sessions :
                u \in UploadIds /\ u \in 1 .. issued /\ sessions[u] \in Session
           /\ issued \in Nat
BY TableAssumption DEF RowsInv, TypeOK, UploadsOK, IsTable, UploadIds

LEMMA UploadsFrame ==
    ASSUME RowsInv, RowsInv', UploadsInv, NEW w \in Workers, OthersStay(w), UploadsStay,
           CounterNeverOvercounts', StagedChunksFit', SnapshotFits(w)', WholeLoaded(w)'
    PROVE  UploadsInv'
<1>1. ASSUME NEW v \in Workers \ {w}
      PROVE  SnapshotFits(v)' /\ WholeLoaded(v)'
    <2>1. pc'[v] = pc[v] /\ req'[v] = req[v] /\ up'[v] = up[v]
        BY DEF OthersStay
    <2>2. SnapshotFits(v) /\ WholeLoaded(v)
        BY DEF UploadsInv, WorkersOK
    <2> DEFINE u == req[v].u
    <2>3. CASE pc[v] \in {"chunk_body", "chunk_commit"}
        <3>1. /\ u \in 1 .. issued /\ u \in UploadIds
              /\ up[v].session.received_chunks \in Nat
            BY <2>3, SnapshotTypes DEF Session
        <3>2. Cardinality(DOMAIN staged[u]) \in Nat /\ Cardinality(DOMAIN staged'[u]) \in Nat
            <4>1. staged'[u] \in ChunkRows
                BY <3>1 DEF RowsInv, TypeOK, UploadsOK
            <4> QED BY <3>1, <4>1, StagedTypes, ChunkRowsFinite
        <3>3. u \in DOMAIN sessions' => sessions'[u].total_size = up[v].session.total_size
            BY <2>2, <2>3, <3>1 DEF UploadsStay, SnapshotFits
        <3>4. u \in OpenSessions' =>
                up[v].session.received_chunks <= Cardinality(DOMAIN staged'[u])
            BY <2>2, <2>3, <3>1, <3>2 DEF UploadsStay, SnapshotFits
        <3> QED BY <2>1, <2>2, <2>3, <3>3, <3>4 DEF SnapshotFits, WholeLoaded
    <2>4. CASE pc[v] = "complete_load"
        <3>1. u \in 1 .. issued
            BY <2>4, SnapshotTypes
        <3>2. u \in DOMAIN sessions' => sessions'[u].total_size = up[v].session.total_size
            BY <2>2, <2>4, <3>1 DEF UploadsStay, SnapshotFits
        <3> QED BY <2>1, <2>2, <2>4, <3>2 DEF SnapshotFits, WholeLoaded
    <2>5. CASE pc[v] \notin {"chunk_body", "chunk_commit", "complete_load"}
        BY <2>1, <2>2, <2>5 DEF SnapshotFits, WholeLoaded
    <2> QED BY <2>3, <2>4, <2>5
<1> QED BY <1>1 DEF UploadsInv, WorkersOK

\* A step that leaves the upload tables alone.
LEMMA QuietUploads ==
    ASSUME RowsInv, RowsInv', UploadsInv, NEW w \in Workers, OthersStay(w), UNCHANGED uploads,
           SnapshotFits(w)', WholeLoaded(w)'
    PROVE  UploadsInv'
<1>1. UNCHANGED <<sessions, staged, issued>>
    BY DEF uploads
<1>2. CounterNeverOvercounts' /\ StagedChunksFit'
    BY <1>1 DEF UploadsInv, CounterNeverOvercounts, StagedChunksFit, OpenSessions
<1>3. UploadsStay
    <2>1. \A u \in 1 .. issued : u \in UploadIds
        BY TableAssumption DEF RowsInv, TypeOK, UploadsOK, UploadIds
    <2>2. \A u \in 1 .. issued : Cardinality(DOMAIN staged[u]) \in Nat
        BY <2>1, StagedTypes
    <2> QED BY <1>1, <2>2 DEF UploadsStay, OpenSessions
<1> QED BY <1>2, <1>3, UploadsFrame

\* The statements at which a request relies on its session snapshot or on
\* the chunks it has loaded.
Watched == {"chunk_body", "chunk_commit", "complete_load", "complete_note", "complete_file",
            "complete_digest", "complete_upsert", "complete_chunks", "complete_promote"}

LEMMA UnwatchedUploads ==
    ASSUME RowsInv, RowsInv', UploadsInv, NEW w \in Workers, OthersStay(w), UNCHANGED uploads,
           pc'[w] \notin Watched
    PROVE  UploadsInv'
<1>1. SnapshotFits(w)' /\ WholeLoaded(w)'
    BY DEF SnapshotFits, WholeLoaded, Watched
<1> QED BY <1>1, QuietUploads

LEMMA RespondStays ==
    ASSUME RowsInv, NEW w \in Workers, Respond(w)
    PROVE  OthersStay(w) /\ pc'[w] = "idle"
BY DEF Respond, OthersStay, RowsInv, TypeOK

LEMMA RollBackUploads ==
    ASSUME RowsInv, RowsInv', UploadsInv, NEW w \in Workers, RollBack(w)
    PROVE  UploadsInv'
<1>1. OthersStay(w) /\ pc'[w] \notin Watched /\ UNCHANGED uploads
    BY RespondStays DEF RollBack, Watched
<1> QED BY <1>1, UnwatchedUploads

-----------------------------------------------------------------------------
(* One step per action that writes the upload tables or fills a snapshot.  *)

\* Aborting sessions closes them and drops what they have staged.
LEMMA AbortUploads ==
    ASSUME RowsInv, UploadsInv, NEW ids, sessions' = Abort(ids, sessions), DropStaged(ids)
    PROVE  UploadsStay /\ CounterNeverOvercounts' /\ StagedChunksFit'
<1>1. /\ DOMAIN sessions' = DOMAIN sessions
      /\ \A u \in DOMAIN sessions :
           /\ sessions'[u].total_size = sessions[u].total_size
           /\ sessions'[u].received_chunks = sessions[u].received_chunks
           /\ sessions'[u].status = IF u \in ids THEN "aborted" ELSE sessions[u].status
    BY AbortTable DEF RowsInv, TypeOK, UploadsOK
<1>2. \A u \in UploadIds : staged'[u] = IF u \in ids THEN NoRows ELSE staged[u]
    BY DroppedType DEF RowsInv, TypeOK
<1>3. \A u \in DOMAIN sessions : u \in UploadIds /\ u \in 1 .. issued
    BY SessionTypes
<1>4. \A u \in OpenSessions' :
        u \in OpenSessions /\ u \in DOMAIN sessions /\ staged'[u] = staged[u]
    BY <1>1, <1>2, <1>3 DEF OpenSessions
<1>5. CounterNeverOvercounts'
    BY <1>1, <1>4 DEF CounterNeverOvercounts, UploadsInv
<1>6. StagedChunksFit'
    <2>1. \A u \in UploadIds : \A i \in DOMAIN staged'[u] : staged'[u] = staged[u]
        BY <1>2 DEF NoRows
    <2> QED BY <1>1, <2>1 DEF StagedChunksFit, UploadsInv
<1>7. UploadsStay
    <2>1. \A u \in OpenSessions' : Cardinality(DOMAIN staged[u]) \in Nat
        BY <1>3, <1>4, StagedTypes
    <2> QED BY <1>1, <1>4, <2>1 DEF UploadsStay
<1> QED BY <1>5, <1>6, <1>7

LEMMA AbortExpiredUploads ==
    ASSUME RowsInv, RowsInv', UploadsInv, NEW w \in Workers, AbortExpired(w) \/ AbortSession(w)
    PROVE  UploadsInv'
<1>1. CASE RollBack(w)
    BY <1>1, RollBackUploads
<1>2. CASE ~RollBack(w)
    <2>1. PICK ids : sessions' = Abort(ids, sessions) /\ DropStaged(ids)
        BY <1>2 DEF AbortExpired, AbortSession
    <2>2. OthersStay(w) /\ pc'[w] \notin Watched
        BY <1>2, RespondStays
           DEF AbortExpired, AbortSession, OthersStay, Goto, AfterCleanup, Watched, RowsInv, TypeOK
    <2>3. SnapshotFits(w)' /\ WholeLoaded(w)'
        BY <2>2 DEF SnapshotFits, WholeLoaded, Watched
    <2> QED BY <2>1, <2>2, <2>3, AbortUploads, UploadsFrame
<1> QED BY <1>1, <1>2

LEMMA CommitInitUploads ==
    ASSUME RowsInv, RowsInv', UploadsInv, NEW w \in Workers, CommitInit(w)
    PROVE  UploadsInv'
<1>1. CASE RollBack(w)
    BY <1>1, RollBackUploads
<1>2. CASE ~RollBack(w)
    <2> DEFINE ids == up[w].doomed
               aborted == Abort(ids, sessions)
               new == NewSession(req[w])
    <2>1. /\ issued' = issued + 1 /\ sessions' = Upsert(aborted, issued', new)
          /\ DropStaged(ids) /\ Respond(w)
        BY <1>2 DEF CommitInit
    <2>2. /\ DOMAIN aborted = DOMAIN sessions
          /\ \A u \in DOMAIN sessions :
               /\ aborted[u].total_size = sessions[u].total_size
               /\ aborted[u].received_chunks = sessions[u].received_chunks
               /\ aborted[u].status = IF u \in ids THEN "aborted" ELSE sessions[u].status
        BY AbortTable DEF RowsInv, TypeOK, UploadsOK
    <2>3. \A u \in UploadIds : staged'[u] = IF u \in ids THEN NoRows ELSE staged[u]
        BY <2>1, DroppedType DEF RowsInv, TypeOK
    <2>4. /\ \A u \in DOMAIN sessions : u \in UploadIds /\ u \in 1 .. issued
          /\ issued \in Nat /\ issued' \notin DOMAIN sessions /\ issued' \notin 1 .. issued
        BY <2>1, SessionTypes
    <2>5. new.received_chunks = 0
        BY DEF NewSession
    <2> HIDE DEF ids, aborted, new
    <2>6. /\ DOMAIN sessions' = DOMAIN sessions \cup {issued'}
          /\ sessions'[issued'] = new
          /\ \A u \in DOMAIN sessions : sessions'[u] = aborted[u]
        BY <2>1, <2>2, <2>4 DEF Upsert
    <2>7. \A u \in OpenSessions' :
            u # issued' => u \in OpenSessions /\ u \in DOMAIN sessions /\ staged'[u] = staged[u]
        BY <2>2, <2>3, <2>4, <2>6 DEF OpenSessions
    <2>8. CounterNeverOvercounts'
        <3>1. issued' \in UploadIds
            BY <2>1, <2>4, TableAssumption DEF RowsInv, TypeOK, UploadsOK, UploadIds
        <3>2. Cardinality(DOMAIN staged'[issued']) \in Nat
            <4>1. staged'[issued'] \in ChunkRows
                BY <3>1 DEF RowsInv, TypeOK, UploadsOK
            <4> QED BY <4>1, ChunkRowsFinite
        <3>3. sessions'[issued'].received_chunks <= Cardinality(DOMAIN staged'[issued'])
            BY <2>5, <2>6, <3>2
        <3>4. \A u \in OpenSessions' : u # issued' =>
                sessions'[u].received_chunks <= Cardinality(DOMAIN staged'[u])
            BY <2>2, <2>6, <2>7 DEF CounterNeverOvercounts, UploadsInv
        <3> QED BY <3>3, <3>4 DEF CounterNeverOvercounts
    <2>9. StagedChunksFit'
        <3>1. \A u \in UploadIds : \A i \in DOMAIN staged'[u] : staged'[u] = staged[u]
            BY <2>3 DEF NoRows
        <3>2. \A u \in DOMAIN sessions : sessions'[u].total_size = sessions[u].total_size
            BY <2>2, <2>6
        <3> QED BY <2>6, <3>1, <3>2 DEF StagedChunksFit, UploadsInv
    <2>10. UploadsStay
        <3>1. \A u \in OpenSessions : Cardinality(DOMAIN staged[u]) \in Nat
            BY <2>4, StagedTypes DEF OpenSessions
        <3> QED BY <2>2, <2>4, <2>6, <2>7, <3>1 DEF UploadsStay
    <2>11. OthersStay(w) /\ SnapshotFits(w)' /\ WholeLoaded(w)'
        BY <2>1, RespondStays DEF SnapshotFits, WholeLoaded
    <2> QED BY <2>8, <2>9, <2>10, <2>11, UploadsFrame
<1> QED BY <1>1, <1>2

LEMMA ReadSessionUploads ==
    ASSUME RowsInv, RowsInv', UploadsInv, NEW w \in Workers, ReadSession(w)
    PROVE  UploadsInv'
<1> DEFINE s == sessions[req[w].u]
<1>1. CASE RollBack(w)
    BY <1>1, RollBackUploads
<1>2. ASSUME req[w].u \in DOMAIN sessions, s.status = "in_progress", MayProceed(req[w], s),
             up' = [up EXCEPT ![w].session = s],
             pc' = [pc EXCEPT ![w] = IF req[w].op = "chunk" THEN "chunk_body" ELSE "complete_load"],
             UNCHANGED <<req, seen, lock>>, NoWrites
      PROVE  UploadsInv'
    <2>1. OthersStay(w) /\ UNCHANGED uploads
        BY <1>2 DEF OthersStay, NoWrites, RowsInv, TypeOK
    <2>2. /\ up'[w].session = s /\ req'[w] = req[w]
          /\ sessions' = sessions /\ staged' = staged
          /\ pc'[w] = IF req[w].op = "chunk" THEN "chunk_body" ELSE "complete_load"
        BY <1>2 DEF RowsInv, TypeOK, Up, NoWrites, uploads
    <2>3. req[w].u \in OpenSessions /\ s.received_chunks <= Cardinality(DOMAIN staged[req[w].u])
        BY <1>2 DEF OpenSessions, UploadsInv, CounterNeverOvercounts
    <2>4. SnapshotFits(w)'
        BY <1>2, <2>2, <2>3 DEF SnapshotFits, MayProceed
    <2>5. WholeLoaded(w)'
        BY <2>2 DEF WholeLoaded
    <2> QED BY <2>1, <2>4, <2>5, QuietUploads
<1>3. ASSUME pc' = [pc EXCEPT ![w] = "expired"], UNCHANGED <<req, seen, up, lock>>, NoWrites
      PROVE  UploadsInv'
    <2>1. OthersStay(w) /\ UNCHANGED uploads /\ pc'[w] \notin Watched
        BY <1>3 DEF OthersStay, NoWrites, Watched, RowsInv, TypeOK
    <2> QED BY <2>1, UnwatchedUploads
<1> QED BY <1>1, <1>2, <1>3 DEF ReadSession, Goto

LEMMA ReceiveChunkUploads ==
    ASSUME RowsInv, RowsInv', UploadsInv, NEW w \in Workers, NEW data \in Data,
           ReceiveChunk(w, data)
    PROVE  UploadsInv'
<1>1. CASE RollBack(w)
    BY <1>1, RollBackUploads
<1>2. CASE ~RollBack(w)
    <2>1. PICK rows :
            /\ pc[w] = "chunk_body" /\ pc' = [pc EXCEPT ![w] = "chunk_commit"]
            /\ data.len = expected_attachment_chunk_size(up[w].session.total_size, req[w].i)
            /\ up' = [up EXCEPT ![w].data = data, ![w].loaded = rows]
            /\ UNCHANGED req /\ NoWrites
        BY <1>2 DEF ReceiveChunk, Goto
    <2>2. OthersStay(w) /\ UNCHANGED uploads
        BY <2>1 DEF OthersStay, NoWrites, RowsInv, TypeOK
    <2>3. /\ pc'[w] = "chunk_commit" /\ req'[w] = req[w]
          /\ up'[w].session = up[w].session /\ up'[w].data = data
          /\ sessions' = sessions /\ staged' = staged
        BY <2>1 DEF RowsInv, TypeOK, Up, NoWrites, uploads
    <2>4. SnapshotFits(w)
        BY DEF UploadsInv, WorkersOK
    <2>5. SnapshotFits(w)'
        BY <2>1, <2>3, <2>4 DEF SnapshotFits, OpenSessions
    <2>6. WholeLoaded(w)'
        BY <2>3 DEF WholeLoaded
    <2> QED BY <2>2, <2>5, <2>6, QuietUploads
<1> QED BY <1>1, <1>2

\* A chunk is stored for a session that is there, at a fitting index with the
\* fitting length; the count the session gets is at most what is staged then.
LEMMA StoreUploads ==
    ASSUME RowsInv, RowsInv', UploadsInv, NEW w \in Workers, Respond(w), issued' = issued,
           NEW u \in DOMAIN sessions, NEW i, NEW data,
           i \in ChunkIndexes(sessions[u].total_size),
           data.len = expected_attachment_chunk_size(sessions[u].total_size, i),
           staged' = [staged EXCEPT ![u] = Upsert(staged[u], i, data)],
           DOMAIN sessions' = DOMAIN sessions,
           \A v \in DOMAIN sessions :
             /\ sessions'[v].total_size = sessions[v].total_size
             /\ sessions'[v].status = sessions[v].status
             /\ v # u => sessions'[v] = sessions[v],
           u \in OpenSessions =>
             sessions'[u].received_chunks <= Cardinality(DOMAIN staged[u] \cup {i})
    PROVE  UploadsInv'
<1>1. u \in UploadIds /\ \A v \in DOMAIN sessions : v \in UploadIds /\ v \in 1 .. issued
    BY SessionTypes
<1>2. /\ \A v \in UploadIds \ {u} : staged'[v] = staged[v]
      /\ staged'[u] = Upsert(staged[u], i, data)
    BY <1>1 DEF RowsInv, TypeOK, UploadsOK
<1>3. /\ DOMAIN staged'[u] = DOMAIN staged[u] \cup {i}
      /\ staged'[u][i] = data
      /\ \A j \in DOMAIN staged[u] \ {i} : staged'[u][j] = staged[u][j]
    BY <1>2 DEF Upsert
<1>4. OpenSessions' = OpenSessions /\ OpenSessions \subseteq DOMAIN sessions
    BY DEF OpenSessions
<1>5. CounterNeverOvercounts'
    BY <1>1, <1>2, <1>3, <1>4 DEF CounterNeverOvercounts, UploadsInv
<1>6. StagedChunksFit'
    <2>1. ASSUME NEW j \in DOMAIN staged'[u]
          PROVE  /\ j \in ChunkIndexes(sessions[u].total_size)
                 /\ staged'[u][j].len = expected_attachment_chunk_size(sessions[u].total_size, j)
        BY <1>1, <1>3 DEF StagedChunksFit, UploadsInv
    <2>2. ASSUME NEW v \in UploadIds \ {u}, NEW j \in DOMAIN staged'[v]
          PROVE  /\ v \in DOMAIN sessions
                 /\ j \in ChunkIndexes(sessions[v].total_size)
                 /\ staged'[v][j].len = expected_attachment_chunk_size(sessions[v].total_size, j)
        BY <1>2, <2>2 DEF StagedChunksFit, UploadsInv
    <2> QED BY <2>1, <2>2 DEF StagedChunksFit
<1>7. UploadsStay
    <2>1. /\ IsFiniteSet(DOMAIN staged[u])
          /\ \A v \in UploadIds : Cardinality(DOMAIN staged[v]) \in Nat
        BY <1>1, StagedTypes
    <2>2. Cardinality(DOMAIN staged[u]) <= Cardinality(DOMAIN staged'[u])
        <3>1. \/ Cardinality(DOMAIN staged'[u]) = Cardinality(DOMAIN staged[u])
              \/ Cardinality(DOMAIN staged'[u]) = Cardinality(DOMAIN staged[u]) + 1
            BY <1>3, <2>1, FS_AddElement
        <3> QED BY <1>1, <2>1, <3>1
    <2>3. \A v \in OpenSessions : Cardinality(DOMAIN staged[v]) <= Cardinality(DOMAIN staged'[v])
        BY <1>1, <1>2, <1>4, <2>1, <2>2
    <2> QED BY <1>4, <2>3 DEF UploadsStay
<1>8. OthersStay(w) /\ SnapshotFits(w)' /\ WholeLoaded(w)'
    BY RespondStays DEF SnapshotFits, WholeLoaded
<1> QED BY <1>5, <1>6, <1>7, <1>8, UploadsFrame

LEMMA InsertChunkUploads ==
    ASSUME RowsInv, RowsInv', UploadsInv, NEW w \in Workers, InsertChunk(w)
    PROVE  UploadsInv'
<1>1. CASE RollBack(w)
    BY <1>1, RollBackUploads
<1>2. CASE ~RollBack(w)
    <2> DEFINE u == req[w].u
               i == req[w].i
               s == up[w].session
    <2>1. /\ pc[w] = "chunk_commit" /\ u \in DOMAIN sessions /\ i \notin DOMAIN staged[u]
          /\ sessions' = [sessions EXCEPT ![u] = CountChunk(@, s)]
          /\ staged' = [staged EXCEPT ![u] = Upsert(staged[u], i, up[w].data)]
          /\ Respond(w) /\ issued' = issued
        BY <1>2 DEF InsertChunk, StoreChunk
    <2>2. /\ sessions[u].total_size = s.total_size
          /\ i \in ChunkIndexes(s.total_size)
          /\ up[w].data.len = expected_attachment_chunk_size(s.total_size, i)
          /\ u \in OpenSessions => s.received_chunks <= Cardinality(DOMAIN staged[u])
        BY <2>1 DEF UploadsInv, WorkersOK, SnapshotFits
    <2>3. s.received_chunks \in Nat /\ u \in UploadIds
        BY <2>1, SnapshotTypes DEF Session
    <2>4. Cardinality(DOMAIN staged[u] \cup {i}) = Cardinality(DOMAIN staged[u]) + 1
        BY <2>1, <2>3, StagedTypes, FS_AddElement
    <2>5. /\ DOMAIN sessions' = DOMAIN sessions
          /\ sessions'[u] = CountChunk(sessions[u], s)
          /\ \A v \in DOMAIN sessions : v # u => sessions'[v] = sessions[v]
        BY <2>1
    <2>6. /\ sessions'[u].total_size = sessions[u].total_size
          /\ sessions'[u].status = sessions[u].status
          /\ sessions'[u].received_chunks = s.received_chunks + 1
        BY <2>1, <2>5, SessionTypes DEF CountChunk, Session
    <2>7. u \in OpenSessions =>
            sessions'[u].received_chunks <= Cardinality(DOMAIN staged[u] \cup {i})
        BY <2>2, <2>3, <2>4, <2>6, StagedTypes
    <2>8. /\ i \in ChunkIndexes(sessions[u].total_size)
          /\ up[w].data.len = expected_attachment_chunk_size(sessions[u].total_size, i)
        BY <2>2
    <2> HIDE DEF u, i, s
    <2> QED BY <2>1, <2>5, <2>6, <2>7, <2>8, StoreUploads
<1> QED BY <1>1, <1>2

LEMMA OverwriteChunkUploads ==
    ASSUME RowsInv, RowsInv', UploadsInv, NEW w \in Workers, OverwriteChunk(w)
    PROVE  UploadsInv'
<1>1. CASE RollBack(w)
    BY <1>1, RollBackUploads
<1>2. CASE ~RollBack(w)
    <2> DEFINE u == req[w].u
               i == req[w].i
               s == up[w].session
    <2>1. /\ pc[w] = "chunk_commit" /\ i \in DOMAIN staged[u] /\ sessions' = sessions
          /\ staged' = [staged EXCEPT ![u] = Upsert(staged[u], i, up[w].data)]
          /\ Respond(w) /\ issued' = issued
        BY <1>2 DEF OverwriteChunk, StoreChunk
    <2>2. u \in UploadIds
        BY <2>1, SnapshotTypes
    <2>3. u \in DOMAIN sessions
        BY <2>1, <2>2 DEF UploadsInv, StagedChunksFit
    <2>4. /\ i \in ChunkIndexes(sessions[u].total_size)
          /\ up[w].data.len = expected_attachment_chunk_size(sessions[u].total_size, i)
        BY <2>1, <2>3 DEF UploadsInv, WorkersOK, SnapshotFits
    <2>5. DOMAIN staged[u] \cup {i} = DOMAIN staged[u]
        BY <2>1
    <2>6. u \in OpenSessions =>
            sessions'[u].received_chunks <= Cardinality(DOMAIN staged[u] \cup {i})
        BY <2>1, <2>5 DEF UploadsInv, CounterNeverOvercounts
    <2> HIDE DEF u, i, s
    <2> QED BY <2>1, <2>3, <2>4, <2>6, StoreUploads
<1> QED BY <1>1, <1>2

\* complete has counted as many chunks as the size needs; all of them are
\* chunks of the session, so they are all its chunks.
LEMMA LoadChunksUploads ==
    ASSUME RowsInv, RowsInv', UploadsInv, NEW w \in Workers, LoadChunks(w)
    PROVE  UploadsInv'
<1>1. CASE RollBack(w)
    BY <1>1, RollBackUploads
<1>2. CASE ~RollBack(w)
    <2> DEFINE u == req[w].u
               rows == staged[u]
               size == up[w].session.total_size
    <2>1. /\ pc[w] = "complete_load" /\ pc' = [pc EXCEPT ![w] = "complete_note"]
          /\ Cardinality(DOMAIN rows) = total_chunks_for_size(size) /\ TotalBytes(rows) = size
          /\ up' = [up EXCEPT ![w].loaded = rows]
          /\ UNCHANGED req /\ NoWrites
        BY <1>2 DEF LoadChunks, Goto, Whole, expected_chunks
    <2>2. u \in UploadIds /\ size \in Nat \ {0}
        BY <2>1, SnapshotTypes, ContentAssumption DEF Session
    <2>3. OthersStay(w) /\ UNCHANGED uploads
        BY <2>1 DEF OthersStay, NoWrites, RowsInv, TypeOK
    <2>4. /\ pc'[w] = "complete_note" /\ up'[w].session = up[w].session
          /\ up'[w].loaded = rows
        BY <2>1 DEF RowsInv, TypeOK, Up
    <2>5. DOMAIN rows = ChunkIndexes(size)
        <3>1. DOMAIN rows # {}
            BY <2>1, <2>2, ChunksCover, FS_EmptySet
        <3>2. u \in DOMAIN sessions
            BY <2>2, <3>1 DEF UploadsInv, StagedChunksFit
        <3>3. sessions[u].total_size = size
            BY <2>1, <3>2 DEF UploadsInv, WorkersOK, SnapshotFits
        <3>4. DOMAIN rows \in SUBSET ChunkIndexes(size)
            BY <2>2, <3>3 DEF UploadsInv, StagedChunksFit
        <3> QED BY <2>1, <2>2, <3>4, CountingIsEnough
    <2>6. SnapshotFits(w)'
        BY <2>4 DEF SnapshotFits
    <2>7. WholeLoaded(w)'
        BY <2>1, <2>4, <2>5 DEF WholeLoaded
    <2> QED BY <2>3, <2>6, <2>7, QuietUploads
<1> QED BY <1>1, <1>2

LEMMA CommitCompleteUploads ==
    ASSUME RowsInv, RowsInv', UploadsInv, NEW w \in Workers, CommitComplete(w)
    PROVE  UploadsInv'
<1> DEFINE gone == req[w].u
<1>1. /\ sessions' = Without(sessions, {gone}) /\ DropStaged({gone})
      /\ Respond(w) /\ issued' = issued
    BY DEF CommitComplete
<1>2. /\ DOMAIN sessions' = DOMAIN sessions \ {gone}
      /\ \A u \in DOMAIN sessions \ {gone} : sessions'[u] = sessions[u]
    BY <1>1 DEF Without, Restrict
<1>3. \A u \in UploadIds : staged'[u] = IF u = gone THEN NoRows ELSE staged[u]
    BY <1>1, DroppedType DEF RowsInv, TypeOK
<1>4. \A u \in DOMAIN sessions : u \in UploadIds /\ u \in 1 .. issued
    BY SessionTypes
<1> HIDE DEF gone
<1>5. \A u \in OpenSessions' : /\ u \in OpenSessions /\ u \in DOMAIN sessions
                               /\ staged'[u] = staged[u] /\ sessions'[u] = sessions[u]
    BY <1>2, <1>3, <1>4 DEF OpenSessions
<1>6. CounterNeverOvercounts'
    BY <1>5 DEF CounterNeverOvercounts, UploadsInv
<1>7. StagedChunksFit'
    <2>1. \A u \in UploadIds : \A i \in DOMAIN staged'[u] : u # gone /\ staged'[u] = staged[u]
        BY <1>3 DEF NoRows
    <2> QED BY <1>2, <2>1 DEF StagedChunksFit, UploadsInv
<1>8. UploadsStay
    <2>1. \A u \in OpenSessions' : Cardinality(DOMAIN staged[u]) \in Nat
        BY <1>4, <1>5, StagedTypes
    <2> QED BY <1>2, <1>5, <2>1 DEF UploadsStay
<1>9. OthersStay(w) /\ SnapshotFits(w)' /\ WholeLoaded(w)'
    BY <1>1, RespondStays DEF SnapshotFits, WholeLoaded
<1> QED BY <1>6, <1>7, <1>8, <1>9, UploadsFrame

\* Between loading the chunks and promoting them a request keeps what it has
\* loaded.
LEMMA CompleteUploads ==
    ASSUME RowsInv, RowsInv', UploadsInv, NEW w \in Workers,
           \/ CompleteReadNote(w) \/ CompleteReadFile(w) \/ ComputeDigest(w)
           \/ UpsertFile(w) \/ DeleteChunks(w)
    PROVE  UploadsInv'
<1>1. CASE RollBack(w)
    BY <1>1, RollBackUploads
<1>2. CASE ~RollBack(w)
    <2>1. PICK label \in {"complete_file", "complete_digest", "complete_upsert",
                          "complete_chunks", "complete_promote"} :
            pc' = [pc EXCEPT ![w] = label]
        BY <1>2 DEF CompleteReadNote, CompleteReadFile, ComputeDigest, UpsertFile, DeleteChunks,
                    Goto
    <2>2. /\ pc[w] \in {"complete_note", "complete_file", "complete_digest",
                       "complete_upsert", "complete_chunks"}
          /\ UNCHANGED <<req, up>> /\ NoWrites
        BY <1>2 DEF CompleteReadNote, CompleteReadFile, ComputeDigest, UpsertFile, DeleteChunks
    <2>3. pc'[w] = label /\ OthersStay(w) /\ UNCHANGED uploads
        BY <2>1, <2>2 DEF OthersStay, NoWrites, RowsInv, TypeOK
    <2>4. WholeLoaded(w)
        BY DEF UploadsInv, WorkersOK
    <2>5. SnapshotFits(w)' /\ WholeLoaded(w)'
        BY <2>2, <2>3, <2>4 DEF SnapshotFits, WholeLoaded
    <2> QED BY <2>3, <2>5, QuietUploads
<1> QED BY <1>1, <1>2

-----------------------------------------------------------------------------
(* The statements that neither write nor rely on the upload tables.        *)

LEMMA RequestUploads ==
    ASSUME RowsInv, RowsInv', UploadsInv, NEW w \in Workers, Request(w)
    PROVE  UploadsInv'
<1>1. UNCHANGED uploads
    BY DEF Request, InitUpload, UploadChunk, CompleteUpload, RemoveAttachment, PutBody,
           DeleteNote, NoWrites
<1>2. OthersStay(w) /\ pc'[w] \notin Watched
    <2>1. CASE \E body \in Bodies, match \in NoteEtags : PutBody(w, body, match)
        BY <2>1 DEF PutBody, Goto, OthersStay, Watched, RowsInv, TypeOK
    <2>2. CASE DeleteNote(w)
        BY <2>2 DEF DeleteNote, Goto, OthersStay, Watched, RowsInv, TypeOK
    <2>3. CASE \E a \in Attachments :
                 RemoveAttachment(w, a) \/ \E size \in TotalSizes : InitUpload(w, a, size)
        BY <2>3 DEF RemoveAttachment, InitUpload, Goto, OthersStay, Watched, RowsInv, TypeOK
    <2>4. ASSUME NEW r, SelectExpired(w, r)
          PROVE  OthersStay(w) /\ pc'[w] \notin Watched
        BY <2>4 DEF SelectExpired, AfterCleanup, Goto, OthersStay, Watched, RowsInv, TypeOK
    <2> QED BY <2>1, <2>2, <2>3, <2>4 DEF Request, UploadChunk, CompleteUpload
<1> QED BY <1>1, <1>2, UnwatchedUploads

LEMMA UploadStepUploads ==
    ASSUME RowsInv, RowsInv', UploadsInv, NEW w \in Workers, UploadStep(w)
    PROVE  UploadsInv'
<1>1. CASE InitCleanup(w) \/ SelectOpen(w)
    <2>1. UNCHANGED uploads /\ OthersStay(w) /\ pc'[w] \notin Watched
        BY <1>1 DEF InitCleanup, SelectExpired, AfterCleanup, SelectOpen, Goto, NoWrites,
                    OthersStay, Watched, RowsInv, TypeOK
    <2> QED BY <2>1, UnwatchedUploads
<1> QED BY <1>1, AbortExpiredUploads, CommitInitUploads, ReadSessionUploads,
           ReceiveChunkUploads, InsertChunkUploads, OverwriteChunkUploads, LoadChunksUploads
        DEF UploadStep

LEMMA NoteStepUploads ==
    ASSUME RowsInv, RowsInv', UploadsInv, NEW w \in Workers, NoteStep(w)
    PROVE  UploadsInv'
<1>1. CASE RollBack(w)
    BY <1>1, RollBackUploads
<1>2. CASE CommitPut(w) \/ CommitRemove(w) \/ CommitDelete(w)
    <2>1. UNCHANGED uploads /\ OthersStay(w) /\ pc'[w] \notin Watched
        BY <1>2, RespondStays DEF CommitPut, CommitRemove, CommitDelete, Watched
    <2> QED BY <2>1, UnwatchedUploads
<1>3. ASSUME ~RollBack(w),
             \/ PutReadNote(w) \/ PutInsert(w) \/ PutReadBlob(w) \/ PutTitle(w) \/ PutFlush(w)
             \/ PromoteChunks(w) \/ RemoveReadFile(w) \/ RemoveLoadChunks(w)
             \/ RemoveChunks(w) \/ RemoveFlush(w) \/ RemoveCascade(w)
             \/ RecomputeNote(w) \/ RecomputeBlob(w) \/ RecomputeFiles(w)
             \/ DeleteMark(w) \/ DeleteBlob(w) \/ DeleteFiles(w)
      PROVE  UploadsInv'
    <2>1. PICK label \in Labels \ Watched : pc' = [pc EXCEPT ![w] = label]
        BY <1>3 DEF PutReadNote, PutInsert, PutReadBlob, PutTitle, PutFlush, PromoteChunks,
                    RemoveReadFile, RemoveLoadChunks, RemoveChunks, RemoveFlush, RemoveCascade,
                    RecomputeNote, RecomputeBlob, RecomputeFiles, DeleteMark, DeleteBlob,
                    DeleteFiles, Goto, Labels, Watched
    <2>2. /\ req' = req /\ NoWrites
          /\ \A v \in Workers \ {w} : up'[v] = up[v]
        BY <1>3 DEF PutReadNote, PutInsert, PutReadBlob, PutTitle, PutFlush, PromoteChunks,
                    RemoveReadFile, RemoveLoadChunks, RemoveChunks, RemoveFlush, RemoveCascade,
                    RecomputeNote, RecomputeBlob, RecomputeFiles, DeleteMark, DeleteBlob,
                    DeleteFiles, RowsInv, TypeOK
    <2>3. UNCHANGED uploads /\ OthersStay(w) /\ pc'[w] \notin Watched
        BY <2>1, <2>2 DEF NoWrites, OthersStay, RowsInv, TypeOK
    <2> QED BY <2>3, UnwatchedUploads
<1> QED BY <1>1, <1>2, <1>3, CompleteUploads, CommitCompleteUploads DEF NoteStep

LEMMA NextUploadsInv == RowsInv /\ RowsInv' /\ UploadsInv /\ [Next]_vars => UploadsInv'
<1> SUFFICES ASSUME RowsInv, RowsInv', UploadsInv, [Next]_vars PROVE UploadsInv'
    OBVIOUS
<1>1. ASSUME NEW w \in Workers, Request(w) \/ Step(w) PROVE UploadsInv'
    BY <1>1, RequestUploads, UploadStepUploads, NoteStepUploads DEF Step
<1>2. ASSUME NEW w \in Workers, Crash(w) \/ DeadlockVictim(w) PROVE UploadsInv'
    BY <1>2, RollBackUploads DEF Crash, DeadlockVictim
<1>3. CASE UNCHANGED <<uploads, pc, req, up>>
    <2>1. UNCHANGED <<sessions, staged, issued, pc, req, up>>
        BY <1>3 DEF uploads
    <2>2. CounterNeverOvercounts' /\ StagedChunksFit'
        BY <2>1 DEF UploadsInv, CounterNeverOvercounts, StagedChunksFit, OpenSessions
    <2>3. WorkersOK'
        BY <2>1 DEF UploadsInv, WorkersOK, SnapshotFits, WholeLoaded, OpenSessions
    <2> QED BY <2>2, <2>3 DEF UploadsInv
<1> QED BY <1>1, <1>2, <1>3 DEF Next, Tick, vars, locals

LEMMA InitUploadsInv == Init => UploadsInv
<1> SUFFICES ASSUME Init PROVE UploadsInv
    OBVIOUS
<1>1. /\ DOMAIN sessions = {} /\ \A u \in UploadIds : DOMAIN staged[u] = {}
      /\ \A w \in Workers : pc[w] = "idle"
    BY DEF Init, NoRows
<1> QED BY <1>1 DEF UploadsInv, CounterNeverOvercounts, StagedChunksFit, OpenSessions,
                    WorkersOK, SnapshotFits, WholeLoaded

LEMMA UploadsInvariant == Spec => []UploadsInv
BY InitRowsInv, NextRowsInv, InitUploadsInv, NextUploadsInv, PTL DEF Spec

-----------------------------------------------------------------------------

\* However chunk requests race with each other, with expiry and with init, a
\* session never counts a chunk that is not staged.
THEOREM NoOvercount == Spec => []CounterNeverOvercounts
<1>1. UploadsInv => CounterNeverOvercounts
    BY DEF UploadsInv
<1> QED BY <1>1, UploadsInvariant, PTL

\* Every staged chunk has a valid index and the length of that index.
THEOREM ChunksFit == Spec => []StagedChunksFit
<1>1. UploadsInv => StagedChunksFit
    BY DEF UploadsInv
<1> QED BY <1>1, UploadsInvariant, PTL

\* What complete accepts is the whole upload, for any size and number of
\* chunks, whatever other requests do to the session.
THEOREM AcceptedIsWhole == Spec => []LoadedIsWhole
<1>1. UploadsInv => LoadedIsWhole
    BY DEF UploadsInv, WorkersOK, WholeLoaded, LoadedIsWhole
<1> QED BY <1>1, UploadsInvariant, PTL

=============================================================================

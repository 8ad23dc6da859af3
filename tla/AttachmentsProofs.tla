-------------------------- MODULE AttachmentsProofs --------------------------
(***************************************************************************)
(* Proofs about clients that keep one request per attachment open and      *)
(* finish it before a cleanup takes the upload away: the upload tables and *)
(* the attachments stay in order, and a download is the attachment its     *)
(* ETag names, for any number of workers, uploads, sizes and contents.     *)
(***************************************************************************)
EXTENDS UploadsProofs, Downloads

\* What the theorems of this module ask of the clients: one request at a time
\* about an attachment, or at all.
TakingTurns == PerAttachment \/ \A v, w \in Workers : v = w

\* The upload a chunk or complete request has found open and goes on with.
InUse(w) ==
    IF req[w].op \in {"chunk", "complete"} /\ pc[w] \notin {"cleanup", "session", "expired"}
      THEN {req[w].u}
      ELSE {}

\* No cleanup is about to abort an upload another request is using.
CleanupSpares ==
    \A v, w \in Workers :
        v # w /\ pc[w] = "cleanup" => up[w].doomed \cap InUse(v) = {}

\* No upload expires while a request is using it: what a client can see to.
InTime ==
    \A w \in Workers : \A u \in InUse(w) : ~Expired(sessions[u])

\* Requests that are open together are about different attachments.
Turns ==
    \A v, w \in Workers :
        v # w /\ req[v].op \in AttachmentOps /\ req[w].op \in AttachmentOps
          => req[v].a # req[w].a

\* Without a race, the counter is the number of staged chunks.
Counted ==
    \A u \in OpenSessions : sessions[u].received_chunks = Cardinality(DOMAIN staged[u])

UploadsOf(a) == {u \in DOMAIN sessions : sessions[u].attachment_id = a}

\* The session a request is using is still open as it was read, and an init
\* has found every session of its attachment that is still open.
OwnUpload(w) ==
    LET r == req[w] IN
    /\ \A u \in InUse(w) : u \in OpenUploads(r.a) /\ sessions[u] = up[w].session
    /\ pc[w] = "expired" => r.u \in UploadsOf(r.a)
    /\ pc[w] = "init_commit" =>
         OpenUploads(r.a) \subseteq up[w].doomed /\ up[w].doomed \subseteq UploadsOf(r.a)

Loaded == {"complete_note", "complete_file", "complete_digest", "complete_upsert"} \cup FileLabels
Storing == {"complete_upsert"} \cup FileLabels

\* From the chunks complete has loaded on, they are the whole upload, still
\* staged, and what is stored in the end; an attachment that is replaced is
\* still the one complete has read.
OwnFile(w) ==
    LET r == req[w]
        s == up[w].session
    IN
    r.op = "complete" =>
        /\ pc[w] \in Loaded =>
             /\ up[w].loaded = staged[r.u]
             /\ DOMAIN staged[r.u] = ChunkIndexes(s.total_size)
        /\ pc[w] \in Storing =>
             seen[w].new.size_bytes = s.total_size /\ seen[w].new.etag = staged[r.u]
        /\ pc[w] \in FileLabels \ {"complete_chunks", "complete_promote"} =>
             up[w].promoted = staged[r.u]
        /\ pc[w] \in Storing \cup {"complete_digest"} =>
             (seen[w].file # None /\ r.a \in DOMAIN attachments
                => seen[w].file = attachments[r.a])

Own(w) == OwnUpload(w) /\ OwnFile(w)

AttachmentsInv ==
    /\ Turns /\ OneOpenUpload /\ Counted /\ AbortedHoldsNothing /\ AttachmentsWhole
    /\ \A w \in Workers : Own(w)

-----------------------------------------------------------------------------

\* Everything a step of w leaves to the other workers.
OthersWait(w) == OthersStay(w) /\ \A v \in Workers \ {w} : seen'[v] = seen[v]

\* What a step may not do to attachment b, unless it deletes it with its note.
RowStays(b) ==
    b \in DOMAIN attachments' => b \in DOMAIN attachments /\ attachments'[b] = attachments[b]

\* A step that is not about attachment b: its open sessions, what is staged
\* for them, and its row.
Untouched(b) ==
    /\ OpenUploads(b)' = OpenUploads(b)
    /\ UploadsOf(b) \subseteq UploadsOf(b)'
    /\ \A u \in OpenUploads(b) : sessions'[u] = sessions[u] /\ staged'[u] = staged[u]
    /\ RowStays(b)

\* What the request of v, about an attachment, needs of another's step: the
\* cleanup may abort other uploads of the attachment than the one in use.
Spared(v) ==
    /\ OpenUploads(req[v].a)' \subseteq OpenUploads(req[v].a)
    /\ UploadsOf(req[v].a) \subseteq UploadsOf(req[v].a)'
    /\ \A u \in InUse(v) :
         u \in OpenUploads(req[v].a)' /\ sessions'[u] = sessions[u] /\ staged'[u] = staged[u]
    /\ RowStays(req[v].a)

LEMMA OwnFrame ==
    ASSUME AttachmentsInv, NEW v \in Workers,
           pc'[v] = pc[v], req'[v] = req[v], up'[v] = up[v], seen'[v] = seen[v],
           LocalsOK(v), req[v].op \in AttachmentOps => Spared(v)
    PROVE  Own(v)'
<1>1. Own(v)
    BY DEF AttachmentsInv
<1>2. InUse(v)' = InUse(v) /\ (InUse(v) # {} => req[v].op \in AttachmentOps)
    BY DEF InUse, AttachmentOps
<1>3. OwnUpload(v)'
    <2>1. pc[v] = "init_commit" => req[v].op = "init"
        BY DEF LocalsOK, LabelOK
    <2>2. pc[v] = "expired" => req[v].op \in {"chunk", "complete"}
        BY DEF LocalsOK, LabelOK
    <2>3. CASE req[v].op \in AttachmentOps
        BY <1>1, <1>2, <2>3 DEF Own, OwnUpload, Spared
    <2>4. CASE req[v].op \notin AttachmentOps
        BY <1>2, <2>1, <2>2, <2>4 DEF OwnUpload, AttachmentOps
    <2> QED BY <2>3, <2>4
<1>4. OwnFile(v)'
    <2>1. CASE req[v].op = "complete" /\ pc[v] \in Loaded
        <3>1. req[v].u \in InUse(v) /\ Spared(v)
            BY <2>1 DEF AttachmentOps, InUse, Loaded, FileLabels
        <3>2. staged'[req[v].u] = staged[req[v].u]
            BY <3>1 DEF Spared
        <3>3. req[v].a \in DOMAIN attachments' =>
                req[v].a \in DOMAIN attachments /\ attachments'[req[v].a] = attachments[req[v].a]
            BY <3>1 DEF Spared, RowStays
        <3> QED BY <1>1, <2>1, <3>2, <3>3 DEF Own, OwnFile
    <2>2. CASE ~(req[v].op = "complete" /\ pc[v] \in Loaded)
        BY <2>2 DEF OwnFile, Loaded, Storing, FileLabels
    <2> QED BY <2>1, <2>2
<1> QED BY <1>3, <1>4 DEF Own

LEMMA SparedFrame ==
    ASSUME RowsInv, AttachmentsInv, NEW w \in Workers, OthersWait(w),
           \A v \in Workers \ {w} : req[v].op \in AttachmentOps => Spared(v),
           Turns', Own(w)',
           OneOpenUpload', Counted', AbortedHoldsNothing', AttachmentsWhole'
    PROVE  AttachmentsInv'
<1>1. ASSUME NEW v \in Workers \ {w}
      PROVE  Own(v)'
    <2>1. pc'[v] = pc[v] /\ req'[v] = req[v] /\ up'[v] = up[v] /\ seen'[v] = seen[v]
        BY DEF OthersWait, OthersStay
    <2>2. LocalsOK(v)
        BY DEF RowsInv, TypeOK
    <2> QED BY <2>1, <2>2, OwnFrame
<1> QED BY <1>1 DEF AttachmentsInv

LEMMA AttachmentsFrame ==
    ASSUME RowsInv, AttachmentsInv, NEW w \in Workers, OthersWait(w),
           \A v \in Workers \ {w} : req[v].op \in AttachmentOps => Untouched(req[v].a),
           Turns', Own(w)',
           OneOpenUpload', Counted', AbortedHoldsNothing', AttachmentsWhole'
    PROVE  AttachmentsInv'
<1>1. ASSUME NEW v \in Workers \ {w}, req[v].op \in AttachmentOps
      PROVE  Spared(v)
    <2>1. Untouched(req[v].a) /\ req'[v] = req[v]
        BY <1>1 DEF OthersWait, OthersStay
    <2>2. InUse(v) \subseteq OpenUploads(req[v].a)
        BY DEF AttachmentsInv, Own, OwnUpload
    <2> QED BY <2>1, <2>2 DEF Untouched, Spared
<1> QED BY <1>1, SparedFrame

\* A step that writes none of these tables.
LEMMA QuietAttachments ==
    ASSUME RowsInv, AttachmentsInv, NEW w \in Workers, OthersWait(w),
           UNCHANGED <<sessions, staged, attachments, chunks>>,
           Turns', Own(w)'
    PROVE  AttachmentsInv'
<1>1. \A b \in Attachments : Untouched(b)
    BY DEF Untouched, OpenUploads, OpenSessions, UploadsOf, RowStays
<1>2. \A v \in Workers : req[v].op \in AttachmentOps => req[v].a \in Attachments
    BY RequestKinds DEF AttachmentOps, RowsInv, TypeOK
<1>3. (OneOpenUpload /\ Counted /\ AbortedHoldsNothing /\ AttachmentsWhole)'
    BY DEF AttachmentsInv, OneOpenUpload, Counted, AbortedHoldsNothing, AttachmentsWhole,
           OpenSessions
<1> QED BY <1>1, <1>2, <1>3, AttachmentsFrame

\* A request that is the same, or over, is about no other attachment.
LEMMA TurnsKept ==
    ASSUME AttachmentsInv, NEW w \in Workers, OthersStay(w),
           req'[w] = req[w] \/ req'[w] = NoReq
    PROVE  Turns'
BY DEF AttachmentsInv, Turns, OthersStay, NoReq, AttachmentOps

LEMMA RespondWaits ==
    ASSUME RowsInv, AttachmentsInv, NEW w \in Workers, Respond(w)
    PROVE  /\ OthersWait(w) /\ Turns' /\ pc'[w] = "idle" /\ Own(w)'
<1>1. OthersStay(w) /\ pc'[w] = "idle" /\ req'[w] = NoReq
    BY RespondStays DEF Respond, RowsInv, TypeOK
<1>2. \A v \in Workers \ {w} : seen'[v] = seen[v]
    BY DEF Respond, RowsInv, TypeOK
<1>3. Own(w)'
    BY <1>1 DEF Own, OwnUpload, OwnFile, InUse, NoReq
<1> QED BY <1>1, <1>2, <1>3, TurnsKept DEF OthersWait

LEMMA RollBackAttachments ==
    ASSUME RowsInv, AttachmentsInv, NEW w \in Workers, RollBack(w)
    PROVE  AttachmentsInv'
<1>1. UNCHANGED <<sessions, staged, attachments, chunks>> /\ Respond(w)
    BY DEF RollBack, tables, uploads
<1> QED BY <1>1, RespondWaits, QuietAttachments

\* Put, DELETE attachment and DELETE note use no upload.
LEMMA NoUpload ==
    ASSUME RowsInv', NEW w \in Workers, req'[w].op \notin {"init", "chunk", "complete"}
    PROVE  Own(w)'
<1>1. pc'[w] \notin {"init_commit", "expired"}
    BY DEF RowsInv, TypeOK, LocalsOK, LabelOK
<1> QED BY <1>1 DEF Own, OwnUpload, OwnFile, InUse

-----------------------------------------------------------------------------
(* One step per action.                                                    *)

\* The cleanup that starts a request about an upload only selects.
LEMMA CleanupAttachments ==
    ASSUME RowsInv, AttachmentsInv, NEW w \in Workers, NEW r \in Requests,
           r.op \in {"init", "chunk", "complete"}, SelectExpired(w, r),
           UNCHANGED <<seen, lock>>, NoWrites, Turns'
    PROVE  AttachmentsInv'
<1>1. /\ OthersWait(w) /\ req'[w] = r
      /\ pc'[w] \in {"cleanup", IF r.op = "init" THEN "init_open" ELSE "session"}
    BY DEF SelectExpired, Goto, OthersWait, OthersStay, RowsInv, TypeOK, AfterCleanup
<1>2. Own(w)'
    BY <1>1 DEF Own, OwnUpload, OwnFile, InUse, Loaded, Storing, FileLabels
<1> QED BY <1>1, <1>2, QuietAttachments DEF NoWrites, tables, uploads

\* A request about an attachment nobody else has a request for.
LEMMA AloneTurns ==
    ASSUME AttachmentsInv, TakingTurns, NEW w \in Workers, NEW a, Alone(a),
           OthersStay(w), req'[w].a = a
    PROVE  Turns'
BY DEF AttachmentsInv, TakingTurns, Turns, OthersStay, Alone

LEMMA RequestAttachments ==
    ASSUME RowsInv, RowsInv', AttachmentsInv, TakingTurns, NEW w \in Workers, Request(w)
    PROVE  AttachmentsInv'
<1>1. ASSUME NEW a \in Attachments, NEW size \in TotalSizes, Alone(a), InitUpload(w, a, size)
      PROVE  AttachmentsInv'
    <2>1. /\ OthersWait(w) /\ req'[w] = [op |-> "init", a |-> a, size |-> size]
          /\ pc'[w] = "init_cleanup" /\ NoWrites
        BY <1>1 DEF InitUpload, Goto, OthersWait, OthersStay, RowsInv, TypeOK
    <2>2. Turns'
        BY <1>1, <2>1, AloneTurns DEF OthersWait
    <2>3. Own(w)'
        BY <2>1 DEF Own, OwnUpload, OwnFile, InUse
    <2> QED BY <2>1, <2>2, <2>3, QuietAttachments DEF NoWrites, tables, uploads
<1>2. ASSUME NEW a \in Attachments, NEW r \in Requests, Alone(a), r.a = a,
             r.op \in {"chunk", "complete"}, SelectExpired(w, r),
             UNCHANGED <<seen, lock>>, NoWrites
      PROVE  AttachmentsInv'
    <2>1. OthersStay(w) /\ req'[w] = r
        BY <1>2 DEF SelectExpired, Goto, OthersStay, RowsInv, TypeOK
    <2>2. Turns'
        BY <1>2, <2>1, AloneTurns
    <2> QED BY <1>2, <2>2, CleanupAttachments
<1>3. ASSUME NEW a \in Attachments, NEW u \in 1 .. issued, NEW i \in Indexes, Alone(a),
             UploadChunk(w, a, u, i)
      PROVE  AttachmentsInv'
    <2>1. u \in UploadIds
        BY TableAssumption DEF RowsInv, TypeOK, UploadsOK, UploadIds
    <2> DEFINE r == [op |-> "chunk", a |-> a, u |-> u, i |-> i]
    <2>2. r \in Requests /\ r.a = a /\ r.op = "chunk"
        BY <2>1 DEF Requests
    <2>3. SelectExpired(w, r) /\ UNCHANGED <<seen, lock>> /\ NoWrites
        BY <1>3 DEF UploadChunk
    <2> HIDE DEF r
    <2> QED BY <1>2, <1>3, <2>2, <2>3
<1>4. ASSUME NEW a \in Attachments, NEW u \in 1 .. issued, NEW match \in FileEtags(a),
             Alone(a), CompleteUpload(w, a, u, match)
      PROVE  AttachmentsInv'
    <2>1. u \in UploadIds
        BY TableAssumption DEF RowsInv, TypeOK, UploadsOK, UploadIds
    <2>2. match \in Etags
        <3>1. NoRows \in ChunkRows
            BY EmptyTable, TableIs DEF ChunkRows
        <3>2. a \in DOMAIN attachments => attachments[a].etag \in ChunkRows
            BY DEF RowsInv, TypeOK, TablesOK, IsTable, File
        <3> QED BY <1>4, <3>1, <3>2 DEF FileEtags, IfMatchValues, AnyEtag, Etags
    <2> DEFINE r == [op |-> "complete", a |-> a, u |-> u, match |-> match]
    <2>3. r \in Requests /\ r.a = a /\ r.op = "complete"
        BY <2>1, <2>2 DEF Requests
    <2>4. SelectExpired(w, r) /\ UNCHANGED <<seen, lock>> /\ NoWrites
        BY <1>4 DEF CompleteUpload
    <2> HIDE DEF r
    <2> QED BY <1>2, <1>4, <2>3, <2>4
<1>5. ASSUME NEW a \in Attachments, Alone(a), RemoveAttachment(w, a)
      PROVE  AttachmentsInv'
    <2>1. /\ OthersWait(w) /\ req'[w] = [op |-> "remove", a |-> a]
          /\ pc'[w] = "remove_file" /\ NoWrites
        BY <1>5 DEF RemoveAttachment, Goto, OthersWait, OthersStay, RowsInv, TypeOK
    <2>2. Turns'
        BY <1>5, <2>1, AloneTurns DEF OthersWait
    <2> QED BY <2>1, <2>2, NoUpload, QuietAttachments DEF NoWrites, tables, uploads
<1>6. ASSUME (\E body \in Bodies, match \in NoteEtags : PutBody(w, body, match)) \/ DeleteNote(w)
      PROVE  AttachmentsInv'
    <2>1. /\ OthersWait(w) /\ req'[w].op \in {"put", "delete"} /\ NoWrites
          /\ pc'[w] \in {"put_note", "delete_mark"}
        BY <1>6 DEF PutBody, DeleteNote, Goto, OthersWait, OthersStay, RowsInv, TypeOK
    <2>2. Turns'
        BY <2>1 DEF AttachmentsInv, Turns, OthersWait, OthersStay, AttachmentOps
    <2> QED BY <2>1, <2>2, NoUpload, QuietAttachments DEF NoWrites, tables, uploads
<1> QED BY <1>1, <1>3, <1>4, <1>5, <1>6 DEF Request, MayCall

\* What Abort does to a session, and what it leaves alone.
LEMMA AbortSessions ==
    ASSUME RowsInv, NEW ids
    PROVE  LET table == Abort(ids, sessions) IN
           /\ DOMAIN table = DOMAIN sessions
           /\ \A u \in DOMAIN sessions :
                /\ table[u].attachment_id = sessions[u].attachment_id
                /\ table[u].expires_at = sessions[u].expires_at
                /\ table[u].status = IF u \in ids THEN "aborted" ELSE sessions[u].status
                /\ u \notin ids => table[u] = sessions[u]
<1>1. \A u \in DOMAIN sessions : sessions[u] \in Session
    BY SessionTypes
<1> QED BY <1>1 DEF Abort, Session

\* A step that aborts sessions no other request is using.
LEMMA AbortAttachments ==
    ASSUME RowsInv, AttachmentsInv, NEW w \in Workers, OthersWait(w), Turns', Own(w)',
           NEW ids, sessions' = Abort(ids, sessions), DropStaged(ids), UNCHANGED tables,
           \A v \in Workers \ {w} : ids \cap InUse(v) = {}
    PROVE  AttachmentsInv'
<1> DEFINE aborted == Abort(ids, sessions)
<1>1. /\ DOMAIN aborted = DOMAIN sessions
      /\ \A u \in DOMAIN sessions :
           /\ aborted[u].attachment_id = sessions[u].attachment_id
           /\ aborted[u].expires_at = sessions[u].expires_at
           /\ aborted[u].status = IF u \in ids THEN "aborted" ELSE sessions[u].status
           /\ u \notin ids => aborted[u] = sessions[u]
    BY AbortSessions
<1>2. sessions' = aborted
    OBVIOUS
<1> HIDE DEF aborted
<1>3. /\ DOMAIN sessions' = DOMAIN sessions
      /\ \A u \in DOMAIN sessions :
           /\ sessions'[u].attachment_id = sessions[u].attachment_id
           /\ sessions'[u].status = IF u \in ids THEN "aborted" ELSE sessions[u].status
           /\ u \notin ids => sessions'[u] = sessions[u]
    BY <1>1, <1>2
<1>4. \A u \in UploadIds : staged'[u] = IF u \in ids THEN NoRows ELSE staged[u]
    BY DroppedType DEF RowsInv, TypeOK
<1>5. \A u \in DOMAIN sessions : u \in UploadIds
    BY SessionTypes
<1>6. OpenSessions' = OpenSessions \ ids /\ OpenSessions \subseteq DOMAIN sessions
    BY <1>3 DEF OpenSessions
<1>7. ASSUME NEW v \in Workers \ {w}, req[v].op \in AttachmentOps
      PROVE  Spared(v)
    <2>1. req'[v] = req[v] /\ ids \cap InUse(v) = {}
        BY DEF OthersWait, OthersStay
    <2>2. OpenUploads(req[v].a)' = OpenUploads(req[v].a) \ ids
        BY <1>3, <1>6, <2>1 DEF OpenUploads
    <2>3. UploadsOf(req[v].a)' = UploadsOf(req[v].a)
        BY <1>3, <2>1 DEF UploadsOf
    <2>4. \A u \in InUse(v) : u \in OpenUploads(req[v].a) /\ u \in DOMAIN sessions
        BY DEF AttachmentsInv, Own, OwnUpload, OpenUploads, OpenSessions
    <2>5. \A u \in InUse(v) : sessions'[u] = sessions[u] /\ staged'[u] = staged[u]
        BY <1>3, <1>4, <1>5, <2>1, <2>4
    <2> QED BY <2>1, <2>2, <2>3, <2>4, <2>5 DEF Spared, RowStays, tables
<1>8. OneOpenUpload'
    BY <1>3, <1>6 DEF OneOpenUpload, AttachmentsInv
<1>9. Counted'
    BY <1>3, <1>4, <1>5, <1>6 DEF Counted, AttachmentsInv
<1>10. AbortedHoldsNothing'
    BY <1>3, <1>4, <1>5 DEF AbortedHoldsNothing, AttachmentsInv
<1>11. AttachmentsWhole'
    BY DEF AttachmentsWhole, AttachmentsInv, tables
<1> QED BY <1>7, <1>8, <1>9, <1>10, <1>11, SparedFrame

LEMMA CommitInitAttachments ==
    ASSUME RowsInv, RowsInv', UploadsInv, AttachmentsInv, NEW w \in Workers, CommitInit(w)
    PROVE  AttachmentsInv'
<1>1. CASE RollBack(w)
    BY <1>1, RollBackAttachments
<1>2. CASE ~RollBack(w)
    <2> DEFINE a == req[w].a
               ids == up[w].doomed
               aborted == Abort(ids, sessions)
               new == NewSession(req[w])
    <2>1. pc[w] = "init_commit" /\ OpenUploads(a) \subseteq ids /\ ids \subseteq UploadsOf(a)
        BY DEF CommitInit, AttachmentsInv, Own, OwnUpload
    <2>2. /\ issued' = issued + 1 /\ sessions' = Upsert(aborted, issued', new)
          /\ DropStaged(ids) /\ Respond(w) /\ UNCHANGED tables
        BY <1>2, <2>1 DEF CommitInit
    <2>3. /\ DOMAIN aborted = DOMAIN sessions
          /\ \A u \in DOMAIN sessions :
               /\ aborted[u].attachment_id = sessions[u].attachment_id
               /\ aborted[u].expires_at = sessions[u].expires_at
               /\ aborted[u].status = IF u \in ids THEN "aborted" ELSE sessions[u].status
               /\ u \notin ids => aborted[u] = sessions[u]
        BY AbortSessions
    <2>4. \A u \in UploadIds : staged'[u] = IF u \in ids THEN NoRows ELSE staged[u]
        BY <2>2, DroppedType DEF RowsInv, TypeOK
    <2>5. /\ \A u \in DOMAIN sessions : u \in UploadIds /\ u \in 1 .. issued
          /\ issued \in Nat /\ issued' \notin DOMAIN sessions /\ issued' \notin 1 .. issued
        BY <2>2, SessionTypes
    <2>6. /\ new.received_chunks = 0 /\ new.status = "in_progress" /\ new.attachment_id = a
        BY DEF NewSession
    <2>7. \A u \in DOMAIN sessions :
            /\ u \in ids => sessions[u].attachment_id = a
            /\ sessions[u].status = "in_progress" /\ sessions[u].attachment_id = a => u \in ids
        BY <2>1 DEF OpenUploads, OpenSessions, UploadsOf
    <2>8. issued' \in UploadIds /\ DOMAIN staged'[issued'] = {}
        <3>1. issued' \in UploadIds
            BY <2>2, <2>5, TableAssumption DEF RowsInv, TypeOK, UploadsOK, UploadIds
        <3>2. DOMAIN staged[issued'] = {}
            BY <2>5, <3>1 DEF UploadsInv, StagedChunksFit
        <3> QED BY <2>4, <3>1, <3>2 DEF NoRows
    <2>9. w \in Workers /\ req[w].op = "init"
        BY <2>1 DEF RowsInv, TypeOK, LocalsOK, LabelOK
    <2> HIDE DEF ids, aborted, new
    <2>10. /\ DOMAIN sessions' = DOMAIN sessions \cup {issued'}
           /\ sessions'[issued'] = new
           /\ \A u \in DOMAIN sessions : sessions'[u] = aborted[u]
        BY <2>2, <2>3, <2>5 DEF Upsert
    <2>11. \A u \in OpenSessions' :
             u # issued' =>
               /\ u \in OpenSessions /\ u \in DOMAIN sessions /\ u \notin ids
               /\ sessions'[u] = sessions[u] /\ staged'[u] = staged[u]
               /\ sessions[u].attachment_id # a
        BY <2>3, <2>4, <2>5, <2>7, <2>10 DEF OpenSessions
    <2>12. \A b \in Attachments \ {a} : Untouched(b)
        <3> SUFFICES ASSUME NEW b \in Attachments \ {a}
                     PROVE  Untouched(b)
            OBVIOUS
        <3>1. \A u \in OpenUploads(b) :
                /\ u \in DOMAIN sessions /\ u \notin ids /\ u \in OpenUploads(b)'
                /\ sessions'[u] = sessions[u] /\ staged'[u] = staged[u]
            BY <2>3, <2>4, <2>5, <2>7, <2>10 DEF OpenUploads, OpenSessions
        <3>2. \A u \in OpenUploads(b)' : u \in OpenUploads(b)
            BY <2>6, <2>10, <2>11 DEF OpenUploads
        <3>3. UploadsOf(b) \subseteq UploadsOf(b)'
            BY <2>3, <2>10 DEF UploadsOf
        <3> QED BY <2>2, <3>1, <3>2, <3>3 DEF Untouched, RowStays, tables
    <2>13. OneOpenUpload'
        BY <2>6, <2>10, <2>11 DEF OneOpenUpload, AttachmentsInv
    <2>14. Counted'
        BY <2>6, <2>8, <2>10, <2>11, FS_EmptySet DEF Counted, AttachmentsInv
    <2>15. AbortedHoldsNothing'
        BY <2>3, <2>4, <2>5, <2>6, <2>10 DEF AbortedHoldsNothing, AttachmentsInv
    <2>16. AttachmentsWhole'
        BY <2>2 DEF AttachmentsWhole, AttachmentsInv, tables
    <2>17. \A v \in Workers \ {w} : req[v].op \in AttachmentOps => Untouched(req[v].a)
        <3>1. \A v \in Workers : req[v].op \in AttachmentOps => req[v].a \in Attachments
            BY RequestKinds DEF AttachmentOps, RowsInv, TypeOK
        <3> QED BY <2>9, <2>12, <3>1 DEF AttachmentsInv, Turns, AttachmentOps
    <2> QED BY <2>2, <2>13, <2>14, <2>15, <2>16, <2>17, RespondWaits, AttachmentsFrame
<1> QED BY <1>1, <1>2

LEMMA ReadSessionAttachments ==
    ASSUME RowsInv, AttachmentsInv, NEW w \in Workers, ReadSession(w)
    PROVE  AttachmentsInv'
<1> DEFINE r == req[w]
           s == sessions[r.u]
<1>1. CASE RollBack(w)
    BY <1>1, RollBackAttachments
<1>2. CASE ~RollBack(w)
    <2>1. /\ pc[w] = "session" /\ r.u \in UploadsOf(r.a) /\ UNCHANGED <<req, seen>> /\ NoWrites
          /\ \/ /\ r.u \in OpenUploads(r.a) /\ up' = [up EXCEPT ![w].session = s]
                /\ pc' = [pc EXCEPT ![w] = IF r.op = "chunk" THEN "chunk_body" ELSE "complete_load"]
             \/ pc' = [pc EXCEPT ![w] = "expired"] /\ up' = up
        BY <1>2 DEF ReadSession, Goto, OpenSessions, OpenUploads, UploadsOf
    <2>2. UNCHANGED <<sessions, staged, attachments, chunks>>
        BY <2>1 DEF NoWrites, tables, uploads
    <2>3. OthersWait(w) /\ req'[w] = r
        BY <2>1 DEF OthersWait, OthersStay, RowsInv, TypeOK
    <2>4. CASE pc'[w] = "expired"
        <3>1. Own(w)'
            BY <2>1, <2>2, <2>3, <2>4
               DEF Own, OwnUpload, OwnFile, InUse, UploadsOf, Loaded, Storing, FileLabels
        <3> QED BY <2>2, <2>3, <3>1, TurnsKept, QuietAttachments DEF OthersWait
    <2>5. CASE pc'[w] # "expired"
        <3>1. /\ up'[w].session = s /\ r.u \in OpenUploads(r.a)
              /\ pc'[w] \in {"chunk_body", "complete_load"}
            BY <2>1, <2>5 DEF RowsInv, TypeOK, Up
        <3>2. OpenUploads(r.a)' = OpenUploads(r.a)
            BY <2>2, <2>3 DEF OpenUploads, OpenSessions
        <3>3. Own(w)'
            BY <2>2, <2>3, <3>1, <3>2 DEF Own, OwnUpload, OwnFile, InUse, Loaded, Storing, FileLabels
        <3> QED BY <2>2, <2>3, <3>3, TurnsKept, QuietAttachments DEF OthersWait
    <2> QED BY <2>4, <2>5
<1> QED BY <1>1, <1>2

LEMMA ReceiveChunkAttachments ==
    ASSUME RowsInv, AttachmentsInv, NEW w \in Workers, NEW data \in Data, ReceiveChunk(w, data)
    PROVE  AttachmentsInv'
<1>1. CASE RollBack(w)
    BY <1>1, RollBackAttachments
<1>2. CASE ~RollBack(w)
    <2>1. PICK rows :
            /\ pc[w] = "chunk_body" /\ pc' = [pc EXCEPT ![w] = "chunk_commit"]
            /\ up' = [up EXCEPT ![w].data = data, ![w].loaded = rows]
            /\ UNCHANGED <<req, seen>> /\ NoWrites
        BY <1>2 DEF ReceiveChunk, Goto
    <2>2. UNCHANGED <<sessions, staged, attachments, chunks>>
        BY <2>1 DEF NoWrites, tables, uploads
    <2>3. OthersWait(w) /\ up'[w].session = up[w].session /\ req'[w] = req[w]
          /\ pc'[w] = "chunk_commit"
        BY <2>1 DEF OthersWait, OthersStay, RowsInv, TypeOK, Up
    <2>4. req[w].op = "chunk" /\ OwnUpload(w)
        BY <2>1 DEF RowsInv, TypeOK, LocalsOK, LabelOK, AttachmentsInv, Own
    <2>5. Own(w)'
        BY <2>1, <2>2, <2>3, <2>4
           DEF Own, OwnUpload, OwnFile, InUse, OpenUploads, OpenSessions
    <2> QED BY <2>2, <2>3, <2>5, TurnsKept, QuietAttachments DEF OthersWait
<1> QED BY <1>1, <1>2

\* A request that writes the row of one open session and what it has staged.
LEMMA StoreAttachments ==
    ASSUME RowsInv, AttachmentsInv, NEW w \in Workers, Respond(w), UNCHANGED tables,
           req[w].op \in AttachmentOps, NEW u \in OpenSessions,
           sessions[u].attachment_id = req[w].a,
           DOMAIN sessions' = DOMAIN sessions,
           \A v \in DOMAIN sessions \ {u} : sessions'[v] = sessions[v],
           \A v \in UploadIds \ {u} : staged'[v] = staged[v],
           sessions'[u].attachment_id = sessions[u].attachment_id,
           sessions'[u].status = sessions[u].status,
           sessions'[u].received_chunks = Cardinality(DOMAIN staged'[u])
    PROVE  AttachmentsInv'
<1>1. \A v \in DOMAIN sessions : v \in UploadIds
    BY SessionTypes
<1>2. OpenSessions' = OpenSessions /\ OpenSessions \subseteq DOMAIN sessions
    BY DEF OpenSessions
<1>3. \A b \in Attachments \ {req[w].a} : Untouched(b)
    <2> SUFFICES ASSUME NEW b \in Attachments \ {req[w].a}
                 PROVE  Untouched(b)
        OBVIOUS
    <2>1. u \notin OpenUploads(b) /\ OpenUploads(b)' = OpenUploads(b)
        BY <1>2 DEF OpenUploads
    <2>2. UploadsOf(b) \subseteq UploadsOf(b)'
        BY DEF UploadsOf
    <2> QED BY <1>1, <1>2, <2>1, <2>2 DEF Untouched, RowStays, OpenUploads, tables
<1>4. \A v \in Workers \ {w} : req[v].op \in AttachmentOps => Untouched(req[v].a)
    <2>1. \A v \in Workers : req[v].op \in AttachmentOps => req[v].a \in Attachments
        BY RequestKinds DEF AttachmentOps, RowsInv, TypeOK
    <2> QED BY <1>3, <2>1 DEF AttachmentsInv, Turns
<1>5. OneOpenUpload'
    BY <1>2 DEF OneOpenUpload, AttachmentsInv
<1>6. Counted'
    BY <1>1, <1>2 DEF Counted, AttachmentsInv
<1>7. AbortedHoldsNothing'
    BY <1>1, <1>2 DEF AbortedHoldsNothing, AttachmentsInv, OpenSessions
<1>8. AttachmentsWhole'
    BY DEF AttachmentsWhole, AttachmentsInv, tables
<1> QED BY <1>4, <1>5, <1>6, <1>7, <1>8, RespondWaits, AttachmentsFrame

LEMMA InsertChunkAttachments ==
    ASSUME RowsInv, AttachmentsInv, NEW w \in Workers, InsertChunk(w)
    PROVE  AttachmentsInv'
<1>1. CASE RollBack(w)
    BY <1>1, RollBackAttachments
<1>2. CASE ~RollBack(w)
    <2> DEFINE u == req[w].u
               i == req[w].i
    <2>1. /\ pc[w] = "chunk_commit" /\ u \in DOMAIN sessions /\ i \notin DOMAIN staged[u]
          /\ sessions' = [sessions EXCEPT ![u] = CountChunk(sessions[u], up[w].session)]
          /\ staged' = [staged EXCEPT ![u] = Upsert(staged[u], i, up[w].data)]
          /\ Respond(w) /\ UNCHANGED tables
        BY <1>2 DEF InsertChunk, StoreChunk
    <2>2. req[w].op = "chunk"
        BY <2>1 DEF RowsInv, TypeOK, LocalsOK, LabelOK
    <2>3. /\ u \in OpenSessions /\ sessions[u].attachment_id = req[w].a
          /\ up[w].session = sessions[u]
          /\ sessions[u].received_chunks = Cardinality(DOMAIN staged[u])
        BY <2>1, <2>2 DEF AttachmentsInv, Own, OwnUpload, InUse, OpenUploads, Counted
    <2>4. u \in UploadIds /\ sessions[u] \in Session
        BY <2>1, SessionTypes
    <2>5. /\ \A v \in UploadIds \ {u} : staged'[v] = staged[v]
          /\ DOMAIN staged'[u] = DOMAIN staged[u] \cup {i}
        BY <2>1, <2>4 DEF RowsInv, TypeOK, UploadsOK, Upsert
    <2>6. Cardinality(DOMAIN staged[u] \cup {i}) = Cardinality(DOMAIN staged[u]) + 1
        BY <2>1, <2>4, StagedTypes, FS_AddElement
    <2>7. /\ sessions'[u] = CountChunk(sessions[u], sessions[u])
          /\ DOMAIN sessions' = DOMAIN sessions
          /\ \A v \in DOMAIN sessions \ {u} : sessions'[v] = sessions[v]
        BY <2>1, <2>3
    <2>8. /\ sessions'[u].attachment_id = sessions[u].attachment_id
          /\ sessions'[u].status = sessions[u].status
          /\ sessions'[u].received_chunks = Cardinality(DOMAIN staged'[u])
        BY <2>3, <2>4, <2>5, <2>6, <2>7 DEF CountChunk, Session
    <2> HIDE DEF u, i
    <2> QED BY <2>1, <2>2, <2>3, <2>5, <2>7, <2>8, StoreAttachments DEF AttachmentOps
<1> QED BY <1>1, <1>2

LEMMA OverwriteChunkAttachments ==
    ASSUME RowsInv, AttachmentsInv, NEW w \in Workers, OverwriteChunk(w)
    PROVE  AttachmentsInv'
<1>1. CASE RollBack(w)
    BY <1>1, RollBackAttachments
<1>2. CASE ~RollBack(w)
    <2> DEFINE u == req[w].u
               i == req[w].i
    <2>1. /\ pc[w] = "chunk_commit" /\ i \in DOMAIN staged[u] /\ sessions' = sessions
          /\ staged' = [staged EXCEPT ![u] = Upsert(staged[u], i, up[w].data)]
          /\ Respond(w) /\ UNCHANGED tables
        BY <1>2 DEF OverwriteChunk, StoreChunk
    <2>2. req[w].op = "chunk"
        BY <2>1 DEF RowsInv, TypeOK, LocalsOK, LabelOK
    <2>3. /\ u \in OpenSessions /\ sessions[u].attachment_id = req[w].a
          /\ sessions[u].received_chunks = Cardinality(DOMAIN staged[u])
        BY <2>1, <2>2 DEF AttachmentsInv, Own, OwnUpload, InUse, OpenUploads, Counted
    <2>4. u \in UploadIds
        BY <2>3, SessionTypes DEF OpenSessions
    <2>5. /\ \A v \in UploadIds \ {u} : staged'[v] = staged[v]
          /\ DOMAIN staged'[u] = DOMAIN staged[u]
        BY <2>1, <2>4 DEF RowsInv, TypeOK, UploadsOK, Upsert
    <2> HIDE DEF u, i
    <2> QED BY <2>1, <2>2, <2>3, <2>5, StoreAttachments DEF AttachmentOps
<1> QED BY <1>1, <1>2

LEMMA LoadChunksAttachments ==
    ASSUME RowsInv, UploadsInv', AttachmentsInv, NEW w \in Workers, LoadChunks(w)
    PROVE  AttachmentsInv'
<1>1. CASE RollBack(w)
    BY <1>1, RollBackAttachments
<1>2. CASE ~RollBack(w)
    <2>1. /\ pc[w] = "complete_load" /\ pc' = [pc EXCEPT ![w] = "complete_note"]
          /\ up' = [up EXCEPT ![w].loaded = staged[req[w].u]]
          /\ UNCHANGED <<req, seen>> /\ NoWrites
        BY <1>2 DEF LoadChunks, Goto
    <2>2. UNCHANGED <<sessions, staged, attachments, chunks>>
        BY <2>1 DEF NoWrites, tables, uploads
    <2>3. OthersWait(w) /\ up'[w].session = up[w].session /\ req'[w] = req[w]
          /\ up'[w].loaded = staged[req[w].u] /\ pc'[w] = "complete_note"
        BY <2>1 DEF OthersWait, OthersStay, RowsInv, TypeOK, Up
    <2>4. req[w].op = "complete" /\ OwnUpload(w)
        BY <2>1 DEF RowsInv, TypeOK, LocalsOK, LabelOK, AttachmentsInv, Own
    <2>5. DOMAIN up'[w].loaded = ChunkIndexes(up'[w].session.total_size)
        BY <2>3 DEF UploadsInv, WorkersOK, WholeLoaded
    <2>6. Own(w)'
        BY <2>1, <2>2, <2>3, <2>4, <2>5
           DEF Own, OwnUpload, OwnFile, InUse, OpenUploads, OpenSessions, Storing, FileLabels
    <2> QED BY <2>2, <2>3, <2>6, TurnsKept, QuietAttachments DEF OthersWait
<1> QED BY <1>1, <1>2

LEMMA AbortExpiredAttachments ==
    ASSUME RowsInv, AttachmentsInv, CleanupSpares, NEW w \in Workers, AbortExpired(w)
    PROVE  AttachmentsInv'
<1>1. CASE RollBack(w)
    BY <1>1, RollBackAttachments
<1>2. CASE ~RollBack(w)
    <2> DEFINE ids == up[w].doomed
    <2>1. /\ pc[w] = "cleanup" /\ sessions' = Abort(ids, sessions) /\ DropStaged(ids)
          /\ up' = [up EXCEPT ![w].doomed = {}]
          /\ pc' = [pc EXCEPT ![w] = AfterCleanup(req[w].op)]
          /\ UNCHANGED <<tables, req, seen>>
        BY <1>2 DEF AbortExpired, Goto
    <2>2. OthersWait(w) /\ req'[w] = req[w] /\ pc'[w] \in {"init_open", "session"}
        BY <2>1 DEF OthersWait, OthersStay, RowsInv, TypeOK, AfterCleanup
    <2>3. Own(w)'
        <3>1. pc'[w] = "init_open" => req[w].op = "init"
            BY <2>1, <2>2 DEF AfterCleanup, RowsInv, TypeOK
        <3> QED BY <2>2, <3>1 DEF Own, OwnUpload, OwnFile, InUse, Loaded, Storing, FileLabels
    <2>4. \A v \in Workers \ {w} : ids \cap InUse(v) = {}
        BY <2>1 DEF CleanupSpares
    <2> HIDE DEF ids
    <2> QED BY <2>1, <2>2, <2>3, <2>4, TurnsKept, AbortAttachments DEF OthersWait
<1> QED BY <1>1, <1>2

LEMMA AbortSessionAttachments ==
    ASSUME RowsInv, AttachmentsInv, NEW w \in Workers, AbortSession(w)
    PROVE  AttachmentsInv'
<1> DEFINE u == req[w].u
<1>1. /\ pc[w] = "expired" /\ sessions' = Abort({u}, sessions) /\ DropStaged({u})
      /\ Respond(w) /\ UNCHANGED tables
    BY DEF AbortSession
<1>2. u \in UploadsOf(req[w].a) /\ req[w].op \in {"chunk", "complete"}
    BY <1>1 DEF AttachmentsInv, Own, OwnUpload, RowsInv, TypeOK, LocalsOK, LabelOK
<1>3. ASSUME NEW v \in Workers \ {w}
      PROVE  {u} \cap InUse(v) = {}
    <2>1. InUse(v) # {} => req[v].op \in AttachmentOps /\ InUse(v) \subseteq UploadsOf(req[v].a)
        BY DEF InUse, AttachmentOps, AttachmentsInv, Own, OwnUpload, OpenUploads, OpenSessions,
               UploadsOf
    <2>2. InUse(v) # {} => req[v].a # req[w].a
        BY <1>2, <2>1 DEF AttachmentsInv, Turns, AttachmentOps
    <2> QED BY <1>2, <2>1, <2>2 DEF UploadsOf
<1> HIDE DEF u
<1> QED BY <1>1, <1>3, RespondWaits, AbortAttachments

LEMMA UploadStepAttachments ==
    ASSUME RowsInv, RowsInv', UploadsInv, UploadsInv', AttachmentsInv, CleanupSpares,
           NEW w \in Workers, UploadStep(w)
    PROVE  AttachmentsInv'
<1>1. CASE InitCleanup(w)
    <2>1. req[w].op = "init" /\ req[w] \in Requests
        BY <1>1 DEF InitCleanup, RowsInv, TypeOK, LocalsOK, LabelOK
    <2>2. OthersStay(w) /\ req'[w] = req[w]
        BY <1>1 DEF InitCleanup, SelectExpired, Goto, OthersStay, RowsInv, TypeOK
    <2>3. SelectExpired(w, req[w]) /\ UNCHANGED <<seen, lock>> /\ NoWrites
        BY <1>1 DEF InitCleanup
    <2> QED BY <2>1, <2>2, <2>3, TurnsKept, CleanupAttachments
<1>2. CASE SelectOpen(w)
    <2>1. /\ pc[w] = "init_open" /\ pc' = [pc EXCEPT ![w] = "init_commit"]
          /\ up' = [up EXCEPT ![w].doomed = OpenUploads(req[w].a)]
          /\ UNCHANGED <<req, seen>> /\ NoWrites
        BY <1>2 DEF SelectOpen, Goto
    <2>2. UNCHANGED <<sessions, staged, attachments, chunks>>
        BY <2>1 DEF NoWrites, tables, uploads
    <2>3. OthersWait(w) /\ up'[w].doomed = OpenUploads(req[w].a) /\ req'[w] = req[w]
          /\ pc'[w] = "init_commit"
        BY <2>1 DEF OthersWait, OthersStay, RowsInv, TypeOK, Up
    <2>4. req[w].op = "init"
        BY <2>1 DEF RowsInv, TypeOK, LocalsOK, LabelOK
    <2>5. Own(w)'
        BY <2>2, <2>3, <2>4
           DEF Own, OwnUpload, OwnFile, InUse, OpenUploads, OpenSessions, UploadsOf
    <2> QED BY <2>2, <2>3, <2>5, TurnsKept, QuietAttachments DEF OthersWait
<1> QED BY <1>1, <1>2, AbortExpiredAttachments, AbortSessionAttachments, CommitInitAttachments, ReadSessionAttachments,
           ReceiveChunkAttachments, InsertChunkAttachments, OverwriteChunkAttachments,
           LoadChunksAttachments
        DEF UploadStep

\* While its upload is left alone, what complete selects again is what it has
\* loaded.
LEMMA StillStagedAll ==
    ASSUME RowsInv, AttachmentsInv, NEW w \in Workers, req[w].op = "complete", pc[w] \in Loaded
    PROVE  StillStaged(w) = staged[req[w].u]
<1>1. up[w].loaded = staged[req[w].u]
    BY DEF AttachmentsInv, Own, OwnFile
<1>2. up[w].loaded \in ChunkRows
    BY DEF RowsInv, TypeOK, Up
<1>3. up[w].loaded = [i \in DOMAIN up[w].loaded |-> up[w].loaded[i]]
    BY <1>2, TableIs DEF ChunkRows, IsTable
<1> QED BY <1>1, <1>3 DEF StillStaged, Restrict

\* The statements of complete from the note's row to the promoted chunks.
LEMMA CompleteAttachments ==
    ASSUME RowsInv, AttachmentsInv, NEW w \in Workers,
           \/ CompleteReadNote(w) \/ CompleteReadFile(w) \/ ComputeDigest(w)
           \/ UpsertFile(w) \/ DeleteChunks(w) \/ PromoteChunks(w)
    PROVE  AttachmentsInv'
<1>1. CASE RollBack(w)
    BY <1>1, RollBackAttachments
<1>2. CASE ~RollBack(w)
    <2>1. /\ req' = req /\ NoWrites
          /\ \A v \in Workers \ {w} : seen'[v] = seen[v] /\ up'[v] = up[v] /\ pc'[v] = pc[v]
        BY <1>2 DEF CompleteReadNote, CompleteReadFile, ComputeDigest, UpsertFile, DeleteChunks,
                    PromoteChunks, Goto, RowsInv, TypeOK
    <2>2. UNCHANGED <<sessions, staged, attachments, chunks>>
        BY <2>1 DEF NoWrites, tables, uploads
    <2>3. OthersWait(w)
        BY <2>1 DEF OthersWait, OthersStay
    <2>4. pc[w] \in Loaded
        BY <1>2 DEF CompleteReadNote, CompleteReadFile, ComputeDigest, UpsertFile, DeleteChunks,
                    PromoteChunks, Loaded, FileLabels
    <2>5. req[w].op = "complete"
        BY <1>2 DEF CompleteReadNote, CompleteReadFile, ComputeDigest, UpsertFile, DeleteChunks,
                    PromoteChunks, RowsInv, TypeOK, LocalsOK, LabelOK
    <2>6. OwnUpload(w) /\ OwnFile(w) /\ pc[w] # "session"
        BY <2>4 DEF AttachmentsInv, Own, Loaded, FileLabels
    <2>7. /\ up'[w].session = up[w].session /\ up'[w].loaded = up[w].loaded
          /\ pc'[w] \in Loaded
        BY <1>2 DEF CompleteReadNote, CompleteReadFile, ComputeDigest, UpsertFile, DeleteChunks,
                    PromoteChunks, Goto, RowsInv, TypeOK, Up, Loaded, FileLabels
    <2>8. OwnUpload(w)'
        BY <2>1, <2>2, <2>4, <2>5, <2>6, <2>7
           DEF OwnUpload, InUse, OpenUploads, OpenSessions, Loaded, FileLabels
    <2>9. OwnFile(w)'
        <3> DEFINE r == req[w]
                   s == up[w].session
        <3>1. up'[w].loaded = staged[r.u] /\ DOMAIN staged[r.u] = ChunkIndexes(s.total_size)
            BY <2>4, <2>5, <2>6, <2>7 DEF OwnFile
        <3>2. CASE CompleteReadNote(w)
            <4>1. pc'[w] = "complete_file"
                BY <1>2, <3>2 DEF CompleteReadNote, Goto, RowsInv, TypeOK
            <4> QED BY <2>1, <2>2, <2>7, <3>1, <4>1 DEF OwnFile, Storing, FileLabels
        <3>3. CASE CompleteReadFile(w)
            <4>1. /\ pc'[w] = "complete_digest"
                  /\ r.a \in DOMAIN attachments => seen'[w].file = attachments[r.a]
                BY <1>2, <3>3 DEF CompleteReadFile, Goto, RowsInv, TypeOK, Seen
            <4> QED BY <2>1, <2>2, <2>7, <3>1, <4>1 DEF OwnFile, Storing, FileLabels
        <3>4. CASE ComputeDigest(w)
            <4>1. /\ pc[w] = "complete_digest" /\ pc'[w] = "complete_upsert"
                  /\ seen'[w].file = seen[w].file
                  /\ seen'[w].new.size_bytes = s.total_size /\ seen'[w].new.etag = StillStaged(w)
                BY <3>4 DEF ComputeDigest, Goto, RowsInv, TypeOK, Seen
            <4> QED BY <2>1, <2>2, <2>4, <2>5, <2>6, <2>7, <3>1, <4>1, StillStagedAll
                    DEF OwnFile, Storing, FileLabels
        <3>5. CASE UpsertFile(w) \/ DeleteChunks(w)
            <4>1. /\ pc[w] \in {"complete_upsert", "complete_chunks"}
                  /\ pc'[w] \in {"complete_chunks", "complete_promote"}
                  /\ seen'[w] = seen[w]
                BY <1>2, <3>5 DEF UpsertFile, DeleteChunks, Goto, RowsInv, TypeOK
            <4> QED BY <2>1, <2>2, <2>5, <2>6, <2>7, <3>1, <4>1 DEF OwnFile, Storing, FileLabels
        <3>6. CASE PromoteChunks(w)
            <4>1. /\ pc[w] = "complete_promote" /\ pc'[w] = "recompute"
                  /\ seen'[w] = seen[w] /\ up'[w].promoted = StillStaged(w)
                BY <3>6 DEF PromoteChunks, Goto, RowsInv, TypeOK, Up
            <4> QED BY <2>1, <2>2, <2>4, <2>5, <2>6, <2>7, <3>1, <4>1, StillStagedAll
                    DEF OwnFile, Storing, FileLabels
        <3> QED BY <3>2, <3>3, <3>4, <3>5, <3>6
    <2> QED BY <2>1, <2>2, <2>3, <2>8, <2>9, TurnsKept, QuietAttachments DEF OthersWait, Own
<1> QED BY <1>1, <1>2

\* The recompute of complete changes neither what it stores nor its upload.
LEMMA RecomputeAttachments ==
    ASSUME RowsInv, RowsInv', AttachmentsInv, NEW w \in Workers,
           RecomputeNote(w) \/ RecomputeBlob(w) \/ RecomputeFiles(w)
    PROVE  AttachmentsInv'
<1>1. CASE RollBack(w)
    BY <1>1, RollBackAttachments
<1>2. CASE ~RollBack(w)
    <2> DEFINE Recompute == {"recompute", "recompute_blob", "recompute_files"}
    <2>1. /\ req' = req /\ up' = up /\ NoWrites /\ pc[w] \in Recompute
          /\ pc'[w] \in {"recompute_blob", "recompute_files", "commit"}
          /\ \A v \in Workers \ {w} : seen'[v] = seen[v] /\ pc'[v] = pc[v]
        BY <1>2 DEF RecomputeNote, RecomputeBlob, RecomputeFiles, Goto, RowsInv, TypeOK
    <2>2. UNCHANGED <<sessions, staged, attachments, chunks>>
        BY <2>1 DEF NoWrites, tables, uploads
    <2>3. seen'[w].new = seen[w].new /\ seen'[w].file = seen[w].file
        BY <1>2 DEF RecomputeNote, RecomputeBlob, RecomputeFiles, RowsInv, TypeOK, Seen
    <2>4. OthersWait(w)
        BY <2>1 DEF OthersWait, OthersStay
    <2>5. OwnUpload(w) /\ OwnFile(w)
        BY DEF AttachmentsInv, Own
    <2>6. Own(w)'
        <3>1. OwnUpload(w)'
            BY <2>1, <2>2, <2>5 DEF OwnUpload, InUse, OpenUploads, OpenSessions
        <3>2. OwnFile(w)'
            BY <2>1, <2>2, <2>3, <2>5 DEF OwnFile, Loaded, Storing, FileLabels
        <3> QED BY <3>1, <3>2 DEF Own
    <2> QED BY <2>1, <2>2, <2>4, <2>6, TurnsKept, QuietAttachments DEF OthersWait
<1> QED BY <1>1, <1>2

\* What AttachmentsWhole says of one attachment.
WholeFile(row, rows) ==
    /\ DOMAIN rows = ChunkIndexes(row.size_bytes)
    /\ \A i \in ChunkIndexes(row.size_bytes) :
         rows[i].len = expected_attachment_chunk_size(row.size_bytes, i)
    /\ row.etag = rows

\* The attachment complete stores is the upload, also when it replaces one:
\* the columns it does not write are the same.
LEMMA StoredFile ==
    ASSUME RowsInv, AttachmentsInv, NEW w \in Workers, pc[w] = "commit", req[w].op = "complete"
    PROVE  LET a == req[w].a
               file == IF seen[w].file = None
                         THEN seen[w].new
                         ELSE UpdatedFile(attachments[a], seen[w].file, seen[w].new)
           IN
           file.size_bytes = up[w].session.total_size /\ file.etag = staged[req[w].u]
<1>1. /\ seen[w].new.size_bytes = up[w].session.total_size
      /\ seen[w].new.etag = staged[req[w].u]
      /\ seen[w].file # None /\ req[w].a \in DOMAIN attachments
           => seen[w].file = attachments[req[w].a]
    BY DEF AttachmentsInv, Own, OwnFile, Storing, FileLabels
<1>2. seen[w].file = None <=> req[w].a \notin DOMAIN attachments
    BY DEF RowsInv, Held, FileHeld, FileLabels
<1> QED BY <1>1, <1>2 DEF UpdatedFile, Changed

LEMMA CommitCompleteAttachments ==
    ASSUME RowsInv, UploadsInv, AttachmentsInv, NEW w \in Workers, CommitComplete(w)
    PROVE  AttachmentsInv'
<1> DEFINE a == req[w].a
           gone == req[w].u
           file == IF seen[w].file = None
                     THEN seen[w].new
                     ELSE UpdatedFile(attachments[a], seen[w].file, seen[w].new)
           size == up[w].session.total_size
<1>1. /\ pc[w] = "commit" /\ req[w].op = "complete"
      /\ attachments' = Upsert(attachments, a, file)
      /\ chunks' = [chunks EXCEPT ![a] = up[w].promoted]
      /\ sessions' = Without(sessions, {gone}) /\ DropStaged({gone}) /\ Respond(w)
    BY DEF CommitComplete
<1>2. a \in Attachments
    BY <1>1, RequestKinds DEF RowsInv, TypeOK
<1>3. /\ gone \in OpenSessions /\ sessions[gone].attachment_id = a
      /\ sessions[gone] = up[w].session
      /\ up[w].promoted = staged[gone] /\ DOMAIN staged[gone] = ChunkIndexes(size)
    BY <1>1 DEF AttachmentsInv, Own, OwnUpload, OwnFile, InUse, OpenUploads, Loaded, FileLabels
<1>4. file.size_bytes = size /\ file.etag = staged[gone]
    BY <1>1, StoredFile
<1>5. gone \in UploadIds /\ \A u \in DOMAIN sessions : u \in UploadIds
    BY <1>3, SessionTypes DEF OpenSessions
<1>6. \A i \in ChunkIndexes(size) :
        staged[gone][i].len = expected_attachment_chunk_size(size, i)
    BY <1>3, <1>5 DEF UploadsInv, StagedChunksFit
<1> HIDE DEF a, gone, file, size
<1>7. /\ DOMAIN sessions' = DOMAIN sessions \ {gone}
      /\ \A u \in DOMAIN sessions \ {gone} : sessions'[u] = sessions[u]
    BY <1>1 DEF Without, Restrict
<1>8. \A u \in UploadIds : staged'[u] = IF u = gone THEN NoRows ELSE staged[u]
    BY <1>1, DroppedType DEF RowsInv, TypeOK
<1>9. OpenSessions' = OpenSessions \ {gone} /\ OpenSessions \subseteq DOMAIN sessions
    BY <1>7 DEF OpenSessions
<1>10. /\ DOMAIN attachments' = DOMAIN attachments \cup {a}
       /\ attachments'[a] = file
       /\ \A b \in DOMAIN attachments \ {a} : attachments'[b] = attachments[b]
    BY <1>1 DEF Upsert
<1>11. chunks'[a] = staged[gone] /\ \A b \in Attachments \ {a} : chunks'[b] = chunks[b]
    BY <1>1, <1>2, <1>3 DEF RowsInv, TypeOK, TablesOK
<1>12. \A b \in Attachments \ {a} : Untouched(b)
    <2> SUFFICES ASSUME NEW b \in Attachments \ {a}
                 PROVE  Untouched(b)
        OBVIOUS
    <2>1. gone \notin OpenUploads(b)
        BY <1>3 DEF OpenUploads
    <2>2. OpenUploads(b)' = OpenUploads(b)
        BY <1>7, <1>9, <2>1 DEF OpenUploads
    <2>3. \A u \in OpenUploads(b) : sessions'[u] = sessions[u] /\ staged'[u] = staged[u]
        BY <1>5, <1>7, <1>8, <1>9, <2>1 DEF OpenUploads
    <2>4. UploadsOf(b) \subseteq UploadsOf(b)'
        BY <1>3, <1>7 DEF UploadsOf
    <2> QED BY <1>10, <2>2, <2>3, <2>4 DEF Untouched, RowStays
<1>13. \A v \in Workers \ {w} : req[v].op \in AttachmentOps => Untouched(req[v].a)
    <2>1. \A v \in Workers : req[v].op \in AttachmentOps => req[v].a \in Attachments
        BY RequestKinds DEF AttachmentOps, RowsInv, TypeOK
    <2> QED BY <1>1, <1>12, <2>1 DEF AttachmentsInv, Turns, AttachmentOps, a
<1>14. OneOpenUpload'
    BY <1>7, <1>9 DEF OneOpenUpload, AttachmentsInv
<1>15. Counted'
    BY <1>5, <1>7, <1>8, <1>9 DEF Counted, AttachmentsInv
<1>16. AbortedHoldsNothing'
    BY <1>5, <1>7, <1>8 DEF AbortedHoldsNothing, AttachmentsInv
<1>17. AttachmentsWhole'
    <2>1. /\ \A b \in DOMAIN attachments : WholeFile(attachments[b], chunks[b])
          /\ \A b \in Attachments \ DOMAIN attachments : chunks[b] = NoRows
          /\ DOMAIN attachments \subseteq Attachments
        BY DEF AttachmentsInv, AttachmentsWhole, WholeFile, RowsInv, TypeOK, TablesOK, IsTable
    <2>2. WholeFile(file, staged[gone])
        BY <1>3, <1>4, <1>6 DEF WholeFile
    <2>3. /\ \A b \in DOMAIN attachments' : WholeFile(attachments'[b], chunks'[b])
          /\ \A b \in Attachments \ DOMAIN attachments' : chunks'[b] = NoRows
        BY <1>10, <1>11, <2>1, <2>2
    <2> QED BY <2>3 DEF AttachmentsWhole, WholeFile
<1> QED BY <1>1, <1>13, <1>14, <1>15, <1>16, <1>17, RespondWaits, AttachmentsFrame

\* DELETE attachment and DELETE note take the row with its chunks.
LEMMA CommitRemoveAttachments ==
    ASSUME RowsInv, AttachmentsInv, NEW w \in Workers, CommitRemove(w) \/ CommitDelete(w)
    PROVE  AttachmentsInv'
<1>1. Respond(w) /\ UNCHANGED <<sessions, staged, issued>>
    BY DEF CommitRemove, CommitDelete, uploads
<1> DEFINE gone == Deleted(w)
<1>2. /\ DOMAIN attachments' = DOMAIN attachments \ gone
      /\ \A b \in DOMAIN attachments' : attachments'[b] = attachments[b]
      /\ \A b \in Attachments : chunks'[b] = IF b \in gone THEN NoRows ELSE chunks[b]
    BY DEF CommitRemove, CommitDelete, DeleteFilesOf, Without, Restrict
<1> HIDE DEF gone
<1>3. \A b \in Attachments : Untouched(b)
    BY <1>1, <1>2 DEF Untouched, RowStays, OpenUploads, OpenSessions, UploadsOf
<1>4. \A v \in Workers : req[v].op \in AttachmentOps => req[v].a \in Attachments
    BY RequestKinds DEF AttachmentOps, RowsInv, TypeOK
<1>5. (OneOpenUpload /\ Counted /\ AbortedHoldsNothing)'
    BY <1>1 DEF AttachmentsInv, OneOpenUpload, Counted, AbortedHoldsNothing, OpenSessions
<1>6. AttachmentsWhole'
    <2>1. /\ \A b \in DOMAIN attachments : WholeFile(attachments[b], chunks[b])
          /\ \A b \in Attachments \ DOMAIN attachments : chunks[b] = NoRows
          /\ DOMAIN attachments \subseteq Attachments
        BY DEF AttachmentsInv, AttachmentsWhole, WholeFile, RowsInv, TypeOK, TablesOK, IsTable
    <2>2. /\ \A b \in DOMAIN attachments' : WholeFile(attachments'[b], chunks'[b])
          /\ \A b \in Attachments \ DOMAIN attachments' : chunks'[b] = NoRows
        BY <1>2, <2>1
    <2> QED BY <2>2 DEF AttachmentsWhole, WholeFile
<1> QED BY <1>1, <1>3, <1>4, <1>5, <1>6, RespondWaits, AttachmentsFrame

LEMMA NoteStepAttachments ==
    ASSUME RowsInv, RowsInv', UploadsInv, AttachmentsInv, NEW w \in Workers, NoteStep(w)
    PROVE  AttachmentsInv'
<1>1. CASE RollBack(w)
    BY <1>1, RollBackAttachments
<1>2. CASE CommitPut(w)
    BY <1>2, RespondWaits, QuietAttachments DEF CommitPut, uploads
<1>3. ASSUME ~RollBack(w),
             \/ PutReadNote(w) \/ PutInsert(w) \/ PutReadBlob(w) \/ PutTitle(w) \/ PutFlush(w)
             \/ RemoveReadFile(w) \/ RemoveLoadChunks(w) \/ RemoveChunks(w) \/ RemoveFlush(w)
             \/ RemoveCascade(w) \/ DeleteMark(w) \/ DeleteBlob(w) \/ DeleteFiles(w)
      PROVE  AttachmentsInv'
    <2>1. /\ req' = req /\ NoWrites
          /\ \A v \in Workers \ {w} : seen'[v] = seen[v] /\ up'[v] = up[v] /\ pc'[v] = pc[v]
        BY <1>3 DEF PutReadNote, PutInsert, PutReadBlob, PutTitle, PutFlush, RemoveReadFile,
                    RemoveLoadChunks, RemoveChunks, RemoveFlush, RemoveCascade, DeleteMark,
                    DeleteBlob, DeleteFiles, Goto, RowsInv, TypeOK
    <2>2. req[w].op \notin {"init", "chunk", "complete"}
        BY <1>3 DEF PutReadNote, PutInsert, PutReadBlob, PutTitle, PutFlush, RemoveReadFile,
                    RemoveLoadChunks, RemoveChunks, RemoveFlush, RemoveCascade, DeleteMark,
                    DeleteBlob, DeleteFiles, RowsInv, TypeOK, LocalsOK, LabelOK
    <2>3. OthersWait(w) /\ Own(w)'
        BY <2>1, <2>2, NoUpload DEF OthersWait, OthersStay
    <2>4. UNCHANGED <<sessions, staged, attachments, chunks>>
        BY <2>1 DEF NoWrites, tables, uploads
    <2> QED BY <2>1, <2>3, <2>4, TurnsKept, QuietAttachments DEF OthersWait
<1> QED BY <1>1, <1>2, <1>3, CompleteAttachments, RecomputeAttachments,
           CommitCompleteAttachments, CommitRemoveAttachments
        DEF NoteStep

LEMMA NextAttachmentsInv ==
    ASSUME TakingTurns
    PROVE  RowsInv /\ RowsInv' /\ UploadsInv /\ UploadsInv' /\ AttachmentsInv /\ CleanupSpares
             /\ [Next]_vars
             => AttachmentsInv'
<1> SUFFICES ASSUME RowsInv, RowsInv', UploadsInv, UploadsInv', AttachmentsInv, CleanupSpares,
                    [Next]_vars
             PROVE  AttachmentsInv'
    OBVIOUS
<1>1. ASSUME NEW w \in Workers, Request(w) \/ Step(w) PROVE AttachmentsInv'
    BY <1>1, RequestAttachments, UploadStepAttachments, NoteStepAttachments DEF Step
<1>2. ASSUME NEW w \in Workers, Crash(w) \/ DeadlockVictim(w) PROVE AttachmentsInv'
    BY <1>2, RollBackAttachments DEF Crash, DeadlockVictim
<1>3. CASE UNCHANGED <<tables, uploads, locals>>
    <2>1. UNCHANGED <<sessions, staged, attachments, chunks, pc, req, up, seen>>
        BY <1>3 DEF tables, uploads, locals
    <2>2. (Turns /\ OneOpenUpload /\ Counted /\ AbortedHoldsNothing /\ AttachmentsWhole)'
        BY <2>1 DEF AttachmentsInv, Turns, OneOpenUpload, Counted, AbortedHoldsNothing,
                    AttachmentsWhole, OpenSessions
    <2>3. \A w \in Workers : Own(w)'
        BY <2>1 DEF AttachmentsInv, Own, OwnUpload, OwnFile, InUse, OpenUploads, OpenSessions,
                    UploadsOf
    <2> QED BY <2>2, <2>3 DEF AttachmentsInv
<1> QED BY <1>1, <1>2, <1>3 DEF Next, Tick, vars

LEMMA InitAttachmentsInv == Init => AttachmentsInv
<1> SUFFICES ASSUME Init PROVE AttachmentsInv
    OBVIOUS
<1>1. /\ DOMAIN sessions = {} /\ DOMAIN attachments = {}
      /\ \A a \in Attachments : chunks[a] = NoRows
      /\ \A w \in Workers : pc[w] = "idle" /\ req[w].op = "none"
    BY DEF Init, NoRows, NoReq
<1> QED BY <1>1 DEF AttachmentsInv, Turns, OneOpenUpload, Counted, AbortedHoldsNothing,
                    AttachmentsWhole, OpenSessions, AttachmentOps, Own, OwnUpload, OwnFile, InUse

LEMMA AttachmentsInvariant ==
    ASSUME TakingTurns
    PROVE  Spec /\ []CleanupSpares => []AttachmentsInv
<1>1. RowsInv /\ RowsInv' /\ UploadsInv /\ UploadsInv' /\ AttachmentsInv /\ CleanupSpares
        /\ [Next]_vars => AttachmentsInv'
    BY NextAttachmentsInv
<1> QED BY <1>1, InitRowsInv, NextRowsInv, InitUploadsInv, NextUploadsInv, InitAttachmentsInv,
           PTL DEF Spec

-----------------------------------------------------------------------------
(* Requests that finish in time are spared by the cleanup.                 *)

\* A cleanup aborts only sessions that have expired.
DoomedExpired ==
    \A w \in Workers : pc[w] = "cleanup" =>
        \A u \in up[w].doomed :
            u \in 1 .. issued /\ (u \in DOMAIN sessions => Expired(sessions[u]))

\* Sessions are never given another time to expire, and time does not go back.
LEMMA SessionsAge ==
    ASSUME RowsInv, [Next]_vars
    PROVE  /\ clock' \in Nat /\ clock <= clock' /\ issued' \in Nat /\ issued <= issued'
           /\ \A u \in 1 .. issued :
                u \in DOMAIN sessions' =>
                  u \in DOMAIN sessions /\ sessions'[u].expires_at = sessions[u].expires_at
<1> DEFINE Ages == \A u \in 1 .. issued :
                     u \in DOMAIN sessions' =>
                       u \in DOMAIN sessions /\ sessions'[u].expires_at = sessions[u].expires_at
           Goal == clock' \in Nat /\ clock <= clock' /\ issued' \in Nat /\ issued <= issued' /\ Ages
<1> SUFFICES Goal
    OBVIOUS
<1>1. clock \in Nat /\ issued \in Nat
    BY ContentAssumption, SessionTypes DEF RowsInv, TypeOK
<1>2. CASE UNCHANGED <<sessions, issued>> /\ UNCHANGED clock
    BY <1>1, <1>2
<1>3. CASE Tick
    BY <1>1, <1>3 DEF Tick, uploads
<1>4. ASSUME NEW w \in Workers, RollBack(w)
      PROVE  Goal
    BY <1>2, <1>4 DEF RollBack, Respond, uploads
<1>5. ASSUME NEW w \in Workers, AbortExpired(w) \/ AbortSession(w), ~RollBack(w)
      PROVE  Goal
    <2>1. (\E ids : sessions' = Abort(ids, sessions)) /\ UNCHANGED <<issued, clock>>
        BY <1>5 DEF AbortExpired, AbortSession, Respond
    <2>2. Ages
        BY <2>1, AbortSessions
    <2> HIDE DEF Ages
    <2> QED BY <1>1, <2>1, <2>2
<1>6. ASSUME NEW w \in Workers, CommitInit(w), ~RollBack(w)
      PROVE  Goal
    <2>1. /\ sessions' = Upsert(Abort(up[w].doomed, sessions), issued', NewSession(req[w]))
          /\ issued' = issued + 1 /\ UNCHANGED clock
        BY <1>6 DEF CommitInit, Respond
    <2>2. \A u \in 1 .. issued : u # issued'
        BY <1>1, <2>1
    <2>3. \A u \in 1 .. issued :
            u \in DOMAIN sessions' =>
              /\ u \in DOMAIN Abort(up[w].doomed, sessions)
              /\ sessions'[u] = Abort(up[w].doomed, sessions)[u]
        BY <2>1, <2>2 DEF Upsert
    <2>4. Ages
        BY <2>3, AbortSessions
    <2> HIDE DEF Ages
    <2> QED BY <1>1, <2>1, <2>4
<1>7. ASSUME NEW w \in Workers, InsertChunk(w), ~RollBack(w)
      PROVE  Goal
    <2>1. /\ req[w].u \in DOMAIN sessions /\ UNCHANGED <<issued, clock>>
          /\ sessions' = [sessions EXCEPT ![req[w].u] =
                            CountChunk(sessions[req[w].u], up[w].session)]
        BY <1>7 DEF InsertChunk, StoreChunk, Respond
    <2>2. Ages
        <3>1. \A u \in DOMAIN sessions : sessions[u] \in Session
            BY SessionTypes
        <3> QED BY <2>1, <3>1 DEF CountChunk, Session
    <2> HIDE DEF Ages
    <2> QED BY <1>1, <2>1, <2>2
<1>8. ASSUME NEW w \in Workers, CommitComplete(w)
      PROVE  Goal
    <2>1. sessions' = Without(sessions, {req[w].u}) /\ UNCHANGED <<issued, clock>>
        BY <1>8 DEF CommitComplete, Respond
    <2>2. Ages
        BY <2>1 DEF Without, Restrict
    <2> HIDE DEF Ages
    <2> QED BY <1>1, <2>1, <2>2
<1>9. ASSUME NEW w \in Workers, Request(w)
      PROVE  UNCHANGED <<sessions, issued>> /\ UNCHANGED clock
    BY <1>9 DEF Request, InitUpload, UploadChunk, CompleteUpload, RemoveAttachment, PutBody,
                DeleteNote, NoWrites, uploads
<1>10. ASSUME NEW w \in Workers, UploadStep(w), ~AbortExpired(w), ~AbortSession(w),
              ~CommitInit(w), ~InsertChunk(w), ~RollBack(w)
       PROVE  UNCHANGED <<sessions, issued>> /\ UNCHANGED clock
    BY <1>10 DEF UploadStep, InitCleanup, SelectOpen, ReadSession, ReceiveChunk, OverwriteChunk,
                 StoreChunk, LoadChunks, Respond, NoWrites, uploads
<1>11. ASSUME NEW w \in Workers, NoteStep(w), ~CommitComplete(w), ~RollBack(w)
       PROVE  UNCHANGED <<sessions, issued>> /\ UNCHANGED clock
    BY <1>11 DEF NoteStep, PutReadNote, PutInsert, PutReadBlob, PutTitle, PutFlush,
                 CompleteReadNote, CompleteReadFile, ComputeDigest, UpsertFile, DeleteChunks,
                 PromoteChunks, RemoveReadFile, RemoveLoadChunks, RemoveChunks, RemoveFlush,
                 RemoveCascade, RecomputeNote, RecomputeBlob, RecomputeFiles,
                 CommitPut, CommitRemove, DeleteMark, DeleteBlob, DeleteFiles, CommitDelete, Respond,
                 NoWrites, uploads
<1>12. CASE UNCHANGED vars
    BY <1>2, <1>12 DEF vars, uploads
<1> HIDE DEF Goal
<1>13. ASSUME NEW w \in Workers, Request(w) \/ Step(w) \/ Crash(w) \/ DeadlockVictim(w)
       PROVE  Goal
    BY <1>2, <1>4, <1>5, <1>6, <1>7, <1>8, <1>9, <1>10, <1>11, <1>13
       DEF Step, Crash, DeadlockVictim
<1> QED BY <1>3, <1>12, <1>13 DEF Next

\* What a cleanup is about to abort is what it has selected.
LEMMA DoomedSelected ==
    ASSUME RowsInv, [Next]_vars, NEW v \in Workers, pc'[v] = "cleanup"
    PROVE  \/ pc[v] = "cleanup" /\ up'[v] = up[v]
           \/ /\ up'[v].doomed = {u \in OpenSessions : Expired(sessions[u])}
              /\ UNCHANGED <<sessions, issued, clock>>
<1> DEFINE Goal == \/ pc[v] = "cleanup" /\ up'[v] = up[v]
                   \/ /\ up'[v].doomed = {u \in OpenSessions : Expired(sessions[u])}
                      /\ UNCHANGED <<sessions, issued, clock>>
<1> SUFFICES Goal
    OBVIOUS
<1>1. ASSUME NEW w \in Workers, w # v, pc'[v] = pc[v] /\ up'[v] = up[v]
      PROVE  Goal
    BY <1>1
<1>2. ASSUME NEW w \in Workers, Respond(w)
      PROVE  Goal
    <2>1. w # v /\ pc'[v] = pc[v] /\ up'[v] = up[v]
        BY <1>2 DEF Respond, RowsInv, TypeOK
    <2> QED BY <1>1, <2>1
<1>3. ASSUME NEW w \in Workers, NEW r, SelectExpired(w, r), NoWrites
      PROVE  Goal
    <2>1. CASE w = v
        BY <1>3, <2>1 DEF SelectExpired, NoWrites, uploads, RowsInv, TypeOK, Up
    <2>2. CASE w # v
        BY <1>3, <2>2 DEF SelectExpired, Goto, RowsInv, TypeOK
    <2> QED BY <2>1, <2>2
<1>4. ASSUME NEW w \in Workers, NEW label, label # "cleanup", Goto(w, label),
             \A x \in Workers \ {w} : up'[x] = up[x]
      PROVE  Goal
    <2>1. w # v
        BY <1>4 DEF Goto, RowsInv, TypeOK
    <2> QED BY <1>4, <2>1 DEF Goto, RowsInv, TypeOK
<1>5. CASE UNCHANGED <<pc, up>>
    BY <1>5
<1> HIDE DEF Goal
<1>6. ASSUME NEW w \in Workers, Request(w)
      PROVE  Goal
    <2>1. CASE \E r : SelectExpired(w, r) /\ NoWrites
        BY <1>3, <2>1
    <2>2. CASE \E label : label # "cleanup" /\ Goto(w, label) /\ up' = up
        BY <1>4, <2>2
    <2> QED BY <1>6, <2>1, <2>2
            DEF Request, InitUpload, UploadChunk, CompleteUpload, RemoveAttachment, PutBody,
                DeleteNote
<1>7. ASSUME NEW w \in Workers, UploadStep(w), ~InitCleanup(w), ~Respond(w)
      PROVE  \E label : /\ label # "cleanup" /\ Goto(w, label)
                        /\ \A x \in Workers \ {w} : up'[x] = up[x]
    <2>1. \A op : AfterCleanup(op) # "cleanup"
        BY DEF AfterCleanup
    <2> QED BY <1>7, <2>1
            DEF UploadStep, AbortExpired, SelectOpen, CommitInit, ReadSession, AbortSession,
                ReceiveChunk, InsertChunk, OverwriteChunk, StoreChunk, LoadChunks, RollBack,
                RowsInv, TypeOK
<1>8. ASSUME NEW w \in Workers, NoteStep(w), ~Respond(w)
      PROVE  \E label : /\ label # "cleanup" /\ Goto(w, label)
                        /\ \A x \in Workers \ {w} : up'[x] = up[x]
    BY <1>8 DEF NoteStep, PutReadNote, PutInsert, PutReadBlob, PutTitle, PutFlush,
                CompleteReadNote, CompleteReadFile, ComputeDigest, UpsertFile, DeleteChunks,
                PromoteChunks, RemoveReadFile, RemoveLoadChunks, RemoveChunks, RemoveFlush,
                RemoveCascade, RecomputeNote, RecomputeBlob, RecomputeFiles,
                CommitPut, CommitComplete, CommitRemove, DeleteMark, DeleteBlob, DeleteFiles, CommitDelete,
                RollBack, RowsInv, TypeOK
<1>9. ASSUME NEW w \in Workers, Step(w)
      PROVE  Goal
    <2>1. CASE InitCleanup(w)
        BY <1>3, <2>1 DEF InitCleanup
    <2> QED BY <1>2, <1>4, <1>7, <1>8, <1>9, <2>1 DEF Step
<1>10. ASSUME NEW w \in Workers, Crash(w) \/ DeadlockVictim(w)
       PROVE  Goal
    BY <1>2, <1>10 DEF Crash, DeadlockVictim, RollBack
<1>11. CASE Tick \/ UNCHANGED vars
    BY <1>5, <1>11 DEF Tick, vars, locals
<1> QED BY <1>6, <1>9, <1>10, <1>11 DEF Next

LEMMA NextDoomedExpired == RowsInv /\ RowsInv' /\ DoomedExpired /\ [Next]_vars => DoomedExpired'
<1> SUFFICES ASSUME RowsInv, RowsInv', DoomedExpired, [Next]_vars,
                    NEW w \in Workers, pc'[w] = "cleanup", NEW u \in up'[w].doomed
             PROVE  /\ u \in 1 .. issued'
                    /\ u \in DOMAIN sessions' => sessions'[u].expires_at < clock'
    BY DEF DoomedExpired, Expired
<1>1. u \in 1 .. issued /\ (u \in DOMAIN sessions => Expired(sessions[u]))
    <2>1. CASE pc[w] = "cleanup" /\ up'[w] = up[w]
        BY <2>1 DEF DoomedExpired
    <2>2. CASE up'[w].doomed = {x \in OpenSessions : Expired(sessions[x])}
        BY <2>2, SessionTypes DEF OpenSessions
    <2> QED BY <2>1, <2>2, DoomedSelected
<1>2. /\ clock <= clock' /\ issued <= issued' /\ issued \in Nat /\ issued' \in Nat
      /\ clock \in Nat /\ clock' \in Nat
    BY SessionsAge, SessionTypes, ContentAssumption DEF RowsInv, TypeOK
<1>3. ASSUME u \in DOMAIN sessions'
      PROVE  sessions'[u].expires_at < clock'
    <2>1. u \in DOMAIN sessions /\ sessions'[u].expires_at = sessions[u].expires_at
        BY <1>1, <1>3, SessionsAge
    <2>2. sessions[u].expires_at \in Nat
        BY <2>1, SessionTypes DEF Session
    <2> QED BY <1>1, <1>2, <2>1, <2>2 DEF Expired
<1> QED BY <1>1, <1>2, <1>3

LEMMA SparedInTime ==
    ASSUME AttachmentsInv, DoomedExpired, InTime
    PROVE  CleanupSpares
<1>1. \A w \in Workers : InUse(w) \subseteq DOMAIN sessions
    BY DEF AttachmentsInv, Own, OwnUpload, OpenUploads, OpenSessions
<1> QED BY <1>1 DEF CleanupSpares, DoomedExpired, InTime

\* Clients that finish with an upload before it expires never lose it to the
\* cleanup another request starts with (uploads.py:35): the hypothesis of the
\* theorems below is one a client can meet.
THEOREM InTimeIsEnough ==
    ASSUME TakingTurns
    PROVE  Spec /\ []InTime => []CleanupSpares
<1>1. Init => DoomedExpired
    BY DEF Init, DoomedExpired
<1>2. RowsInv /\ RowsInv' /\ UploadsInv /\ UploadsInv' /\ AttachmentsInv /\ CleanupSpares
        /\ [Next]_vars => AttachmentsInv'
    BY NextAttachmentsInv
<1>3. AttachmentsInv /\ DoomedExpired /\ InTime => CleanupSpares
    BY SparedInTime
<1> QED BY <1>1, <1>2, <1>3, InitRowsInv, NextRowsInv, InitUploadsInv, NextUploadsInv,
           InitAttachmentsInv, NextDoomedExpired, PTL DEF Spec

-----------------------------------------------------------------------------
(* Downloads.                                                              *)

\* What has been received is what the ETag of the manifest names, and while
\* the server answers no request about the attachment is open: its row is
\* the one that was read, unless the note is deleted.
FetchInv ==
    fetch.at # "idle" =>
        /\ fetch.file \in File
        /\ fetch.got = [i \in DOMAIN fetch.got |-> fetch.file.etag[i]]
        /\ DOMAIN fetch.file.etag = ChunkIndexes(fetch.file.size_bytes)
        /\ fetch.at = "chunk" =>
             /\ fetch.a \in Attachments
             /\ fetch.a \in DOMAIN attachments => attachments[fetch.a] = fetch.row
             /\ \A w \in Workers : req[w].op \in AttachmentOps => req[w].a # fetch.a

\* Only complete and DELETE attachment and note write attachment rows, the
\* first two as requests about the attachment.
LEMMA RowsBelong ==
    ASSUME RowsInv, [Next]_vars, NEW a \in Attachments,
           \A w \in Workers : req[w].op \in AttachmentOps => req[w].a # a
    PROVE  a \in DOMAIN attachments' => a \in DOMAIN attachments /\ attachments'[a] = attachments[a]
<1>1. CASE UNCHANGED attachments
    BY <1>1
<1>2. ASSUME NEW w \in Workers, CommitComplete(w)
      PROVE  a \in DOMAIN attachments' => a \in DOMAIN attachments /\ attachments'[a] = attachments[a]
    <2>1. req[w].op = "complete" /\ req[w].a # a
        BY <1>2 DEF CommitComplete, AttachmentOps
    <2>2. \E file : attachments' = Upsert(attachments, req[w].a, file)
        BY <1>2 DEF CommitComplete
    <2> QED BY <2>1, <2>2 DEF Upsert
<1>3. ASSUME NEW w \in Workers, CommitRemove(w) \/ CommitDelete(w)
      PROVE  a \in DOMAIN attachments' => a \in DOMAIN attachments /\ attachments'[a] = attachments[a]
    BY <1>3 DEF CommitRemove, CommitDelete, DeleteFilesOf, Without, Restrict
<1>4. ASSUME NEW w \in Workers, Request(w) \/ Crash(w) \/ DeadlockVictim(w)
      PROVE  UNCHANGED attachments
    BY <1>4 DEF Request, InitUpload, UploadChunk, CompleteUpload, RemoveAttachment, PutBody,
                DeleteNote, Crash, DeadlockVictim, RollBack, NoWrites, tables
<1>5. ASSUME NEW w \in Workers, UploadStep(w)
      PROVE  UNCHANGED attachments
    BY <1>5 DEF UploadStep, AbortExpired, InitCleanup, SelectOpen, CommitInit, ReadSession,
                AbortSession, ReceiveChunk, InsertChunk, OverwriteChunk, StoreChunk, LoadChunks,
                RollBack, NoWrites, tables
<1>6. ASSUME NEW w \in Workers, NoteStep(w), ~CommitComplete(w), ~CommitRemove(w), ~CommitDelete(w)
      PROVE  UNCHANGED attachments
    BY <1>6 DEF NoteStep, PutReadNote, PutInsert, PutReadBlob, PutTitle, PutFlush,
                CompleteReadNote, CompleteReadFile, ComputeDigest, UpsertFile, DeleteChunks,
                PromoteChunks, RemoveReadFile, RemoveLoadChunks, RemoveChunks, RemoveFlush,
                RemoveCascade, RecomputeNote, RecomputeBlob, RecomputeFiles,
                CommitPut, DeleteMark, DeleteBlob, DeleteFiles, RollBack, NoWrites, tables
<1>7. CASE Tick \/ UNCHANGED vars
    BY <1>1, <1>7 DEF Tick, vars, tables
<1> QED BY <1>1, <1>2, <1>3, <1>4, <1>5, <1>6, <1>7 DEF Next, Step

\* An open request stays what it is until it ends.
LEMMA RequestsStay ==
    ASSUME RowsInv, [Next]_vars, NEW v \in Workers
    PROVE  pc[v] = "idle" \/ req'[v] = req[v] \/ req'[v] = NoReq
<1> DEFINE Goal == pc[v] = "idle" \/ req'[v] = req[v] \/ req'[v] = NoReq
<1> SUFFICES Goal
    OBVIOUS
<1> USE DEF RowsInv, TypeOK
<1>1. ASSUME NEW w \in Workers, Respond(w)
      PROVE  Goal
    BY <1>1 DEF Respond
<1>2. CASE req' = req
    BY <1>2
<1>3. ASSUME NEW w \in Workers, Request(w)
      PROVE  Goal
    <2>1. pc[w] = "idle" /\ \E r : req' = [req EXCEPT ![w] = r]
        BY <1>3 DEF Request, InitUpload, UploadChunk, CompleteUpload, SelectExpired,
                    RemoveAttachment, PutBody, DeleteNote
    <2> QED BY <2>1
<1>4. ASSUME NEW w \in Workers, UploadStep(w)
      PROVE  Goal
    <2>1. CASE InitCleanup(w)
        BY <2>1 DEF InitCleanup, SelectExpired
    <2> QED BY <1>1, <1>2, <1>4, <2>1
            DEF UploadStep, AbortExpired, SelectOpen, CommitInit, ReadSession, AbortSession,
                ReceiveChunk, InsertChunk, OverwriteChunk, StoreChunk, LoadChunks, RollBack
<1>5. ASSUME NEW w \in Workers, NoteStep(w)
      PROVE  Goal
    BY <1>1, <1>2, <1>5
       DEF NoteStep, PutReadNote, PutInsert, PutReadBlob, PutTitle, PutFlush,
           CompleteReadNote, CompleteReadFile, ComputeDigest, UpsertFile, DeleteChunks,
           PromoteChunks, RemoveReadFile, RemoveLoadChunks, RemoveChunks, RemoveFlush,
           RemoveCascade, RecomputeNote, RecomputeBlob, RecomputeFiles,
           CommitPut, CommitComplete, CommitRemove, DeleteMark, DeleteBlob, DeleteFiles, CommitDelete, RollBack
<1>6. ASSUME NEW w \in Workers, Crash(w) \/ DeadlockVictim(w)
      PROVE  Goal
    BY <1>1, <1>6 DEF Crash, DeadlockVictim, RollBack
<1>7. CASE Tick \/ UNCHANGED vars
    BY <1>2, <1>7 DEF Tick, vars, locals
<1> QED BY <1>3, <1>4, <1>5, <1>6, <1>7 DEF Next, Step

DownloadInv == fetch \in Fetch /\ FetchInv

LEMMA WriteFetch ==
    ASSUME PerAttachment, RowsInv, DownloadInv, Write
    PROVE  DownloadInv'
<1>1. fetch' = fetch /\ Next
    BY DEF Write
<1>2. CASE fetch.at = "chunk"
    <2>1. /\ fetch.a \in Attachments
          /\ fetch.a \in DOMAIN attachments => attachments[fetch.a] = fetch.row
          /\ \A w \in Workers : req[w].op \in AttachmentOps => req[w].a # fetch.a
        BY <1>2 DEF DownloadInv, FetchInv
    <2>2. fetch.a \in DOMAIN attachments' => attachments'[fetch.a] = fetch.row
        BY <1>1, <2>1, RowsBelong
    <2>3. ASSUME NEW w \in Workers, req'[w].op \in AttachmentOps
          PROVE  req'[w].a # fetch.a
        <3>1. CASE pc[w] = "idle"
            BY <1>2, <2>3, <3>1 DEF Write
        <3>2. CASE req'[w] = req[w]
            BY <2>1, <2>3, <3>2
        <3>3. CASE req'[w] = NoReq
            BY <2>3, <3>3 DEF NoReq, AttachmentOps
        <3> QED BY <1>1, <3>1, <3>2, <3>3, RequestsStay
    <2> QED BY <1>1, <1>2, <2>1, <2>2, <2>3 DEF DownloadInv, FetchInv
<1>3. CASE fetch.at # "chunk"
    BY <1>1, <1>3 DEF DownloadInv, FetchInv
<1> QED BY <1>2, <1>3

LEMMA ListFetch ==
    ASSUME RowsInv, AttachmentsInv, DownloadInv, ListAttachments
    PROVE  DownloadInv'
<1>1. PICK a \in DOMAIN attachments :
        fetch' = [NothingFetched EXCEPT !.at = "next", !.a = a, !.file = attachments[a]]
    BY DEF ListAttachments
<1>2. /\ fetch'.at = "next" /\ fetch'.a = a /\ fetch'.file = attachments[a]
      /\ fetch'.got = NoRows /\ fetch'.row = None
      /\ fetch' = [at |-> "next", a |-> a, file |-> attachments[a], got |-> NoRows, row |-> None]
    BY <1>1 DEF NothingFetched
<1>3. a \in Attachments /\ attachments[a] \in File
    BY DEF RowsInv, TypeOK, TablesOK, IsTable
<1>4. NoRows \in ChunkRows
    BY EmptyTable, TableIs DEF ChunkRows
<1>5. fetch' \in Fetch
    BY <1>2, <1>3, <1>4 DEF Fetch
<1>6. DOMAIN attachments[a].etag = ChunkIndexes(attachments[a].size_bytes)
    BY DEF AttachmentsInv, AttachmentsWhole
<1>7. NoRows = [i \in DOMAIN NoRows |-> attachments[a].etag[i]]
    BY DEF NoRows
<1> QED BY <1>2, <1>3, <1>5, <1>6, <1>7 DEF DownloadInv, FetchInv

LEMMA GetFetch ==
    ASSUME PerAttachment, RowsInv, DownloadInv, GetChunk
    PROVE  DownloadInv'
<1>1. /\ fetch.at = "next" /\ fetch.a \in DOMAIN attachments /\ Alone(fetch.a)
      /\ fetch' = [fetch EXCEPT !.at = "chunk", !.row = attachments[fetch.a]]
      /\ UNCHANGED <<attachments, req>>
    BY DEF GetChunk, vars, tables, locals
<1>2. fetch.a \in Attachments /\ attachments[fetch.a] \in File
    BY <1>1 DEF RowsInv, TypeOK, TablesOK, IsTable
<1>3. /\ fetch' \in Fetch /\ fetch'.at = "chunk" /\ fetch'.row = attachments[fetch.a]
      /\ fetch'.a = fetch.a /\ fetch'.file = fetch.file /\ fetch'.got = fetch.got
    BY <1>1, <1>2 DEF DownloadInv, Fetch
<1>4. \A w \in Workers : req[w].op \in AttachmentOps => req[w].a # fetch.a
    BY <1>1 DEF Alone
<1> QED BY <1>1, <1>2, <1>3, <1>4 DEF DownloadInv, FetchInv

LEMMA ServeFetch ==
    ASSUME RowsInv, AttachmentsInv, DownloadInv, ServeChunk
    PROVE  DownloadInv'
<1> DEFINE i == NextIndex
           data == chunks[fetch.a][i]
           got == Upsert(fetch.got, i, data)
<1>1. /\ fetch.at = "chunk" /\ i \in DOMAIN chunks[fetch.a]
      /\ fetch.row.etag = fetch.file.etag
      /\ fetch' = [fetch EXCEPT !.at = "next", !.got = got, !.row = None]
    BY DEF ServeChunk, SameVersion
<1>2. /\ fetch.a \in Attachments /\ fetch.got \in ChunkRows
      /\ fetch.a \in DOMAIN attachments => attachments[fetch.a] = fetch.row
      /\ fetch.got = [j \in DOMAIN fetch.got |-> fetch.file.etag[j]]
    BY <1>1 DEF DownloadInv, FetchInv, Fetch
<1>3. chunks[fetch.a] = fetch.file.etag
    <2>1. fetch.a \in DOMAIN attachments
        BY <1>1, <1>2 DEF AttachmentsInv, AttachmentsWhole, NoRows
    <2> QED BY <1>1, <1>2, <2>1 DEF AttachmentsInv, AttachmentsWhole
<1>4. i \in Indexes /\ data \in Data
    <2>1. IsTable(chunks[fetch.a], Indexes, Data)
        BY <1>2, TableIs DEF RowsInv, TypeOK, TablesOK, ChunkRows
    <2> QED BY <1>1, <2>1 DEF IsTable
<1>5. data = fetch.file.etag[i]
    BY <1>3
<1> HIDE DEF i, data
<1>6. got \in ChunkRows
    <2>1. IsTable(fetch.got, Indexes, Data)
        BY <1>2, TableIs DEF ChunkRows
    <2>2. IsTable(got, Indexes, Data)
        BY <1>4, <2>1, UpsertTable
    <2> QED BY <2>2, TableIs DEF ChunkRows
<1>7. got = [j \in DOMAIN got |-> fetch.file.etag[j]]
    BY <1>2, <1>5 DEF Upsert
<1> HIDE DEF got
<1>8. /\ fetch' \in Fetch /\ fetch'.at = "next" /\ fetch'.file = fetch.file
      /\ fetch'.got = got
    BY <1>1, <1>6 DEF DownloadInv, Fetch
<1> QED BY <1>1, <1>7, <1>8 DEF DownloadInv, FetchInv

LEMMA NextDownloadInv ==
    ASSUME PerAttachment
    PROVE  RowsInv /\ AttachmentsInv /\ DownloadInv /\ [DownloadNext]_DownloadVars
             => DownloadInv'
<1> SUFFICES ASSUME RowsInv, AttachmentsInv, DownloadInv, [DownloadNext]_DownloadVars
             PROVE  DownloadInv'
    OBVIOUS
<1>1. CASE Stop
    <2>1. NoRows \in ChunkRows
        BY EmptyTable, TableIs DEF ChunkRows
    <2> QED BY <1>1, <2>1 DEF Stop, NothingFetched, DownloadInv, FetchInv, Fetch
<1>2. CASE UNCHANGED DownloadVars
    BY <1>2 DEF DownloadVars, vars, tables, locals, DownloadInv, FetchInv
<1> QED BY <1>1, <1>2, WriteFetch, ListFetch, GetFetch, ServeFetch DEF DownloadNext

LEMMA InitDownloadInv == DownloadInit => DownloadInv
<1>1. NoRows \in ChunkRows
    BY EmptyTable, TableIs DEF ChunkRows
<1> QED BY <1>1 DEF DownloadInit, NothingFetched, DownloadInv, FetchInv, Fetch

\* A download only reads: every behaviour of Downloads is one of NotesApi.
LEMMA DownloadsOnlyRead == DownloadSpec => Spec
<1>1. DownloadInit => Init
    BY DEF DownloadInit
<1>2. [DownloadNext]_DownloadVars => [Next]_vars
    BY DEF DownloadNext, DownloadVars, Write, ListAttachments, GetChunk, ServeChunk, Stop
<1> QED BY <1>1, <1>2, PTL DEF DownloadSpec, Spec

-----------------------------------------------------------------------------
(* One request at a time about an attachment, each finished before a       *)
(* cleanup takes its upload away.                                          *)

\* What is stored as an attachment is a complete upload, chunk for chunk what
\* its ETag hashes (promote_upload_chunks, service.py:118).
THEOREM AttachmentsAreWhole ==
    ASSUME TakingTurns
    PROVE  Spec /\ []CleanupSpares => []AttachmentsWhole
<1>1. AttachmentsInv => AttachmentsWhole
    BY DEF AttachmentsInv
<1> QED BY <1>1, AttachmentsInvariant, PTL

\* An init leaves no other upload of the attachment open (uploads.py:132).
THEOREM OneUploadOpen ==
    ASSUME TakingTurns
    PROVE  Spec /\ []CleanupSpares => []OneOpenUpload
<1>1. AttachmentsInv => OneOpenUpload
    BY DEF AttachmentsInv
<1> QED BY <1>1, AttachmentsInvariant, PTL

\* No count is lost: the upload whose chunks have all arrived can be completed
\* (uploads.py:223).
THEOREM ArrivedIsCounted ==
    ASSUME TakingTurns
    PROVE  Spec /\ []CleanupSpares => []StagedIsCounted
<1>1. RowsInv /\ AttachmentsInv => StagedIsCounted
    <2> SUFFICES ASSUME RowsInv, AttachmentsInv, NEW u \in OpenSessions,
                        DOMAIN staged[u] = ChunkIndexes(sessions[u].total_size)
                 PROVE  sessions[u].received_chunks = expected_chunks(sessions[u])
        BY DEF StagedIsCounted
    <2> DEFINE n == total_chunks_for_size(sessions[u].total_size)
    <2>1. n \in Nat \ {0}
        BY SessionTypes, ContentAssumption, ChunksCover DEF OpenSessions, Session
    <2> HIDE DEF n
    <2>2. Cardinality(0 .. n - 1) = n
        BY <2>1, FS_Interval
    <2>3. DOMAIN staged[u] = 0 .. n - 1
        BY DEF ChunkIndexes, n
    <2> QED BY <2>2, <2>3 DEF AttachmentsInv, Counted, expected_chunks, n
<1> QED BY <1>1, InitRowsInv, NextRowsInv, AttachmentsInvariant, PTL DEF Spec

\* An aborted upload keeps no bytes (uploads.py:45-48, 66-69), and none arrive.
THEOREM AbortedIsEmpty ==
    ASSUME TakingTurns
    PROVE  Spec /\ []CleanupSpares => []AbortedHoldsNothing
<1>1. AttachmentsInv => AbortedHoldsNothing
    BY DEF AttachmentsInv
<1> QED BY <1>1, AttachmentsInvariant, PTL

\* A download whose chunks all carried the manifest's ETag is the attachment
\* that ETag names, whatever is uploaded or deleted between its requests.
THEOREM DownloadsAreIntact ==
    ASSUME PerAttachment
    PROVE  DownloadSpec /\ []CleanupSpares => []DownloadIntact
<1>1. DownloadInv => DownloadIntact
    <2> SUFFICES ASSUME DownloadInv, fetch.at = "next",
                        DOMAIN fetch.got = ChunkIndexes(fetch.file.size_bytes)
                 PROVE  fetch.got = fetch.file.etag
        BY DEF DownloadIntact
    <2>1. /\ fetch.got = [i \in DOMAIN fetch.got |-> fetch.file.etag[i]]
          /\ DOMAIN fetch.file.etag = DOMAIN fetch.got
          /\ fetch.file.etag \in ChunkRows
        BY DEF DownloadInv, FetchInv, File
    <2>2. fetch.file.etag = [i \in DOMAIN fetch.file.etag |-> fetch.file.etag[i]]
        BY <2>1, TableIs DEF ChunkRows, IsTable
    <2> QED BY <2>1, <2>2
<1>2. RowsInv /\ AttachmentsInv /\ DownloadInv /\ [DownloadNext]_DownloadVars => DownloadInv'
    BY NextDownloadInv
<1>3. DownloadSpec => []RowsInv
    BY DownloadsOnlyRead, InitRowsInv, NextRowsInv, PTL DEF Spec
<1>4. DownloadSpec /\ []CleanupSpares => []AttachmentsInv
    <2>1. TakingTurns
        BY DEF TakingTurns
    <2> QED BY <2>1, DownloadsOnlyRead, AttachmentsInvariant, PTL
<1> QED BY <1>1, <1>2, <1>3, <1>4, InitDownloadInv, PTL DEF DownloadSpec

=============================================================================

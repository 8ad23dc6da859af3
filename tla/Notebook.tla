------------------------------ MODULE Notebook ------------------------------
(***************************************************************************)
(* What the API promises the owner of a note: saving the body, attaching a *)
(* file, removing one and deleting the note each happen at once, a file is *)
(* attached whole, and the note's title, etag and updated_at always        *)
(* describe the body and the files that can be downloaded.  Uploads in     *)
(* progress, expiry and failed requests do not show.                       *)
(***************************************************************************)
EXTENDS Content

CONSTANT StartBody

VARIABLES
    entry,      \* the note as GET /notes lists it
    body,       \* what GET body serves
    manifest,   \* what GET attachments lists
    files       \* what GET chunks serves, per attachment

vars == <<entry, body, manifest, files>>

\* Every way to cut size bytes into chunks of the right lengths.
WholeFiles(size) ==
    {rows \in [ChunkIndexes(size) -> Data] :
        \A i \in ChunkIndexes(size) : rows[i].len = expected_attachment_chunk_size(size, i)}

Init ==
    /\ entry = IF StartBody = None THEN NoNote ELSE NoteRow(StartBody, NoRows)
    /\ body = StartBody
    /\ manifest = NoRows
    /\ files = NoRows

\* The body must declare the attachments the note has.
Save(b) ==
    /\ entry.state # "deleted"
    /\ attachment_stats(manifest) = [count |-> b.count, total |-> b.total]
    /\ body' = b
    /\ entry' = NoteRow(b, manifest)
    /\ UNCHANGED <<manifest, files>>

Attach(a, size, rows, time) ==
    /\ entry.state = "active"
    /\ files' = Upsert(files, a, rows)
    /\ manifest' = Upsert(manifest, a, [size_bytes |-> size, etag |-> rows, updated_at |-> time])
    /\ entry' = NoteRow(body, manifest')
    /\ UNCHANGED body

Detach(a) ==
    /\ a \in DOMAIN manifest
    /\ files' = Without(files, {a})
    /\ manifest' = Without(manifest, {a})
    /\ entry' = NoteRow(body, manifest')
    /\ UNCHANGED body

Trash ==
    /\ entry.state = "active"
    /\ entry' = [entry EXCEPT !.state = "deleted"]
    /\ body' = None
    /\ manifest' = NoRows
    /\ files' = NoRows

Next ==
    \/ \E b \in Bodies : Save(b)
    \/ \E a \in Attachments :
         \/ \E size \in TotalSizes, time \in 0 .. MaxClock :
              \E rows \in WholeFiles(size) : Attach(a, size, rows, time)
         \/ Detach(a)
    \/ Trash

Spec == Init /\ [][Next]_vars

=============================================================================

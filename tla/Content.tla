------------------------------ MODULE Content -------------------------------
(***************************************************************************)
(* The values the tables hold, and the pure functions the handlers apply   *)
(* to them: chunks, attachment rows, bodies, etags and the note's row.     *)
(***************************************************************************)
EXTENDS Chunking, Tables, FiniteSets, FiniteSetsExt

CONSTANTS
    Attachments,   \* attachment ids of the note
    Payloads,      \* contents a chunk's bytes can have
    Bodies,        \* note blobs as parsed: title, updated_at, count, total
    TotalSizes,    \* values of totalSize in requests
    MaxClock,      \* bound: ticks of the clock
    MaxIndex       \* bound: largest chunk index in a request

ASSUME ContentAssumption ==
    /\ TotalSizes \subseteq Nat \ {0}
    /\ MaxIndex \in Nat /\ MaxClock \in Nat
    /\ \A b \in Bodies : b.updated_at \in Nat
    /\ None \notin Bodies

Indexes == 0 .. MaxIndex
Data == [payload : Payloads, len : 1 .. CHUNK_SIZE_BYTES]
\* The chunks stored under one attachment or one upload: index -> data.
ChunkRows == Table(Indexes, Data)

File == [size_bytes : TotalSizes, etag : ChunkRows, updated_at : 0 .. MaxClock]

-----------------------------------------------------------------------------
(* Etags.  SHA-256 is taken as injective, so a digest is kept as what was  *)
(* hashed: the rows of an attachment, or the parts of the composite etag.  *)

compute_composite_etag(body, files) ==
    [body |-> body, files |-> [a \in DOMAIN files |-> files[a].etag]]

Latest(body, files) ==
    Max({body.updated_at} \cup {files[a].updated_at : a \in DOMAIN files})

attachment_stats(files) ==
    [count |-> Cardinality(DOMAIN files),
     total |-> MapThenSumSet(LAMBDA a : files[a].size_bytes, DOMAIN files)]

TotalBytes(rows) == MapThenSumSet(LAMBDA i : rows[i].len, DOMAIN rows)

CompositeEtag == [body : Bodies, files : Table(Attachments, ChunkRows)]

NoteType == [state : {"absent", "active", "deleted"},
             title : {b.title : b \in Bodies} \cup {None},
             etag : CompositeEtag \cup {None}, updated_at : Nat]

NoNote == [state |-> "absent", title |-> None, etag |-> None, updated_at |-> 0]

NoteRow(body, files) ==
    [state |-> "active", title |-> body.title,
     etag |-> compute_composite_etag(body, files),
     updated_at |-> Latest(body, files)]

=============================================================================

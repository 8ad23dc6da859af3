------------------------------ MODULE Downloads ------------------------------
(***************************************************************************)
(* Downloading an attachment in chunks, by the owner (app/notes/router.py) *)
(* or by a recipient (app/shares/router.py), while the handlers of         *)
(* NotesApi run.  Both routes read the attachment's row and then the chunk *)
(* after a check of their own - the note is active, or there is a share -  *)
(* that decides only whether there is an answer at all: Stop stands for    *)
(* its failure.                                                            *)
(***************************************************************************)
EXTENDS NotesApi

VARIABLE fetch     \* the download in progress

\* at: the client is between two requests ("next") or the server between two
\* reads ("chunk"); file: the manifest entry; got: the chunks received; row:
\* the attachment row the server has read.
Fetch == [at : {"idle", "next", "chunk"}, a : Attachments \cup {None},
          file : File \cup {None}, got : ChunkRows, row : File \cup {None}]
NothingFetched == [at |-> "idle", a |-> None, file |-> None, got |-> NoRows, row |-> None]

DownloadVars == <<vars, fetch>>

\* The manifest: rows the client picks an attachment from.
ListAttachments ==
    /\ fetch.at = "idle"
    /\ \E a \in DOMAIN attachments :
         fetch' = [NothingFetched EXCEPT !.at = "next", !.a = a, !.file = attachments[a]]
    /\ UNCHANGED vars

\* The chunks are requested in their order.
NextIndex == Cardinality(DOMAIN fetch.got)

Stop == fetch.at # "idle" /\ fetch' = NothingFetched /\ UNCHANGED vars

\* GET .../chunks/{NextIndex}: the attachment's row.
GetChunk ==
    /\ fetch.at = "next"
    /\ NextIndex \in ChunkIndexes(fetch.file.size_bytes)
    /\ Alone(fetch.a)
    /\ fetch.a \in DOMAIN attachments
    /\ fetch' = [fetch EXCEPT !.at = "chunk", !.row = attachments[fetch.a]]
    /\ UNCHANGED vars

\* Mutant: the client does not compare the ETag of a chunk with the manifest's.
AnyVersion(row, file) == TRUE
SameVersion(row, file) == row.etag = file.etag

\* The chunk, if it is one of the row that was read; the answer carries the
\* row's etag, and a client that sees it change starts over (Stop).
ServeChunk ==
    LET i == NextIndex
        stored == chunks[fetch.a]
    IN
    /\ fetch.at = "chunk"
    /\ i \in ChunkIndexes(fetch.row.size_bytes) \cap DOMAIN stored
    /\ stored[i].len = expected_attachment_chunk_size(fetch.row.size_bytes, i)
    /\ SameVersion(fetch.row, fetch.file)
    /\ fetch' = [fetch EXCEPT !.at = "next", !.got = Upsert(@, i, stored[i]), !.row = None]
    /\ UNCHANGED vars

\* With PerAttachment a download's request keeps the others out, as theirs do.
Write ==
    /\ Next
    /\ PerAttachment /\ fetch.at = "chunk" =>
         \A w \in Workers :
            pc[w] = "idle" /\ req'[w].op \in AttachmentOps => req'[w].a # fetch.a
    /\ UNCHANGED fetch

DownloadInit == Init /\ fetch = NothingFetched
DownloadNext == Write \/ ListAttachments \/ GetChunk \/ ServeChunk \/ Stop
DownloadSpec == DownloadInit /\ [][DownloadNext]_DownloadVars

-----------------------------------------------------------------------------

\* A download whose chunks all carried the manifest's ETag is the attachment
\* that ETag names (docs/mobile-sync-guide.md:32-35), whatever is uploaded
\* between its requests.
DownloadIntact ==
    fetch.at = "next" /\ DOMAIN fetch.got = ChunkIndexes(fetch.file.size_bytes)
      => fetch.got = fetch.file.etag

=============================================================================

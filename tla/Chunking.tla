------------------------------ MODULE Chunking ------------------------------
(***************************************************************************)
(* How the service cuts an attachment into chunks: every chunk has         *)
(* CHUNK_SIZE_BYTES bytes except the last one, which has the remainder.    *)
(* The upload handlers (app/notes/uploads.py) and the download handlers    *)
(* (app/notes/service.py, app/shares/router.py) each carry this arithmetic.*)
(***************************************************************************)
EXTENDS Integers

CONSTANT CHUNK_SIZE_BYTES

ASSUME ChunkSizeAssumption == CHUNK_SIZE_BYTES \in Nat \ {0}

\* math.ceil(size / CHUNK_SIZE_BYTES), for the sizes at which the float
\* division of the code is exact enough (below 2^53 bytes).
total_chunks_for_size(size) == (size + CHUNK_SIZE_BYTES - 1) \div CHUNK_SIZE_BYTES

ChunkIndexes(size) == 0 .. total_chunks_for_size(size) - 1

\* The only length accepted for, and served as, chunk i of an attachment.
expected_attachment_chunk_size(size, i) ==
    IF i < total_chunks_for_size(size) - 1 \/ size % CHUNK_SIZE_BYTES = 0
      THEN CHUNK_SIZE_BYTES
      ELSE size % CHUNK_SIZE_BYTES

\* The loop of migration 007 over the data column: chunk i starts where i
\* chunks of full length end, as long as there is data.
MigratedIndexes(size) == {i \in 0 .. size : i * CHUNK_SIZE_BYTES < size}
MigratedLength(size, i) ==
    LET rest == size - i * CHUNK_SIZE_BYTES IN
    IF rest < CHUNK_SIZE_BYTES THEN rest ELSE CHUNK_SIZE_BYTES

=============================================================================

------------------------------ MODULE MCSharing ------------------------------
(* Finite instances of Sharing for TLC. *)
EXTENDS Sharing, TLC

\* Version 2 headers with a key and an algorithm; the wrapped fields have 1, 0
\* and 1 bytes.
V2(algorithm, key) == <<SSNV_MAGIC, 2, 1, 5, 9, 1, 7, 0, algorithm, key, 1, 7>>
V1 == <<SSNV_MAGIC, 1, 1, 5, 9, 1, 7, 0>>

\* Two keys, the first in two documents, one of them with the algorithm left at
\* 0; no key, a wrong version, one byte missing and one too many.
SomeHeaders ==
    {V2(0, 3), V2(1, 3), V2(1, 4), V1, [V2(1, 4) EXCEPT ![2] = 3],
     SubSeq(V2(1, 4), 1, 11), Append(V2(1, 4), 7)}

Blob(note_id, title) == <<SSNT_MAGIC, 1, note_id, 1, title, 0, 0, 0, 0, 1, 2, 1, 7>>
OneBlob == {Blob(NoteId, 6)}
\* Two good bodies with different titles, and one with the first's title and other
\* text; another note's, one byte missing, one too many, no magic.
SomeBlobs ==
    LET good == Blob(NoteId, 6) IN
    {good, Blob(NoteId, 5), [good EXCEPT ![13] = 8], Blob(NoteId + 1, 6),
     SubSeq(good, 1, 12), Append(good, 7), Tail(good)}

Symmetric == Permutations(Workers) \cup Permutations(People)
=============================================================================

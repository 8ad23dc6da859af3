------------------------------ MODULE MCNotes -------------------------------
(* Finite instances of NotesApi for TLC. *)
EXTENDS NotesApi, TLC

Body(title, time, count, total) ==
    [title |-> title, updated_at |-> time, count |-> count, total |-> total]

EmptyBody == Body("t0", 0, 0, 0)

\* Only the body the note starts with.
OneBody == {EmptyBody}
\* Two versions of a note without attachments: the title changes too.
TwoBodies == {EmptyBody, Body("t1", 1, 0, 0)}
\* Bodies of one title for a note without and with one attachment of two bytes.
OneTitle == {EmptyBody, Body("t0", 1, 1, 2)}
\* Bodies for a note without and with one attachment of three bytes.
FileBodies == {EmptyBody, Body("t1", 1, 0, 0), Body("t0", 1, 1, 3)}

Symmetric == Permutations(Workers) \cup Permutations(Payloads)
=============================================================================

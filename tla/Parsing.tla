------------------------------ MODULE Parsing -------------------------------
(***************************************************************************)
(* The parsers of app/parsers.  A document is a sequence of cells: one for *)
(* each number or field of fixed size, one for each byte of a field that   *)
(* its length precedes.  A ByteReader is the number of cells read so far,  *)
(* or Fail once it has raised ParseError.                                  *)
(***************************************************************************)
EXTENDS Tables, Integers, Sequences

CONSTANTS SSNV_MAGIC, SSNT_MAGIC

ASSUME MagicAssumption ==
    SSNV_MAGIC \in Nat /\ SSNT_MAGIC \in Nat /\ SSNV_MAGIC # SSNT_MAGIC

Documents == Seq(Nat)
Fail == -1

read_fixed(data, at, count) ==
    IF at = Fail \/ Len(data) - at < count THEN Fail ELSE at + count

\* The length is the cell the reader has just passed.
read_length_prefixed_bytes(data, at) ==
    LET start == read_fixed(data, at, 1) IN
    IF start = Fail THEN Fail ELSE read_fixed(data, start, data[start])

\* Mutant: bytes after the last field are accepted.
any_end(data, at) == at # Fail
at_end(data, at) == at = Len(data)

-----------------------------------------------------------------------------
(* SSNV: magic, version, kdf_id, salt, iterations, two wrapped keys, and   *)
(* in version 2 the algorithm, the public key and the wrapped private key. *)

parse_vault_header(data) ==
    LET head == read_fixed(data, 0, 5)
        wrapped == read_length_prefixed_bytes(data, read_length_prefixed_bytes(data, head))
        identity == read_fixed(data, wrapped, 2)
        end == IF data[2] = 2 THEN read_length_prefixed_bytes(data, identity) ELSE wrapped
    IN
    IF /\ head # Fail /\ data[1] = SSNV_MAGIC /\ data[2] \in {1, 2}
       /\ at_end(data, end)
      THEN [public_key |-> IF data[2] = 2 THEN data[identity] ELSE None,
            algorithm_id |-> IF data[2] = 2 THEN data[identity - 1] ELSE None]
      ELSE None

\* The layout of a version 2 header.
IsVaultHeader(data, public_key, algorithm_id) ==
    LET p == data[6]
        r == data[7 + p]
        i == data[10 + p + r]
    IN
    /\ data[1] = SSNV_MAGIC /\ data[2] = 2
    /\ data[8 + p + r] = algorithm_id /\ data[9 + p + r] = public_key
    /\ Len(data) = 10 + p + r + i

-----------------------------------------------------------------------------
(* SSNT: magic, version, note id, title, created_at, updated_at, number    *)
(* and total size of the attachments, wrapped FEK, encrypted payload.      *)

parse_note_blob(data) ==
    LET head == read_fixed(data, 0, 3)
        title == read_length_prefixed_bytes(data, head)
        fixed == read_fixed(data, title, 4)
        end == read_length_prefixed_bytes(data, read_length_prefixed_bytes(data, fixed))
    IN
    IF head # Fail /\ data[1] = SSNT_MAGIC /\ data[2] = 1 /\ at_end(data, end)
      THEN [note_id |-> data[3], title |-> SubSeq(data, 5, title),
            updated_at |-> data[title + 2], attachment_count |-> data[title + 3],
            attachments_total_size |-> data[title + 4]]
      ELSE None

\* The layout of a note blob.
IsNoteBlob(data, note_id, title) ==
    LET t == data[4]
        k == data[9 + t]
        p == data[10 + t + k]
    IN
    /\ data[1] = SSNT_MAGIC /\ data[2] = 1 /\ data[3] = note_id
    /\ title = SubSeq(data, 5, 4 + t)
    /\ Len(data) = 10 + t + k + p

=============================================================================

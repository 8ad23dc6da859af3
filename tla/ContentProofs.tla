---------------------------- MODULE ContentProofs ----------------------------
(***************************************************************************)
(* Facts about the operators of Chunking and Content: the chunk arithmetic *)
(* covers an attachment exactly, tables stay tables, and the row computed  *)
(* for a note is well typed.                                               *)
(***************************************************************************)
EXTENDS Content, TablesProofs, FiniteSetTheorems, WellFoundedInduction, TLAPS

\* The chunks cover the attachment and the last one is not empty
\* (total_chunks_for_size, service.py:37).
THEOREM ChunksCover ==
    ASSUME NEW size \in Nat \ {0}
    PROVE  LET n == total_chunks_for_size(size) IN
           /\ n \in Nat \ {0}
           /\ (n - 1) * CHUNK_SIZE_BYTES < size
           /\ size <= n * CHUNK_SIZE_BYTES
BY ChunkSizeAssumption DEF total_chunks_for_size

\* Every chunk has a positive length that fits the chunk size
\* (expected_attachment_chunk_size, service.py:41).
THEOREM ChunkLengths ==
    ASSUME NEW size \in Nat \ {0}, NEW i \in ChunkIndexes(size)
    PROVE  expected_attachment_chunk_size(size, i) \in 1 .. CHUNK_SIZE_BYTES
<1>1. size % CHUNK_SIZE_BYTES \in 0 .. CHUNK_SIZE_BYTES - 1
    BY ChunkSizeAssumption
<1> QED BY <1>1, ChunkSizeAssumption DEF expected_attachment_chunk_size

\* Chunk i starts at byte i * CHUNK_SIZE_BYTES and ends where chunk i + 1
\* starts, the last one at the end: the expected lengths add up to the size.
THEOREM ChunksTile ==
    ASSUME NEW size \in Nat \ {0}, NEW i \in ChunkIndexes(size)
    PROVE  i * CHUNK_SIZE_BYTES + expected_attachment_chunk_size(size, i) =
             IF i = total_chunks_for_size(size) - 1
               THEN size
               ELSE (i + 1) * CHUNK_SIZE_BYTES
<1> DEFINE C == CHUNK_SIZE_BYTES
           n == total_chunks_for_size(size)
           q == size \div C
           m == size % C
<1>1. /\ C \in Nat \ {0} /\ q \in Nat /\ m \in 0 .. C - 1
      /\ size = C * q + m
    BY ChunkSizeAssumption
<1>2. n \in Nat \ {0} /\ (n - 1) * C < size /\ size <= n * C
    BY ChunksCover
<1>3. i \in Nat /\ i <= n - 1
    BY <1>2 DEF ChunkIndexes
<1>4. CASE i < n - 1
    <2>1. expected_attachment_chunk_size(size, i) = C
        BY <1>4 DEF expected_attachment_chunk_size
    <2>2. i * C + C = (i + 1) * C
        BY <1>1, <1>3
    <2> QED BY <2>1, <2>2, <1>3, <1>4, <1>2
<1>5. CASE i = n - 1
    <2>1. CASE m = 0
        <3>1. expected_attachment_chunk_size(size, i) = C
            BY <2>1 DEF expected_attachment_chunk_size
        <3>2. n = q
            <4>1. (n - 1) * C < C * q /\ C * q <= n * C
                BY <1>1, <1>2, <2>1
            <4> HIDE DEF n, q, C
            <4>2. n - 1 < q /\ q <= n
                BY <4>1, <1>1, <1>2
            <4> QED BY <4>2, <1>1, <1>2
        <3>3. (q - 1) * C + C = C * q
            BY <1>1
        <3> QED BY <3>1, <3>2, <3>3, <1>5, <1>1, <2>1
    <2>2. CASE m # 0
        <3>1. expected_attachment_chunk_size(size, i) = m
            BY <2>2, <1>5, <1>2 DEF expected_attachment_chunk_size
        <3>2. n = q + 1
            <4>1. (n - 1) * C < C * q + C /\ C * q < n * C
                BY <1>1, <1>2, <2>2
            <4> HIDE DEF n, q, C
            <4>2. C * q + C = (q + 1) * C
                BY <1>1
            <4>3. n - 1 < q + 1 /\ q < n
                BY <4>1, <4>2, <1>1, <1>2
            <4> QED BY <4>3, <1>1, <1>2
        <3>3. i * C = C * q
            BY <3>2, <1>5, <1>1
        <3> QED BY <3>1, <3>3, <1>5, <1>1
    <2> QED BY <2>1, <2>2
<1> QED BY <1>3, <1>4, <1>5, <1>2

\* The chunks migration 007 cut are the ones the service expects of an
\* attachment: the same indexes with the same lengths (007:48-69,
\* service.py:37-48).
THEOREM MigrationAgrees ==
    ASSUME NEW size \in Nat \ {0}
    PROVE  /\ MigratedIndexes(size) = ChunkIndexes(size)
           /\ \A i \in ChunkIndexes(size) :
                MigratedLength(size, i) = expected_attachment_chunk_size(size, i)
<1> DEFINE C == CHUNK_SIZE_BYTES
           n == total_chunks_for_size(size)
<1>1. C \in Nat \ {0} /\ n \in Nat \ {0} /\ (n - 1) * C < size /\ size <= n * C
    BY ChunkSizeAssumption, ChunksCover
<1>2. ASSUME NEW i \in Nat, NEW j \in Nat, i <= j
      PROVE  i * C \in Nat /\ j * C \in Nat /\ i * C <= j * C /\ i <= i * C
    <2> HIDE DEF C
    <2>1. j * C = i * C + (j - i) * C /\ (j - i) * C >= 0
        BY <1>1, <1>2
    <2> QED BY <2>1, <1>1, <1>2
<1>3. ASSUME NEW i \in Nat
      PROVE  i * C < size <=> i <= n - 1
    <2> HIDE DEF C, n
    <2>1. CASE i <= n - 1
        BY <2>1, <1>1, <1>2, n - 1 \in Nat
    <2>2. CASE n <= i
        BY <2>2, <1>1, <1>2, n \in Nat
    <2> QED BY <2>1, <2>2, <1>1
<1>4. MigratedIndexes(size) = ChunkIndexes(size)
    <2>1. \A i \in Nat : i * C < size => i <= size
        BY <1>1, <1>2
    <2>2. ChunkIndexes(size) = {i \in Nat : i <= n - 1}
        BY <1>1 DEF ChunkIndexes
    <2>3. MigratedIndexes(size) = {i \in Nat : i * C < size}
        BY <2>1 DEF MigratedIndexes
    <2> HIDE DEF C, n
    <2> QED BY <2>2, <2>3, <1>3
<1>5. ASSUME NEW i \in ChunkIndexes(size)
      PROVE  MigratedLength(size, i) = expected_attachment_chunk_size(size, i)
    <2> DEFINE length == expected_attachment_chunk_size(size, i)
    <2>1. i \in Nat /\ i <= n - 1
        BY <1>1 DEF ChunkIndexes
    <2>2. i * C + length = IF i = n - 1 THEN size ELSE (i + 1) * C
        BY ChunksTile
    <2>3. length \in 1 .. C
        BY ChunkLengths
    <2>4. i * C \in Nat /\ (i + 1) * C = i * C + C
        BY <2>1, <1>1
    <2> HIDE DEF length
    <2>5. CASE i = n - 1
        BY <2>5, <2>2, <2>3, <2>4, <1>1 DEF MigratedLength, length
    <2>6. CASE i < n - 1
        <3>1. (i + 1) * C < size
            <4> HIDE DEF C, n
            <4> QED BY <2>6, <2>1, <1>1, <1>3, i + 1 \in Nat
        <3> QED BY <3>1, <2>6, <2>2, <2>3, <2>4, <1>1 DEF MigratedLength, length
    <2> QED BY <2>1, <2>5, <2>6, <1>1
<1> QED BY <1>4, <1>5

\* A set of indexes of an attachment that has as many as there are chunks
\* has each of them (the count checks of uploads.py:219 and :228).
THEOREM CountingIsEnough ==
    ASSUME NEW size \in Nat \ {0}, NEW S \in SUBSET ChunkIndexes(size),
           Cardinality(S) = total_chunks_for_size(size)
    PROVE  S = ChunkIndexes(size)
<1> DEFINE n == total_chunks_for_size(size)
<1>1. n \in Nat \ {0}
    BY ChunksCover
<1>2. IsFiniteSet(0 .. n - 1) /\ Cardinality(0 .. n - 1) = n
    <2> HIDE DEF n
    <2>1. 0 \in Int /\ n - 1 \in Int
        BY <1>1
    <2>2. PICK last \in Int : last = n - 1
        BY <2>1
    <2>3. /\ IsFiniteSet(0 .. last)
          /\ Cardinality(0 .. last) = IF 0 > last THEN 0 ELSE last - 0 + 1
        BY <2>1, FS_Interval
    <2> QED BY <2>2, <2>3, <1>1
<1> HIDE DEF n
<1>3. S \subseteq 0 .. n - 1 /\ Cardinality(S) = n
    BY DEF ChunkIndexes, n
<1>4. S = 0 .. n - 1
    BY <1>1, <1>2, <1>3, FS_Subset
<1> QED BY <1>4 DEF ChunkIndexes, n

-----------------------------------------------------------------------------
(* Tables of chunks.                                                       *)

\* Chunks are finitely many, so that they can be counted.
LEMMA ChunkRowsFinite ==
    ASSUME NEW rows \in ChunkRows
    PROVE  IsFiniteSet(DOMAIN rows) /\ Cardinality(DOMAIN rows) \in Nat
<1>1. DOMAIN rows \subseteq 0 .. MaxIndex
    BY TableIs DEF ChunkRows, IsTable, Indexes
<1>2. IsFiniteSet(0 .. MaxIndex)
    BY ContentAssumption, FS_Interval
<1>3. IsFiniteSet(DOMAIN rows)
    BY <1>1, <1>2, FS_Subset
<1> QED BY <1>3, FS_CardinalityType

-----------------------------------------------------------------------------
(* The note's row.                                                         *)

LEMMA LeastNatural ==
    ASSUME NEW T \in SUBSET Nat, T # {}
    PROVE  \E m \in T : \A n \in T : m <= n
<1> DEFINE Less == OpToRel(<, Nat)
<1>1. \E m \in T : \A n \in T : ~(<<n, m>> \in Less)
    <2>1. IsWellFoundedOn(Less, Nat)
        BY NatLessThanWellFounded
    <2> HIDE DEF Less
    <2> QED BY <2>1, WFMin
<1>2. \A m, n \in Nat : <<n, m>> \in Less <=> n < m
    BY DEF OpToRel
<1>3. PICK m \in T : \A n \in T : ~(<<n, m>> \in Less)
    BY <1>1
<1>4. \A n \in T : ~(n < m)
    BY <1>2, <1>3
<1> QED BY <1>4

\* Max is defined by CHOOSE; a bounded set of naturals has one.
LEMMA MaxOfBounded ==
    ASSUME NEW S \in SUBSET Nat, S # {}, NEW b \in Nat, \A n \in S : n <= b
    PROVE  Max(S) \in S /\ \A n \in S : n <= Max(S)
<1> DEFINE Bounds == {m \in Nat : \A n \in S : n <= m}
<1>1. PICK m \in Bounds : \A n \in Bounds : m <= n
    BY LeastNatural
<1>2. m \in S
    <2> SUFFICES ASSUME m \notin S PROVE FALSE
        OBVIOUS
    <2>1. PICK s \in S : TRUE
        OBVIOUS
    <2>2. m - 1 \in Nat /\ \A n \in S : n <= m - 1
        BY <2>1
    <2> QED BY <1>1, <2>2
<1> QED BY <1>2 DEF Max

\* updated_at is the time of the body or of one of the files, and none of them is
\* later (service.py:244-247).
THEOREM LatestIsLatest ==
    ASSUME NEW body \in Bodies, NEW files, IsTable(files, Attachments, File)
    PROVE  /\ \/ Latest(body, files) = body.updated_at
              \/ \E a \in DOMAIN files : Latest(body, files) = files[a].updated_at
           /\ body.updated_at <= Latest(body, files)
           /\ \A a \in DOMAIN files : files[a].updated_at <= Latest(body, files)
           /\ Latest(body, files) \in Nat
<1> DEFINE times == {body.updated_at} \cup {files[a].updated_at : a \in DOMAIN files}
           bound == body.updated_at + MaxClock
<1>1. body.updated_at \in Nat /\ MaxClock \in Nat
    BY ContentAssumption
<1>2. \A a \in DOMAIN files : files[a].updated_at \in 0 .. MaxClock
    BY DEF IsTable, File
<1>3. times \subseteq Nat /\ times # {} /\ bound \in Nat /\ \A n \in times : n <= bound
    <2>1. bound \in Nat /\ body.updated_at <= bound
        BY <1>1
    <2>2. \A a \in DOMAIN files : files[a].updated_at \in Nat /\ files[a].updated_at <= bound
        BY <1>1, <1>2
    <2> HIDE DEF bound
    <2> QED BY <2>1, <2>2, <1>1
<1>4. Max(times) \in times /\ \A n \in times : n <= Max(times)
    <2> HIDE DEF times, bound
    <2> QED BY <1>3, MaxOfBounded
<1>5. Latest(body, files) = Max(times)
    BY DEF Latest
<1> HIDE DEF bound
<1> QED BY <1>3, <1>4, <1>5

LEMMA CompositeType ==
    ASSUME NEW body \in Bodies, NEW files, IsTable(files, Attachments, File)
    PROVE  compute_composite_etag(body, files) \in CompositeEtag
<1>1. IsTable([a \in DOMAIN files |-> files[a].etag], Attachments, ChunkRows)
    BY DEF IsTable, File
<1>2. [a \in DOMAIN files |-> files[a].etag] \in Table(Attachments, ChunkRows)
    BY <1>1, TableIs
<1> QED BY <1>2 DEF compute_composite_etag, CompositeEtag

LEMMA NoteRowType ==
    ASSUME NEW body \in Bodies, NEW files, IsTable(files, Attachments, File)
    PROVE  NoteRow(body, files) \in NoteType /\ NoteRow(body, files).state = "active"
<1>1. compute_composite_etag(body, files) \in CompositeEtag
    BY CompositeType
<1>2. Latest(body, files) \in Nat
    BY LatestIsLatest
<1> QED BY <1>1, <1>2 DEF NoteRow, NoteType

LEMMA NoNoteType == NoNote \in NoteType /\ NoNote.state = "absent"
BY DEF NoNote, NoteType

=============================================================================

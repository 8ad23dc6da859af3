---------------------------- MODULE SharingProofs ----------------------------
(***************************************************************************)
(* Proofs about Sharing, for any number of workers, accounts and shares    *)
(* and any documents: what the two parsers accept, the types, what the     *)
(* foreign keys keep, that bodies and headers are what their columns say,  *)
(* that a recipient can open what it is sent, and that the shares are      *)
(* those Grants allows.                                                    *)
(***************************************************************************)
EXTENDS Sharing, TablesProofs, SequenceTheorems

-----------------------------------------------------------------------------
(* What the parsers accept, for documents of every length.                 *)

LEMMA FixedRead ==
    ASSUME NEW data \in Documents, NEW at \in Nat \cup {Fail}, NEW count \in Nat
    PROVE  LET end == read_fixed(data, at, count) IN
           /\ end \in Nat \cup {Fail}
           /\ end # Fail => at # Fail /\ end = at + count /\ end <= Len(data)
BY DEF read_fixed, Fail, Documents

LEMMA PrefixedRead ==
    ASSUME NEW data \in Documents, NEW at \in Nat \cup {Fail}
    PROVE  LET end == read_length_prefixed_bytes(data, at) IN
           /\ end \in Nat \cup {Fail}
           /\ end # Fail => /\ at # Fail
                            /\ at + 1 \in 1 .. Len(data) /\ data[at + 1] \in Nat
                            /\ end = at + 1 + data[at + 1] /\ end <= Len(data)
<1> DEFINE start == read_fixed(data, at, 1)
<1>1. /\ start \in Nat \cup {Fail}
      /\ start # Fail => at # Fail /\ start = at + 1 /\ start <= Len(data)
    BY FixedRead
<1>2. CASE start = Fail
    BY <1>2 DEF read_length_prefixed_bytes
<1>3. CASE start # Fail
    <2>1. start \in 1 .. Len(data) /\ data[start] \in Nat
        BY <1>1, <1>3 DEF Documents, Fail
    <2>2. read_length_prefixed_bytes(data, at) = read_fixed(data, start, data[start])
        BY <1>3 DEF read_length_prefixed_bytes
    <2> DEFINE end == read_fixed(data, start, data[start])
    <2> HIDE DEF start
    <2>3. /\ end \in Nat \cup {Fail}
          /\ end # Fail => end = start + data[start] /\ end <= Len(data)
        BY <2>1, FixedRead
    <2>4. start = at + 1 /\ at # Fail
        BY <1>1, <1>3
    <2> HIDE DEF end
    <2> QED BY <2>1, <2>3, <2>4, <2>2 DEF end
<1> QED BY <1>2, <1>3

\* A body that parse_note_blob accepts has the layout of a note blob, from the
\* first cell to the last, and the metadata are the cells of that layout.
THEOREM NoteBlobParsed ==
    ASSUME NEW data \in Documents, parse_note_blob(data) # None
    PROVE  LET metadata == parse_note_blob(data) IN
           /\ metadata.title \in Documents
           /\ IsNoteBlob(data, metadata.note_id, metadata.title)
<1> DEFINE head == read_fixed(data, 0, 3)
           title == read_length_prefixed_bytes(data, head)
           fixed == read_fixed(data, title, 4)
           fek == read_length_prefixed_bytes(data, fixed)
           end == read_length_prefixed_bytes(data, fek)
           t == data[4]
           k == data[fixed + 1]
           p == data[fek + 1]
           metadata == parse_note_blob(data)
<1>1. /\ head # Fail /\ data[1] = SSNT_MAGIC /\ data[2] = 1 /\ end = Len(data)
      /\ metadata.note_id = data[3] /\ metadata.title = SubSeq(data, 5, title)
    BY DEF parse_note_blob, at_end
<1>2. end # Fail /\ Len(data) \in Nat
    BY <1>1 DEF Documents, Fail
<1>3. head \in Nat \cup {Fail} /\ title \in Nat \cup {Fail} /\ fixed \in Nat \cup {Fail}
      /\ fek \in Nat \cup {Fail}
    BY FixedRead, PrefixedRead
<1>4. /\ t \in Nat /\ title = 4 + t /\ title <= Len(data)
      /\ fixed = title + 4
      /\ k \in Nat /\ fek = fixed + 1 + k
      /\ p \in Nat /\ end = fek + 1 + p
    <2> HIDE DEF head, title, fixed, fek, end
    <2>1. fek # Fail /\ end = fek + 1 + p /\ p \in Nat
        BY <1>2, <1>3, PrefixedRead DEF end
    <2>2. fixed # Fail /\ fek = fixed + 1 + k /\ k \in Nat
        BY <2>1, <1>3, PrefixedRead DEF fek
    <2>3. title # Fail /\ fixed = title + 4
        BY <2>2, <1>3, FixedRead DEF fixed
    <2>4. head # Fail /\ title = head + 1 + data[head + 1] /\ data[head + 1] \in Nat
          /\ title <= Len(data)
        BY <2>3, <1>3, PrefixedRead DEF title
    <2>5. head = 3
        BY <2>4 DEF head, read_fixed
    <2> HIDE DEF k, p
    <2> QED BY <2>1, <2>2, <2>3, <2>4, <2>5
<1>5. data[9 + t] = k /\ data[10 + t + k] = p
    <2>1. fixed + 1 = 9 + t /\ fek + 1 = 10 + t + k
        <3> HIDE DEF head, title, fixed, fek, end, t, k, p
        <3> QED BY <1>4
    <2> QED BY <2>1
<1> HIDE DEF head, title, fixed, fek, end, k, p, metadata
<1>6. metadata.title \in Documents
    <2>1. title \in Nat /\ title <= Len(data)
        <3> HIDE DEF t
        <3> QED BY <1>4
    <2>2. \A j \in 5 .. title : data[j] \in Nat
        BY <1>2, <2>1 DEF Documents
    <2>3. SubSeq(data, 5, title) \in Seq(Nat)
        BY <2>1, <2>2, SubSeqProperties
    <2> QED BY <1>1, <2>3 DEF Documents
<1>7. IsNoteBlob(data, metadata.note_id, metadata.title)
    <2>1. Len(data) = 10 + t + k + p /\ title = 4 + t
        <3> HIDE DEF t
        <3> QED BY <1>1, <1>4
    <2> QED BY <1>1, <1>5, <2>1 DEF IsNoteBlob
<1> QED BY <1>6, <1>7 DEF metadata

\* A header with a public key that parse_vault_header accepts has the layout of
\* a version 2 vault header, and its key and algorithm are the cells of that
\* layout.
THEOREM VaultHeaderParsed ==
    ASSUME NEW data \in Documents, parse_vault_header(data) # None,
           parse_vault_header(data).public_key # None
    PROVE  LET metadata == parse_vault_header(data) IN
           /\ metadata.public_key \in Nat /\ metadata.algorithm_id \in Nat
           /\ IsVaultHeader(data, metadata.public_key, metadata.algorithm_id)
<1> DEFINE head == read_fixed(data, 0, 5)
           password == read_length_prefixed_bytes(data, head)
           wrapped == read_length_prefixed_bytes(data, password)
           identity == read_fixed(data, wrapped, 2)
           private == read_length_prefixed_bytes(data, identity)
           p == data[6]
           r == data[password + 1]
           i == data[identity + 1]
           metadata == parse_vault_header(data)
<1>1. /\ head # Fail /\ data[1] = SSNV_MAGIC /\ data[2] = 2 /\ private = Len(data)
      /\ metadata.public_key = data[identity]
      /\ metadata.algorithm_id = data[identity - 1]
    BY DEF parse_vault_header, at_end
<1>2. private # Fail /\ Len(data) \in Nat
    BY <1>1 DEF Documents, Fail
<1>3. head \in Nat \cup {Fail} /\ password \in Nat \cup {Fail} /\ wrapped \in Nat \cup {Fail}
      /\ identity \in Nat \cup {Fail}
    BY FixedRead, PrefixedRead
<1>4. /\ p \in Nat /\ password = 6 + p
      /\ r \in Nat /\ wrapped = password + 1 + r
      /\ identity = wrapped + 2 /\ identity <= Len(data)
      /\ i \in Nat /\ private = identity + 1 + i
    <2> HIDE DEF head, password, wrapped, identity, private
    <2>1. identity # Fail /\ private = identity + 1 + i /\ i \in Nat
        BY <1>2, <1>3, PrefixedRead DEF private
    <2>2. wrapped # Fail /\ identity = wrapped + 2 /\ identity <= Len(data)
        BY <2>1, <1>3, FixedRead DEF identity
    <2>3. password # Fail /\ wrapped = password + 1 + r /\ r \in Nat
        BY <2>2, <1>3, PrefixedRead DEF wrapped
    <2>4. head # Fail /\ password = head + 1 + data[head + 1] /\ data[head + 1] \in Nat
        BY <2>3, <1>3, PrefixedRead DEF password
    <2>5. head = 5
        BY <2>4 DEF head, read_fixed
    <2> HIDE DEF r, i
    <2> QED BY <2>1, <2>2, <2>3, <2>4, <2>5
<1>5. data[7 + p] = r /\ data[10 + p + r] = i
    <2>1. password + 1 = 7 + p /\ identity + 1 = 10 + p + r
        <3> HIDE DEF head, password, wrapped, identity, private, p, r, i
        <3> QED BY <1>4
    <2> QED BY <2>1
<1> HIDE DEF head, password, wrapped, identity, private, r, i, metadata
<1>6. /\ identity = 9 + p + r /\ identity - 1 = 8 + p + r
      /\ identity \in 1 .. Len(data) /\ identity - 1 \in 1 .. Len(data)
      /\ Len(data) = 10 + p + r + i
    <2> HIDE DEF p
    <2> QED BY <1>1, <1>2, <1>4
<1>7. metadata.public_key \in Nat /\ metadata.algorithm_id \in Nat
    <2>1. \A j \in 1 .. Len(data) : data[j] \in Nat
        BY DEF Documents
    <2>2. data[identity] \in Nat /\ data[identity - 1] \in Nat
        BY <1>6, <2>1
    <2> QED BY <1>1, <2>2
<1>8. IsVaultHeader(data, metadata.public_key, metadata.algorithm_id)
    BY <1>1, <1>5, <1>6 DEF IsVaultHeader
<1> QED BY <1>7, <1>8 DEF metadata

-----------------------------------------------------------------------------
(* The invariant of the sharing endpoints.                                 *)

\* The statements of a PUT of the header, and of a PUT of the body.
HeaderLabels == {"header_body", "header_commit"}
BodyLabels == {"body_commit"}

\* The body of every active note is stored, with its owner's key.
BodiesAreNotes ==
    /\ DOMAIN bodies = {a \in DOMAIN notes : notes[a].state = "active"}
    /\ \A a \in DOMAIN bodies : bodies[a].fek = a
    /\ OnePut => \A a \in DOMAIN bodies : IsNoteBlob(bodies[a].data, NoteId, notes[a].title)

\* What the UNIQUE key gives, and whose key a share carries.
OneShareEach ==
    /\ \A s, t \in DOMAIN shares : shares[s].recipient = shares[t].recipient => s = t
    /\ \A s \in DOMAIN shares :
         shares[s].wrapped_fek = shares[s].owner /\ shares[s].owner # shares[s].recipient

\* The columns of a header come from its document.
HeadersParsed ==
    OnePut => \A a \in DOMAIN headers :
        /\ Accepted(parse_vault_header(headers[a].data))
        /\ headers[a] = HeaderRow(headers[a].data)

TablesOK ==
    /\ registered \in 0 .. MaxAccounts /\ granted \in 0 .. MaxShares
    /\ IsTable(users, 1 .. registered, People)
    /\ IsTable(headers, 1 .. registered, Header)
    /\ IsTable(notes, 1 .. registered, Note)
    /\ IsTable(bodies, 1 .. registered, Body)
    /\ IsTable(shares, 1 .. granted, Share)

TablesInv ==
    /\ TablesOK
    /\ NothingOutlivesItsAccount /\ HeadersHaveTheirAccount
    /\ BodiesAreNotes /\ OneShareEach /\ HeadersParsed

\* What a request has read is still so, as far as it matters.
Reads(w) ==
    /\ LocalsOK(w)
    /\ pc[w] \in {"shared_body", "answer"} => held[w].grant.wrapped_fek = held[w].grant.owner
    /\ pc[w] = "answer" => held[w].body.fek = held[w].grant.owner
    /\ OnePut /\ pc[w] = "header_commit" /\ held[w].row # None
         /\ held[w].user \in DOMAIN headers => headers[held[w].user] = held[w].row
    /\ OnePut /\ pc[w] = "body_commit" /\ held[w].note # None
         /\ held[w].user \in DOMAIN notes =>
              notes[held[w].user].title = held[w].note.title
    /\ pc[w] = "unshare" /\ held[w].share \in DOMAIN shares =>
         held[w].user \in {shares[held[w].share].owner, shares[held[w].share].recipient}

\* One PUT of the header, and one of the body, of an account at a time.
PutTurns ==
    OnePut => \A labels \in {HeaderLabels, BodyLabels} : \A v, w \in Workers :
        v # w /\ pc[v] \in labels /\ pc[w] \in labels => held[v].user # held[w].user

SharingInv ==
    /\ TablesInv
    /\ pc \in [Workers -> Labels] /\ held \in [Workers -> Held]
    /\ \A w \in Workers : Reads(w)
    /\ PutTurns

-----------------------------------------------------------------------------

LEMMA NothingHeldType == NothingHeld \in Held
BY DEF NothingHeld, Held, Documents

LEMMA InitSharingInv == Init => SharingInv
<1> SUFFICES ASSUME Init PROVE SharingInv
    OBVIOUS
<1>1. TablesOK
    BY AccountAssumption, EmptyTable DEF Init, TablesOK
<1>2. /\ DOMAIN users = {} /\ DOMAIN headers = {} /\ DOMAIN notes = {}
      /\ DOMAIN bodies = {} /\ DOMAIN shares = {}
    BY DEF Init, NoRows
<1>3. TablesInv
    BY <1>1, <1>2 DEF TablesInv, NothingOutlivesItsAccount, HeadersHaveTheirAccount,
       BodiesAreNotes, OneShareEach, HeadersParsed
<1>4. \A w \in Workers : pc[w] = "idle"
    BY DEF Init
<1> QED BY <1>3, <1>4, NothingHeldType
        DEF Init, SharingInv, Reads, LocalsOK, PutTurns, HeaderLabels, BodyLabels, Labels

\* Steps that write no table: only what their request holds has to be checked.
LEMMA QuietInv ==
    ASSUME SharingInv, NEW w \in Workers, NEW label \in Labels, NEW what \in Held,
           pc' = [pc EXCEPT ![w] = label], held' = [held EXCEPT ![w] = what],
           UNCHANGED tables, Reads(w)',
           OnePut /\ label \in HeaderLabels =>
             \A v \in Workers \ {w} : pc[v] \in HeaderLabels => held[v].user # what.user,
           OnePut /\ label \in BodyLabels =>
             \A v \in Workers \ {w} : pc[v] \in BodyLabels => held[v].user # what.user
    PROVE  SharingInv'
<1>1. TablesInv'
    BY DEF SharingInv, TablesInv, TablesOK, NothingOutlivesItsAccount,
       HeadersHaveTheirAccount, BodiesAreNotes, OneShareEach, HeadersParsed, tables
<1>2. pc' \in [Workers -> Labels] /\ held' \in [Workers -> Held]
    BY DEF SharingInv
<1>3. ASSUME NEW v \in Workers
      PROVE  Reads(v)'
    <2>1. CASE v = w
        BY <2>1
    <2>2. CASE v # w
        <3>1. pc'[v] = pc[v] /\ held'[v] = held[v]
            BY <2>2 DEF SharingInv
        <3>2. Reads(v)
            BY DEF SharingInv
        <3> QED BY <3>1, <3>2 DEF Reads, LocalsOK, tables
    <2> QED BY <2>1, <2>2
<1>4. PutTurns'
    <2>1. \A v \in Workers : IF v = w THEN pc'[v] = label /\ held'[v] = what
                                      ELSE pc'[v] = pc[v] /\ held'[v] = held[v]
        BY DEF SharingInv
    <2> QED BY <2>1 DEF SharingInv, PutTurns
<1> QED BY <1>1, <1>2, <1>3, <1>4 DEF SharingInv

LEMMA RollBackInv ==
    ASSUME SharingInv, NEW w \in Workers, RollBack(w)
    PROVE  SharingInv'
<1>1. /\ UNCHANGED tables
      /\ pc' = [pc EXCEPT ![w] = "idle"] /\ held' = [held EXCEPT ![w] = NothingHeld]
    BY DEF RollBack, Respond
<1>2. pc'[w] = "idle"
    BY <1>1 DEF SharingInv
<1>3. Reads(w)'
    BY <1>2 DEF Reads, LocalsOK
<1> QED BY <1>1, <1>3, QuietInv, NothingHeldType DEF Labels, HeaderLabels, BodyLabels

\* Steps that write: the requests still open only lose rows they had read.
LEMMA WriteInv ==
    ASSUME SharingInv, TablesInv', registered <= registered', granted <= granted',
           pc' \in [Workers -> Labels], held' \in [Workers -> Held],
           \A v \in Workers : pc'[v] = "idle" \/ (pc'[v] = pc[v] /\ held'[v] = held[v]),
           \A v \in Workers :
              OnePut /\ pc'[v] = "header_commit" /\ held[v].user \in DOMAIN headers' =>
                held[v].user \in DOMAIN headers
                  /\ headers'[held[v].user] = headers[held[v].user],
           \A v \in Workers :
              OnePut /\ pc'[v] = "body_commit" /\ held[v].user \in DOMAIN notes' =>
                held[v].user \in DOMAIN notes
                  /\ notes'[held[v].user].title = notes[held[v].user].title,
           \A s \in DOMAIN shares' :
              s \in 1 .. granted => s \in DOMAIN shares /\ shares'[s] = shares[s]
    PROVE  SharingInv'
<1>1. ASSUME NEW v \in Workers
      PROVE  Reads(v)'
    <2>1. CASE pc'[v] = "idle"
        BY <2>1 DEF Reads, LocalsOK
    <2>2. CASE pc'[v] # "idle"
        <3>1. pc'[v] = pc[v] /\ held'[v] = held[v]
            BY <2>2
        <3>2. Reads(v)
            BY DEF SharingInv
        <3>3. registered \in Nat /\ registered' \in Nat /\ granted \in Nat /\ granted' \in Nat
            BY AccountAssumption DEF SharingInv, TablesInv, TablesOK
        <3>4. 1 .. registered \subseteq 1 .. registered' /\ 1 .. granted \subseteq 1 .. granted'
            BY <3>3
        <3>5. LocalsOK(v)'
            BY <3>1, <3>2, <3>4 DEF Reads, LocalsOK
        <3>6. pc[v] = "unshare" => held[v].share \in 1 .. granted
            BY <3>2 DEF Reads, LocalsOK
        <3> QED BY <3>1, <3>2, <3>5, <3>6 DEF Reads
    <2> QED BY <2>1, <2>2
<1>2. PutTurns'
    BY DEF SharingInv, PutTurns, HeaderLabels, BodyLabels
<1> QED BY <1>1, <1>2 DEF SharingInv

-----------------------------------------------------------------------------
(* Requests and reads                                                      *)

LEMMA Ids ==
    ASSUME TablesOK
    PROVE  /\ registered \in Nat /\ granted \in Nat
           /\ 1 .. registered \subseteq AccountIds /\ 1 .. granted \subseteq ShareIds
           /\ DOMAIN users \subseteq 1 .. registered
           /\ DOMAIN shares \subseteq 1 .. granted
           /\ \A s \in DOMAIN shares : shares[s] \in Share
BY AccountAssumption DEF TablesOK, IsTable, AccountIds, ShareIds

LEMMA HeldUser ==
    ASSUME SharingInv, NEW w \in Workers, pc[w] # "idle"
    PROVE  held[w] \in Held /\ held[w].user \in 1 .. registered
BY DEF SharingInv, Reads, LocalsOK

LEMMA RequestInv ==
    ASSUME SharingInv, NEW w \in Workers, Request(w)
    PROVE  SharingInv'
<1>1. TablesOK
    BY DEF SharingInv, TablesInv
<1>2. PICK a \in DOMAIN users :
        \/ \E doc \in Blobs : PutBody(w, a, doc)
        \/ \E doc \in Headers : PutHeader(w, a, doc)
        \/ \E p \in People : ShareNote(w, a, p)
        \/ \E p \in People : RevokeShare(w, a, p)
        \/ RemoveShared(w, a)
        \/ ReadShared(w, a)
    BY DEF Request
<1>3. a \in 1 .. registered /\ a \in AccountIds
    BY <1>1, Ids
<1>4. CASE \E doc \in Headers : PutHeader(w, a, doc)
    <2>1. PICK doc \in Headers : PutHeader(w, a, doc)
        BY <1>4
    <2> DEFINE what == [NothingHeld EXCEPT !.user = a, !.doc = doc]
    <2>2. what \in Held /\ what.user = a
        BY <1>3, AccountAssumption, NothingHeldType DEF Held, NothingHeld
    <2>3. /\ pc' = [pc EXCEPT ![w] = "header_body"] /\ held' = [held EXCEPT ![w] = what]
          /\ UNCHANGED tables
          /\ OnePut => \A v \in Workers : pc[v] \in HeaderLabels => held[v].user # a
        BY <2>1 DEF PutHeader, Begin, InTurn, HeaderLabels
    <2> HIDE DEF what
    <2>4. pc'[w] = "header_body" /\ held'[w] = what
        BY <2>3 DEF SharingInv
    <2>5. Reads(w)'
        BY <2>2, <2>3, <2>4, <1>3 DEF Reads, LocalsOK, tables
    <2> QED BY <2>2, <2>3, <2>5, QuietInv DEF Labels, HeaderLabels, BodyLabels
<1>5. CASE \E p \in People : ShareNote(w, a, p)
    <2>1. PICK p \in People : ShareNote(w, a, p)
        BY <1>5
    <2> DEFINE what == [NothingHeld EXCEPT !.user = a, !.person = p]
    <2>2. what \in Held /\ what.user = a /\ what.person = p
        BY <1>3, NothingHeldType DEF Held, NothingHeld
    <2>3. /\ pc' = [pc EXCEPT ![w] = "share_recipient"] /\ held' = [held EXCEPT ![w] = what]
          /\ UNCHANGED tables
        BY <2>1 DEF ShareNote, Begin
    <2> HIDE DEF what
    <2>4. pc'[w] = "share_recipient" /\ held'[w] = what
        BY <2>3 DEF SharingInv
    <2>5. Reads(w)'
        BY <2>2, <2>3, <2>4, <1>3 DEF Reads, LocalsOK, tables
    <2> QED BY <2>2, <2>3, <2>5, QuietInv DEF Labels, HeaderLabels, BodyLabels
<1>6. CASE \E p \in People : RevokeShare(w, a, p)
    <2>1. PICK r \in DOMAIN users :
            Begin(w, "revoke_share", [NothingHeld EXCEPT !.user = a, !.other = r])
        BY <1>6 DEF RevokeShare, find_user_by_email
    <2> DEFINE what == [NothingHeld EXCEPT !.user = a, !.other = r]
    <2>2. r \in 1 .. registered /\ r \in AccountIds
        BY <1>1, Ids
    <2>3. what \in Held /\ what.user = a /\ what.other = r
        BY <1>3, <2>2, NothingHeldType DEF Held, NothingHeld
    <2>4. /\ pc' = [pc EXCEPT ![w] = "revoke_share"] /\ held' = [held EXCEPT ![w] = what]
          /\ UNCHANGED tables
        BY <2>1 DEF Begin
    <2> HIDE DEF what
    <2>5. pc'[w] = "revoke_share" /\ held'[w] = what
        BY <2>4 DEF SharingInv
    <2>6. Reads(w)'
        BY <2>2, <2>3, <2>4, <2>5, <1>3 DEF Reads, LocalsOK, tables
    <2> QED BY <2>3, <2>4, <2>6, QuietInv DEF Labels, HeaderLabels, BodyLabels
<1>7. CASE RemoveShared(w, a)
    <2>1. PICK s \in SharesWith(a) :
            Begin(w, "unshare", [NothingHeld EXCEPT !.user = a, !.share = s])
        BY <1>7 DEF RemoveShared
    <2> DEFINE what == [NothingHeld EXCEPT !.user = a, !.share = s]
    <2>2. s \in 1 .. granted /\ s \in ShareIds /\ shares[s].recipient = a
        BY <1>1, Ids DEF SharesWith
    <2>3. what \in Held /\ what.user = a /\ what.share = s
        BY <1>3, <2>2, NothingHeldType DEF Held, NothingHeld
    <2>4. /\ pc' = [pc EXCEPT ![w] = "unshare"] /\ held' = [held EXCEPT ![w] = what]
          /\ UNCHANGED tables
        BY <2>1 DEF Begin
    <2> HIDE DEF what
    <2>5. pc'[w] = "unshare" /\ held'[w] = what
        BY <2>4 DEF SharingInv
    <2>6. Reads(w)'
        BY <2>2, <2>3, <2>4, <2>5, <1>3 DEF Reads, LocalsOK, tables
    <2> QED BY <2>3, <2>4, <2>6, QuietInv DEF Labels, HeaderLabels, BodyLabels
<1>8. CASE ReadShared(w, a)
    <2>1. PICK s \in SharesWith(a) :
            Begin(w, "shared_body", [NothingHeld EXCEPT !.user = a, !.grant = shares[s]])
        BY <1>8 DEF ReadShared
    <2> DEFINE row == shares[s]
               what == [NothingHeld EXCEPT !.user = a, !.grant = row]
    <2>2. row \in Share /\ row.wrapped_fek = row.owner
        BY <1>1, Ids DEF SharesWith, SharingInv, TablesInv, OneShareEach
    <2> HIDE DEF row
    <2>3. what \in Held /\ what.user = a /\ what.grant = row
        BY <1>3, <2>2, NothingHeldType DEF Held, NothingHeld
    <2>4. /\ pc' = [pc EXCEPT ![w] = "shared_body"] /\ held' = [held EXCEPT ![w] = what]
          /\ UNCHANGED tables
        BY <2>1 DEF Begin, row
    <2> HIDE DEF what
    <2>5. pc'[w] = "shared_body" /\ held'[w] = what
        BY <2>4 DEF SharingInv
    <2>6. Reads(w)'
        BY <2>2, <2>3, <2>4, <2>5, <1>3 DEF Reads, LocalsOK, tables
    <2> QED BY <2>3, <2>4, <2>6, QuietInv DEF Labels, HeaderLabels, BodyLabels
<1>9. CASE \E doc \in Blobs : PutBody(w, a, doc)
    <2>1. PICK doc \in Blobs : PutBody(w, a, doc)
        BY <1>9
    <2> DEFINE row == IF IsActive(a) THEN notes[a] ELSE None
               what == [NothingHeld EXCEPT !.user = a, !.doc = doc, !.note = row]
    <2>2. /\ row \in Note \cup {None}
          /\ row # None => a \in DOMAIN notes /\ row = notes[a]
        BY <1>1 DEF TablesOK, IsTable, IsActive
    <2>3. /\ pc' = [pc EXCEPT ![w] = "body_commit"] /\ held' = [held EXCEPT ![w] = what]
          /\ UNCHANGED tables
          /\ OnePut => \A v \in Workers : pc[v] \in BodyLabels => held[v].user # a
          /\ parse_note_blob(doc) # None /\ parse_note_blob(doc).note_id = NoteId
        BY <2>1 DEF PutBody, Begin, InTurn, BodyLabels
    <2> HIDE DEF row
    <2>4. what \in Held /\ what.user = a /\ what.doc = doc /\ what.note = row
        BY <1>3, <2>2, AccountAssumption, NothingHeldType DEF Held, NothingHeld
    <2> HIDE DEF what
    <2>5. pc'[w] = "body_commit" /\ held'[w] = what
        BY <2>3 DEF SharingInv
    <2>6. Reads(w)'
        BY <2>2, <2>3, <2>4, <2>5, <1>3 DEF Reads, LocalsOK, tables
    <2> QED BY <2>3, <2>4, <2>6, QuietInv DEF Labels, HeaderLabels, BodyLabels
<1> QED BY <1>2, <1>4, <1>5, <1>6, <1>7, <1>8, <1>9

\* What a step keeps of the request, besides the field it fills.
LEMMA ReadHeaderInv ==
    ASSUME SharingInv, NEW w \in Workers, ReadHeader(w), ~RollBack(w)
    PROVE  SharingInv'
<1> DEFINE a == held[w].user
           row == IF a \in DOMAIN headers THEN headers[a] ELSE None
           what == [held[w] EXCEPT !.row = row]
<1>1. /\ pc[w] = "header_body" /\ Accepted(parse_vault_header(held[w].doc))
      /\ pc' = [pc EXCEPT ![w] = "header_commit"] /\ UNCHANGED tables
      /\ held' = [held EXCEPT ![w] = what]
    BY DEF ReadHeader, SharingInv
<1>2. held[w] \in Held /\ a \in 1 .. registered
    BY <1>1, HeldUser
<1>3. row \in Header \cup {None} /\ (a \in DOMAIN headers => row = headers[a])
    BY DEF SharingInv, TablesInv, TablesOK, IsTable
<1> HIDE DEF row
<1>4. what \in Held /\ what.user = a /\ what.doc = held[w].doc /\ what.row = row
    BY <1>2, <1>3 DEF Held
<1> HIDE DEF what
<1>5. pc'[w] = "header_commit" /\ held'[w] = what
    BY <1>1 DEF SharingInv
<1>6. Reads(w)'
    BY <1>1, <1>2, <1>3, <1>4, <1>5 DEF Reads, LocalsOK, tables
<1>7. OnePut => \A v \in Workers \ {w} : pc[v] \in HeaderLabels => held[v].user # a
    BY <1>1 DEF SharingInv, PutTurns, HeaderLabels, BodyLabels
<1> QED BY <1>1, <1>4, <1>6, <1>7, QuietInv DEF Labels, HeaderLabels, BodyLabels

LEMMA ShareRecipientInv ==
    ASSUME SharingInv, NEW w \in Workers, ShareRecipient(w), ~RollBack(w)
    PROVE  SharingInv'
<1>1. PICK r \in find_user_by_email(held[w].person) :
        /\ pc[w] = "share_recipient" /\ r # held[w].user
        /\ held' = [held EXCEPT ![w].other = r]
        /\ pc' = [pc EXCEPT ![w] = "share_existing"] /\ UNCHANGED tables
    BY DEF ShareRecipient, IsAnother
<1> DEFINE what == [held[w] EXCEPT !.other = r]
<1>2. held' = [held EXCEPT ![w] = what]
    BY <1>1 DEF SharingInv
<1>3. held[w] \in Held /\ held[w].user \in 1 .. registered
    BY <1>1, HeldUser
<1>4. r \in 1 .. registered /\ r \in AccountIds
    BY Ids DEF find_user_by_email, SharingInv, TablesInv
<1>5. what \in Held /\ what.user = held[w].user /\ what.other = r
    BY <1>3, <1>4 DEF Held
<1> HIDE DEF what
<1>6. pc'[w] = "share_existing" /\ held'[w] = what
    BY <1>1, <1>2 DEF SharingInv
<1>7. Reads(w)'
    BY <1>1, <1>3, <1>4, <1>5, <1>6 DEF Reads, LocalsOK, tables
<1> QED BY <1>1, <1>2, <1>5, <1>7, QuietInv DEF Labels, HeaderLabels, BodyLabels

LEMMA ShareExistingInv ==
    ASSUME SharingInv, NEW w \in Workers, ShareExisting(w), ~RollBack(w)
    PROVE  SharingInv'
<1>1. /\ pc[w] = "share_existing" /\ UNCHANGED tables
      /\ pc' = [pc EXCEPT ![w] = "share_commit"] /\ held' = [held EXCEPT ![w] = held[w]]
    BY DEF ShareExisting, SharingInv
<1>2. held[w] \in Held /\ Reads(w)
    BY DEF SharingInv
<1>3. pc'[w] = "share_commit" /\ held'[w] = held[w]
    BY <1>1 DEF SharingInv
<1>4. Reads(w)'
    BY <1>1, <1>2, <1>3 DEF Reads, LocalsOK, tables
<1> QED BY <1>1, <1>2, <1>4, QuietInv DEF Labels, HeaderLabels, BodyLabels

LEMMA RevokeSelectInv ==
    ASSUME SharingInv, NEW w \in Workers, RevokeSelect(w), ~RollBack(w)
    PROVE  SharingInv'
<1>1. PICK s \in SharesWith(held[w].other) :
        /\ pc[w] = "revoke_share" /\ UNCHANGED tables /\ shares[s].owner = held[w].user
        /\ held' = [held EXCEPT ![w].share = s] /\ pc' = [pc EXCEPT ![w] = "unshare"]
    BY DEF RevokeSelect
<1> DEFINE what == [held[w] EXCEPT !.share = s]
<1>2. held' = [held EXCEPT ![w] = what]
    BY <1>1 DEF SharingInv
<1>3. held[w] \in Held /\ held[w].user \in 1 .. registered
    BY <1>1, HeldUser
<1>4. s \in 1 .. granted /\ s \in ShareIds
    BY Ids DEF SharesWith, SharingInv, TablesInv
<1>5. what \in Held /\ what.user = held[w].user /\ what.share = s
    BY <1>3, <1>4 DEF Held
<1> HIDE DEF what
<1>6. pc'[w] = "unshare" /\ held'[w] = what
    BY <1>1, <1>2 DEF SharingInv
<1>7. Reads(w)'
    BY <1>1, <1>3, <1>4, <1>5, <1>6 DEF Reads, LocalsOK, tables
<1> QED BY <1>1, <1>2, <1>5, <1>7, QuietInv DEF Labels, HeaderLabels, BodyLabels

LEMMA ReadBodyInv ==
    ASSUME SharingInv, NEW w \in Workers, ReadBody(w), ~RollBack(w)
    PROVE  SharingInv'
<1> DEFINE a == held[w].grant.owner
           row == bodies[a]
           what == [held[w] EXCEPT !.body = row]
<1>1. /\ pc[w] = "shared_body" /\ UNCHANGED tables /\ a \in DOMAIN bodies
      /\ held' = [held EXCEPT ![w].body = row] /\ pc' = [pc EXCEPT ![w] = "answer"]
    BY DEF ReadBody, BodiesOf
<1>2. held' = [held EXCEPT ![w] = what]
    BY <1>1 DEF SharingInv
<1>3. held[w] \in Held /\ held[w].user \in 1 .. registered /\ Reads(w)
    BY <1>1, HeldUser DEF SharingInv
<1>4. row \in Body /\ row.fek = a
    BY <1>1 DEF SharingInv, TablesInv, TablesOK, IsTable, BodiesAreNotes
<1> HIDE DEF row
<1>5. what \in Held /\ what.user = held[w].user /\ what.body = row
      /\ what.grant = held[w].grant
    BY <1>3, <1>4 DEF Held
<1> HIDE DEF what
<1>6. pc'[w] = "answer" /\ held'[w] = what
    BY <1>1, <1>2 DEF SharingInv
<1>7. Reads(w)'
    BY <1>1, <1>3, <1>4, <1>5, <1>6 DEF Reads, LocalsOK, tables
<1> QED BY <1>1, <1>2, <1>5, <1>7, QuietInv DEF Labels, HeaderLabels, BodyLabels

-----------------------------------------------------------------------------
(* Writes                                                                  *)

LEMMA WidenTable ==
    ASSUME NEW n \in Nat, NEW m \in Nat, n <= m, NEW rows, NEW table,
           IsTable(table, 1 .. n, rows)
    PROVE  IsTable(table, 1 .. m, rows)
<1>1. 1 .. n \subseteq 1 .. m
    OBVIOUS
<1> QED BY <1>1 DEF IsTable

LEMMA RegisterInv ==
    ASSUME SharingInv, NEW p \in People, Register(p)
    PROVE  SharingInv'
<1>1. /\ registered < MaxAccounts /\ registered' = registered + 1
      /\ users' = Upsert(users, registered', p)
      /\ UNCHANGED <<headers, notes, bodies, shares, granted, pc, held>>
    BY DEF Register
<1>2. TablesOK /\ TablesInv
    BY DEF SharingInv, TablesInv
<1>3. /\ registered \in Nat /\ registered' \in Nat /\ registered <= registered'
      /\ registered' \in 0 .. MaxAccounts /\ registered' \in 1 .. registered'
    BY <1>1, <1>2, AccountAssumption DEF TablesOK
<1>4. IsTable(users, 1 .. registered', People)
    BY <1>2, <1>3, WidenTable DEF TablesOK
<1>5. IsTable(users', 1 .. registered', People) /\ DOMAIN users' = DOMAIN users \cup {registered'}
    <2> DEFINE a == registered'
    <2>1. a \in 1 .. a /\ IsTable(users, 1 .. a, People)
        BY <1>3, <1>4
    <2> HIDE DEF a
    <2>2. /\ IsTable(Upsert(users, a, p), 1 .. a, People)
          /\ DOMAIN Upsert(users, a, p) = DOMAIN users \cup {a}
          /\ Upsert(users, a, p)[a] = p
          /\ \A k \in DOMAIN users \ {a} : Upsert(users, a, p)[k] = users[k]
        BY <2>1 DEF IsTable, Upsert
    <2> QED BY <1>1, <2>2 DEF a
<1>6. /\ IsTable(headers', 1 .. registered', Header) /\ IsTable(notes', 1 .. registered', Note)
      /\ IsTable(bodies', 1 .. registered', Body)
    BY <1>1, <1>2, <1>3, WidenTable DEF TablesOK
<1>7. TablesOK'
    BY <1>1, <1>2, <1>3, <1>5, <1>6 DEF TablesOK
<1>8. TablesInv'
    BY <1>1, <1>2, <1>5, <1>7 DEF TablesInv, NothingOutlivesItsAccount,
       HeadersHaveTheirAccount, BodiesAreNotes, OneShareEach, HeadersParsed
<1>9. pc' \in [Workers -> Labels] /\ held' \in [Workers -> Held] /\ granted <= granted'
    BY <1>1, <1>2, Ids DEF SharingInv
<1> QED BY <1>1, <1>3, <1>8, <1>9, WriteInv

LEMMA DeleteAccountInv ==
    ASSUME SharingInv, NEW a \in DOMAIN users, DeleteAccount(a)
    PROVE  SharingInv'
<1>1. /\ users' = Without(users, {a}) /\ headers' = Without(headers, {a})
      /\ notes' = Without(notes, {a}) /\ bodies' = Without(bodies, {a})
      /\ shares' = Without(shares, SharesOf(a))
      /\ UNCHANGED <<registered, granted, pc, held>>
    BY DEF DeleteAccount
<1>2. TablesOK /\ TablesInv
    BY DEF SharingInv, TablesInv
<1>3. /\ IsTable(users', 1 .. registered, People) /\ DOMAIN users' = DOMAIN users \ {a}
    <2>1. IsTable(users, 1 .. registered, People)
        BY <1>2 DEF TablesOK
    <2>2. /\ IsTable(Without(users, {a}), 1 .. registered, People)
          /\ DOMAIN Without(users, {a}) = DOMAIN users \ {a}
          /\ \A k \in DOMAIN users \ {a} : Without(users, {a})[k] = users[k]
        BY <2>1 DEF IsTable, Without, Restrict
    <2> QED BY <1>1, <2>2
<1>4. /\ IsTable(headers', 1 .. registered, Header) /\ DOMAIN headers' = DOMAIN headers \ {a}
      /\ \A b \in DOMAIN headers \ {a} : headers'[b] = headers[b]
    <2>1. IsTable(headers, 1 .. registered, Header)
        BY <1>2 DEF TablesOK
    <2>2. /\ IsTable(Without(headers, {a}), 1 .. registered, Header)
          /\ DOMAIN Without(headers, {a}) = DOMAIN headers \ {a}
          /\ \A k \in DOMAIN headers \ {a} : Without(headers, {a})[k] = headers[k]
        BY <2>1 DEF IsTable, Without, Restrict
    <2> QED BY <1>1, <2>2
<1>5. /\ IsTable(notes', 1 .. registered, Note) /\ DOMAIN notes' = DOMAIN notes \ {a}
      /\ \A b \in DOMAIN notes \ {a} : notes'[b] = notes[b]
    <2>1. IsTable(notes, 1 .. registered, Note)
        BY <1>2 DEF TablesOK
    <2>2. /\ IsTable(Without(notes, {a}), 1 .. registered, Note)
          /\ DOMAIN Without(notes, {a}) = DOMAIN notes \ {a}
          /\ \A k \in DOMAIN notes \ {a} : Without(notes, {a})[k] = notes[k]
        BY <2>1 DEF IsTable, Without, Restrict
    <2> QED BY <1>1, <2>2
<1>6. /\ IsTable(bodies', 1 .. registered, Body) /\ DOMAIN bodies' = DOMAIN bodies \ {a}
      /\ \A b \in DOMAIN bodies \ {a} : bodies'[b] = bodies[b]
    <2>1. IsTable(bodies, 1 .. registered, Body)
        BY <1>2 DEF TablesOK
    <2>2. /\ IsTable(Without(bodies, {a}), 1 .. registered, Body)
          /\ DOMAIN Without(bodies, {a}) = DOMAIN bodies \ {a}
          /\ \A k \in DOMAIN bodies \ {a} : Without(bodies, {a})[k] = bodies[k]
        BY <2>1 DEF IsTable, Without, Restrict
    <2> QED BY <1>1, <2>2
<1>7. /\ IsTable(shares', 1 .. granted, Share)
      /\ DOMAIN shares' = DOMAIN shares \ SharesOf(a)
      /\ \A s \in DOMAIN shares \ SharesOf(a) : shares'[s] = shares[s]
    <2>1. IsTable(shares, 1 .. granted, Share)
        BY <1>2 DEF TablesOK
    <2>2. /\ IsTable(Without(shares, SharesOf(a)), 1 .. granted, Share)
          /\ DOMAIN Without(shares, SharesOf(a)) = DOMAIN shares \ SharesOf(a)
          /\ \A k \in DOMAIN shares \ SharesOf(a) : Without(shares, SharesOf(a))[k] = shares[k]
        BY <2>1 DEF IsTable, Without, Restrict
    <2> QED BY <1>1, <2>2
<1>8. TablesOK'
    BY <1>1, <1>2, <1>3, <1>4, <1>5, <1>6, <1>7 DEF TablesOK
<1>9. NothingOutlivesItsAccount' /\ HeadersHaveTheirAccount'
    BY <1>2, <1>3, <1>4, <1>5, <1>6, <1>7
       DEF TablesInv, NothingOutlivesItsAccount, HeadersHaveTheirAccount, SharesOf
<1>10. BodiesAreNotes'
    BY <1>2, <1>5, <1>6 DEF TablesInv, BodiesAreNotes
<1>11. OneShareEach' /\ HeadersParsed'
    BY <1>2, <1>4, <1>7 DEF TablesInv, OneShareEach, HeadersParsed
<1>12. pc' \in [Workers -> Labels] /\ held' \in [Workers -> Held]
       /\ registered <= registered' /\ granted <= granted'
    BY <1>1, <1>2, Ids DEF SharingInv
<1> QED BY <1>1, <1>4, <1>5, <1>7, <1>8, <1>9, <1>10, <1>11, <1>12, WriteInv DEF TablesInv

\* The title that is stored is the one of the body, unless another PUT of the
\* account came between the read and the commit.
LEMMA CommitBodyInv ==
    ASSUME SharingInv, NEW w \in Workers, CommitBody(w), ~RollBack(w)
    PROVE  SharingInv'
<1> DEFINE a == held[w].user
           doc == held[w].doc
           old == held[w].note
           title == parse_note_blob(doc).title
           body == [data |-> doc, fek |-> a]
<1>1. /\ pc[w] = "body_commit" /\ Respond(w)
      /\ UNCHANGED <<users, registered, headers, shares, granted>>
    BY DEF CommitBody
<1>2. TablesOK /\ TablesInv /\ Reads(w) /\ held[w] \in Held
    BY DEF SharingInv, TablesInv
<1>3. a \in 1 .. registered /\ a \in AccountIds /\ doc \in Documents
    BY <1>1, <1>2, Ids DEF Reads, LocalsOK, Held
<1>4. title \in Documents /\ IsNoteBlob(doc, NoteId, title)
    BY <1>1, <1>2, <1>3, NoteBlobParsed DEF Reads, LocalsOK
<1>5. body \in Body /\ body.data = doc /\ body.fek = a
    BY <1>3 DEF Body
<1>6. PICK row \in Note :
        /\ row.state = "active" /\ (OnePut => row.title = title)
        /\ notes' = Upsert(notes, a, row) /\ bodies' = Upsert(bodies, a, body)
        /\ a \in DOMAIN users
    <2>1. CASE old = None
        <3> DEFINE new == [state |-> "active", title |-> title]
        <3>1. /\ CanInsertNote(a)
              /\ notes' = Upsert(notes, a, new) /\ bodies' = Upsert(bodies, a, body)
            BY <2>1 DEF CommitBody
        <3> HIDE DEF title
        <3>2. new \in Note /\ new.state = "active" /\ new.title = title
            BY <1>4 DEF Note
        <3> HIDE DEF new, body
        <3> QED BY <3>1, <3>2 DEF CanInsertNote, Authenticated
    <2>2. CASE old # None
        <3> DEFINE now == notes[a]
                   stored == Changed(title, old.title, now.title)
                   new == [now EXCEPT !.title = stored]
        <3>1. /\ IsActive(a)
              /\ notes' = Upsert(notes, a, new) /\ bodies' = Upsert(bodies, a, body)
            BY <2>2 DEF CommitBody
        <3>2. now \in Note /\ now.state = "active" /\ a \in DOMAIN notes
            BY <3>1, <1>2 DEF IsActive, TablesOK, IsTable
        <3>3. OnePut => now.title = old.title
            BY <1>1, <1>2, <2>2, <3>2 DEF Reads
        <3>4. a \in DOMAIN users
            BY <1>2, <3>2 DEF TablesInv, NothingOutlivesItsAccount
        <3> HIDE DEF title, now
        <3>5. stored \in Documents /\ (OnePut => stored = title)
            BY <1>4, <3>2, <3>3 DEF Changed, Note
        <3> HIDE DEF stored
        <3>6. new \in Note /\ new.state = "active" /\ new.title = stored
            BY <3>2, <3>5 DEF Note
        <3> HIDE DEF new, body
        <3> QED BY <3>1, <3>4, <3>5, <3>6
    <2> QED BY <2>1, <2>2
<1> HIDE DEF title, body
<1>7. /\ IsTable(notes', 1 .. registered, Note) /\ DOMAIN notes' = DOMAIN notes \cup {a}
      /\ notes'[a] = row /\ \A b \in DOMAIN notes \ {a} : notes'[b] = notes[b]
    <2>1. IsTable(notes, 1 .. registered, Note)
        BY <1>2 DEF TablesOK
    <2> HIDE DEF a
    <2>2. /\ IsTable(Upsert(notes, a, row), 1 .. registered, Note)
          /\ DOMAIN Upsert(notes, a, row) = DOMAIN notes \cup {a}
          /\ Upsert(notes, a, row)[a] = row
          /\ \A k \in DOMAIN notes \ {a} : Upsert(notes, a, row)[k] = notes[k]
        BY <2>1, <1>3, <1>6 DEF IsTable, Upsert
    <2> QED BY <1>6, <2>2
<1>8. /\ IsTable(bodies', 1 .. registered, Body) /\ DOMAIN bodies' = DOMAIN bodies \cup {a}
      /\ bodies'[a] = body /\ \A b \in DOMAIN bodies \ {a} : bodies'[b] = bodies[b]
    <2>1. IsTable(bodies, 1 .. registered, Body)
        BY <1>2 DEF TablesOK
    <2> HIDE DEF a
    <2>2. /\ IsTable(Upsert(bodies, a, body), 1 .. registered, Body)
          /\ DOMAIN Upsert(bodies, a, body) = DOMAIN bodies \cup {a}
          /\ Upsert(bodies, a, body)[a] = body
          /\ \A k \in DOMAIN bodies \ {a} : Upsert(bodies, a, body)[k] = bodies[k]
        BY <2>1, <1>3, <1>5 DEF IsTable, Upsert
    <2> QED BY <1>6, <2>2
<1>9. TablesOK'
    BY <1>1, <1>2, <1>7, <1>8 DEF TablesOK
<1>10. NothingOutlivesItsAccount' /\ HeadersHaveTheirAccount'
    BY <1>1, <1>2, <1>6, <1>7, <1>8
       DEF TablesInv, NothingOutlivesItsAccount, HeadersHaveTheirAccount
<1>11. BodiesAreNotes'
    <2>1. DOMAIN bodies' = {b \in DOMAIN notes' : notes'[b].state = "active"}
        BY <1>2, <1>6, <1>7, <1>8 DEF TablesInv, BodiesAreNotes
    <2>2. ASSUME NEW b \in DOMAIN bodies'
          PROVE  /\ bodies'[b].fek = b
                 /\ OnePut => IsNoteBlob(bodies'[b].data, NoteId, notes'[b].title)
        <3>1. CASE b = a
            BY <3>1, <1>4, <1>5, <1>6, <1>7, <1>8
        <3>2. CASE b # a
            BY <3>2, <1>2, <1>7, <1>8 DEF TablesInv, BodiesAreNotes
        <3> QED BY <3>1, <3>2
    <2> QED BY <2>1, <2>2 DEF BodiesAreNotes
<1>12. OneShareEach' /\ HeadersParsed'
    BY <1>1, <1>2 DEF TablesInv, OneShareEach, HeadersParsed
<1>13. /\ pc' = [pc EXCEPT ![w] = "idle"] /\ held' = [held EXCEPT ![w] = NothingHeld]
    BY <1>1 DEF Respond
<1>14. /\ pc' \in [Workers -> Labels] /\ held' \in [Workers -> Held]
       /\ \A v \in Workers : pc'[v] = "idle" \/ (pc'[v] = pc[v] /\ held'[v] = held[v])
    BY <1>13, NothingHeldType DEF SharingInv, Labels
<1>15. ASSUME NEW v \in Workers, OnePut, pc'[v] = "body_commit"
       PROVE  held[v].user # a
    <2>1. v # w /\ pc[v] = "body_commit"
        BY <1>13, <1>15 DEF SharingInv
    <2> QED BY <2>1, <1>1, <1>15 DEF SharingInv, PutTurns, BodyLabels
<1>16. registered <= registered' /\ granted <= granted'
    BY <1>1, <1>2, Ids
<1> QED BY <1>1, <1>7, <1>9, <1>10, <1>11, <1>12, <1>14, <1>15, <1>16, WriteInv DEF TablesInv

LEMMA DeleteNoteInv ==
    ASSUME SharingInv, NEW a \in DOMAIN users, DeleteNote(a)
    PROVE  SharingInv'
<1>1. /\ a \in DOMAIN notes /\ notes' = [notes EXCEPT ![a].state = "deleted"]
      /\ bodies' = Without(bodies, {a})
      /\ UNCHANGED <<users, registered, headers, shares, granted, pc, held>>
    BY DEF DeleteNote, IsActive
<1>2. TablesOK /\ TablesInv
    BY DEF SharingInv, TablesInv
<1>3. /\ IsTable(notes', 1 .. registered, Note) /\ DOMAIN notes' = DOMAIN notes
      /\ notes'[a].state = "deleted" /\ \A b \in DOMAIN notes \ {a} : notes'[b] = notes[b]
    <2> DEFINE row == [notes[a] EXCEPT !.state = "deleted"]
    <2>1. row \in Note /\ row.state = "deleted"
        BY <1>1, <1>2 DEF TablesOK, IsTable, Note
    <2>2. notes' = [notes EXCEPT ![a] = row]
        BY <1>1
    <2> HIDE DEF row
    <2> QED BY <1>1, <1>2, <2>1, <2>2 DEF TablesOK, IsTable
<1>4. /\ IsTable(bodies', 1 .. registered, Body) /\ DOMAIN bodies' = DOMAIN bodies \ {a}
      /\ \A b \in DOMAIN bodies \ {a} : bodies'[b] = bodies[b]
    <2>1. IsTable(bodies, 1 .. registered, Body)
        BY <1>2 DEF TablesOK
    <2>2. /\ IsTable(Without(bodies, {a}), 1 .. registered, Body)
          /\ DOMAIN Without(bodies, {a}) = DOMAIN bodies \ {a}
          /\ \A k \in DOMAIN bodies \ {a} : Without(bodies, {a})[k] = bodies[k]
        BY <2>1 DEF IsTable, Without, Restrict
    <2> QED BY <1>1, <2>2
<1>5. TablesOK'
    BY <1>1, <1>2, <1>3, <1>4 DEF TablesOK
<1>6. NothingOutlivesItsAccount' /\ HeadersHaveTheirAccount'
    BY <1>1, <1>2, <1>3, <1>4
       DEF TablesInv, NothingOutlivesItsAccount, HeadersHaveTheirAccount
<1>7. BodiesAreNotes'
    BY <1>2, <1>3, <1>4 DEF TablesInv, BodiesAreNotes
<1>8. OneShareEach' /\ HeadersParsed'
    BY <1>1, <1>2 DEF TablesInv, OneShareEach, HeadersParsed
<1>9. pc' \in [Workers -> Labels] /\ held' \in [Workers -> Held]
       /\ registered <= registered' /\ granted <= granted'
    BY <1>1, <1>2, Ids DEF SharingInv
<1> QED BY <1>1, <1>3, <1>5, <1>6, <1>7, <1>8, <1>9, WriteInv DEF TablesInv

LEMMA HeaderRowType ==
    ASSUME NEW doc \in Documents, Accepted(parse_vault_header(doc))
    PROVE  /\ HeaderRow(doc) \in Header /\ HeaderRow(doc).data = doc
           /\ IsVaultHeader(doc, parse_vault_header(doc).public_key,
                            parse_vault_header(doc).algorithm_id)
           /\ parse_vault_header(doc).algorithm_id \in Nat
<1> DEFINE key == parse_vault_header(doc).public_key
           id == parse_vault_header(doc).algorithm_id
<1>1. /\ key \in Nat /\ id \in Nat /\ IsVaultHeader(doc, key, id)
    BY VaultHeaderParsed DEF Accepted
<1>2. HeaderRow(doc) = [data |-> doc, public_key |-> key, algorithm_id |-> AlgorithmOrDefault(id)]
    BY DEF HeaderRow
<1> HIDE DEF key, id
<1>3. AlgorithmOrDefault(id) \in Nat
    BY <1>1 DEF AlgorithmOrDefault
<1>4. HeaderRow(doc) \in Header /\ HeaderRow(doc).data = doc
    BY <1>1, <1>2, <1>3 DEF Header
<1> QED BY <1>1, <1>4 DEF key, id

\* A header is written over the one read, or over another one's only if an
\* account may have several PUTs open.
LEMMA HeaderWrittenInv ==
    ASSUME SharingInv, NEW w \in Workers, pc[w] = "header_commit", Respond(w),
           NEW row \in Header, held[w].user \in DOMAIN users,
           OnePut => row = HeaderRow(held[w].doc),
           headers' = Upsert(headers, held[w].user, row),
           UNCHANGED <<users, registered, notes, bodies, shares, granted>>
    PROVE  SharingInv'
<1> DEFINE a == held[w].user
<1>1. /\ pc' = [pc EXCEPT ![w] = "idle"] /\ held' = [held EXCEPT ![w] = NothingHeld]
    BY DEF Respond
<1>2. TablesOK /\ TablesInv
    BY DEF SharingInv, TablesInv
<1>3. /\ a \in 1 .. registered /\ held[w].doc \in Documents
      /\ Accepted(parse_vault_header(held[w].doc))
    BY HeldUser DEF SharingInv, Reads, LocalsOK, Held
<1>4. /\ IsTable(headers', 1 .. registered, Header) /\ DOMAIN headers' = DOMAIN headers \cup {a}
      /\ headers'[a] = row /\ \A b \in DOMAIN headers \ {a} : headers'[b] = headers[b]
    BY <1>2, <1>3 DEF TablesOK, IsTable, Upsert
<1>5. TablesOK' /\ NothingOutlivesItsAccount' /\ BodiesAreNotes' /\ OneShareEach'
    BY <1>2, <1>4
       DEF TablesOK, TablesInv, NothingOutlivesItsAccount, BodiesAreNotes, OneShareEach
<1>6. HeadersHaveTheirAccount'
    BY <1>2, <1>4 DEF TablesInv, HeadersHaveTheirAccount
<1>7. HeadersParsed'
    <2>1. OnePut => row.data = held[w].doc
        BY <1>3, HeaderRowType
    <2> QED BY <2>1, <1>2, <1>3, <1>4 DEF TablesInv, HeadersParsed
<1>8. ASSUME NEW v \in Workers, OnePut, pc'[v] = "header_commit"
      PROVE  /\ v # w /\ held[v].user # a
             /\ held[v].user \in DOMAIN headers' =>
                  /\ held[v].user \in DOMAIN headers
                  /\ headers'[held[v].user] = headers[held[v].user]
    <2>1. v # w /\ pc[v] = "header_commit"
        BY <1>1, <1>8 DEF SharingInv
    <2>2. held[v].user # a
        BY <2>1, <1>8 DEF SharingInv, PutTurns, HeaderLabels, BodyLabels
    <2> QED BY <2>1, <2>2, <1>4
<1>9. /\ pc' \in [Workers -> Labels] /\ held' \in [Workers -> Held]
      /\ \A v \in Workers : pc'[v] = "idle" \/ (pc'[v] = pc[v] /\ held'[v] = held[v])
    BY <1>1, NothingHeldType DEF SharingInv, Labels
<1>10. registered <= registered' /\ granted <= granted'
    BY <1>2, Ids
<1> QED BY <1>5, <1>6, <1>7, <1>8, <1>9, <1>10, WriteInv DEF TablesInv

LEMMA CommitHeaderInv ==
    ASSUME SharingInv, NEW w \in Workers, CommitHeader(w), ~RollBack(w)
    PROVE  SharingInv'
<1> DEFINE a == held[w].user
           old == held[w].row
           new == HeaderRow(held[w].doc)
<1>1. pc[w] = "header_commit"
    BY DEF CommitHeader
<1>2. TablesInv /\ Reads(w) /\ held[w] \in Held
    BY DEF SharingInv
<1>3. new \in Header
    BY <1>1, <1>2, HeaderRowType DEF Reads, LocalsOK, Held
<1>4. CASE /\ old = None /\ CanInsertHeader(a)
           /\ headers' = Upsert(headers, a, new)
           /\ Respond(w)
           /\ UNCHANGED <<users, registered, notes, bodies, shares, granted>>
    <2>1. a \in DOMAIN users
        BY <1>4 DEF CanInsertHeader, Authenticated
    <2> QED BY <1>1, <1>3, <1>4, <2>1, HeaderWrittenInv
<1>5. CASE /\ old \notin {None, new} /\ a \in DOMAIN headers
           /\ headers' = [headers EXCEPT ![a] = UpdatedHeader(@, old, new)]
           /\ Respond(w)
           /\ UNCHANGED <<users, registered, notes, bodies, shares, granted>>
    <2> DEFINE now == headers[a]
               row == UpdatedHeader(now, old, new)
    <2>1. a \in DOMAIN users
        BY <1>2, <1>5 DEF TablesInv, HeadersHaveTheirAccount
    <2>2. now \in Header /\ old \in Header
        BY <1>2, <1>5 DEF TablesInv, TablesOK, IsTable, Held
    <2>3. OnePut => now = old
        BY <1>1, <1>2, <1>5 DEF Reads
    <2>4. headers' = Upsert(headers, a, row)
        BY <1>2, <1>5 DEF TablesInv, TablesOK, IsTable, Upsert
    <2>5. row \in Header
        <3> HIDE DEF now, old, new
        <3> QED BY <1>3, <2>2 DEF Header, UpdatedHeader, Changed
    <2>6. now = old => row = new
        <3> HIDE DEF now, old, new
        <3> QED BY <1>3, <2>2 DEF Header, UpdatedHeader, Changed
    <2> QED BY <1>1, <1>5, <2>1, <2>3, <2>4, <2>5, <2>6, HeaderWrittenInv
<1> QED BY <1>4, <1>5 DEF CommitHeader

LEMMA ShareCommitInv ==
    ASSUME SharingInv, NEW w \in Workers, ShareCommit(w), ~RollBack(w)
    PROVE  SharingInv'
<1> DEFINE a == held[w].user
           r == held[w].other
           row == [owner |-> a, recipient |-> r, wrapped_fek |-> a]
<1>1. /\ pc[w] = "share_commit" /\ CanInsertShare(a, r) /\ granted < MaxShares
      /\ granted' = granted + 1 /\ shares' = Upsert(shares, granted', row)
      /\ Respond(w)
      /\ UNCHANGED <<users, registered, headers, notes, bodies>>
    BY DEF ShareCommit
<1>2. /\ pc' = [pc EXCEPT ![w] = "idle"] /\ held' = [held EXCEPT ![w] = NothingHeld]
    BY <1>1 DEF Respond
<1>3. TablesOK /\ TablesInv /\ Reads(w)
    BY DEF SharingInv, TablesInv
<1>4. a \in AccountIds /\ r \in AccountIds /\ r # a
    BY <1>1, <1>3, Ids DEF Reads, LocalsOK
<1>5. row \in Share /\ row.owner = a /\ row.recipient = r /\ row.wrapped_fek = a
    BY <1>4 DEF Share
<1> HIDE DEF row
<1>6. /\ granted \in Nat /\ granted' \in 0 .. MaxShares /\ granted' \in 1 .. granted'
      /\ granted <= granted' /\ registered <= registered' /\ 1 .. granted \subseteq 1 .. granted'
    BY <1>1, <1>3, Ids, AccountAssumption DEF TablesOK
<1>7. /\ IsTable(shares', 1 .. granted', Share) /\ DOMAIN shares' = DOMAIN shares \cup {granted'}
      /\ shares'[granted'] = row /\ granted' \notin DOMAIN shares
      /\ \A s \in DOMAIN shares : shares'[s] = shares[s]
    <2>1. granted' \notin DOMAIN shares /\ IsTable(shares, 1 .. granted, Share)
        BY <1>1, <1>3, <1>6 DEF TablesOK, IsTable
    <2> QED BY <1>1, <1>5, <1>6, <2>1 DEF IsTable, Upsert
<1>8. TablesOK' /\ HeadersHaveTheirAccount' /\ BodiesAreNotes' /\ HeadersParsed'
    BY <1>1, <1>3, <1>6, <1>7
       DEF TablesOK, TablesInv, HeadersHaveTheirAccount, BodiesAreNotes, HeadersParsed
<1>9. NothingOutlivesItsAccount'
    BY <1>1, <1>3, <1>5, <1>7
       DEF TablesInv, NothingOutlivesItsAccount, CanInsertShare, Authenticated
<1>10. OneShareEach'
    <2>1. \A s \in DOMAIN shares : shares[s].recipient # r
        BY <1>1 DEF CanInsertShare, SharesWith
    <2> QED BY <1>3, <1>4, <1>5, <1>7, <2>1 DEF TablesInv, OneShareEach
<1>11. /\ pc' \in [Workers -> Labels] /\ held' \in [Workers -> Held]
       /\ \A v \in Workers : pc'[v] = "idle" \/ (pc'[v] = pc[v] /\ held'[v] = held[v])
    BY <1>2, NothingHeldType DEF SharingInv, Labels
<1> QED BY <1>1, <1>6, <1>7, <1>8, <1>9, <1>10, <1>11, WriteInv DEF TablesInv

LEMMA UnshareInv ==
    ASSUME SharingInv, NEW w \in Workers, Unshare(w)
    PROVE  SharingInv'
<1> DEFINE s == held[w].share
<1>1. /\ shares' = Without(shares, {s}) /\ Respond(w)
      /\ UNCHANGED <<users, registered, headers, notes, bodies, granted>>
    BY DEF Unshare, Selected
<1>2. /\ pc' = [pc EXCEPT ![w] = "idle"] /\ held' = [held EXCEPT ![w] = NothingHeld]
    BY <1>1 DEF Respond
<1>3. TablesOK /\ TablesInv
    BY DEF SharingInv, TablesInv
<1>4. /\ IsTable(shares', 1 .. granted, Share) /\ DOMAIN shares' = DOMAIN shares \ {s}
      /\ \A t \in DOMAIN shares \ {s} : shares'[t] = shares[t]
    BY <1>1, <1>3 DEF TablesOK, IsTable, Without, Restrict
<1>5. TablesInv'
    <2>1. TablesOK' /\ HeadersHaveTheirAccount' /\ BodiesAreNotes' /\ HeadersParsed'
        BY <1>1, <1>3, <1>4
           DEF TablesOK, TablesInv, HeadersHaveTheirAccount, BodiesAreNotes, HeadersParsed
    <2>2. NothingOutlivesItsAccount'
        BY <1>1, <1>3, <1>4 DEF TablesInv, NothingOutlivesItsAccount
    <2>3. OneShareEach'
        BY <1>3, <1>4 DEF TablesInv, OneShareEach
    <2> QED BY <2>1, <2>2, <2>3 DEF TablesInv
<1>6. /\ pc' \in [Workers -> Labels] /\ held' \in [Workers -> Held]
      /\ \A v \in Workers : pc'[v] = "idle" \/ (pc'[v] = pc[v] /\ held'[v] = held[v])
    BY <1>2, NothingHeldType DEF SharingInv, Labels
<1>7. registered <= registered' /\ granted <= granted'
    BY <1>1, <1>3, Ids
<1> QED BY <1>1, <1>4, <1>5, <1>6, <1>7, WriteInv

-----------------------------------------------------------------------------

LEMMA NextSharingInv == SharingInv /\ [Next]_vars => SharingInv'
<1> SUFFICES ASSUME SharingInv, [Next]_vars PROVE SharingInv'
    OBVIOUS
<1>1. CASE Operations
    BY <1>1, RegisterInv, DeleteAccountInv, DeleteNoteInv DEF Operations
<1>2. ASSUME NEW w \in Workers, Request(w)
      PROVE  SharingInv'
    BY <1>2, RequestInv
<1>3. ASSUME NEW w \in Workers, Step(w)
      PROVE  SharingInv'
    <2>1. CASE RollBack(w)
        BY <2>1, RollBackInv
    <2>2. CASE ~RollBack(w)
        BY <1>3, <2>2, CommitBodyInv, ReadHeaderInv, CommitHeaderInv, ShareRecipientInv, ShareExistingInv,
           ShareCommitInv, RevokeSelectInv, UnshareInv, ReadBodyInv DEF Step, Answer
    <2> QED BY <2>1, <2>2
<1>4. ASSUME NEW w \in Workers, Crash(w)
      PROVE  SharingInv'
    BY <1>4, RollBackInv DEF Crash
<1>5. CASE UNCHANGED vars
    BY <1>5 DEF vars, tables, SharingInv, TablesInv, TablesOK, NothingOutlivesItsAccount,
       HeadersHaveTheirAccount, BodiesAreNotes, OneShareEach, HeadersParsed, Reads, LocalsOK,
       PutTurns
<1> QED BY <1>1, <1>2, <1>3, <1>4, <1>5 DEF Next

LEMMA AlwaysSharingInv == Spec => []SharingInv
BY InitSharingInv, NextSharingInv, PTL DEF Spec

\* However many requests interleave, rows have their types and a handler has
\* read what its next statement uses.
THEOREM TypeCorrect == Spec => []TypeOK
<1>1. SharingInv => TypeOK
    BY DEF SharingInv, TablesInv, TablesOK, Reads, TypeOK
<1> QED BY <1>1, AlwaysSharingInv, PTL

\* No note, body or share is left when an account of it has been deleted, at
\* whatever moment of a share_note that happens.
THEOREM NothingOutlives == Spec => []NothingOutlivesItsAccount
<1>1. SharingInv => NothingOutlivesItsAccount
    BY DEF SharingInv, TablesInv
<1> QED BY <1>1, AlwaysSharingInv, PTL

\* No vault header is left, or put again by a request that was under way, when
\* its account has been deleted.
THEOREM HeadersEndWithTheAccount == Spec => []HeadersHaveTheirAccount
<1>1. SharingInv => HeadersHaveTheirAccount
    BY DEF SharingInv, TablesInv
<1> QED BY <1>1, AlwaysSharingInv, PTL

\* If an account's body is put by one request at a time, every stored body, of
\* every length, is a whole note blob with the title of its row.
THEOREM BodiesAreWhole ==
    ASSUME OnePut
    PROVE  Spec => []StoredBlobIsWhole
<1>1. SharingInv => StoredBlobIsWhole
    BY DEF SharingInv, TablesInv, BodiesAreNotes, StoredBlobIsWhole
<1> QED BY <1>1, AlwaysSharingInv, PTL

\* A share ends with an account of it or in a request of one of its ends, also
\* when the row a request has selected is replaced by another owner's share.
THEOREM SharesEndByTheirEnds == Spec => RemovedByItsEnds
<1> DEFINE Removal ==
        \A s \in DOMAIN shares \ DOMAIN shares' :
          \/ ~({shares[s].owner, shares[s].recipient} \subseteq DOMAIN users')
          \/ \E w \in Workers :
               /\ pc[w] = "unshare" /\ pc'[w] # "unshare"
               /\ held[w].user \in {shares[s].owner, shares[s].recipient}
<1>1. SharingInv /\ [Next]_vars => [Removal]_vars
    <2> SUFFICES ASSUME SharingInv, Next, NEW s \in DOMAIN shares, s \notin DOMAIN shares'
                 PROVE  \/ ~({shares[s].owner, shares[s].recipient} \subseteq DOMAIN users')
                        \/ \E w \in Workers :
                             /\ pc[w] = "unshare" /\ pc'[w] # "unshare"
                             /\ held[w].user \in {shares[s].owner, shares[s].recipient}
        OBVIOUS
    <2>1. ASSUME NEW a \in DOMAIN users, DeleteAccount(a)
          PROVE  a \in {shares[s].owner, shares[s].recipient} /\ a \notin DOMAIN users'
        BY <2>1 DEF DeleteAccount, Without, Restrict, SharesOf
    <2>2. ASSUME NEW w \in Workers, Unshare(w)
          PROVE  /\ pc[w] = "unshare" /\ pc'[w] # "unshare"
                 /\ held[w].user \in {shares[s].owner, shares[s].recipient}
        <3>1. /\ pc[w] = "unshare" /\ shares' = Without(shares, {held[w].share})
              /\ pc' = [pc EXCEPT ![w] = "idle"]
            BY <2>2 DEF Unshare, Selected, Respond
        <3>2. s = held[w].share
            BY <3>1 DEF Without, Restrict
        <3>3. pc'[w] = "idle" /\ Reads(w)
            BY <3>1 DEF SharingInv
        <3> QED BY <3>1, <3>2, <3>3 DEF Reads
    <2>3. ASSUME NEW w \in Workers, ShareCommit(w)
          PROVE  DOMAIN shares \subseteq DOMAIN shares'
        BY <2>3 DEF ShareCommit, Upsert, RollBack, tables
    <2>4. \/ \E a \in DOMAIN users : DeleteAccount(a)
          \/ \E w \in Workers : Unshare(w) \/ ShareCommit(w)
          \/ shares' = shares
        <3>1. CASE Operations
            BY <3>1 DEF Operations, Register, DeleteNote
        <3>2. ASSUME NEW w \in Workers, Request(w)
              PROVE  shares' = shares
            BY <3>2 DEF Request, PutBody, PutHeader, ShareNote, RevokeShare, RemoveShared,
               ReadShared, Begin, tables
        <3>3. ASSUME NEW w \in Workers, Step(w)
              PROVE  Unshare(w) \/ ShareCommit(w) \/ shares' = shares
            BY <3>3 DEF Step, CommitBody, ReadHeader, CommitHeader, ShareRecipient,
               ShareExisting, RevokeSelect, ReadBody, Answer, RollBack, tables
        <3>4. ASSUME NEW w \in Workers, Crash(w)
              PROVE  shares' = shares
            BY <3>4 DEF Crash, RollBack, tables
        <3> QED BY <3>1, <3>2, <3>3, <3>4 DEF Next
    <2> QED BY <2>1, <2>2, <2>3, <2>4
<1>2. [Removal]_vars => [\A s \in DOMAIN shares \ DOMAIN shares' :
          LET ends == {shares[s].owner, shares[s].recipient} IN
          \/ ~(ends \subseteq DOMAIN users')
          \/ \E w \in Workers : /\ pc[w] = "unshare" /\ pc'[w] # "unshare"
                                 /\ held[w].user \in ends]_vars
    OBVIOUS
<1> QED BY <1>1, <1>2, AlwaysSharingInv, PTL DEF Spec, RemovedByItsEnds

\* The key in an answer to a recipient opens the body in it.
THEOREM RecipientsCanOpen == Spec => []AnswerOpens
<1>1. SharingInv => AnswerOpens
    BY DEF SharingInv, Reads, AnswerOpens
<1> QED BY <1>1, AlwaysSharingInv, PTL

\* If an account's header is put by one request at a time, the key served for an
\* address is that of the header stored, and so is the algorithm, save for the
\* default 1 that stands for 0.
THEOREM ServedKeyIsTheHeaders ==
    ASSUME OnePut
    PROVE  Spec => []HeaderNamesItsKey
<1>1. SharingInv => HeaderNamesItsKey
    <2> SUFFICES ASSUME SharingInv,
                        NEW p \in People, NEW a \in find_user_by_email(p) \cap DOMAIN headers
                 PROVE  LET served == headers[a].algorithm_id IN
                        /\ served # 0
                        /\ \E id \in {served} \cup (IF served = 1 THEN {0} ELSE {}) :
                             IsVaultHeader(headers[a].data, headers[a].public_key, id)
        BY DEF HeaderNamesItsKey, get_public_key_by_email
    <2> DEFINE doc == headers[a].data
               id == parse_vault_header(doc).algorithm_id
               key == parse_vault_header(doc).public_key
    <2>1. /\ Accepted(parse_vault_header(doc)) /\ headers[a] = HeaderRow(doc)
          /\ doc \in Documents
        BY DEF SharingInv, TablesInv, TablesOK, IsTable, Header, HeadersParsed
    <2>2. IsVaultHeader(doc, key, id) /\ id \in Nat
        BY <2>1, HeaderRowType
    <2>3. headers[a].public_key = key /\ headers[a].algorithm_id = IF id = 0 THEN 1 ELSE id
        BY <2>1 DEF HeaderRow, AlgorithmOrDefault
    <2> HIDE DEF doc, id, key
    <2> QED BY <2>2, <2>3 DEF doc
<1> QED BY <1>1, AlwaysSharingInv, PTL

-----------------------------------------------------------------------------
(* The refinement: the library and the grants of a state, and what each    *)
(* write does to them.                                                     *)

Library(rows) == [a \in DOMAIN rows |-> rows[a].state]

Keyed(rows) == \A s, t \in DOMAIN rows : rows[s].recipient = rows[t].recipient => s = t
GrantsIn(rows) ==
    [r \in {rows[s].recipient : s \in DOMAIN rows} |->
        rows[CHOOSE s \in DOMAIN rows : rows[s].recipient = r].owner]

LEMMA GrantsAre ==
    ASSUME NEW rows, Keyed(rows), NEW s \in DOMAIN rows
    PROVE  /\ rows[s].recipient \in DOMAIN GrantsIn(rows)
           /\ GrantsIn(rows)[rows[s].recipient] = rows[s].owner
<1> DEFINE r == rows[s].recipient
           t == CHOOSE k \in DOMAIN rows : rows[k].recipient = r
<1>1. t \in DOMAIN rows /\ rows[t].recipient = r
    OBVIOUS
<1>2. t = s
    BY <1>1 DEF Keyed
<1>3. r \in DOMAIN GrantsIn(rows) /\ GrantsIn(rows)[r] = rows[t].owner
    BY DEF GrantsIn
<1> QED BY <1>2, <1>3

LEMMA GrantAdded ==
    ASSUME NEW rows, Keyed(rows), NEW n, n \notin DOMAIN rows, NEW row,
           \A s \in DOMAIN rows : rows[s].recipient # row.recipient
    PROVE  GrantsIn(Upsert(rows, n, row)) = Upsert(GrantsIn(rows), row.recipient, row.owner)
<1> DEFINE after == Upsert(rows, n, row)
           left == GrantsIn(after)
           right == Upsert(GrantsIn(rows), row.recipient, row.owner)
<1>1. /\ DOMAIN after = DOMAIN rows \cup {n} /\ after[n] = row
      /\ \A s \in DOMAIN rows : after[s] = rows[s]
    BY DEF Upsert
<1> HIDE DEF after
<1>2. Keyed(after)
    BY <1>1 DEF Keyed
<1>3. DOMAIN GrantsIn(rows) = {rows[s].recipient : s \in DOMAIN rows}
    BY DEF GrantsIn
<1>4. /\ DOMAIN left = {rows[s].recipient : s \in DOMAIN rows} \cup {row.recipient}
      /\ left = [r \in DOMAIN left |-> left[r]]
    BY <1>1 DEF GrantsIn
<1>5. /\ DOMAIN right = DOMAIN GrantsIn(rows) \cup {row.recipient}
      /\ right = [r \in DOMAIN right |-> right[r]]
      /\ right[row.recipient] = row.owner
      /\ \A r \in DOMAIN GrantsIn(rows) \ {row.recipient} : right[r] = GrantsIn(rows)[r]
    BY DEF Upsert
<1>6. left[row.recipient] = row.owner
    BY <1>1, <1>2, GrantsAre
<1>7. ASSUME NEW s \in DOMAIN rows
      PROVE  left[rows[s].recipient] = right[rows[s].recipient]
    <2>1. after[s] = rows[s] /\ s \in DOMAIN after
        BY <1>1
    <2>2. left[after[s].recipient] = after[s].owner
        BY <1>2, <2>1, GrantsAre
    <2>3. GrantsIn(rows)[rows[s].recipient] = rows[s].owner
        BY GrantsAre
    <2> HIDE DEF left, right
    <2> QED BY <2>1, <2>2, <2>3, <1>3, <1>5
<1> HIDE DEF left, right
<1>8. left = right
    BY <1>3, <1>4, <1>5, <1>6, <1>7
<1> QED BY <1>8 DEF left, right, after

LEMMA GrantsRemoved ==
    ASSUME NEW rows, Keyed(rows), NEW gone \in SUBSET DOMAIN rows
    PROVE  GrantsIn(Without(rows, gone)) = Without(GrantsIn(rows), {rows[s].recipient : s \in gone})
<1> DEFINE after == Without(rows, gone)
           ended == {rows[s].recipient : s \in gone}
           left == GrantsIn(after)
           right == Without(GrantsIn(rows), ended)
<1>1. /\ DOMAIN after = DOMAIN rows \ gone
      /\ \A s \in DOMAIN rows \ gone : after[s] = rows[s]
    BY DEF Without, Restrict
<1> HIDE DEF after
<1>2. Keyed(after)
    BY <1>1 DEF Keyed
<1>3. DOMAIN GrantsIn(rows) = {rows[s].recipient : s \in DOMAIN rows}
    BY DEF GrantsIn
<1>4. /\ DOMAIN left = {rows[s].recipient : s \in DOMAIN rows \ gone}
      /\ left = [r \in DOMAIN left |-> left[r]]
    BY <1>1 DEF GrantsIn
<1>5. /\ DOMAIN right = DOMAIN GrantsIn(rows) \ ended
      /\ right = [r \in DOMAIN right |-> right[r]]
      /\ \A r \in DOMAIN GrantsIn(rows) \ ended : right[r] = GrantsIn(rows)[r]
    BY DEF Without, Restrict
<1>6. DOMAIN left = DOMAIN right
    BY <1>3, <1>4, <1>5 DEF Keyed
<1>7. ASSUME NEW s \in DOMAIN rows \ gone
      PROVE  left[rows[s].recipient] = right[rows[s].recipient]
    <2>1. after[s] = rows[s] /\ s \in DOMAIN after
        BY <1>1
    <2>2. left[after[s].recipient] = after[s].owner
        BY <1>2, <2>1, GrantsAre
    <2>3. GrantsIn(rows)[rows[s].recipient] = rows[s].owner
        BY GrantsAre
    <2>4. rows[s].recipient \in DOMAIN GrantsIn(rows) \ ended
        BY <1>3 DEF Keyed
    <2> HIDE DEF left, right
    <2> QED BY <2>1, <2>2, <2>3, <2>4, <1>5
<1> HIDE DEF left, right
<1>8. left = right
    BY <1>4, <1>5, <1>6, <1>7
<1> QED BY <1>8 DEF left, right, after

LEMMA LibraryAfter ==
    ASSUME NEW rows, NEW a, NEW row
    PROVE  /\ Library(Upsert(rows, a, row)) = Upsert(Library(rows), a, row.state)
           /\ Library(Without(rows, {a})) = Without(Library(rows), {a})
<1>1. Library(Upsert(rows, a, row)) = Upsert(Library(rows), a, row.state)
    BY DEF Library, Upsert
<1>2. Library(Without(rows, {a})) = Without(Library(rows), {a})
    BY DEF Library, Without, Restrict
<1> QED BY <1>1, <1>2

\* A step of Grants, in the variables of Sharing.
Joins(a) ==
    /\ a \notin DOMAIN users
    /\ DOMAIN users' = DOMAIN users \cup {a}
    /\ UNCHANGED <<notes, shares>>
Leaves(a) ==
    /\ a \in DOMAIN users
    /\ DOMAIN users' = DOMAIN users \ {a}
    /\ Library(notes') = Without(Library(notes), {a})
    /\ GrantsIn(shares') =
         Without(GrantsIn(shares),
                 {r \in DOMAIN GrantsIn(shares) : a \in {r, GrantsIn(shares)[r]}})
Writes(a) ==
    /\ a \in DOMAIN users \ DOMAIN notes
    /\ Library(notes') = Upsert(Library(notes), a, "active")
    /\ UNCHANGED <<users, shares>>
Discards(a) ==
    /\ a \in DOMAIN notes /\ notes[a].state = "active"
    /\ Library(notes') = Upsert(Library(notes), a, "deleted")
    /\ UNCHANGED <<users, shares>>
GrantsTo(a, r) ==
    /\ a \in DOMAIN notes
    /\ r \in DOMAIN users \ ({a} \cup DOMAIN GrantsIn(shares))
    /\ GrantsIn(shares') = Upsert(GrantsIn(shares), r, a)
    /\ UNCHANGED <<users, notes>>
Withdraws(a) ==
    /\ a \in DOMAIN GrantsIn(shares)
    /\ GrantsIn(shares') = Without(GrantsIn(shares), {a})
    /\ UNCHANGED <<users, notes>>

LEMMA GrantsStep ==
    ASSUME NEW a \in AccountIds,
           \/ Joins(a) \/ Leaves(a) \/ Writes(a) \/ Discards(a) \/ Withdraws(a)
           \/ \E r \in AccountIds : GrantsTo(a, r)
    PROVE  TheGrants!Next
<1>1. CASE Joins(a)
    BY <1>1 DEF Joins, TheGrants!Next, TheGrants!Join, GrantTo
<1>2. CASE Leaves(a)
    <2>1. TheGrants!Leave(a)
        BY <1>2 DEF Leaves, TheGrants!Leave, TheGrants!Without, TheGrants!Restrict, Without,
           Restrict, Library, GrantsIn, GrantTo
    <2> QED BY <2>1 DEF TheGrants!Next
<1>3. CASE Writes(a)
    <2>1. TheGrants!Write(a)
        BY <1>3 DEF Writes, TheGrants!Write, TheGrants!Upsert, Upsert, Library, GrantTo
    <2> QED BY <2>1 DEF TheGrants!Next
<1>4. CASE Discards(a)
    <2>1. TheGrants!Discard(a)
        <3>1. Library(notes)[a] = "active" /\ a \in DOMAIN Library(notes)
            BY <1>4 DEF Discards, Library
        <3>2. TheGrants!Upsert(Library(notes), a, "deleted") = Library(notes')
            BY <1>4 DEF Discards, TheGrants!Upsert, Upsert
        <3> QED BY <1>4, <3>1, <3>2 DEF Discards, TheGrants!Discard, Library, GrantTo
    <2> QED BY <2>1 DEF TheGrants!Next
<1>5. CASE Withdraws(a)
    <2>1. TheGrants!Withdraw(a)
        BY <1>5 DEF Withdraws, TheGrants!Withdraw, TheGrants!Without, TheGrants!Restrict,
           Without, Restrict, GrantsIn, GrantTo
    <2> QED BY <2>1 DEF TheGrants!Next
<1>6. CASE \E r \in AccountIds : GrantsTo(a, r)
    <2>1. PICK r \in AccountIds : GrantsTo(a, r)
        BY <1>6
    <2>2. TheGrants!Grant(a, r)
        BY <2>1 DEF GrantsTo, TheGrants!Grant, TheGrants!Upsert, Upsert, GrantsIn, GrantTo
    <2> QED BY <2>2 DEF TheGrants!Next
<1> QED BY <1>1, <1>2, <1>3, <1>4, <1>5, <1>6

\* A PUT body writes the library when it inserts the note, and leaves it as it
\* is when the note is there.
LEMMA BodyGrants ==
    ASSUME SharingInv, NEW w \in Workers, CommitBody(w), ~RollBack(w)
    PROVE  TheGrants!Next \/ (Library(notes') = Library(notes) /\ UNCHANGED <<users, shares>>)
<1> DEFINE a == held[w].user
           new == [state |-> "active", title |-> parse_note_blob(held[w].doc).title]
           row == [notes[a] EXCEPT !.title =
                     Changed(parse_note_blob(held[w].doc).title, held[w].note.title, @)]
<1>1. /\ TablesOK /\ DOMAIN users \subseteq AccountIds
    BY Ids DEF SharingInv, TablesInv
<1>2. UNCHANGED <<users, shares>>
    BY DEF CommitBody
<1>3. CASE held[w].note = None
    <2>1. notes' = Upsert(notes, a, new) /\ CanInsertNote(a)
        BY <1>3 DEF CommitBody
    <2>2. new.state = "active"
        OBVIOUS
    <2> HIDE DEF new
    <2>3. Library(Upsert(notes, a, new)) = Upsert(Library(notes), a, new.state)
        BY LibraryAfter
    <2> QED BY <1>1, <1>2, <2>1, <2>2, <2>3, GrantsStep
            DEF Writes, CanInsertNote, Authenticated
<1>4. CASE held[w].note # None
    <2>1. notes' = Upsert(notes, a, row) /\ IsActive(a)
        BY <1>4 DEF CommitBody
    <2>2. row.state = notes[a].state
        BY <1>1, <2>1 DEF TablesOK, IsTable, Note, IsActive
    <2> HIDE DEF row
    <2>3. Library(notes') = Library(notes)
        BY <2>1, <2>2 DEF Library, Upsert, IsActive
    <2> QED BY <1>2, <2>3
<1> QED BY <1>3, <1>4

LEMMA WorkerGrants ==
    ASSUME SharingInv, NEW w \in Workers, Request(w) \/ Step(w) \/ Crash(w)
    PROVE  \/ TheGrants!Next
           \/ UNCHANGED <<users, notes, shares>>
           \/ Library(notes') = Library(notes) /\ UNCHANGED <<users, shares>>
<1>1. TablesOK /\ OneShareEach /\ Keyed(shares)
    BY DEF SharingInv, TablesInv, OneShareEach, Keyed
<1>2. CASE RollBack(w)
    BY <1>2 DEF RollBack, tables
<1>3. CASE ShareCommit(w) /\ ~RollBack(w)
    <2> DEFINE a == held[w].user
               r == held[w].other
               row == [owner |-> a, recipient |-> r, wrapped_fek |-> a]
    <2>1. /\ pc[w] = "share_commit" /\ CanInsertShare(a, r)
          /\ granted' = granted + 1 /\ shares' = Upsert(shares, granted', row)
          /\ UNCHANGED <<users, notes>>
        BY <1>3 DEF ShareCommit
    <2>2. a \in AccountIds /\ r \in AccountIds /\ r # a
        BY <1>1, <2>1, Ids DEF SharingInv, Reads, LocalsOK
    <2>3. /\ a \in DOMAIN notes /\ r \in DOMAIN users
          /\ \A s \in DOMAIN shares : shares[s].recipient # r
        BY <2>1 DEF CanInsertShare, Authenticated, SharesWith
    <2>4. granted' \notin DOMAIN shares
        BY <1>1, <2>1, Ids
    <2>5. row.recipient = r /\ row.owner = a
        OBVIOUS
    <2> HIDE DEF row
    <2>6. GrantsIn(shares') = Upsert(GrantsIn(shares), r, a)
        <3> DEFINE n == granted'
        <3>1. n \notin DOMAIN shares /\ \A s \in DOMAIN shares : shares[s].recipient # row.recipient
            BY <2>3, <2>4, <2>5
        <3> HIDE DEF n
        <3>2. GrantsIn(Upsert(shares, n, row)) = Upsert(GrantsIn(shares), row.recipient, row.owner)
            BY <1>1, <3>1, GrantAdded
        <3> QED BY <2>1, <2>5, <3>2 DEF n
    <2>7. r \notin DOMAIN GrantsIn(shares)
        BY <2>3 DEF GrantsIn
    <2> QED BY <2>1, <2>2, <2>3, <2>6, <2>7, GrantsStep DEF GrantsTo
<1>4. CASE Unshare(w)
    <2> DEFINE s == held[w].share
               r == shares[s].recipient
    <2>1. shares' = Without(shares, {s}) /\ UNCHANGED <<users, notes>>
        BY <1>4 DEF Unshare, Selected
    <2>2. CASE s \in DOMAIN shares
        <3>1. r \in AccountIds /\ r \in DOMAIN GrantsIn(shares)
            BY <1>1, <2>2, Ids DEF Share, GrantsIn
        <3>2. GrantsIn(shares') = Without(GrantsIn(shares), {r})
            <4> HIDE DEF s
            <4>1. GrantsIn(Without(shares, {s})) =
                    Without(GrantsIn(shares), {shares[k].recipient : k \in {s}})
                BY <1>1, <2>2, GrantsRemoved
            <4>2. {shares[k].recipient : k \in {s}} = {r}
                OBVIOUS
            <4> QED BY <2>1, <4>1, <4>2
        <3> QED BY <2>1, <3>1, <3>2, GrantsStep DEF Withdraws
    <2>3. CASE s \notin DOMAIN shares
        <3>1. shares' = shares
            BY <1>1, <2>1, <2>3 DEF TablesOK, IsTable, Without, Restrict
        <3> QED BY <2>1, <3>1
    <2> QED BY <2>2, <2>3
<1>5. CASE Request(w)
    BY <1>5 DEF Request, PutBody, PutHeader, ShareNote, RevokeShare, RemoveShared, ReadShared,
       Begin, tables
<1>6. CASE /\ ~RollBack(w)
           /\ \/ ReadHeader(w) \/ CommitHeader(w) \/ ShareRecipient(w) \/ ShareExisting(w)
              \/ RevokeSelect(w) \/ ReadBody(w)
    BY <1>6 DEF ReadHeader, CommitHeader, ShareRecipient, ShareExisting, RevokeSelect, ReadBody,
       tables
<1>7. CASE CommitBody(w) /\ ~RollBack(w)
    BY <1>7, BodyGrants
<1> QED BY <1>2, <1>3, <1>4, <1>5, <1>6, <1>7 DEF Step, Answer, Crash

LEMMA OperationGrants ==
    ASSUME SharingInv, SharingInv', Operations
    PROVE  TheGrants!Next
<1>1. TablesOK /\ TablesOK' /\ Keyed(shares)
    BY DEF SharingInv, TablesInv, OneShareEach, Keyed
<1>2. DOMAIN users \subseteq AccountIds /\ registered \in Nat
    BY <1>1, Ids
<1>3. ASSUME NEW p \in People, Register(p)
      PROVE  TheGrants!Next
    <2>1. /\ registered' = registered + 1 /\ users' = Upsert(users, registered', p)
          /\ UNCHANGED <<notes, shares>>
        BY <1>3 DEF Register
    <2>2. registered' \in AccountIds /\ registered' \notin DOMAIN users
        BY <1>1, <1>2, <1>3, <2>1, Ids, AccountAssumption DEF Register, AccountIds
    <2>3. DOMAIN users' = DOMAIN users \cup {registered'}
        BY <2>1 DEF Upsert
    <2> QED BY <2>1, <2>2, <2>3, GrantsStep DEF Joins
<1>4. ASSUME NEW a \in DOMAIN users, DeleteAccount(a)
      PROVE  TheGrants!Next
    <2> DEFINE gone == SharesOf(a)
               held_by == {shares[s].recipient : s \in gone}
    <2>1. /\ users' = Without(users, {a}) /\ notes' = Without(notes, {a})
          /\ shares' = Without(shares, gone)
        BY <1>4 DEF DeleteAccount
    <2>2. DOMAIN users' = DOMAIN users \ {a}
        BY <2>1 DEF Without, Restrict
    <2>3. Library(notes') = Without(Library(notes), {a})
        <3>1. Library(Without(notes, {a})) = Without(Library(notes), {a})
            BY LibraryAfter
        <3> QED BY <2>1, <3>1
    <2>4. gone \subseteq DOMAIN shares
        BY DEF SharesOf
    <2>5. GrantsIn(Without(shares, gone)) = Without(GrantsIn(shares), held_by)
        <3> HIDE DEF gone
        <3> QED BY <1>1, <2>4, GrantsRemoved
    <2>6. held_by = {r \in DOMAIN GrantsIn(shares) : a \in {r, GrantsIn(shares)[r]}}
        <3>1. \A s \in DOMAIN shares :
                 /\ shares[s].recipient \in DOMAIN GrantsIn(shares)
                 /\ GrantsIn(shares)[shares[s].recipient] = shares[s].owner
            BY <1>1, GrantsAre
        <3>2. DOMAIN GrantsIn(shares) = {shares[s].recipient : s \in DOMAIN shares}
            BY DEF GrantsIn
        <3> QED BY <3>1, <3>2 DEF SharesOf
    <2> HIDE DEF held_by
    <2> QED BY <1>2, <2>1, <2>2, <2>3, <2>5, <2>6, GrantsStep DEF Leaves
<1>5. ASSUME NEW a \in DOMAIN users, DeleteNote(a)
      PROVE  TheGrants!Next
    <2>1. /\ a \in DOMAIN notes /\ notes[a].state = "active"
          /\ notes' = [notes EXCEPT ![a].state = "deleted"] /\ UNCHANGED <<users, shares>>
        BY <1>5 DEF DeleteNote, IsActive
    <2>2. Library(notes') = Upsert(Library(notes), a, "deleted")
        <3>1. /\ DOMAIN notes' = DOMAIN notes
              /\ \A b \in DOMAIN notes : notes'[b].state = IF b = a THEN "deleted" ELSE notes[b].state
            BY <1>1, <2>1 DEF TablesOK, IsTable, Note
        <3>2. DOMAIN notes \cup {a} = DOMAIN notes
            BY <2>1
        <3> QED BY <3>1, <3>2 DEF Library, Upsert
    <2> QED BY <1>2, <2>1, <2>2, GrantsStep DEF Discards
<1> QED BY <1>3, <1>4, <1>5 DEF Operations

\* However the requests interleave, every step on the tables is a step of Grants
\* on the library and the grants they stand for, or changes neither.
THEOREM SharingImplementsGrants == Spec => ImplementsGrants
<1>1. Init => TheGrants!Init
    BY DEF Init, NoRows, TheGrants!Init, TheGrants!NoRows
<1>2. SharingInv /\ SharingInv' /\ [Next]_vars => [TheGrants!Next]_(TheGrants!vars)
    <2> SUFFICES ASSUME SharingInv, SharingInv', [Next]_vars
                 PROVE  TheGrants!Next \/ UNCHANGED TheGrants!vars
        OBVIOUS
    <2>1. ASSUME UNCHANGED <<users, notes, shares>>
          PROVE  UNCHANGED TheGrants!vars
        BY <2>1 DEF TheGrants!vars, GrantTo
    <2>2. ASSUME Library(notes') = Library(notes), UNCHANGED <<users, shares>>
          PROVE  UNCHANGED TheGrants!vars
        BY <2>2 DEF TheGrants!vars, GrantTo, Library
    <2> QED BY <2>1, <2>2, WorkerGrants, OperationGrants DEF Next, vars, tables
<1> QED BY <1>1, <1>2, AlwaysSharingInv, PTL DEF Spec, ImplementsGrants, TheGrants!Spec

=============================================================================

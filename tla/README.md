# Verification of the secure-notes API

TLA+ modules, TLC runs and TLAPS proofs for the FastAPI service in `src/app`:
encrypted notes with a body, chunked attachment uploads, refresh tokens, a vault
header and sharing, stored in PostgreSQL through SQLAlchemy.

The service keeps no state of its own between requests. Everything that can go
wrong that a test would hardly show comes from *several requests at the same
time*: a handler reads rows, awaits, and later writes what it computed from them.
The models therefore run handlers **statement by statement** on shared tables.

## 1. Inventory

| Part | State | Operations | Talks to | Hard behaviour | What makes it correct |
|---|---|---|---|---|---|
| Tables and sessions (`app/models.py`, `app/db.py`) | 9 tables, row locks, one transaction per request | SELECT, flush, commit, rollback | every handler | READ COMMITTED reads, stale ORM rows, row-count checks of UPDATE and DELETE, lock waits, crashes | keys and foreign keys hold, failed requests leave nothing |
| Chunked uploads (`app/notes/uploads.py`) | `upload_sessions`, `upload_chunks` | init, PUT chunk, complete, lazy cleanup | note service (finalize), tables | counter written from a stale row, expiry between steps, retries, init aborting a session in use | counted chunks are staged, chunks have the right index and length, complete accepts whole uploads only |
| Note service (`app/notes/service.py`, `router.py`) | `notes`, `note_blobs`, `note_attachments`, `attachment_chunks` | PUT body, DELETE attachment, DELETE note, `recompute_note_sync_metadata`, GETs | uploads, tables | composite etag from unlocked reads, If-Match checked on a snapshot, tables written in several orders (deadlocks), deletion racing with writers | body iff active, whole attachments, etag describes what is stored, deleted stays deleted and empty |
| Accounts and tokens (`app/auth`) | `users`, `refresh_tokens` | register, login, refresh, logout, delete-account | tables | rotation and logout from unlocked reads, deletion racing with issue | no token without its account, exchanged once, revoked for good |
| Vault (`app/vault`) | `vault_headers` | GET, PUT, GET public-key | parsers, tables | an UPDATE of only the columns that differ from a stale row, deletion of the account | the key served is the one in the header, no header without its account |
| Sharing (`app/shares`, `app/users`) | `note_shares` | share, revoke, remove, list, recipient's reads | notes, users | first-share race, rows selected and deleted later, reads of a tombstone, equal note ids of several owners | one grant per recipient, a share ends by its own two ends only, key and body belong together, nothing outlives an account |
| Parsers (`app/parsers`) | none | SSNT, SSNV decoding | PUT body, PUT vault | lengths at boundaries | what is accepted is well formed |
| Migrations (`alembic/versions`) | schema, data of 007 | upgrade, downgrade | tables | data copied in batches | chunks join to the old data |
| Shell (`app/main.py`, `errors.py`, `config.py`, `privacy.py`) | none | routing, error envelope | all | – | – |

Components talk only through function calls inside a request and through the
tables. There are no background tasks: expired upload sessions are cleaned up by
the next upload request of the user. `PROJECT.json` lists the hazards with the
line where each bites and the property that watches it.

## 2. Modules

```
Tables        tables as functions, what an ORM UPDATE writes
  Content     values of the note tables, etags, notes row      (with Chunking: chunk arithmetic,
    NotesDB   tables of a note, locks, what a worker holds      service.py:37, uploads.py:26, migration 007)
      Uploads   handlers of uploads.py
        Notes     handlers of service.py, commit of complete
          NotesApi  clients, scheduling, deadlock detection, properties, refinement
            Downloads   chunked downloads by owner or recipient while NotesApi runs
            MCNotes, MCDownloads   finite instances
    Notebook  abstract specification of a note
  Parsing     the SSNT and SSNV parsers
    Accounts  users, and the tables in which several accounts meet; register, delete-account, save, delete
      Vault     PUT /vault/header, GET /users/public-key
        Sharing   handlers of app/shares, clients, properties, refinement
          MCSharing   finite instances
  Grants      abstract specification of sharing
RefreshTokens accounts and refresh tokens         (app/auth)
  MCTokens    finite instances

TablesProofs         -> lemmas on Tables
  ContentProofs      -> theorems on Chunking, lemmas on Content
    UploadsProofs    -> theorems on the upload sessions of NotesApi, through
    NotesApiProofs   -> theorems on its rows and locks
    AttachmentsProofs -> theorems on Uploads, Notes and Downloads with one request per attachment
    NotebookProofs   -> theorems on Notes with one request that changes the note, refinement of Notebook
  SharingProofs      -> theorems on Parsing, Vault and Sharing, and their refinement of Grants
RefreshTokensProofs  -> theorems on RefreshTokens
```

### State

`NotesDB` models one note of one owner. Tables are functions from keys to rows
(`note`, `blob`, `attachments`, `chunks`, `sessions`, `staged`); `NoRows` is the
empty table, `None` is NULL or a missing row. Digests are injective, so an etag is
kept as what was hashed. Bodies are parsed SSNT blobs, a constant `Bodies`.

A *worker* is a request in progress: `pc` names the statement it executes next,
`req` holds its parameters, `seen` and `up` the rows its SQLAlchemy session has
read. A SELECT copies from the tables into these locals. A flush takes row locks.
A commit writes the tables in one step and `Respond` drops the locals. This is
READ COMMITTED with uncommitted writes kept private:

* a row another transaction has written and not committed is locked: an UPDATE,
  DELETE or a conflicting INSERT of it waits (`Available`), a SELECT sees the old
  version;
* an ORM UPDATE writes only columns the handler changed, compared with the row it
  *read* (`Changed`, `UpdatedNote`, `UpdatedFile`): this is how stale reads
  overwrite newer data;
* an UPDATE or DELETE of a row that has gone fails with `StaleDataError` where
  SQLAlchemy counts rows, an INSERT of a key that exists with `IntegrityError`;
  both end in `RollBack`;
* a row that is selected again keeps the attribute values already loaded
  (`StillStaged`): the identity map does not refresh them.

### Actions

| Action | Code |
|---|---|
| `InitUpload`, `InitCleanup`, `SelectOpen`, `CommitInit` | `uploads.py` `init_upload`: note lookup, cleanup, `_abort_in_progress_sessions`, insert and commit |
| `UploadChunk`, `CompleteUpload` (via `SelectExpired`), `AbortExpired` | `_cleanup_expired_sessions`, a transaction of its own |
| `ReadSession`, `AbortSession` | `_get_upload_session`, with the index or count check that follows it |
| `ReceiveChunk`, `InsertChunk`, `OverwriteChunk` | `upload_chunk` after the body has been awaited |
| `LoadChunks` | the check of every staged chunk in `complete_upload` |
| `CompleteReadNote`, `CompleteReadFile`, `ComputeDigest`, `UpsertFile` | `finalize_chunked_upload`; the upsert of the attachment is flushed by the statement after it |
| `DeleteChunks`, `PromoteChunks` | `promote_upload_chunks`: the chunks of the version that is replaced, then those to store |
| `RecomputeNote`, `RecomputeBlob`, `RecomputeFiles` | `recompute_note_sync_metadata` |
| `PutBody`, `PutReadNote`, `PutInsert`, `PutTitle`, `PutReadBlob`, `PutFlush`, `CommitPut` | `persist_note_body`; a changed title is flushed before the blob is selected |
| `RemoveAttachment`, `RemoveReadFile`, `RemoveLoadChunks`, `RemoveChunks`, `RemoveFlush`, `RemoveCascade`, `CommitRemove` | `delete_attachment`: the ORM loads the attachment's chunks and deletes them, then the row; the foreign key deletes chunks stored in between |
| `DeleteNote`, `DeleteMark`, `DeleteBlob`, `DeleteFiles`, `CommitDelete` | `soft_delete_note`: tombstone, body, attachments, and their chunks by the foreign key |
| `CommitComplete` | the commit of `complete_upload`, with the deletion of the session |
| `Crash` | the process, the connection or the client goes: `get_db` closes the session |
| `DeadlockVictim` | PostgreSQL aborts a transaction in a cycle of lock waits |
| `Tick` | time passes |

Error answers (400, 404, 409, and the unhandled database errors that become 500)
are the `RollBack` branches: which status is sent is not modelled.

`Downloads` adds one client that takes an entry of the manifest and fetches its chunks in
order: `GetChunk` reads the attachment's row, `ServeChunk` the chunk, with any steps of
`NotesApi` between them. The owner's and the recipient's route differ only in the check that
decides whether there is an answer, which `Stop` stands for (as it does for a client that
gives up or sees another ETag).

`Accounts`, `Vault` and `Sharing` model the rows of several accounts that carry one note id.
Clients choose note ids and they are unique per owner only, so two accounts may own this id
and share it with the same third one. `granted` numbers the shares, so that a share inserted
again is another row.

| Action | Code |
|---|---|
| `Register`, `DeleteAccount` | `auth/router.py` on these tables, with the cascades of `models.py` |
| `PutBody`, `CommitBody` | `persist_note_body`: the parser's verdict, the note id and the active note read; then the writes, the title only where it differs from the row read |
| `DeleteNote` | `soft_delete_note`, as one step |
| `PutHeader`, `ReadHeader`, `CommitHeader` | `vault/router.py` `put_vault_header`: authenticated, body parsed and row selected, flush and commit |
| `ShareNote`, `ShareRecipient`, `ShareExisting`, `ShareCommit` | `share_note`: note, recipient, existing share, INSERT |
| `RevokeShare`, `RevokeSelect`, `RemoveShared`, `Unshare` | `revoke_share` and `remove_shared_note`: the share is selected, then deleted by primary key |
| `ReadShared`, `ReadBody`, `Answer` | `get_shared_note` and `get_shared_note_body`: the share, then the owner's body |

`Parsing` is the two parsers over documents of *cells*: a number or a field of fixed size is one
cell, and so is every byte of a field behind a length prefix, so that everything a length can
do to the fields behind it is there. `IsNoteBlob` and `IsVaultHeader` say what a document looks
like without reading it from front to back; the properties are stated with them.

`RefreshTokens` is built the same way for the account of one email address. A token
is its row's number; `parent`, which is not a column, remembers the token it was
exchanged for, so that "exchanged once" can be stated.

### Simplifications

* `upload_sessions` and `upload_chunks` rows are locked only inside the step that
  commits them. A handler that writes them commits in the same flush, so only two
  such flushes could meet; the lock waits between them end by themselves or as a
  deadlock, and its victim behaves like a `Crash`.
* One owner and one note: handlers never touch two notes. The expiry cleanup covers
  all of the user's sessions; here all of them belong to the note.
* The lock of the notes row that a foreign key check takes (`FOR KEY SHARE`) does not
  conflict with the updates the handlers make to other columns and is left out.
* A statement that waits executes when all rows it needs are free, on the tables of that moment.
  A DELETE in PostgreSQL that had to wait skips rows that were replaced meanwhile; which
  rows are gone after the commit is the same, because the foreign key's cascade takes the chunks
  that are stored by then. DELETE note takes its attachments' rows in one statement, as the code does.
* All chunks of an attachment are one lock (`ChunksOf`): whoever writes some of them writes all.
  A complete that changes no column of the attachment does not update the row; its first chunk's
  foreign key locks it instead, which `UpsertFile` stands for.
* Deadlocks on rows of `upload_sessions` (a complete and an init that aborts its session) are not
  among the wait cycles: their victim is a `Crash`.
* In `Accounts`, registering, deleting an account and deleting a note are single steps; `RefreshTokens`
  and `Notes` have their statements, each of them one transaction. PUT body is two: what is read
  before the first write, and the writes, so that a title and a body put in parallel can come
  apart (section 6). Its statements one by one, the manifest check and If-Match are in `Notes`.
* The file encryption key is not a column: `fek` in a body is the key its owner's client used,
  one per owner and note id. A client that changes the key of a note it has shared makes its
  shares useless, which the server cannot see.
* `db.refresh` after the commit of `share_note`, GET of the vault header and the public key
  change nothing and are read in one statement: they appear as operators.
* The clock is an integer; sizes are small, with `CHUNK_SIZE_BYTES = 2`. The float
  division in `total_chunks_for_size` is exact below 2^53 bytes; larger sizes are
  listed as a hazard and not modelled.

## 3. The abstract specification

`Notebook` is what the documents promise the owner of a note: `Save`, `Attach`,
`Detach` and `Trash` each happen at once, an attached file is whole, and title, etag
and `updated_at` always describe what can be downloaded. `ImplementsNotebook` maps the
tables onto it (`entry <- note`, `body <- blob`, `manifest <- attachments`,
`files <-` the chunks of the attachments that exist). It is checked and proved with one
request at a time: requests may crash half-way, sessions may expire, chunks may
be overwritten and retried. The proof goes further: it is enough that one request at a time
*changes the note* while any number of uploads are under way (section 5). With two requests
that change the note it does not hold, and the violation runs below show the ways in which
it fails.

`Grants` is what sharing one note id promises: members, the library of who owns a note with the
id, and for every recipient the one owner whose note it may read. `Grant`, `Withdraw`, `Discard`
and `Leave` (with everything of that account) happen at once. `ImplementsGrants` maps
`members <- DOMAIN users`, `library <-` the states of the notes and `grants <-` the owner of each
recipient's share. It holds however many requests interleave, because of the UNIQUE key and
the foreign keys, and is both checked and proved.

## 4. Runs

Passing runs (every property holds in every reachable state of the instance):

| Run | Instance | Shows |
|---|---|---|
| `one_request_at_a_time` | 1 worker, all six endpoints, no note at the start, 3 bodies (two need no attachment, one needs one of 3 bytes), 2 payloads, size 3, indexes 0..2, 2 uploads, 1 tick, If-Match with current and old etags; 106 thousand states | `ImplementsNotebook`; `NoteIsCurrent`; `IfMatchHolds`; `AbortedHoldsNothing` |
| `parallel_requests` | 2 workers, all six endpoints, no note at the start, 2 bodies with different titles, 1 upload, size 3, indexes 0..2, 1 tick; 659 thousand states | `TypeOK`, `BodyIffActive`, `NoResurrection`, `CounterNeverOvercounts`, `StagedChunksFit`, `LoadedIsWhole`, `DeadlocksHaveTwoOrders` |
| `one_request_per_attachment` | 2 workers, 2 attachments, one request per attachment open, 2 payloads, one download; 496 thousand states | `AttachmentsWhole`, `OneOpenUpload`, `StagedIsCounted`, `DownloadIntact` |
| `requests_end` | 2 workers, all six endpoints on an active note and an attachment of one chunk, 2 bodies of one title (before and after the upload), fair scheduling; 118 thousand states | `EveryRequestEnds`, through the deadlocks of PUT body and DELETE note, and of DELETE attachment and complete |
| `auth_in_parallel` | 2 workers, 2 accounts in turn, 4 tokens, 1 tick, the clients of the second account taking turns | `TokensHaveOwner`, `ExchangedIsRevoked`; `ExchangedOnce`, `LogoutRevokesAll` |
| `sharing` | 2 workers, 3 addresses and accounts, 2 owners of the note id, 2 shares, 1 body; 493 thousand states | `TypeOK`, `NothingOutlivesItsAccount`, `AnswerOpens`, `RemovedByItsEnds`, `ImplementsGrants` |
| `documents` | 2 workers, 2 addresses, 2 accounts in turn, 7 bodies (3 good, with equal and different titles) and 7 headers (3 good, 2 keys, 2 algorithms), one PUT of a kind for an account at a time; 209 thousand states | `StoredBlobIsWhole`, `HeadersHaveTheirAccount`, `HeaderNamesItsKey` |

Violation runs (TLC finds a behaviour of the code that a document excludes):

| Run | Refutes | What happens |
|---|---|---|
| `lost_count` | `StagedIsCounted` | two chunks in parallel are counted once: `complete` answers "missing chunks" for good |
| `broken_attachment` | `AttachmentsWhole` | an init aborts the session `complete` is promoting: an attachment with no chunks is stored |
| `attachment_after_delete` | `TombstoneIsEmpty` | DELETE note does not see the row of a complete that has not committed: the attachment stays under the tombstone |
| `stale_etag` | `NoteIsCurrent` | two completes in parallel: the stored etag names one of the two attachments |
| `lost_update` | `IfMatchHolds` | two PUTs with one If-Match both succeed |

The properties of these runs, but for `TombstoneIsEmpty`, hold in a passing run and are theorems under
a client discipline: the one shows what clients have to do, the other that they have to. The
other disciplined properties (`OneOpenUpload`, `DownloadIntact`, `ExchangedOnce`, `LogoutRevokesAll`,
`StoredBlobIsWhole`, `HeaderNamesItsKey`) need theirs as well; section 6 says which race breaks each.

**Bounds.** `MaxUploads`, `MaxTokens`, `MaxAccounts`, `MaxOwners`, `MaxShares`, `MaxClock` and
`MaxIndex` bound counters in guards. Two workers suffice for every race listed as a hazard, each
of which is between two requests (and single-step operations, in `Sharing`). A size of 3 with
chunks of 2 gives a full and a partial chunk, index 2 is one past the end, and one tick with a
lifetime of 0 lets a session expire between any two statements. Two uploads let an init replace
a session in use. Three accounts are two owners of equal note ids and a recipient of both, and
two shares let one be replaced by another. `MaxUploads` and `MaxShares` are also guards of
`CommitInit` and `ShareCommit`: a request that meets the bound fails. Workers and payloads are
symmetric in the safety runs, and people in those of `MCSharing`, not in `requests_end` and
`one_request_at_a_time`. `OneBlob`, `SomeBlobs` and `SomeHeaders` of `MCSharing` are the documents: good ones, and
ones that are too short, too long, of another note, version or magic number.

**Fairness.** `Fairness` is strong fairness of every worker's own statements and weak
fairness of `DeadlockVictim`. The event loop runs every coroutine that is ready;
PostgreSQL queues lock waits in order, so a request whose row is free again and again
gets it; deadlock detection runs after `deadlock_timeout`. A started body arrives: the
server's and the proxy's read timeouts otherwise end the request like a `Crash`.
Clients, crashes and time are not fair. Deadlock checking is on in every run but those of `MCSharing`,
where the bounded account ids may be used up and every account deleted, and
`attachment_after_delete`, where nobody makes a new note once it is deleted.

## 5. Proofs

TLAPS proves the following for every number of workers, attachments, uploads, tokens, accounts,
shares, bodies, payloads and sizes, and documents of every length. The assumptions are the named `ASSUME`s of the modules:
`CHUNK_SIZE_BYTES` and the sizes are positive, the bounds are natural numbers, `None` is
not a body, a worker, a person or an integer, the magic numbers differ,
and bodies carry a time. They are as weak as the
schema's `NOT NULL` columns and the request validation (`totalSize >= 1`).

| Theorem | Statement |
|---|---|
| `ContentProofs!ChunksCover`, `ChunkLengths`, `ChunksTile` | chunks have between 1 and `CHUNK_SIZE_BYTES` bytes and tile the attachment without gap or overlap |
| `ContentProofs!CountingIsEnough` | valid indexes that are as many as the chunks are all of them: why `complete_upload` may compare numbers |
| `ContentProofs!LatestIsLatest` | the note's `updated_at` is one of the times it covers, and none of them is later |
| `NotesApiProofs!TypeCorrect` | `Spec => []TypeOK` |
| `NotesApiProofs!BodyKept` | `Spec => []BodyIffActive` |
| `NotesApiProofs!DeletedForGood` | `Spec => NoResurrection` |
| `NotesApiProofs!DeadlocksExplained` | `Spec => []DeadlocksHaveTwoOrders` |
| `UploadsProofs!NoOvercount` | `Spec => []CounterNeverOvercounts` |
| `UploadsProofs!ChunksFit` | `Spec => []StagedChunksFit` |
| `UploadsProofs!AcceptedIsWhole` | `Spec => []LoadedIsWhole` |
| `AttachmentsProofs!AttachmentsAreWhole`, `OneUploadOpen`, `ArrivedIsCounted`, `AbortedIsEmpty` | `Spec /\ []CleanupSpares =>` `[]AttachmentsWhole`, `[]OneOpenUpload`, `[]StagedIsCounted`, `[]AbortedHoldsNothing`, assuming `TakingTurns` |
| `AttachmentsProofs!DownloadsAreIntact` | `DownloadSpec /\ []CleanupSpares => []DownloadIntact`, assuming `PerAttachment` |
| `AttachmentsProofs!InTimeIsEnough` | `Spec /\ []InTime => []CleanupSpares`, assuming `TakingTurns` |
| `NotebookProofs!RowIsCurrent`, `IfMatchIsEnough` | `Spec /\ []OneWriter =>` `[]NoteIsCurrent`, `IfMatchHolds` |
| `NotebookProofs!TombstonesAreEmpty` | `Spec /\ []OneWriter => []TombstoneIsEmpty` |
| `NotebookProofs!OneWriterNeverWaits` | `Spec /\ []OneWriter =>` no request ever waits for a lock |
| `NotebookProofs!NotesImplementNotebook` | `Spec /\ []OneWriter /\ []CleanupSpares => ImplementsNotebook`, assuming `TakingTurns` |
| `NotebookProofs!OneRequestImplementsNotebook`, `OneRequestIfMatch`, `OneRequestKeepsUploads` | `Spec =>` `ImplementsNotebook`, `IfMatchHolds`, `[]AbortedHoldsNothing` and the like, for one request at a time |
| `RefreshTokensProofs!TypeCorrect` | `Spec => []TypeOK` |
| `RefreshTokensProofs!TokensNeverOutliveAccount` | `Spec => []TokensHaveOwner` |
| `RefreshTokensProofs!RotationRevokes` | `Spec => []ExchangedIsRevoked` |
| `RefreshTokensProofs!RotatedOnce` | `Spec => []ExchangedOnce`, for clients that take turns |
| `RefreshTokensProofs!LogoutIsComplete` | `Spec => LogoutRevokesAll`, for clients that take turns |
| `ContentProofs!MigrationAgrees` | migration 007 cuts every attachment into the chunks the service expects |
| `SharingProofs!NoteBlobParsed`, `VaultHeaderParsed` | an accepted document has the whole layout and the metadata are its fields |
| `SharingProofs!TypeCorrect` | `Spec => []TypeOK` |
| `SharingProofs!NothingOutlives`, `HeadersEndWithTheAccount` | `Spec => []NothingOutlivesItsAccount`, `Spec => []HeadersHaveTheirAccount` |
| `SharingProofs!RecipientsCanOpen`, `SharesEndByTheirEnds` | `Spec => []AnswerOpens`, `Spec => RemovedByItsEnds` |
| `SharingProofs!BodiesAreWhole`, `ServedKeyIsTheHeaders` | `Spec => []StoredBlobIsWhole`, `Spec => []HeaderNamesItsKey`, assuming `OnePut` |
| `SharingProofs!SharingImplementsGrants` | `Spec => ImplementsGrants` |

**`RowsInv`.** `BodyIffActive` is not inductive: a PUT commits a body it decided on several
statements earlier. What carries it from the decision to the commit are row locks.
`RowsInv` adds, for each worker, what its locks guarantee: a PUT that inserted the note
holds the `notes` and `note_blobs` rows of a note nobody else sees (`PutHeld`), a PUT that
changes the body holds `note_blobs` and the row exists (`PutHeld`), complete
holds its attachment's row (`FileHeld`), DELETE note holds the note and then
the body (`DeleteHeld`), and the row about to be stored is active (`RowComputed`).
The types need the invariant and the other way round: the notes row computed by complete
is well typed because there was a blob, which there was because the note was active.
`FrameInv` shows once that a step of one worker keeps what the others hold
(`OthersKeep`, `LockedStay`); `QuietInv` (statements that only read or lock),
`UnheldInv` and `RespondInv` (commits and rollbacks) are its three forms, and each action
has one lemma that uses one of them.

**`UploadsInv`** builds on `RowsInv`. The upload rows are not locked between statements, so
what a request has read may be stale in every way but two (`SnapshotFits`): the size of a
session never changes, and while a session is open chunks are only added to it. The second
makes `received_chunks + 1` from a stale row safe: it is at most what is staged plus the new
chunk. Without "while it is open" this is false: an abort drops the chunks. `WholeLoaded` follows from
the check of `complete_upload` and `CountingIsEnough`.

**`LocksHeld`**, next to `RowsInv`, says which rows an open request can have locked before each
of its statements (`LocksOf`), and `WaitsAreFor` derives for whom it can wait. A complete locks its
attachment, the chunks and the note, in this order; a DELETE attachment the chunks, the attachment and the
note. So completes of one attachment wait only for one that is ahead, requests of different
attachments only at the note, their last row, and a cycle without a DELETE note and with at most one
PUT must have a DELETE attachment next to another request of its attachment. These do deadlock: in
`requests_end` a complete holds the attachment and waits for the chunks a DELETE holds,
which waits for the attachment, until one of them is the victim.

**`AttachmentsInv`** builds on both, for clients that take turns (`TakingTurns`): they keep one
request per attachment open (`PerAttachment`), or one in all; the runs `lost_count` and
`broken_attachment` show what happens otherwise. Sessions may expire at any time, but no cleanup may
be about to abort a session a request has read and goes on with (`CleanupSpares`): a request
about any attachment cleans up all expired sessions, and would drop the chunks another one is about
to promote. `InTime`, no session expiring while in use, is enough for that (`InTimeIsEnough`, by
`DoomedExpired`: what a cleanup has selected stays expired), and with one request at a time it comes
for free. None of the properties is inductive: each of
them relies on what an open request has read still being stored when it commits.
`OwnUpload` says so of the session row and of the sessions an init is to abort, `OwnFile` of the
loaded chunks, the etag computed from them and the attachment row to be replaced. A step of another
worker keeps them because requests that are open together are about different attachments
(`Turns`), and a session belongs to one (`Untouched`); only DELETE note reaches across, and
what it may do to an attachment that is being replaced is bounded by the row lock (`FileHeld` of
`RowsInv`). `DownloadInv` adds that while the server answers a chunk request the row it has read is
the one stored, unless the note is deleted, which leaves no chunk to serve.

**`NotebookInv`** builds on `RowsInv`, for clients of which one request at a time changes the note
(`OneWriter`; init and chunk requests are not restricted). `NoteIsCurrent` is not inductive: the row
committed was computed from reads made several statements before. `Knows` says of each statement what
of these reads is still so: the row read is the note (`HasNote`) in the version If-Match names, the
body and the attachment read are those stored, the declared attachments are those there are, and
before the commit the computed row is `NoteRow` of what will be stored. Then writing only the columns
that differ from the row read is writing the row (`RowStored`). The four commits are the four
operations of `Notebook` (`PutStores` to `DeleteStores`, `CommitImplements`), every other step leaves
its variables alone, and `PromotedWhole` takes from `AttachmentsInv` and `StagedChunksFit` that what
complete stores is one of the `WholeFiles`. `SameOperators` is needed because the instance has its own
copies of the operators of `Content`, the fold of `attachment_stats` among them: their definitions
are the same, so no induction is.

**`SharingInv`.** `AnswerOpens` needs that a share carries its owner's
key and a body its own (`OneShareEach`, `BodiesAreNotes`), and that a request that has read a share
keeps what it has read when the row goes (`Reads`). `StoredBlobIsWhole` and `HeaderNamesItsKey` need that
the row an open PUT has read is still the row stored, which is what `OnePut`, one PUT of a kind for an
account at a time, gives (`PutTurns`): the UPDATE writes the columns that differ from that row, and only
then is the result the new document's. Deletions are not restricted: they make the PUT fail.
`RemovedByItsEnds` needs no discipline: share ids are never used again, so that a request which
selected a share deletes that one or none (`Reads`).
The refinement of `Grants` rests on the UNIQUE key: `grants` is a
function because no two shares have one recipient, and inserting or removing shares then extends
or restricts it (`GrantAdded`, `GrantsRemoved`). The parsers' theorems follow the reader from field to
field: the position after each read is one more than the last plus the length found there.

**Only model-checked.** `EveryRequestEnds`: liveness under fairness and `ENABLED` are outside what
TLAPS can do here. What the folds of the community modules (`TotalBytes`, `attachment_stats`) compute
is evaluated by TLC; the proofs use only that two totals were compared, and that the same expression
has the same value. Every other property of a passing run is a theorem, those about client discipline
under the hypotheses named in the table.

## 6. Disagreements with the documents

The five violation runs are in `PROJECT.json` with the quoted lines. `attachment_after_delete`
reaches further than its property says: the routes by which a recipient downloads the attachments of a
shared note (`shares/router.py:126` and the chunk route) check the share and not `deleted_at`, so the
attachment left under the tombstone can still be downloaded, although no list shows the note. That
recipients find nothing after a deletion is true of the body; of the attachments it is proved while
one request at a time changes the note (`TombstonesAreEmpty`).

Races that break a property as soon as its clients do not keep to the discipline it is stated for:

* `docs/mobile-upload-guide.md:32` says an init replaces the open session; two inits of an attachment in
  parallel (`uploads.py:129`) do not see each other's session and both stay open: `OneOpenUpload`
  with `PerAttachment = FALSE`.
* `docs/mobile-sync-guide.md:32` says the `ETag` of every chunk is that of the attachment; the chunk routes
  read the row and then the chunk (`notes/router.py:149`), and serve the bytes of a
  replacement under the ETag before it: `DownloadIntact` with `PerAttachment = FALSE`. A client that hashes what
  it has put together, as line 49 of that guide tells it to, notices; one that goes by the headers does not.
* `docs/SPEC.md:173` says an old refresh token is rejected; two refreshes with one token in parallel
  (`tokens.py:69`) both pass the check and both get a new pair. `ExchangedOnce` is for
  clients that take turns (`InTurn`).
* `docs/api.md:98` says logout revokes all refresh tokens; a refresh or login that
  commits between the SELECT and the commit (`tokens.py:86`) keeps its token. `LogoutRevokesAll` is for
  clients that take turns.
* `docs/SPEC.md:79` says `notes.title` is the title in the blob; two PUTs of an account in parallel can store the
  body of one under the title of the other, because the title is written only if it differs from
  the row read (`service.py:303`): `StoredBlobIsWhole` with `OnePut = FALSE`.
* `docs/SPEC.md:66` says `vault_headers.public_key` is the key in the header; two PUTs of a header in
  parallel (`vault/router.py:70`) can likewise store the document of one with the key, or the algorithm,
  of the other: `HeaderNamesItsKey` with `OnePut = FALSE`.

Smaller ones met while modelling:

* `openspec/changes/split-note-attachments/design.md:54` has a note's deletion cascade to
  its upload sessions; `soft_delete_note` (`service.py:434-455`) leaves `upload_sessions` alone.
* `docs/database.md:224` says cron or lazy cleanup deletes aborted sessions; `uploads.py:35-49` only
  marks them, and nothing deletes the rows.
* `vault/router.py:58` stores the algorithm 0 as the default 1: what is served then differs from the
  header (`docs/SPEC.md:67` has "default 1" without saying for what). `HeaderNamesItsKey` states the default.
* A chunk stored while its session is being aborted keeps its staged bytes: `AbortedHoldsNothing` is
  proved for clients that take turns.

## 7. Not modelled

* The batches, DDL and downgrades of the migrations: they run once, in one process, before the
  service starts. The arithmetic of the one that moves data is in `Chunking`.
* The shell (`main.py`, `errors.py`, `config.py`, `privacy.py`): wiring, the error envelope and
  static text; it keeps no state.
* Which status an error answer carries, password hashing, JWT signing, the decoding of
  numbers and of UTF-8.
* GET /notes and GET body of the owner: single reads of tables whose contents the invariants
  describe.

What would come next: the locks of `upload_sessions` and `upload_chunks` between the statements of one
commit, and a second note of the owner, whose uploads the cleanup of this one aborts.

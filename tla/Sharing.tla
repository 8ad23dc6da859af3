------------------------------- MODULE Sharing -------------------------------
(***************************************************************************)
(* The sharing endpoints (app/shares/router.py) on the shares of one note  *)
(* id: share, revoke, remove and the recipient's download, statement by    *)
(* statement, with everything else that changes the rows they read.        *)
(***************************************************************************)
EXTENDS Vault

CONSTANT Ops       \* the endpoints the clients of a run call

ASSUME OpsAssumption ==
    Ops \subseteq {"account", "note", "header", "share", "unshare", "read"}

SharesWith(r) == {s \in DOMAIN shares : shares[s].recipient = r}

-----------------------------------------------------------------------------
(* POST /notes/{NoteId}/share                                              *)

ShareNote(w, a, p) ==
    /\ Authenticated(a) /\ IsActive(a)
    /\ Begin(w, "share_recipient", [NothingHeld EXCEPT !.user = a, !.person = p])

\* Mutant: sharing with oneself is not refused.
IsAccount(r, a) == TRUE
IsAnother(r, a) == r # a

ShareRecipient(w) ==
    LET found == find_user_by_email(held[w].person) IN
    /\ pc[w] = "share_recipient"
    /\ \/ \E r \in found :
            /\ IsAnother(r, held[w].user)
            /\ held' = [held EXCEPT ![w].other = r]
            /\ pc' = [pc EXCEPT ![w] = "share_existing"]
            /\ UNCHANGED tables
       \/ (\A r \in found : ~IsAnother(r, held[w].user)) /\ RollBack(w)

ShareExisting(w) ==
    /\ pc[w] = "share_existing"
    /\ \/ /\ SharesWith(held[w].other) = {}
          /\ pc' = [pc EXCEPT ![w] = "share_commit"]
          /\ UNCHANGED <<tables, held>>
       \/ SharesWith(held[w].other) # {} /\ RollBack(w)

\* Mutant: no UNIQUE (note_id, recipient_id).
FreshIfKeyed(a, r) == a \in DOMAIN notes /\ Authenticated(r)
\* The UNIQUE key and the foreign keys to notes and users: a tombstone is
\* enough, and a share of another owner's note with the same id is a conflict.
CanInsertShare(a, r) ==
    /\ SharesWith(r) = {}
    /\ a \in DOMAIN notes
    /\ Authenticated(r)

ShareCommit(w) ==
    LET a == held[w].user
        r == held[w].other
    IN
    /\ pc[w] = "share_commit"
    /\ \/ /\ CanInsertShare(a, r) /\ granted < MaxShares
          /\ granted' = granted + 1
          /\ shares' = Upsert(shares, granted',
                              [owner |-> a, recipient |-> r, wrapped_fek |-> a])
          /\ Respond(w)
          /\ UNCHANGED <<users, registered, headers, notes, bodies>>
       \/ ~(CanInsertShare(a, r) /\ granted < MaxShares) /\ RollBack(w)

-----------------------------------------------------------------------------
(* DELETE /notes/{NoteId}/share/{email} by the owner, and                  *)
(* DELETE /notes/shared/{NoteId} by the recipient.                         *)

RevokeShare(w, a, p) ==
    /\ Authenticated(a)
    /\ \E r \in find_user_by_email(p) :
         Begin(w, "revoke_share", [NothingHeld EXCEPT !.user = a, !.other = r])

RevokeSelect(w) ==
    LET found == {s \in SharesWith(held[w].other) : shares[s].owner = held[w].user} IN
    /\ pc[w] = "revoke_share"
    /\ \/ \E s \in found :
            /\ held' = [held EXCEPT ![w].share = s]
            /\ pc' = [pc EXCEPT ![w] = "unshare"]
            /\ UNCHANGED tables
       \/ found = {} /\ RollBack(w)

RemoveShared(w, a) ==
    /\ Authenticated(a)
    /\ \E s \in SharesWith(a) :
         Begin(w, "unshare", [NothingHeld EXCEPT !.user = a, !.share = s])

\* Mutant: DELETE by the note id and the recipient.
SharesOfRecipient(w) == SharesWith(IF held[w].other = None THEN held[w].user ELSE held[w].other)
\* DELETE by primary key: a row that has gone is not an error, and one that
\* has been inserted for the same recipient since stays.
Selected(w) == {held[w].share}

Unshare(w) ==
    /\ pc[w] = "unshare"
    /\ shares' = Without(shares, Selected(w))
    /\ Respond(w)
    /\ UNCHANGED <<users, registered, headers, notes, bodies, granted>>

-----------------------------------------------------------------------------
(* GET /notes/shared/{NoteId}, and its body alone: the share is selected,  *)
(* then the body.                                                          *)

ReadShared(w, a) ==
    /\ Authenticated(a)
    /\ \E s \in SharesWith(a) :
         Begin(w, "shared_body", [NothingHeld EXCEPT !.user = a, !.grant = shares[s]])

\* Mutant: the body is looked up by the note id alone.
BodiesWithId(a) == DOMAIN bodies
BodiesOf(a) == DOMAIN bodies \cap {a}

ReadBody(w) ==
    LET found == BodiesOf(held[w].grant.owner) IN
    /\ pc[w] = "shared_body"
    /\ \/ \E a \in found :
            /\ held' = [held EXCEPT ![w].body = bodies[a]]
            /\ pc' = [pc EXCEPT ![w] = "answer"]
            /\ UNCHANGED tables
       \/ found = {} /\ RollBack(w)

Answer(w) == pc[w] = "answer" /\ RollBack(w)

-----------------------------------------------------------------------------

Operations ==
    \/ "account" \in Ops /\ \/ \E p \in People : Register(p)
                            \/ \E a \in DOMAIN users : DeleteAccount(a)
    \/ "note" \in Ops /\ \E a \in DOMAIN users : DeleteNote(a)

Request(w) ==
    \E a \in DOMAIN users :
        \/ "note" \in Ops /\ \E doc \in Blobs : PutBody(w, a, doc)
        \/ "header" \in Ops /\ \E doc \in Headers : PutHeader(w, a, doc)
        \/ "share" \in Ops /\ \E p \in People : ShareNote(w, a, p)
        \/ "unshare" \in Ops /\ \/ \E p \in People : RevokeShare(w, a, p)
                                \/ RemoveShared(w, a)
        \/ "read" \in Ops /\ ReadShared(w, a)

Step(w) ==
    \/ CommitBody(w) \/ ReadHeader(w) \/ CommitHeader(w)
    \/ ShareRecipient(w) \/ ShareExisting(w) \/ ShareCommit(w)
    \/ RevokeSelect(w) \/ Unshare(w)
    \/ ReadBody(w) \/ Answer(w)

Next ==
    \/ Operations
    \/ \E w \in Workers : Request(w) \/ Step(w) \/ Crash(w)

Spec == Init /\ [][Next]_vars

-----------------------------------------------------------------------------

Labels == {"idle", "body_commit", "header_body", "header_commit", "share_recipient",
           "share_existing", "share_commit", "revoke_share", "unshare", "shared_body",
           "answer"}

Held == [user : AccountIds \cup {None}, doc : Documents, row : Header \cup {None},
         note : Note \cup {None}, person : People \cup {None},
         other : AccountIds \cup {None}, share : ShareIds \cup {None},
         grant : Share \cup {None}, body : Body \cup {None}]

\* What a request has read by the time it needs it.
LocalsOK(w) ==
    /\ pc[w] # "idle" => held[w].user \in 1 .. registered
    /\ pc[w] = "body_commit" =>
         /\ parse_note_blob(held[w].doc) # None
         /\ parse_note_blob(held[w].doc).note_id = NoteId
    /\ pc[w] = "header_commit" => Accepted(parse_vault_header(held[w].doc))
    /\ pc[w] = "share_recipient" => held[w].person \in People
    /\ pc[w] \in {"share_existing", "share_commit"} =>
         held[w].other \in (1 .. registered) \ {held[w].user}
    /\ pc[w] = "revoke_share" => held[w].other \in 1 .. registered
    /\ pc[w] = "unshare" => held[w].share \in 1 .. granted
    /\ pc[w] \in {"shared_body", "answer"} => held[w].grant \in Share
    /\ pc[w] = "answer" => held[w].body \in Body

\* The rows have their types - no header without a key, no share without its
\* two accounts - and a handler has read what its next statement uses.
TypeOK ==
    /\ registered \in 0 .. MaxAccounts /\ granted \in 0 .. MaxShares
    /\ IsTable(users, 1 .. registered, People)
    /\ IsTable(headers, 1 .. registered, Header)
    /\ IsTable(notes, 1 .. registered, Note)
    /\ IsTable(bodies, 1 .. registered, Body)
    /\ IsTable(shares, 1 .. granted, Share)
    /\ pc \in [Workers -> Labels]
    /\ held \in [Workers -> Held]
    /\ \A w \in Workers : LocalsOK(w)

\* Notes, bodies and both ends of a share belong to accounts that exist, also
\* when an account is deleted between the reads of share_note and its INSERT
\* (shares/router.py:260): the foreign keys hold.
NothingOutlivesItsAccount ==
    /\ DOMAIN notes \cup DOMAIN bodies \subseteq DOMAIN users
    /\ \A s \in DOMAIN shares :
         shares[s].owner \in DOMAIN notes /\ shares[s].recipient \in DOMAIN users

\* The same of a header that is put while its account is deleted
\* (vault/router.py:75): nobody's key is served for a deleted account.
HeadersHaveTheirAccount == DOMAIN headers \subseteq DOMAIN users

\* For headers put one at a time: GET /users/public-key serves for an address the
\* key of the header that GET /vault/header serves its owner, a well-formed version
\* 2 document, and its algorithm, or the default 1 for a header with the algorithm
\* 0, which docs/SPEC.md:67 allows (vault/router.py:55-75).
HeaderNamesItsKey ==
    \A p \in People : \A key \in get_public_key_by_email(p) :
        \E a \in find_user_by_email(p) :
            /\ key.algorithm_id # 0
            /\ \E id \in {key.algorithm_id} \cup (IF key.algorithm_id = 1 THEN {0} ELSE {}) :
                 IsVaultHeader(headers[a].data, key.public_key, id)

\* For bodies put one at a time: a stored body is a blob of this note with nothing
\* missing and nothing behind it, and the title in lists is the one in the blob,
\* also when the note is deleted during the PUT (service.py:265, 303, ssnt.py:24).
StoredBlobIsWhole ==
    \A a \in DOMAIN bodies :
        a \in DOMAIN notes /\ IsNoteBlob(bodies[a].data, NoteId, notes[a].title)

\* A share ends with the account of one of its ends, or in a request of one of
\* them.  The share that was selected may have gone meanwhile, and one that
\* another owner gave the same recipient since is not taken for it
\* (shares/router.py:296, 322).
RemovedByItsEnds ==
    [][\A s \in DOMAIN shares \ DOMAIN shares' :
          LET ends == {shares[s].owner, shares[s].recipient} IN
          \/ ~(ends \subseteq DOMAIN users')
          \/ \E w \in Workers : /\ pc[w] = "unshare" /\ pc'[w] # "unshare"
                                 /\ held[w].user \in ends]_vars

\* The key and the body in one answer belong together: the recipient can
\* decrypt the body with the FEK that was shared, also when the share it has
\* read is replaced by another owner's before the body is read
\* (shares/router.py:180-198).
AnswerOpens ==
    \A w \in Workers :
        pc[w] = "answer" => held[w].grant.wrapped_fek = held[w].body.fek

\* An account holds one share of the note id at most, so its grant is a
\* function of the recipient (UNIQUE, models.py:233).
GrantTo(r) == shares[CHOOSE s \in DOMAIN shares : shares[s].recipient = r].owner

TheGrants ==
    INSTANCE Grants WITH
        members <- DOMAIN users,
        library <- [a \in DOMAIN notes |-> notes[a].state],
        grants <- [r \in {shares[s].recipient : s \in DOMAIN shares} |-> GrantTo(r)]

\* However the requests interleave, what is stored is what Grants allows.
ImplementsGrants == TheGrants!Spec

=============================================================================

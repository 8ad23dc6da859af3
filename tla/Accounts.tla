------------------------------ MODULE Accounts ------------------------------
(***************************************************************************)
(* The tables in which several accounts meet: users, their vault headers,  *)
(* the notes and bodies that carry one note id, and the shares of it.      *)
(* Note ids are chosen by clients and unique per owner only, so several    *)
(* accounts may own a note with this id.  Registering, deleting an account *)
(* and deleting a note are single steps here and saving a note is two, the *)
(* read and the commit; RefreshTokens and Notes have their statements.     *)
(***************************************************************************)
EXTENDS Parsing, FiniteSets

CONSTANTS
    Workers,       \* requests that can be in progress at the same time
    People,        \* email addresses
    MaxAccounts,   \* bound: accounts ever registered
    MaxOwners,     \* bound: accounts that own a note with the id at a time
    MaxShares,     \* bound: shares ever created
    NoteId,        \* the note id
    OnePut,        \* whether an account keeps one PUT of its header, and one of
                   \* the note's body, open at a time
    Headers,       \* documents clients send as vault header
    Blobs          \* documents clients send as note body

ASSUME AccountAssumption ==
    /\ MaxAccounts \in Nat /\ MaxShares \in Nat /\ MaxOwners \in Nat /\ NoteId \in Nat
    /\ None \notin Nat /\ None \notin People /\ OnePut \in BOOLEAN
    /\ Headers \subseteq Documents /\ Blobs \subseteq Documents

VARIABLES
    users,         \* users: account id -> email address
    registered,    \* account ids handed out so far
    headers,       \* vault_headers: account id -> row
    notes,         \* notes: account id -> row
    bodies,        \* note_blobs: account id -> row
    shares,        \* note_shares: share id -> row
    granted,       \* share ids handed out so far
    pc,            \* worker -> the statement it executes next
    held           \* worker -> what it was sent and has read

tables == <<users, registered, headers, notes, bodies, shares, granted>>
vars == <<tables, pc, held>>

AccountIds == 1 .. MaxAccounts
ShareIds == 1 .. MaxShares

Header == [data : Documents, public_key : Nat, algorithm_id : Nat]
Note == [state : {"active", "deleted"}, title : Documents]
\* fek is not a column: the file encryption key the owner's client has put
\* into the blob's wrapped_fek field, one per owner of the note id.
Body == [data : Documents, fek : AccountIds]
Share == [owner : AccountIds, recipient : AccountIds, wrapped_fek : AccountIds]

\* user: whose request it is; doc: the header or body sent; row, note: the
\* header, the active note read before; person: the address sent; other: the
\* account it was found to be; share: the id of a share read; grant, body: the
\* share and the body read for an answer.
NothingHeld == [user |-> None, doc |-> <<>>, row |-> None, note |-> None,
                person |-> None, other |-> None, share |-> None,
                grant |-> None, body |-> None]

Init ==
    /\ users = NoRows /\ registered = 0
    /\ headers = NoRows /\ notes = NoRows /\ bodies = NoRows
    /\ shares = NoRows /\ granted = 0
    /\ pc = [w \in Workers |-> "idle"]
    /\ held = [w \in Workers |-> NothingHeld]

Begin(w, label, what) ==
    /\ pc[w] = "idle"
    /\ pc' = [pc EXCEPT ![w] = label]
    /\ held' = [held EXCEPT ![w] = what]
    /\ UNCHANGED tables

Respond(w) ==
    /\ pc' = [pc EXCEPT ![w] = "idle"]
    /\ held' = [held EXCEPT ![w] = NothingHeld]

\* An error response: the open transaction rolls back.
RollBack(w) == Respond(w) /\ UNCHANGED tables

Crash(w) == pc[w] # "idle" /\ RollBack(w)

\* get_current_user: the access token's account is still there.
Authenticated(a) == a \in DOMAIN users

find_user_by_email(p) == {a \in DOMAIN users : users[a] = p}

IsActive(a) == a \in DOMAIN notes /\ notes[a].state = "active"

\* What a client that sends one PUT of a kind at a time waits for.
InTurn(labels, a) ==
    OnePut => \A w \in Workers : pc[w] \in labels => held[w].user # a

-----------------------------------------------------------------------------

\* POST /auth/register: the address is UNIQUE.
Register(p) ==
    /\ registered < MaxAccounts
    /\ find_user_by_email(p) = {}
    /\ registered' = registered + 1
    /\ users' = Upsert(users, registered', p)
    /\ UNCHANGED <<headers, notes, bodies, shares, granted, pc, held>>

\* Mutant: the cascade follows the owner of a share and not the recipient.
SharesFrom(a) == {s \in DOMAIN shares : shares[s].owner = a}
SharesOf(a) == {s \in DOMAIN shares : a \in {shares[s].owner, shares[s].recipient}}

\* POST /auth/delete-account: everything of the account goes by cascade.
DeleteAccount(a) ==
    /\ Authenticated(a)
    /\ users' = Without(users, {a})
    /\ headers' = Without(headers, {a})
    /\ notes' = Without(notes, {a})
    /\ bodies' = Without(bodies, {a})
    /\ shares' = Without(shares, SharesOf(a))
    /\ UNCHANGED <<registered, granted, pc, held>>

\* PUT /notes/{NoteId}/body: a blob of this note; the active note is read.
PutBody(w, a, doc) ==
    LET metadata == parse_note_blob(doc) IN
    /\ Authenticated(a)
    /\ InTurn({"body_commit"}, a)
    /\ metadata # None
    /\ metadata.note_id = NoteId
    /\ Begin(w, "body_commit", [NothingHeld EXCEPT !.user = a, !.doc = doc,
                                   !.note = IF IsActive(a) THEN notes[a] ELSE None])

\* The keys and foreign keys of notes: a tombstone makes the INSERT fail.
CanInsertNote(a) ==
    /\ a \notin DOMAIN notes /\ Authenticated(a)
    /\ Cardinality(DOMAIN notes) < MaxOwners

\* INSERT of the note, or UPDATE of its title if that differs from the row read,
\* which may have another title by now, and of the body.  The metadata are
\* computed from the active note: a tombstone ends the request.
CommitBody(w) ==
    LET a == held[w].user
        old == held[w].note
        title == parse_note_blob(held[w].doc).title
        SaveAs(row) ==
            /\ notes' = Upsert(notes, a, row)
            /\ bodies' = Upsert(bodies, a, [data |-> held[w].doc, fek |-> a])
            /\ Respond(w)
            /\ UNCHANGED <<users, registered, headers, shares, granted>>
    IN
    /\ pc[w] = "body_commit"
    /\ \/ old = None /\ CanInsertNote(a) /\ SaveAs([state |-> "active", title |-> title])
       \/ /\ old # None /\ IsActive(a)
          /\ SaveAs([notes[a] EXCEPT !.title = Changed(title, old.title, @)])
       \/ (IF old = None THEN ~CanInsertNote(a) ELSE ~IsActive(a)) /\ RollBack(w)

\* DELETE /notes/{NoteId}: the row stays as a tombstone, and so do its shares.
DeleteNote(a) ==
    /\ Authenticated(a) /\ IsActive(a)
    /\ notes' = [notes EXCEPT ![a].state = "deleted"]
    /\ bodies' = Without(bodies, {a})
    /\ UNCHANGED <<users, registered, headers, shares, granted, pc, held>>

=============================================================================

------------------------------- MODULE Vault ---------------------------------
(***************************************************************************)
(* PUT /vault/header (app/vault/router.py).  The row keeps the document    *)
(* and, beside it, the public key and the algorithm found in it: what      *)
(* GET /users/public-key serves without parsing the document again.        *)
(***************************************************************************)
EXTENDS Accounts

PutHeader(w, a, doc) ==
    /\ Authenticated(a)
    /\ InTurn({"header_body", "header_commit"}, a)
    /\ Begin(w, "header_body", [NothingHeld EXCEPT !.user = a, !.doc = doc])

\* Mutant: version 1 headers, which have no key, get past the check.
AcceptedUnchecked(metadata) == metadata # None
Accepted(metadata) == metadata # None /\ metadata.public_key # None

\* The body has arrived and is parsed; then the row is selected.
ReadHeader(w) ==
    LET a == held[w].user IN
    /\ pc[w] = "header_body"
    /\ \/ /\ Accepted(parse_vault_header(held[w].doc))
          /\ held' = [held EXCEPT ![w].row = IF a \in DOMAIN headers THEN headers[a] ELSE None]
          /\ pc' = [pc EXCEPT ![w] = "header_commit"]
          /\ UNCHANGED tables
       \/ ~Accepted(parse_vault_header(held[w].doc)) /\ RollBack(w)

\* "metadata.algorithm_id or 1": an algorithm 0 is stored as 1.
AlgorithmOrDefault(id) == IF id = 0 THEN 1 ELSE id

HeaderRow(doc) ==
    [data |-> doc,
     public_key |-> parse_vault_header(doc).public_key,
     algorithm_id |-> AlgorithmOrDefault(parse_vault_header(doc).algorithm_id)]

\* Mutant: the key of the row that is replaced stays.
UpdatedDocument(row, old, new) == [row EXCEPT !.data = Changed(new.data, old.data, @)]
UpdatedHeader(row, old, new) ==
    [data |-> Changed(new.data, old.data, row.data),
     public_key |-> Changed(new.public_key, old.public_key, row.public_key),
     algorithm_id |-> Changed(new.algorithm_id, old.algorithm_id, row.algorithm_id)]

\* Mutant: no foreign key vault_headers.user_id -> users.id.
AnyHeader(a) == a \notin DOMAIN headers
\* The primary key and the foreign key.
CanInsertHeader(a) == a \notin DOMAIN headers /\ Authenticated(a)

\* INSERT, or UPDATE of the columns that differ from the row read: none, if
\* the same header was sent again.
CommitHeader(w) ==
    LET a == held[w].user
        old == held[w].row
        new == HeaderRow(held[w].doc)
    IN
    /\ pc[w] = "header_commit"
    /\ \/ /\ old = None /\ CanInsertHeader(a)
          /\ headers' = Upsert(headers, a, new)
          /\ Respond(w)
          /\ UNCHANGED <<users, registered, notes, bodies, shares, granted>>
       \/ /\ old \notin {None, new} /\ a \in DOMAIN headers
          /\ headers' = [headers EXCEPT ![a] = UpdatedHeader(@, old, new)]
          /\ Respond(w)
          /\ UNCHANGED <<users, registered, notes, bodies, shares, granted>>
       \/ /\ \/ old = None /\ ~CanInsertHeader(a)
             \/ old # None /\ a \notin DOMAIN headers
             \/ old = new
          /\ RollBack(w)

-----------------------------------------------------------------------------

\* GET /users/public-key: there is nothing to serve without a header.
get_public_key_by_email(p) ==
    {[public_key |-> headers[a].public_key, algorithm_id |-> headers[a].algorithm_id] :
        a \in find_user_by_email(p) \cap DOMAIN headers}

=============================================================================

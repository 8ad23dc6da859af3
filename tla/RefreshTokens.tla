---------------------------- MODULE RefreshTokens ----------------------------
(***************************************************************************)
(* The auth endpoints (app/auth/router.py, app/auth/tokens.py) on the      *)
(* account of one email address: register, login, refresh, logout and      *)
(* delete-account, interleaved statement by statement.  A refresh token is *)
(* known to the server by the hash it stores; here it is its row's number. *)
(***************************************************************************)
EXTENDS Integers, FiniteSets

CONSTANTS
    Workers,       \* requests that can be in progress at the same time
    REFRESH_TOKEN_TTL,
    MaxAccounts,   \* bound: accounts registered with the address, in turn
    MaxTokens,     \* bound: refresh tokens ever issued
    MaxClock,      \* bound: ticks of the clock
    InTurn,        \* accounts whose clients wait for one another (see TakesTurn)
    None           \* SQL NULL, or no row

ASSUME TokenAssumption ==
    /\ REFRESH_TOKEN_TTL \in Nat /\ MaxClock \in Nat
    /\ MaxAccounts \in Nat /\ MaxTokens \in Nat
    /\ None \notin Int /\ InTurn \subseteq Nat

VARIABLES
    account,       \* users: the id of the address's account, or None
    registered,    \* account ids handed out so far
    tokens,        \* refresh_tokens: token -> row
    issued,        \* tokens handed out so far
    clock,
    pc,            \* worker -> the statement it executes next
    held           \* worker -> the ids it has read or was sent

tables == <<account, registered, tokens, issued>>
vars == <<tables, clock, pc, held>>

TokenIds == 1 .. MaxTokens
Accounts == 1 .. MaxAccounts

\* parent is not a column: the token this one was rotated from, or None.
Token == [user : Accounts, expires_at : Nat, revoked : BOOLEAN,
          parent : TokenIds \cup {None}]

\* user: the account's id; token: the one presented; live: those to revoke.
NothingHeld == [user |-> None, token |-> None, live |-> {}]

Init ==
    /\ account = None /\ registered = 0
    /\ tokens = [t \in {} |-> None] /\ issued = 0
    /\ clock = 0
    /\ pc = [w \in Workers |-> "idle"]
    /\ held = [w \in Workers |-> NothingHeld]

Begin(w, label, ids) ==
    /\ pc[w] = "idle"
    /\ pc' = [pc EXCEPT ![w] = label]
    /\ held' = [held EXCEPT ![w] = ids]
    /\ UNCHANGED <<tables, clock>>

Respond(w) ==
    /\ pc' = [pc EXCEPT ![w] = "idle"]
    /\ held' = [held EXCEPT ![w] = NothingHeld]
    /\ UNCHANGED clock

\* An error response: the open transaction rolls back.
RollBack(w) == Respond(w) /\ UNCHANGED tables

-----------------------------------------------------------------------------
(* The tokens of an account.                                               *)

\* Mutant: no foreign key.
AnyOwner(u) == TRUE
\* The foreign key refresh_tokens.user_id -> users.id.
OwnerExists(u) == account = u

CanIssue == issued < MaxTokens

\* create_refresh_token, committed into the given rows.
Issue(rows, u, parent) ==
    /\ issued' = issued + 1
    /\ tokens' = [t \in DOMAIN rows \cup {issued'} |->
                    IF t = issued'
                      THEN [user |-> u, expires_at |-> clock + REFRESH_TOKEN_TTL,
                            revoked |-> FALSE, parent |-> parent]
                      ELSE rows[t]]

\* Mutant: the presented token is not revoked.
RevokeNothing(ids) == tokens
\* UPDATE refresh_tokens SET revoked_at = now, whatever it is now.
Revoked(ids) ==
    [t \in DOMAIN tokens |->
        IF t \in ids THEN [tokens[t] EXCEPT !.revoked = TRUE] ELSE tokens[t]]

\* Mutant: revoked_at is not looked at.
UsableIfFresh(t) == t \in DOMAIN tokens /\ tokens[t].expires_at >= clock
Usable(t) ==
    /\ t \in DOMAIN tokens
    /\ ~tokens[t].revoked
    /\ tokens[t].expires_at >= clock

\* Mutant: tokens that have expired are left alone.
LiveUnexpired(u) ==
    {t \in DOMAIN tokens : tokens[t].user = u /\ ~tokens[t].revoked /\ tokens[t].expires_at >= clock}
Live(u) == {t \in DOMAIN tokens : tokens[t].user = u /\ ~tokens[t].revoked}

\* What the clients of an account in InTurn keep to: a refresh token is in one
\* request at a time, and nobody logs out while a token is being issued.  All
\* the other requests, and those of other accounts, overlap at will.
TakesTurn(u, token, labels) ==
    u \in InTurn =>
        \A v \in Workers :
            held[v].user = u => /\ pc[v] \notin labels
                                /\ token # None => held[v].token # token
Issuing == {"issue", "refresh_user", "refresh_commit"}
LoggingOut == {"logout_read", "logout_commit"}

-----------------------------------------------------------------------------
(* POST /auth/register: the user and its first token are two transactions. *)

Register(w) ==
    /\ account = None
    /\ Begin(w, "register_user", NothingHeld)

\* The email address is UNIQUE: the loser of two registrations fails.
RegisterUser(w) ==
    /\ pc[w] = "register_user"
    /\ \/ /\ account = None /\ registered < MaxAccounts
          /\ registered' = registered + 1
          /\ account' = registered'
          /\ pc' = [pc EXCEPT ![w] = "issue"]
          /\ held' = [held EXCEPT ![w].user = registered']
          /\ UNCHANGED <<tokens, issued, clock>>
       \/ (account # None \/ registered = MaxAccounts) /\ RollBack(w)

-----------------------------------------------------------------------------
(* POST /auth/login                                                        *)

Login(w) ==
    /\ account # None
    /\ TakesTurn(account, None, LoggingOut)
    /\ Begin(w, "issue", [NothingHeld EXCEPT !.user = account])

\* The last commit of register and login.
IssueToken(w) ==
    /\ pc[w] = "issue"
    /\ \/ /\ OwnerExists(held[w].user) /\ CanIssue
          /\ Issue(tokens, held[w].user, None)
          /\ Respond(w)
          /\ UNCHANGED <<account, registered>>
       \/ ~(OwnerExists(held[w].user) /\ CanIssue) /\ RollBack(w)

-----------------------------------------------------------------------------
(* POST /auth/refresh: rotate_refresh_token                                *)

Refresh(w, t) ==
    /\ Usable(t)
    /\ TakesTurn(tokens[t].user, t, LoggingOut)
    /\ Begin(w, "refresh_user", [user |-> tokens[t].user, token |-> t, live |-> {}])

RefreshUser(w) ==
    /\ pc[w] = "refresh_user"
    /\ \/ /\ account = held[w].user
          /\ pc' = [pc EXCEPT ![w] = "refresh_commit"]
          /\ UNCHANGED <<tables, clock, held>>
       \/ account # held[w].user /\ RollBack(w)

\* UPDATE of the presented token, INSERT of the new one.  The row was usable
\* when Refresh read it; nothing looks at it again.
RefreshCommit(w) ==
    LET u == held[w].user
        t == held[w].token
    IN
    /\ pc[w] = "refresh_commit"
    /\ \/ /\ t \in DOMAIN tokens /\ OwnerExists(u) /\ CanIssue
          /\ Issue(Revoked({t}), u, t)
          /\ Respond(w)
          /\ UNCHANGED <<account, registered>>
       \/ ~(t \in DOMAIN tokens /\ OwnerExists(u) /\ CanIssue) /\ RollBack(w)

-----------------------------------------------------------------------------
(* POST /auth/logout and /auth/delete-account, with an access token of any *)
(* account ever registered: it is valid while the account exists.          *)

Logout(w, u) ==
    /\ account = u
    /\ TakesTurn(u, None, Issuing)
    /\ Begin(w, "logout_read", [NothingHeld EXCEPT !.user = u])

LogoutRead(w) ==
    /\ pc[w] = "logout_read"
    /\ held' = [held EXCEPT ![w].live = Live(held[w].user)]
    /\ pc' = [pc EXCEPT ![w] = "logout_commit"]
    /\ UNCHANGED <<tables, clock>>

LogoutCommit(w) ==
    /\ pc[w] = "logout_commit"
    /\ \/ /\ held[w].live \subseteq DOMAIN tokens
          /\ tokens' = Revoked(held[w].live)
          /\ Respond(w)
          /\ UNCHANGED <<account, registered, issued>>
       \/ ~(held[w].live \subseteq DOMAIN tokens) /\ RollBack(w)

DeleteAccount(w, u) ==
    /\ account = u
    /\ Begin(w, "delete_commit", [NothingHeld EXCEPT !.user = u])

\* The tokens go with the account by cascade.  An account that is already
\* gone is not an error.
DeleteCommit(w) ==
    /\ pc[w] = "delete_commit"
    /\ account' = IF account = held[w].user THEN None ELSE account
    /\ tokens' = [t \in {s \in DOMAIN tokens : tokens[s].user # held[w].user} |-> tokens[t]]
    /\ Respond(w)
    /\ UNCHANGED <<registered, issued>>

-----------------------------------------------------------------------------

Crash(w) == pc[w] # "idle" /\ RollBack(w)

Tick ==
    /\ clock < MaxClock
    /\ clock' = clock + 1
    /\ UNCHANGED <<tables, pc, held>>

Request(w) ==
    \/ Register(w) \/ Login(w)
    \/ \E t \in 1 .. issued : Refresh(w, t)
    \/ \E u \in 1 .. registered : Logout(w, u) \/ DeleteAccount(w, u)

Step(w) ==
    \/ RegisterUser(w) \/ IssueToken(w)
    \/ RefreshUser(w) \/ RefreshCommit(w)
    \/ LogoutRead(w) \/ LogoutCommit(w)
    \/ DeleteCommit(w)

Next == Tick \/ \E w \in Workers : Request(w) \/ Step(w) \/ Crash(w)

Spec == Init /\ [][Next]_vars

-----------------------------------------------------------------------------

Labels == {"idle", "register_user", "issue", "refresh_user", "refresh_commit",
           "logout_read", "logout_commit", "delete_commit"}

Held == [user : Accounts \cup {None}, token : TokenIds \cup {None}, live : SUBSET TokenIds]

TypeOK ==
    /\ registered \in 0 .. MaxAccounts
    /\ account \in 1 .. registered \cup {None}
    /\ issued \in 0 .. MaxTokens
    /\ DOMAIN tokens \subseteq 1 .. issued /\ tokens \in [DOMAIN tokens -> Token]
    /\ clock \in 0 .. MaxClock
    /\ pc \in [Workers -> Labels]
    /\ held \in [Workers -> Held]
    /\ \A w \in Workers :
         /\ held[w].user \in 1 .. registered \cup {None}
         /\ pc[w] \notin {"idle", "register_user"} => held[w].user # None
         /\ pc[w] \in {"refresh_user", "refresh_commit"} => held[w].token # None

\* Every stored token belongs to the existing account: neither a login nor a
\* refresh racing with delete-account leaves a token of a deleted account
\* (auth/router.py:121, the foreign key of models.py:43), even when the
\* address is registered again in between.
TokensHaveOwner == \A t \in DOMAIN tokens : tokens[t].user = account

\* A token that was exchanged for another is revoked, and stays so, under
\* every interleaving of refresh, logout and deletion (tokens.py:78).
ExchangedIsRevoked ==
    \A t \in DOMAIN tokens :
        tokens[t].parent # None =>
            /\ tokens[t].parent \in DOMAIN tokens
            /\ tokens[tokens[t].parent].revoked

\* A refresh token of clients that take turns is exchanged at most once: after its
\* exchange, and after a logout, it is refused, whatever logins, deletions and
\* requests of other accounts run meanwhile (tokens.py:69).  Two parallel requests
\* with one token both pass the check of rotate_refresh_token.
ExchangedOnce ==
    \A s, t \in DOMAIN tokens :
        /\ tokens[s].user \in InTurn
        /\ tokens[s].parent = tokens[t].parent /\ tokens[s].parent # None
        => s = t

\* Once logout has committed, none of the user's tokens is usable, when its
\* clients take turns (tokens.py:85).
LogoutRevokesAll ==
    [][\A w \in Workers :
         pc[w] = "logout_commit" /\ held[w].user \in InTurn /\ tokens' # tokens
         /\ pc'[w] = "idle" /\ DOMAIN tokens' = DOMAIN tokens
         => \A t \in DOMAIN tokens' : tokens'[t].user = held[w].user => tokens'[t].revoked]_vars

=============================================================================

------------------------- MODULE RefreshTokensProofs -------------------------
(***************************************************************************)
(* Proofs about RefreshTokens, for any number of workers, accounts and     *)
(* tokens: the types, that tokens never outlive their account, that a      *)
(* token exchanged for another is revoked, and what rotation and logout    *)
(* give clients that take turns.                                           *)
(***************************************************************************)
EXTENDS RefreshTokens, TLAPS

\* Deletion takes the tokens of one account and leaves a parent behind only
\* if its heirs stay too: that needs TokensHaveOwner, so the three are
\* inductive together.
Inv == TypeOK /\ TokensHaveOwner /\ ExchangedIsRevoked

LEMMA InitInv == Init => Inv
BY TokenAssumption
   DEF Init, Inv, TypeOK, TokensHaveOwner, ExchangedIsRevoked, Labels, Held,
       NothingHeld, TokenIds, Accounts, Token

\* RollBack is shared by every failing branch and by Crash.
LEMMA RollBackInv ==
    ASSUME Inv, NEW w \in Workers, RollBack(w)
    PROVE  Inv'
<1>1. /\ UNCHANGED <<account, registered, tokens, issued, clock>>
      /\ pc' = [pc EXCEPT ![w] = "idle"]
      /\ held' = [held EXCEPT ![w] = NothingHeld]
    BY DEF RollBack, Respond, tables
<1>2. NothingHeld \in Held /\ NothingHeld.user = None
    BY DEF NothingHeld, Held
<1>3. TypeOK'
    BY <1>1, <1>2 DEF Inv, TypeOK, Labels
<1>4. TokensHaveOwner' /\ ExchangedIsRevoked'
    BY <1>1 DEF Inv, TokensHaveOwner, ExchangedIsRevoked
<1> QED BY <1>3, <1>4 DEF Inv

\* A request's first statement only reads: what it keeps must be well typed.
LEMMA RequestInv ==
    ASSUME Inv, NEW w \in Workers, Request(w)
    PROVE  Inv'
<1>1. PICK label \in Labels, ids \in Held :
        /\ Begin(w, label, ids)
        /\ ids.user \in 1 .. registered \cup {None}
        /\ label \notin {"idle", "register_user"} => ids.user # None
        /\ label \in {"refresh_user", "refresh_commit"} => ids.token # None
    <2>1. NothingHeld \in Held
        BY DEF NothingHeld, Held
    <2>2. CASE Register(w)
        BY <2>1, <2>2 DEF Register, NothingHeld, Labels
    <2>3. CASE Login(w)
        BY <2>3, TokenAssumption
           DEF Login, NothingHeld, Labels, Held, Inv, TypeOK, Accounts
    <2>4. ASSUME NEW t \in 1 .. issued, Refresh(w, t)
          PROVE  \E label \in Labels, ids \in Held :
                    /\ Begin(w, label, ids)
                    /\ ids.user \in 1 .. registered \cup {None}
                    /\ label \notin {"idle", "register_user"} => ids.user # None
                    /\ label \in {"refresh_user", "refresh_commit"} => ids.token # None
        <3> DEFINE ids == [user |-> tokens[t].user, token |-> t, live |-> {}]
        <3>1. t \in DOMAIN tokens /\ Begin(w, "refresh_user", ids)
            BY <2>4 DEF Refresh, Usable
        <3>2. tokens[t] \in Token /\ tokens[t].user = account
            BY <3>1 DEF Inv, TypeOK, TokensHaveOwner
        <3>3. account \in 1 .. registered /\ account \in Accounts /\ t \in TokenIds
            BY <3>2, TokenAssumption
               DEF Inv, TypeOK, Token, Accounts, TokenIds
        <3>4. ids \in Held
            BY <3>2, <3>3 DEF Held
        <3>5. ids.user \in 1 .. registered /\ ids.user # None /\ ids.token # None
            BY <3>2, <3>3, TokenAssumption DEF TokenIds
        <3> QED BY <3>1, <3>4, <3>5 DEF Labels
    <2>5. ASSUME NEW u \in 1 .. registered, Logout(w, u) \/ DeleteAccount(w, u)
          PROVE  \E label \in Labels, ids \in Held :
                    /\ Begin(w, label, ids)
                    /\ ids.user \in 1 .. registered \cup {None}
                    /\ label \notin {"idle", "register_user"} => ids.user # None
                    /\ label \in {"refresh_user", "refresh_commit"} => ids.token # None
        BY <2>5, TokenAssumption
           DEF Logout, DeleteAccount, NothingHeld, Labels, Held, Inv, TypeOK, Accounts
    <2> QED BY <2>2, <2>3, <2>4, <2>5 DEF Request
<1>2. /\ UNCHANGED <<account, registered, tokens, issued, clock>>
      /\ pc' = [pc EXCEPT ![w] = label]
      /\ held' = [held EXCEPT ![w] = ids]
    BY <1>1 DEF Begin, tables
<1>3. TypeOK'
    BY <1>1, <1>2 DEF Inv, TypeOK
<1>4. TokensHaveOwner' /\ ExchangedIsRevoked'
    BY <1>2 DEF Inv, TokensHaveOwner, ExchangedIsRevoked
<1> QED BY <1>3, <1>4 DEF Inv

\* What Issue and Revoked do to the table, without reference to who calls.
LEMMA RevokedTable ==
    ASSUME TypeOK, NEW ids
    PROVE  /\ DOMAIN Revoked(ids) = DOMAIN tokens
           /\ Revoked(ids) \in [DOMAIN tokens -> Token]
           /\ \A t \in DOMAIN tokens :
                /\ Revoked(ids)[t].user = tokens[t].user
                /\ Revoked(ids)[t].parent = tokens[t].parent
                /\ Revoked(ids)[t].revoked = (tokens[t].revoked \/ t \in ids)
<1>1. \A t \in DOMAIN tokens : tokens[t] \in Token
    BY DEF TypeOK
<1>2. \A t \in DOMAIN tokens : [tokens[t] EXCEPT !.revoked = TRUE] \in Token
    BY <1>1 DEF Token
<1> QED BY <1>1, <1>2 DEF Revoked, Token

\* A new token is added to rows that differ from the table only in revoked.
LEMMA IssueInv ==
    ASSUME Inv, NEW w \in Workers, NEW rows, NEW u, NEW parent,
           DOMAIN rows = DOMAIN tokens, rows \in [DOMAIN tokens -> Token],
           \A t \in DOMAIN tokens :
              /\ rows[t].user = tokens[t].user
              /\ rows[t].parent = tokens[t].parent
              /\ tokens[t].revoked => rows[t].revoked,
           OwnerExists(u), u # None, CanIssue, Issue(rows, u, parent),
           parent = None \/ (parent \in DOMAIN tokens /\ rows[parent].revoked),
           Respond(w), UNCHANGED <<account, registered>>
    PROVE  Inv'
<1> DEFINE row == [user |-> u, expires_at |-> clock + REFRESH_TOKEN_TTL,
                   revoked |-> FALSE, parent |-> parent]
<1>1. /\ issued' = issued + 1
      /\ tokens' = [t \in DOMAIN tokens \cup {issued + 1} |->
                      IF t = issued + 1 THEN row ELSE rows[t]]
    BY DEF Issue
<1>2. /\ issued \in Nat /\ issued + 1 \in 1 .. MaxTokens
      /\ DOMAIN tokens \subseteq 1 .. issued
    BY TokenAssumption DEF Inv, TypeOK, CanIssue
<1>3. issued + 1 \notin DOMAIN tokens
    BY <1>2
<1>4. u \in 1 .. registered /\ u \in Accounts
    BY TokenAssumption DEF Inv, TypeOK, OwnerExists, Accounts
<1>5. row \in Token
    <2>1. clock + REFRESH_TOKEN_TTL \in Nat
        BY TokenAssumption DEF Inv, TypeOK
    <2>2. parent \in TokenIds \cup {None}
        BY <1>2, TokenAssumption DEF TokenIds, Inv, TypeOK
    <2> QED BY <1>4, <2>1, <2>2 DEF Token
<1>6. /\ DOMAIN tokens' = DOMAIN tokens \cup {issued'}
      /\ tokens'[issued'] = row
      /\ \A t \in DOMAIN tokens : tokens'[t] = rows[t]
    BY <1>1, <1>3
<1>7. /\ clock' = clock /\ pc' = [pc EXCEPT ![w] = "idle"]
      /\ held' = [held EXCEPT ![w] = NothingHeld]
    BY DEF Respond
<1>8. TypeOK'
    <2>1. tokens' \in [DOMAIN tokens' -> Token] /\ DOMAIN tokens' \subseteq 1 .. issued'
        BY <1>1, <1>2, <1>5
    <2>2. NothingHeld \in Held /\ NothingHeld.user = None
        BY DEF NothingHeld, Held
    <2>3. issued' \in 0 .. MaxTokens
        BY <1>1, <1>2
    <2> QED BY <1>7, <2>1, <2>2, <2>3 DEF Inv, TypeOK, Labels
<1>9. TokensHaveOwner'
    BY <1>6 DEF Inv, TokensHaveOwner, OwnerExists
<1>10. ExchangedIsRevoked'
    <2> SUFFICES ASSUME NEW t \in DOMAIN tokens', tokens'[t].parent # None
                 PROVE  /\ tokens'[t].parent \in DOMAIN tokens'
                        /\ tokens'[tokens'[t].parent].revoked
        BY DEF ExchangedIsRevoked
    <2>1. CASE t = issued'
        BY <2>1, <1>6
    <2>2. CASE t \in DOMAIN tokens
        <3>1. tokens'[t].parent = tokens[t].parent
            BY <2>2, <1>6
        <3>2. tokens[t].parent \in DOMAIN tokens /\ tokens[tokens[t].parent].revoked
            BY <2>2, <3>1 DEF Inv, ExchangedIsRevoked
        <3> QED BY <3>1, <3>2, <1>6
    <2> QED BY <2>1, <2>2, <1>6
<1> QED BY <1>8, <1>9, <1>10 DEF Inv

LEMMA StepInv ==
    ASSUME Inv, NEW w \in Workers, Step(w)
    PROVE  Inv'
<1>1. CASE RegisterUser(w)
    <2>1. CASE RollBack(w)
        BY <2>1, RollBackInv
    <2>2. CASE ~RollBack(w)
        <3>1. /\ account = None /\ registered' = registered + 1
              /\ registered' \in 1 .. MaxAccounts /\ account' = registered'
              /\ pc' = [pc EXCEPT ![w] = "issue"]
              /\ held' = [held EXCEPT ![w].user = registered']
              /\ UNCHANGED <<tokens, issued, clock>>
            BY <1>1, <2>2, TokenAssumption DEF RegisterUser, Inv, TypeOK
        <3>2. DOMAIN tokens = {}
            \* each would belong to the account, and there is none
            <4>1. \A t \in DOMAIN tokens : tokens[t] \in Token /\ tokens[t].user = None
                BY <3>1 DEF Inv, TypeOK, TokensHaveOwner
            <4>2. \A row \in Token : row.user \in Int
                BY TokenAssumption DEF Token, Accounts
            <4> QED BY <4>1, <4>2, TokenAssumption
        <3>3. TypeOK'
            <4>1. held' \in [Workers -> Held]
                BY <3>1 DEF Inv, TypeOK, Held, Accounts
            <4>2. \A v \in Workers :
                    /\ held'[v].user \in 1 .. registered' \cup {None}
                    /\ pc'[v] \notin {"idle", "register_user"} => held'[v].user # None
                    /\ pc'[v] \in {"refresh_user", "refresh_commit"} => held'[v].token # None
                BY <3>1, TokenAssumption DEF Inv, TypeOK, Held
            <4> QED BY <3>1, <4>1, <4>2 DEF Inv, TypeOK, Labels
        <3>4. TokensHaveOwner' /\ ExchangedIsRevoked'
            BY <3>1, <3>2 DEF TokensHaveOwner, ExchangedIsRevoked
        <3> QED BY <3>3, <3>4 DEF Inv
    <2> QED BY <2>1, <2>2
<1>2. CASE IssueToken(w)
    <2>1. CASE RollBack(w)
        BY <2>1, RollBackInv
    <2>2. CASE ~RollBack(w)
        <3>1. /\ pc[w] = "issue" /\ OwnerExists(held[w].user) /\ CanIssue
              /\ Issue(tokens, held[w].user, None) /\ Respond(w)
              /\ UNCHANGED <<account, registered>>
            BY <1>2, <2>2 DEF IssueToken
        <3>2. held[w].user # None
            BY <3>1 DEF Inv, TypeOK
        <3>3. tokens \in [DOMAIN tokens -> Token]
            BY DEF Inv, TypeOK
        <3> QED BY <3>1, <3>2, <3>3, IssueInv
    <2> QED BY <2>1, <2>2
<1>3. CASE RefreshUser(w)
    <2>1. CASE RollBack(w)
        BY <2>1, RollBackInv
    <2>2. CASE ~RollBack(w)
        <3>1. /\ pc[w] = "refresh_user" /\ pc' = [pc EXCEPT ![w] = "refresh_commit"]
              /\ UNCHANGED <<account, registered, tokens, issued, clock, held>>
            BY <1>3, <2>2 DEF RefreshUser, tables
        <3>2. TypeOK'
            BY <3>1 DEF Inv, TypeOK, Labels
        <3> QED BY <3>1, <3>2 DEF Inv, TokensHaveOwner, ExchangedIsRevoked
    <2> QED BY <2>1, <2>2
<1>4. CASE RefreshCommit(w)
    <2> DEFINE u == held[w].user
               t == held[w].token
    <2>1. CASE RollBack(w)
        BY <2>1, RollBackInv
    <2>2. CASE ~RollBack(w)
        <3>1. /\ pc[w] = "refresh_commit" /\ t \in DOMAIN tokens
              /\ OwnerExists(u) /\ CanIssue
              /\ Issue(Revoked({t}), u, t) /\ Respond(w)
              /\ UNCHANGED <<account, registered>>
            BY <1>4, <2>2 DEF RefreshCommit
        <3>2. u # None
            BY <3>1 DEF Inv, TypeOK
        <3>3. /\ DOMAIN Revoked({t}) = DOMAIN tokens
              /\ Revoked({t}) \in [DOMAIN tokens -> Token]
              /\ \A s \in DOMAIN tokens :
                    /\ Revoked({t})[s].user = tokens[s].user
                    /\ Revoked({t})[s].parent = tokens[s].parent
                    /\ Revoked({t})[s].revoked = (tokens[s].revoked \/ s \in {t})
            BY RevokedTable DEF Inv
        <3>4. Revoked({t})[t].revoked
            BY <3>1, <3>3
        <3> HIDE DEF u, t
        <3> QED BY <3>1, <3>2, <3>3, <3>4, IssueInv
    <2> QED BY <2>1, <2>2
<1>5. CASE LogoutRead(w)
    <2>1. /\ pc[w] = "logout_read" /\ pc' = [pc EXCEPT ![w] = "logout_commit"]
          /\ held' = [held EXCEPT ![w].live = Live(held[w].user)]
          /\ UNCHANGED <<account, registered, tokens, issued, clock>>
        BY <1>5 DEF LogoutRead, tables
    <2>2. Live(held[w].user) \subseteq TokenIds
        BY TokenAssumption DEF Live, Inv, TypeOK, TokenIds
    <2>3. held' \in [Workers -> Held]
        BY <2>1, <2>2 DEF Inv, TypeOK, Held
    <2>4. \A v \in Workers : held'[v].user = held[v].user /\ held'[v].token = held[v].token
        BY <2>1 DEF Inv, TypeOK, Held
    <2>5. TypeOK'
        BY <2>1, <2>3, <2>4 DEF Inv, TypeOK, Labels
    <2> QED BY <2>1, <2>5 DEF Inv, TokensHaveOwner, ExchangedIsRevoked
<1>6. CASE LogoutCommit(w)
    <2>1. CASE RollBack(w)
        BY <2>1, RollBackInv
    <2>2. CASE ~RollBack(w)
        <3>1. /\ tokens' = Revoked(held[w].live)
              /\ pc' = [pc EXCEPT ![w] = "idle"]
              /\ held' = [held EXCEPT ![w] = NothingHeld]
              /\ UNCHANGED <<account, registered, issued, clock>>
            BY <1>6, <2>2 DEF LogoutCommit, Respond
        <3>2. /\ DOMAIN tokens' = DOMAIN tokens
              /\ tokens' \in [DOMAIN tokens -> Token]
              /\ \A s \in DOMAIN tokens :
                    /\ tokens'[s].user = tokens[s].user
                    /\ tokens'[s].parent = tokens[s].parent
                    /\ tokens[s].revoked => tokens'[s].revoked
            <4> DEFINE ids == held[w].live
            <4>1. /\ DOMAIN Revoked(ids) = DOMAIN tokens
                  /\ Revoked(ids) \in [DOMAIN tokens -> Token]
                  /\ \A s \in DOMAIN tokens :
                        /\ Revoked(ids)[s].user = tokens[s].user
                        /\ Revoked(ids)[s].parent = tokens[s].parent
                        /\ Revoked(ids)[s].revoked = (tokens[s].revoked \/ s \in ids)
                BY RevokedTable DEF Inv
            <4>2. tokens' = Revoked(ids)
                BY <3>1
            <4> HIDE DEF ids
            <4> QED BY <4>1, <4>2
        <3>3. NothingHeld \in Held /\ NothingHeld.user = None
            BY DEF NothingHeld, Held
        <3>4. TypeOK'
            BY <3>1, <3>2, <3>3 DEF Inv, TypeOK, Labels
        <3>5. TokensHaveOwner' /\ ExchangedIsRevoked'
            BY <3>1, <3>2 DEF Inv, TokensHaveOwner, ExchangedIsRevoked
        <3> QED BY <3>4, <3>5 DEF Inv
    <2> QED BY <2>1, <2>2
<1>7. CASE DeleteCommit(w)
    <2> DEFINE u == held[w].user
    <2>1. /\ account' = IF account = u THEN None ELSE account
          /\ tokens' = [t \in {s \in DOMAIN tokens : tokens[s].user # u} |-> tokens[t]]
          /\ pc' = [pc EXCEPT ![w] = "idle"]
          /\ held' = [held EXCEPT ![w] = NothingHeld]
          /\ UNCHANGED <<registered, issued, clock>>
        BY <1>7 DEF DeleteCommit, Respond
    <2>2. DOMAIN tokens' = IF account = u THEN {} ELSE DOMAIN tokens
        BY <2>1 DEF Inv, TokensHaveOwner
    <2>3. \A t \in DOMAIN tokens' : tokens'[t] = tokens[t]
        BY <2>1
    <2>4. NothingHeld \in Held /\ NothingHeld.user = None
        BY DEF NothingHeld, Held
    <2>5. TypeOK'
        <3>1. tokens' \in [DOMAIN tokens' -> Token] /\ DOMAIN tokens' \subseteq 1 .. issued'
            BY <2>1 DEF Inv, TypeOK
        <3> QED BY <2>1, <2>4, <3>1 DEF Inv, TypeOK, Labels
    <2>6. TokensHaveOwner'
        BY <2>1, <2>2, <2>3 DEF Inv, TokensHaveOwner
    <2>7. ExchangedIsRevoked'
        BY <2>2, <2>3 DEF Inv, ExchangedIsRevoked
    <2> QED BY <2>5, <2>6, <2>7 DEF Inv
<1> QED BY <1>1, <1>2, <1>3, <1>4, <1>5, <1>6, <1>7 DEF Step

LEMMA StepKeepsInv == Inv /\ [Next]_vars => Inv'
<1> SUFFICES ASSUME Inv, [Next]_vars PROVE Inv'
    OBVIOUS
<1>1. CASE UNCHANGED vars
    BY <1>1 DEF Inv, TypeOK, TokensHaveOwner, ExchangedIsRevoked, vars, tables
<1>2. CASE Tick
    BY <1>2, TokenAssumption
       DEF Tick, Inv, TypeOK, TokensHaveOwner, ExchangedIsRevoked, tables
<1>3. ASSUME NEW w \in Workers, Request(w) \/ Step(w) \/ Crash(w)
      PROVE  Inv'
    BY <1>3, RequestInv, StepInv, RollBackInv DEF Crash
<1> QED BY <1>1, <1>2, <1>3 DEF Next

LEMMA Inductive == Spec => []Inv
BY InitInv, StepKeepsInv, PTL DEF Spec

\* The types of the tables and of what requests hold.
THEOREM TypeCorrect == Spec => []TypeOK
BY Inductive, PTL DEF Inv

\* No token outlives its account or reaches the next account of the address,
\* however many requests interleave.
THEOREM TokensNeverOutliveAccount == Spec => []TokensHaveOwner
BY Inductive, PTL DEF Inv

\* Rotation revokes: the token presented to refresh is never usable again
\* once its successor exists.
THEOREM RotationRevokes == Spec => []ExchangedIsRevoked
BY Inductive, PTL DEF Inv

-----------------------------------------------------------------------------
(* What taking turns gives.  A refresh in progress for such an account is  *)
(* the only one with its token, so the token has no successor yet; a       *)
(* logout in progress has seen every token that is not revoked.            *)

RefreshHolds(w) ==
    pc[w] \in {"refresh_user", "refresh_commit"} =>
        /\ held[w].token \in 1 .. issued
        /\ held[w].token \in DOMAIN tokens => tokens[held[w].token].user = held[w].user
        /\ held[w].user \in InTurn =>
             \A s \in DOMAIN tokens : tokens[s].parent # held[w].token

LogoutHolds(w) ==
    pc[w] = "logout_commit" /\ held[w].user \in InTurn =>
        \A t \in DOMAIN tokens :
            tokens[t].user = held[w].user => tokens[t].revoked \/ t \in held[w].live

Apart(v, w) ==
    v # w /\ held[v].user = held[w].user /\ held[w].user \in InTurn =>
        /\ held[v].token = held[w].token => held[w].token = None
        /\ pc[v] \in Issuing => pc[w] \notin LoggingOut

Turns ==
    /\ \A w \in Workers : RefreshHolds(w) /\ LogoutHolds(w)
    /\ \A v, w \in Workers : Apart(v, w)

TurnInv == Inv /\ ExchangedOnce /\ Turns

LEMMA InitTurns == Init => ExchangedOnce /\ Turns
BY TokenAssumption
   DEF Init, ExchangedOnce, Turns, RefreshHolds, LogoutHolds, Apart, NothingHeld, Issuing

\* A request that ends leaves the others as they are, provided that the
\* tables change only in ways they do not notice.
LEMMA EndTurns ==
    ASSUME TurnInv, NEW w \in Workers, Respond(w),
           issued' = issued, DOMAIN tokens' \subseteq DOMAIN tokens,
           \A t \in DOMAIN tokens' :
              /\ tokens'[t].user = tokens[t].user
              /\ tokens'[t].parent = tokens[t].parent
              /\ tokens[t].revoked => tokens'[t].revoked
    PROVE  ExchangedOnce' /\ Turns'
<1>1. ExchangedOnce'
    BY DEF TurnInv, ExchangedOnce
<1>2. /\ pc' = [pc EXCEPT ![w] = "idle"]
      /\ held' = [held EXCEPT ![w] = NothingHeld]
    BY DEF Respond
<1>3. /\ pc'[w] = "idle" /\ held'[w].user = None /\ None \notin InTurn
      /\ \A v \in Workers \ {w} : pc'[v] = pc[v] /\ held'[v] = held[v]
    BY <1>2, TokenAssumption DEF TurnInv, Inv, TypeOK, NothingHeld
<1>4. \A v \in Workers : RefreshHolds(v)'
    <2> TAKE v \in Workers
    <2>1. CASE v = w
        BY <2>1, <1>3 DEF RefreshHolds
    <2>2. CASE v # w
        BY <2>2, <1>3 DEF TurnInv, Turns, RefreshHolds
    <2> QED BY <2>1, <2>2
<1>5. \A v \in Workers : LogoutHolds(v)'
    <2> TAKE v \in Workers
    <2>1. CASE v = w
        BY <2>1, <1>3 DEF LogoutHolds
    <2>2. CASE v # w
        BY <2>2, <1>3 DEF TurnInv, Turns, LogoutHolds
    <2> QED BY <2>1, <2>2
<1>6. \A u, v \in Workers : Apart(u, v)'
    BY <1>3 DEF TurnInv, Turns, Apart
<1> QED BY <1>1, <1>4, <1>5, <1>6 DEF Turns

\* A request that begins or goes on without touching the tables.
LEMMA QuietTurns ==
    ASSUME TurnInv, NEW w \in Workers, UNCHANGED tables,
           \A v \in Workers \ {w} : pc'[v] = pc[v] /\ held'[v] = held[v],
           RefreshHolds(w)', LogoutHolds(w)',
           \A v \in Workers : Apart(v, w)' /\ Apart(w, v)'
    PROVE  ExchangedOnce' /\ Turns'
<1>1. UNCHANGED <<tokens, issued>>
    BY DEF tables
<1>2. ExchangedOnce'
    BY <1>1 DEF TurnInv, ExchangedOnce
<1>3. \A v \in Workers : RefreshHolds(v)' /\ LogoutHolds(v)'
    BY <1>1 DEF TurnInv, Turns, RefreshHolds, LogoutHolds
<1>4. \A u, v \in Workers : Apart(u, v)'
    <2> TAKE u, v \in Workers
    <2>1. CASE u = w \/ v = w
        BY <2>1
    <2>2. CASE u # w /\ v # w
        BY <2>2 DEF TurnInv, Turns, Apart
    <2> QED BY <2>1, <2>2
<1> QED BY <1>2, <1>3, <1>4 DEF Turns

LEMMA RequestTurns ==
    ASSUME TurnInv, NEW w \in Workers, Request(w)
    PROVE  ExchangedOnce' /\ Turns'
<1>1. NothingHeld.user = None /\ NothingHeld.token = None
    BY DEF NothingHeld
<1>2. ASSUME NEW label, NEW ids, Begin(w, label, ids),
             label = "refresh_user" =>
                /\ ids.token \in 1 .. issued /\ ids.token \in DOMAIN tokens
                /\ tokens[ids.token].user = ids.user
                /\ ids.user \in InTurn =>
                     \A s \in DOMAIN tokens : tokens[s].parent # ids.token,
             label \notin {"refresh_commit", "logout_commit"},
             label # "refresh_user" => ids.token = None,
             ids.user \in InTurn =>
                /\ label \in Issuing => TakesTurn(ids.user, ids.token, LoggingOut)
                /\ label \in LoggingOut => TakesTurn(ids.user, ids.token, Issuing)
      PROVE  ExchangedOnce' /\ Turns'
    <2>1. /\ UNCHANGED tables /\ UNCHANGED <<tokens, issued>>
          /\ pc'[w] = label /\ held'[w] = ids
          /\ \A v \in Workers \ {w} : pc'[v] = pc[v] /\ held'[v] = held[v]
        BY <1>2 DEF Begin, tables, TurnInv, Inv, TypeOK
    <2>2. RefreshHolds(w)' /\ LogoutHolds(w)'
        BY <1>2, <2>1 DEF RefreshHolds, LogoutHolds
    <2>3. \A v \in Workers : Apart(v, w)' /\ Apart(w, v)'
        BY <1>2, <2>1 DEF Apart, TakesTurn, Issuing, LoggingOut
    <2> QED BY <2>1, <2>2, <2>3, QuietTurns
<1>3. CASE Register(w)
    BY <1>1, <1>2, <1>3 DEF Register, Issuing, LoggingOut
<1>4. CASE Login(w)
    <2> DEFINE ids == [NothingHeld EXCEPT !.user = account]
    <2>1. ids.user = account /\ ids.token = None
        BY DEF NothingHeld
    <2>2. Begin(w, "issue", ids) /\ TakesTurn(account, None, LoggingOut)
        BY <1>4 DEF Login
    <2> HIDE DEF ids
    <2> QED BY <1>2, <2>1, <2>2 DEF LoggingOut
<1>5. ASSUME NEW t \in 1 .. issued, Refresh(w, t)
      PROVE  ExchangedOnce' /\ Turns'
    <2>1. /\ t \in DOMAIN tokens /\ ~tokens[t].revoked
          /\ TakesTurn(tokens[t].user, t, LoggingOut)
          /\ Begin(w, "refresh_user", [user |-> tokens[t].user, token |-> t, live |-> {}])
        BY <1>5 DEF Refresh, Usable
    <2>2. \A s \in DOMAIN tokens : tokens[s].parent # t
        BY <2>1, TokenAssumption DEF TurnInv, Inv, TypeOK, ExchangedIsRevoked
    <2> QED BY <1>2, <2>1, <2>2 DEF LoggingOut
<1>6. ASSUME NEW u \in 1 .. registered, Logout(w, u) \/ DeleteAccount(w, u)
      PROVE  ExchangedOnce' /\ Turns'
    <2> DEFINE ids == [NothingHeld EXCEPT !.user = u]
    <2>1. ids.user = u /\ ids.token = None
        BY DEF NothingHeld
    <2>2. \/ Begin(w, "logout_read", ids) /\ TakesTurn(u, None, Issuing)
          \/ Begin(w, "delete_commit", ids)
        BY <1>6 DEF Logout, DeleteAccount
    <2> HIDE DEF ids
    <2>3. CASE Begin(w, "logout_read", ids) /\ TakesTurn(u, None, Issuing)
        BY <1>2, <2>1, <2>3 DEF Issuing
    <2>4. CASE Begin(w, "delete_commit", ids)
        BY <1>2, <2>1, <2>4 DEF Issuing, LoggingOut
    <2> QED BY <2>2, <2>3, <2>4
<1> QED BY <1>3, <1>4, <1>5, <1>6 DEF Request

\* A new token disturbs nobody: a logout of the same account is not in
\* progress, and no other refresh holds the token it was exchanged for.
LEMMA IssueTurns ==
    ASSUME TurnInv, NEW w \in Workers, pc[w] \in Issuing, NEW rows, NEW parent,
           DOMAIN rows = DOMAIN tokens,
           \A t \in DOMAIN tokens :
              /\ rows[t].user = tokens[t].user
              /\ rows[t].parent = tokens[t].parent
              /\ tokens[t].revoked => rows[t].revoked,
           OwnerExists(held[w].user), Issue(rows, held[w].user, parent),
           \/ parent = None
           \/ /\ pc[w] = "refresh_commit" /\ parent = held[w].token
              /\ parent \in DOMAIN tokens,
           Respond(w)
    PROVE  ExchangedOnce' /\ Turns'
<1> DEFINE u == held[w].user
           n == issued + 1
<1>1. /\ issued \in Nat /\ DOMAIN tokens \subseteq 1 .. issued
      /\ None \notin Int /\ None \notin InTurn /\ None \notin 1 .. issued
    BY TokenAssumption DEF TurnInv, Inv, TypeOK
<1>2. /\ issued' = n /\ n \notin DOMAIN tokens
      /\ DOMAIN tokens' = DOMAIN tokens \cup {n}
      /\ tokens'[n].user = u /\ tokens'[n].parent = parent
      /\ \A t \in DOMAIN tokens : tokens'[t] = rows[t]
    BY <1>1 DEF Issue
<1>3. /\ pc'[w] = "idle" /\ held'[w].user = None
      /\ \A v \in Workers \ {w} : pc'[v] = pc[v] /\ held'[v] = held[v]
    BY DEF Respond, NothingHeld, TurnInv, Inv, TypeOK
<1>4. u = account /\ \A t \in DOMAIN tokens : tokens[t].user = u
    BY DEF OwnerExists, TurnInv, Inv, TokensHaveOwner
<1>5. u \in InTurn /\ parent # None => \A s \in DOMAIN tokens : tokens[s].parent # parent
    BY DEF TurnInv, Turns, RefreshHolds
<1> HIDE DEF u, n
<1>6. ExchangedOnce'
    <2> SUFFICES ASSUME NEW s \in DOMAIN tokens', NEW t \in DOMAIN tokens',
                        tokens'[s].user \in InTurn,
                        tokens'[s].parent = tokens'[t].parent, tokens'[s].parent # None
                 PROVE  s = t
        BY DEF ExchangedOnce
    <2>1. u \in InTurn
        BY <1>2, <1>4
    <2>2. CASE s = n \/ t = n
        BY <2>1, <2>2, <1>2, <1>5
    <2>3. CASE s # n /\ t # n
        BY <2>3, <1>2 DEF TurnInv, ExchangedOnce
    <2> QED BY <2>2, <2>3
<1>7. \A v \in Workers : RefreshHolds(v)'
    <2> SUFFICES ASSUME NEW v \in Workers, v # w, pc[v] \in {"refresh_user", "refresh_commit"}
                 PROVE  RefreshHolds(v)'
        BY <1>3 DEF RefreshHolds
    <2> DEFINE t == held[v].token
    <2>1. /\ t \in 1 .. issued /\ t # n
          /\ t \in DOMAIN tokens => tokens[t].user = held[v].user
          /\ held[v].user \in InTurn => \A s \in DOMAIN tokens : tokens[s].parent # t
        BY <1>1 DEF TurnInv, Turns, RefreshHolds, n
    <2>2. held[v].user \in InTurn => parent # t
        <3> SUFFICES ASSUME held[v].user \in InTurn, parent = t PROVE FALSE
            OBVIOUS
        <3>1. parent # None /\ parent = held[w].token /\ parent \in DOMAIN tokens
            BY <2>1, <1>1
        <3>2. held[v].user = u
            BY <3>1, <2>1, <1>4
        <3> QED BY <3>1, <3>2 DEF TurnInv, Turns, Apart, u
    <2> HIDE DEF t
    <2>3. t \in 1 .. issued'
        BY <2>1, <1>1, <1>2 DEF n
    <2>4. held'[v].token = t /\ held'[v].user = held[v].user
        BY <1>3 DEF t
    <2> QED BY <1>2, <2>1, <2>2, <2>3, <2>4 DEF RefreshHolds
<1>8. \A v \in Workers : LogoutHolds(v)'
    <2> SUFFICES ASSUME NEW v \in Workers, v # w,
                        pc[v] = "logout_commit", held[v].user \in InTurn
                 PROVE  LogoutHolds(v)'
        BY <1>3 DEF LogoutHolds
    <2>1. held[v].user # u
        BY DEF TurnInv, Turns, Apart, LoggingOut, u
    <2> QED BY <2>1, <1>2, <1>3 DEF TurnInv, Turns, LogoutHolds
<1>9. \A v, x \in Workers : Apart(v, x)'
    BY <1>1, <1>3 DEF TurnInv, Turns, Apart
<1> QED BY <1>6, <1>7, <1>8, <1>9 DEF Turns

LEMMA StepTurns ==
    ASSUME TurnInv, NEW w \in Workers, Step(w)
    PROVE  ExchangedOnce' /\ Turns'
<1>1. CASE RollBack(w)
    BY <1>1, EndTurns DEF RollBack, tables
<1>2. CASE RegisterUser(w) /\ ~RollBack(w)
    <2>1. /\ registered' = registered + 1 /\ pc[w] = "register_user"
          /\ pc' = [pc EXCEPT ![w] = "issue"]
          /\ held' = [held EXCEPT ![w].user = registered']
          /\ UNCHANGED <<tokens, issued>>
        BY <1>2 DEF RegisterUser
    <2>2. /\ pc'[w] = "issue" /\ held'[w].user = registered'
          /\ \A v \in Workers \ {w} : pc'[v] = pc[v] /\ held'[v] = held[v]
        BY <2>1 DEF TurnInv, Inv, TypeOK, Held
    <2>3. \A v \in Workers : held[v].user # registered'
        BY <2>1, TokenAssumption DEF TurnInv, Inv, TypeOK
    <2>4. \A v \in Workers : RefreshHolds(v)' /\ LogoutHolds(v)'
        BY <2>1, <2>2 DEF TurnInv, Turns, RefreshHolds, LogoutHolds
    <2>5. \A u, v \in Workers : Apart(u, v)'
        BY <2>2, <2>3 DEF TurnInv, Turns, Apart
    <2> QED BY <2>1, <2>4, <2>5 DEF TurnInv, ExchangedOnce, Turns
<1>3. CASE IssueToken(w) /\ ~RollBack(w)
    <2>1. /\ pc[w] = "issue" /\ OwnerExists(held[w].user)
          /\ Issue(tokens, held[w].user, None) /\ Respond(w)
        BY <1>3 DEF IssueToken
    <2> QED BY <2>1, IssueTurns DEF Issuing
<1>4. CASE RefreshUser(w) /\ ~RollBack(w)
    <2>1. /\ pc[w] = "refresh_user" /\ pc' = [pc EXCEPT ![w] = "refresh_commit"]
          /\ UNCHANGED tables /\ UNCHANGED <<tokens, issued, held>>
        BY <1>4 DEF RefreshUser, tables
    <2>2. /\ pc'[w] = "refresh_commit"
          /\ \A v \in Workers \ {w} : pc'[v] = pc[v] /\ held'[v] = held[v]
        BY <2>1 DEF TurnInv, Inv, TypeOK
    <2>3. RefreshHolds(w)' /\ LogoutHolds(w)'
        BY <2>1, <2>2 DEF TurnInv, Turns, RefreshHolds, LogoutHolds
    <2>4. \A v \in Workers : Apart(v, w)' /\ Apart(w, v)'
        BY <2>1, <2>2 DEF TurnInv, Turns, Apart, Issuing, LoggingOut
    <2> QED BY <2>1, <2>2, <2>3, <2>4, QuietTurns
<1>5. CASE RefreshCommit(w) /\ ~RollBack(w)
    <2> DEFINE t == held[w].token
    <2>1. /\ pc[w] = "refresh_commit" /\ t \in DOMAIN tokens
          /\ OwnerExists(held[w].user)
          /\ Issue(Revoked({t}), held[w].user, t) /\ Respond(w)
        BY <1>5 DEF RefreshCommit
    <2>2. /\ DOMAIN Revoked({t}) = DOMAIN tokens
          /\ \A s \in DOMAIN tokens :
                /\ Revoked({t})[s].user = tokens[s].user
                /\ Revoked({t})[s].parent = tokens[s].parent
                /\ Revoked({t})[s].revoked = (tokens[s].revoked \/ s \in {t})
        BY RevokedTable DEF TurnInv, Inv
    <2> HIDE DEF t
    <2>3. \A s \in DOMAIN tokens : tokens[s].revoked => Revoked({t})[s].revoked
        BY <2>2
    <2>4. pc[w] \in Issuing
        BY <2>1 DEF Issuing
    <2> QED BY <2>1, <2>2, <2>3, <2>4, IssueTurns DEF t
<1>6. CASE LogoutRead(w)
    <2>1. /\ pc[w] = "logout_read" /\ pc' = [pc EXCEPT ![w] = "logout_commit"]
          /\ held' = [held EXCEPT ![w].live = Live(held[w].user)]
          /\ UNCHANGED tables /\ UNCHANGED <<tokens, issued>>
        BY <1>6 DEF LogoutRead, tables
    <2>2. /\ pc'[w] = "logout_commit" /\ held'[w].live = Live(held[w].user)
          /\ held'[w].user = held[w].user /\ held'[w].token = held[w].token
          /\ \A v \in Workers \ {w} : pc'[v] = pc[v] /\ held'[v] = held[v]
        BY <2>1 DEF TurnInv, Inv, TypeOK, Held
    <2>3. RefreshHolds(w)' /\ LogoutHolds(w)'
        BY <2>1, <2>2 DEF RefreshHolds, LogoutHolds, Live
    <2>4. \A v \in Workers : Apart(v, w)' /\ Apart(w, v)'
        BY <2>1, <2>2 DEF TurnInv, Turns, Apart, Issuing, LoggingOut
    <2> QED BY <2>1, <2>2, <2>3, <2>4, QuietTurns
<1>7. CASE LogoutCommit(w) /\ ~RollBack(w)
    <2>1. tokens' = Revoked(held[w].live) /\ Respond(w) /\ UNCHANGED issued
        BY <1>7 DEF LogoutCommit
    <2> DEFINE ids == held[w].live
    <2>2. /\ DOMAIN Revoked(ids) = DOMAIN tokens
          /\ \A s \in DOMAIN tokens :
                /\ Revoked(ids)[s].user = tokens[s].user
                /\ Revoked(ids)[s].parent = tokens[s].parent
                /\ Revoked(ids)[s].revoked = (tokens[s].revoked \/ s \in ids)
        BY RevokedTable DEF TurnInv, Inv
    <2>3. tokens' = Revoked(ids)
        BY <2>1
    <2> HIDE DEF ids
    <2>4. /\ DOMAIN tokens' = DOMAIN tokens
          /\ \A s \in DOMAIN tokens :
                /\ tokens'[s].user = tokens[s].user
                /\ tokens'[s].parent = tokens[s].parent
                /\ tokens[s].revoked => tokens'[s].revoked
        BY <2>2, <2>3
    <2> QED BY <2>1, <2>4, EndTurns
<1>8. CASE DeleteCommit(w)
    BY <1>8, EndTurns DEF DeleteCommit
<1> QED BY <1>1, <1>2, <1>3, <1>4, <1>5, <1>6, <1>7, <1>8 DEF Step

LEMMA TurnsInductive == Spec => []TurnInv
<1>1. Init => TurnInv
    BY InitInv, InitTurns DEF TurnInv
<1>2. TurnInv /\ [Next]_vars => TurnInv'
    <2> SUFFICES ASSUME TurnInv, [Next]_vars PROVE TurnInv'
        OBVIOUS
    <2>1. Inv'
        BY StepKeepsInv DEF TurnInv
    <2>2. CASE Tick \/ UNCHANGED vars
        <3>1. UNCHANGED <<tokens, issued, pc, held>>
            BY <2>2 DEF Tick, vars, tables
        <3> QED BY <2>1, <3>1
             DEF TurnInv, ExchangedOnce, Turns, RefreshHolds, LogoutHolds, Apart
    <2>3. ASSUME NEW w \in Workers, Request(w) \/ Step(w) \/ Crash(w)
          PROVE  ExchangedOnce' /\ Turns'
        BY <2>3, RequestTurns, StepTurns, EndTurns DEF Crash, RollBack, tables
    <2> QED BY <2>1, <2>2, <2>3 DEF Next, TurnInv
<1> QED BY <1>1, <1>2, PTL DEF Spec

\* A refresh token of clients that take turns has one successor at most.
THEOREM RotatedOnce == Spec => []ExchangedOnce
BY TurnsInductive, PTL DEF TurnInv

\* A logout of clients that take turns leaves no usable token behind.
THEOREM LogoutIsComplete == Spec => LogoutRevokesAll
<1>1. TurnInv /\ [Next]_vars =>
        [\A w \in Workers :
           pc[w] = "logout_commit" /\ held[w].user \in InTurn /\ tokens' # tokens
           /\ pc'[w] = "idle" /\ DOMAIN tokens' = DOMAIN tokens
           => \A t \in DOMAIN tokens' : tokens'[t].user = held[w].user => tokens'[t].revoked]_vars
    <2> SUFFICES ASSUME TurnInv, Next, NEW w \in Workers,
                        pc[w] = "logout_commit", held[w].user \in InTurn, tokens' # tokens,
                        pc'[w] = "idle", NEW t \in DOMAIN tokens',
                        tokens'[t].user = held[w].user
                 PROVE  tokens'[t].revoked
        BY DEF vars
    <2>1. \A v \in Workers : Request(v) => UNCHANGED tokens
        BY DEF Request, Register, Login, Refresh, Logout, DeleteAccount, Begin, tables
    <2>2. \A v \in Workers \ {w} : Step(v) => pc'[w] = pc[w]
        BY DEF Step, RegisterUser, IssueToken, RefreshUser, RefreshCommit, LogoutRead,
               LogoutCommit, DeleteCommit, RollBack, Respond, TurnInv, Inv, TypeOK
    <2>3. Step(w)
        BY <2>1, <2>2 DEF Next, Tick, Crash, RollBack, tables
    <2>4. tokens' = Revoked(held[w].live)
        BY <2>3 DEF Step, RegisterUser, IssueToken, RefreshUser, RefreshCommit, LogoutRead,
                    LogoutCommit, DeleteCommit, RollBack, tables
    <2>5. /\ t \in DOMAIN tokens /\ tokens'[t].user = tokens[t].user
          /\ tokens'[t].revoked = (tokens[t].revoked \/ t \in held[w].live)
        BY <2>4, RevokedTable DEF TurnInv, Inv
    <2> QED BY <2>5 DEF TurnInv, Turns, LogoutHolds
<1> QED BY <1>1, TurnsInductive, PTL DEF Spec, LogoutRevokesAll

=============================================================================

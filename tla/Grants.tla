------------------------------- MODULE Grants --------------------------------
(***************************************************************************)
(* What sharing one note id promises, each operation at once: an account   *)
(* that owns a note with the id may grant it to another account, a         *)
(* recipient holds one grant at a time, either end may withdraw it, and    *)
(* everything ends with the account of either end.                         *)
(***************************************************************************)
EXTENDS Tables

CONSTANT AccountIds

VARIABLES
    members,       \* accounts
    library,       \* owner -> "active" or "deleted": the notes with the id
    grants         \* recipient -> the owner whose note it may read

vars == <<members, library, grants>>

Init == members = {} /\ library = NoRows /\ grants = NoRows

Join(a) ==
    /\ a \notin members
    /\ members' = members \cup {a}
    /\ UNCHANGED <<library, grants>>

Leave(a) ==
    /\ a \in members
    /\ members' = members \ {a}
    /\ library' = Without(library, {a})
    /\ grants' = Without(grants, {r \in DOMAIN grants : a \in {r, grants[r]}})

Write(a) ==
    /\ a \in members \ DOMAIN library
    /\ library' = Upsert(library, a, "active")
    /\ UNCHANGED <<members, grants>>

\* What is granted stays granted, and there is nothing to read any more.
Discard(a) ==
    /\ a \in DOMAIN library /\ library[a] = "active"
    /\ library' = Upsert(library, a, "deleted")
    /\ UNCHANGED <<members, grants>>

Grant(a, r) ==
    /\ a \in DOMAIN library
    /\ r \in members \ ({a} \cup DOMAIN grants)
    /\ grants' = Upsert(grants, r, a)
    /\ UNCHANGED <<members, library>>

Withdraw(r) ==
    /\ r \in DOMAIN grants
    /\ grants' = Without(grants, {r})
    /\ UNCHANGED <<members, library>>

Next ==
    \E a \in AccountIds :
        \/ Join(a) \/ Leave(a)
        \/ Write(a) \/ Discard(a)
        \/ \E r \in AccountIds : Grant(a, r)
        \/ Withdraw(a)

Spec == Init /\ [][Next]_vars

=============================================================================

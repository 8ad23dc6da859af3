----------------------------- MODULE MCDownloads -----------------------------
(* Finite instances of Downloads for TLC. *)
EXTENDS Downloads, TLC

EmptyBody == [title |-> "t0", updated_at |-> 0, count |-> 0, total |-> 0]
OneBody == {EmptyBody}

Symmetric == Permutations(Workers) \cup Permutations(Payloads)
=============================================================================

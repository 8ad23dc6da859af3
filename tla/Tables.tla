------------------------------- MODULE Tables --------------------------------
(***************************************************************************)
(* Database tables as functions from the keys of their rows to the rows,   *)
(* and how SQLAlchemy writes a row it has read earlier.                    *)
(***************************************************************************)
EXTENDS Functions

CONSTANT None      \* SQL NULL, or no row

Table(keys, rows) == UNION {[K -> rows] : K \in SUBSET keys}
IsTable(table, keys, rows) ==
    DOMAIN table \subseteq keys /\ table \in [DOMAIN table -> rows]

NoRows == [i \in {} |-> None]
Without(table, keys) == Restrict(table, DOMAIN table \ keys)
Upsert(table, key, row) ==
    [k \in DOMAIN table \cup {key} |-> IF k = key THEN row ELSE table[k]]

\* UPDATE writes a column only if the handler changed it in the row it had read.
Changed(new, read, current) == IF new = read THEN current ELSE new

=============================================================================

---------------------------- MODULE TablesProofs -----------------------------
(***************************************************************************)
(* What inserting and deleting rows leaves of a table.                     *)
(***************************************************************************)
EXTENDS Tables, TLAPS

LEMMA TableIs ==
    ASSUME NEW keys, NEW rows, NEW table
    PROVE  table \in Table(keys, rows) <=> IsTable(table, keys, rows)
BY DEF Table, IsTable

LEMMA EmptyTable ==
    ASSUME NEW keys, NEW rows
    PROVE  IsTable(NoRows, keys, rows)
BY DEF IsTable, NoRows

LEMMA WithoutTable ==
    ASSUME NEW keys, NEW rows, NEW table, IsTable(table, keys, rows), NEW gone
    PROVE  /\ IsTable(Without(table, gone), keys, rows)
           /\ DOMAIN Without(table, gone) = DOMAIN table \ gone
           /\ \A k \in DOMAIN table \ gone : Without(table, gone)[k] = table[k]
BY DEF IsTable, Without, Restrict

LEMMA RestrictTable ==
    ASSUME NEW keys, NEW rows, NEW table, IsTable(table, keys, rows),
           NEW kept \in SUBSET DOMAIN table
    PROVE  IsTable(Restrict(table, kept), keys, rows)
BY DEF IsTable, Restrict

LEMMA UpsertTable ==
    ASSUME NEW keys, NEW rows, NEW table, IsTable(table, keys, rows),
           NEW k \in keys, NEW row \in rows
    PROVE  /\ IsTable(Upsert(table, k, row), keys, rows)
           /\ DOMAIN Upsert(table, k, row) = DOMAIN table \cup {k}
           /\ Upsert(table, k, row)[k] = row
           /\ \A j \in DOMAIN table \ {k} : Upsert(table, k, row)[j] = table[j]
BY DEF IsTable, Upsert

=============================================================================

------------------------------- MODULE Tables -------------------------------
(***************************************************************************)
(* A database table is a function from the primary keys it holds to rows.  *)
(* The operators below are INSERT (or full-row UPDATE) and DELETE.         *)
(***************************************************************************)

Put(table, key, row) ==
  [k \in DOMAIN table \cup {key} |-> IF k = key THEN row ELSE table[k]]

Delete(table, key) == [k \in DOMAIN table \ {key} |-> table[k]]

Empty == [k \in {} |-> {}]

(***************************************************************************)
(* A table whose keys are in Key and whose rows are in Row.                *)
(***************************************************************************)
IsTable(table, Key, Row) ==
  /\ DOMAIN table \subseteq Key
  /\ table \in [DOMAIN table -> Row]
=============================================================================

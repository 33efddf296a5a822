------------------------------- MODULE Sheets -------------------------------
(***************************************************************************)
(* What the code does to one table in memory.  A table is a sequence of    *)
(* rows, and a row a record with an id and named columns.                  *)
(*                                                                         *)
(* df_operations.rs changes the net worth tables by name, so every row of  *)
(* that name changes; merge_apply.rs changes every table by row id.        *)
(***************************************************************************)
EXTENDS Integers, Sequences, FiniteSets

IdsIn(sheet) == {sheet[i].id : i \in DOMAIN sheet}

NamesIn(sheet) == {sheet[i].name : i \in DOMAIN sheet}

(* Every row has an id of its own. *)
IdsAreUnique(sheet) ==
  \A i, j \in DOMAIN sheet : sheet[i].id = sheet[j].id => i = j

(* No two rows have one name. *)
NamesAreUnique(sheet) ==
  \A i, j \in DOMAIN sheet : sheet[i].name = sheet[j].name => i = j

(* The rows at the positions P, in their order: what a filter keeps.       *)
RowsAt(sheet, P) ==
  [n \in 1..Cardinality(P) |-> sheet[CHOOSE i \in P : Cardinality({j \in P : j <= i}) = n]]

-----------------------------------------------------------------------------
(* By name                                                                 *)

Named(sheet, n) == RowsAt(sheet, {i \in DOMAIN sheet : sheet[i].name = n})

(* row_ids_where: the ids of every row of that name, in the file's order. *)
RowIdsWhere(sheet, n) ==
  LET hits == Named(sheet, n) IN [i \in DOMAIN hits |-> hits[i].id]

(* set_str_where and set_f64_where *)
SetWhere(sheet, n, column, value) ==
  [i \in DOMAIN sheet |-> IF sheet[i].name = n THEN [sheet[i] EXCEPT ![column] = value]
                          ELSE sheet[i]]

(* The filter of remove_asset and remove_entry. *)
Without(sheet, n) == RowsAt(sheet, {i \in DOMAIN sheet : sheet[i].name # n})

-----------------------------------------------------------------------------
(* By row id                                                               *)

(* upsert: the row is replaced in place, or appended. *)
PutRow(sheet, row) ==
  IF row.id \in IdsIn(sheet)
  THEN [i \in DOMAIN sheet |-> IF sheet[i].id = row.id THEN row ELSE sheet[i]]
  ELSE Append(sheet, row)

(* set_cells, for the one row that has the id. *)
WithCells(row, cells) == [c \in DOMAIN row |-> IF c \in DOMAIN cells THEN cells[c] ELSE row[c]]

(* remove_at *)
RemoveRow(sheet, id) == RowsAt(sheet, {i \in DOMAIN sheet : sheet[i].id # id})

=============================================================================

----------------------------- MODULE MCReplicas -----------------------------
(* Replicas on a hub and one or two phones, with stamps small enough that  *)
(* every order of a few changes is reached.                                *)
EXTENDS Replicas, TLC

CONSTANTS jan, feb

ThreeDevices == {1, 2, 3}
TwoColumns == {jan, feb}
Months == Permutations(TwoColumns)

(* A row of the user's, a row a template derives, a row of a table that    *)
(* merges cell by cell, and a row such a table always has.                 *)
EachRow == {"own", "derived", "cells", "fixed"}
Derived == {"derived"}
Celled == {"cells", "fixed"}
Fixed == {"fixed"}

(* A derived row on three devices, and a row of the user's there; the two  *)
(* on a hub and one phone, with a change more; and there two rows that     *)
(* merge by cells.                                                         *)
OneRow == [devices |-> {1, 2, 3}, rows |-> {"derived"}, changes |-> 3]
ThreeOwn == [devices |-> {1, 2, 3}, rows |-> {"own"}, changes |-> 3]
TwoRows == [devices |-> {1, 2}, rows |-> {"own", "derived"}, changes |-> 4]
CellByCell == [devices |-> {1, 2}, rows |-> {"cells", "fixed"}, changes |-> 4]
SmallWorlds == {OneRow, ThreeOwn, TwoRows, CellByCell}

(* One derived row, and a change more. *)
DerivedWorld == {[devices |-> {1, 2, 3}, rows |-> {"derived"}, changes |-> 4]}

=============================================================================

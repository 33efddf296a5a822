-------------------------------- MODULE Merge --------------------------------
(***************************************************************************)
(* The merge decision engine of merge.rs, for the entries of one row of    *)
(* one table: plan_merge groups a batch by row and decides every row by    *)
(* itself.                                                                 *)
(*                                                                         *)
(* An entry carries no amounts or names.  The value it gives a column is   *)
(* its own key, so a row says, column by column, which change put the      *)
(* value there.  A stamp is a number: the order of Hlc stamps is total and *)
(* nothing here looks inside one.                                          *)
(***************************************************************************)
EXTENDS Integers

CONSTANTS Column,     \* the columns of the table
          PerCell     \* merges_per_cell: one column at a time, not whole rows

ASSUME TableAssumption == PerCell \in BOOLEAN /\ Column # {}

Key == [time : Nat, device : Nat]

(* The value of a column nothing has set. *)
Unset == [time |-> 0, device |-> 0]

Content == [Column -> Key]

(* A row that is not in the file. *)
Absent == [c \in Column |-> [time |-> -1, device |-> 0]]

(***************************************************************************)
(* ChangeEntry: generated is the origin RecurringApply, and column says    *)
(* which column a cell edit is for; an entry for a whole row has none.     *)
(***************************************************************************)
NoColumn == "none"

Entry == [key : Key, op : {"upsert", "delete", "cell"}, generated : BOOLEAN,
          column : Column \cup {NoColumn}]

KeyBefore(j, k) ==
  \/ j.time < k.time
  \/ j.time = k.time /\ j.device < k.device

Precedes(e, f) == KeyBefore(e.key, f.key)

(* The newest of a set of entries, as a set of at most one. *)
Newest(S) == {e \in S : \A f \in S : ~Precedes(e, f)}

Deletes(S) == {e \in S : e.op = "delete"}
Upserts(S) == {e \in S : e.op = "upsert"}
Cells(S, c) == {e \in S : e.op = "cell" /\ e.column = c}

-----------------------------------------------------------------------------
(* RowState::resolve                                                       *)

(* Mutant of HeldBack: a generated upsert wins on stamp like any other. *)
NeverHeldBack(e, S) == FALSE

(* A generated upsert never overrides the newest delete of its row. *)
HeldBack(e, S) ==
  /\ e.op = "upsert" /\ e.generated
  /\ \E d \in Newest(Deletes(S)) : Precedes(d, e)

(* The newest row level entry that is allowed to decide the row. *)
RowWinner(S) == Newest({e \in Deletes(S) \cup Upserts(S) : ~HeldBack(e, S)})

Deleted(S) == Deletes(RowWinner(S))

BaseUpsert(S) == Upserts(RowWinner(S))

(* The cell edit that decides column c, over the base upsert. *)
CellWinner(S, c) ==
  IF PerCell /\ Deleted(S) = {}
  THEN Newest({e \in Cells(S, c) : \A u \in BaseUpsert(S) : Precedes(u, e)})
  ELSE {}

(***************************************************************************)
(* Nothing on either side says whether the row exists.  Below, fixed is    *)
(* has_fixed_rows of the row's table: its rows exist without any entry.    *)
(***************************************************************************)
Unplaceable(S, fixed) == PerCell /\ ~fixed /\ RowWinner(S) = {}

(* MergeOutcome::Applied *)
Applied(e, S, fixed) ==
  IF e.op = "cell" THEN ~Unplaceable(S, fixed) /\ e \in CellWinner(S, e.column)
                   ELSE e \in RowWinner(S)

-----------------------------------------------------------------------------
(* RowState::action, and what carrying it out makes of the row.            *)

(* The entry whose value column c shows: the winning cell or the upsert. *)
Shown(S, c) ==
  LET cell == CellWinner(S, c) IN IF cell # {} THEN cell ELSE BaseUpsert(S)

Values(S) ==
  [c \in Column |-> LET shown == Shown(S, c)
                    IN IF shown = {} THEN Unset ELSE (CHOOSE e \in shown : TRUE).key]

(* The plan sets single columns of a row it takes to be there. *)
SetsCells(S, remote, fixed) ==
  /\ ~Unplaceable(S, fixed) /\ Deleted(S) = {} /\ BaseUpsert(S) \cap remote = {}
  /\ \E c \in Column : CellWinner(S, c) \cap remote # {}

(* Mutant of RowAfter: a remote upsert is written without the newer cells. *)
RowAfterBareUpsert(row, S, remote, fixed) ==
  IF Deleted(S) \cap remote # {} THEN Absent
  ELSE [c \in Column |-> IF BaseUpsert(S) \cap remote # {}
                         THEN (CHOOSE e \in BaseUpsert(S) : TRUE).key
                         ELSE IF CellWinner(S, c) \cap remote # {} THEN Values(S)[c]
                         ELSE row[c]]

(* Mutant of RowAfter: the batch is weighed without the local log. *)
RowAfterRemoteOnly(row, S, remote, fixed) ==
  IF Deleted(remote) # {} THEN Absent
  ELSE [c \in Column |-> IF Shown(remote, c) # {} THEN Values(remote)[c] ELSE row[c]]

(***************************************************************************)
(* plan_row followed by apply_row_action: what the row in the file becomes *)
(* when the entries S are all those known of it and remote are the ones    *)
(* the batch brought.  Where this device's own entry decides, the plan     *)
(* writes nothing: the row is taken to be on disk already.                 *)
(***************************************************************************)
RowAfter(row, S, remote, fixed) ==
  IF \A e \in remote : ~Applied(e, S, fixed) THEN row
  ELSE IF Deleted(S) \cap remote # {} THEN Absent
  ELSE IF BaseUpsert(S) \cap remote # {} THEN Values(S)
  ELSE IF SetsCells(S, remote, fixed)
  THEN [c \in Column |-> IF CellWinner(S, c) \cap remote # {} THEN Values(S)[c]
                         ELSE row[c]]
  ELSE row

(* The row the entries S describe: what every device that holds S shows.  *)
Described(S, fixed) ==
  IF Deleted(S) # {} \/ (~fixed /\ RowWinner(S) = {}) THEN Absent ELSE Values(S)

(* generated_row_stays_deleted *)
GeneratedRowStaysDeleted(S) == Deleted(S) # {}

=============================================================================

------------------------------ MODULE Replicas ------------------------------
(***************************************************************************)
(* Several devices that edit the same rows and merge each other's changes: *)
(* merge_apply.rs over merge.rs, with the edits of df_operations.rs.       *)
(*                                                                         *)
(* Phones exchange with the hub only.  An exchange carries what the other  *)
(* side's summary lacks, or the whole log, and applying a batch can stop   *)
(* after some files or after part of the log lines are written.            *)
(***************************************************************************)
EXTENDS Merge, FiniteSets

CONSTANTS Device, Hub,
          Row,           \* the rows
          DerivedRow,    \* the rows a recurring template derives for a month
          CellRow,       \* the rows of tables that merge cell by cell
          FixedRow,      \* those of them whose table holds them without any entry
          World,         \* what is explored together: the devices that take part,
                         \* the rows they edit and, a bound, how many changes they make
          MaxTime,       \* bound: the largest stamp
          MaxFailures    \* bound: how many applies fail part way

ASSUME ReplicaAssumption ==
  /\ Device \subseteq Nat /\ IsFiniteSet(Device) /\ Hub \in Device
  /\ CellRow \subseteq Row /\ FixedRow \subseteq CellRow
  /\ DerivedRow \subseteq Row \ CellRow
  /\ World \subseteq [devices : SUBSET Device, rows : SUBSET Row, changes : Nat]
  /\ MaxTime \in Nat /\ MaxFailures \in Nat
  /\ PerCell  \* an entry for a cell of any other table is refused when it is read

VARIABLES
  log,      \* log[d]: the entries in the change log of d, each with its row
  disk,     \* disk[d][r]: the row in the Parquet file of d
  clock,    \* clock[d]: the stamp every new stamp of d is past
  failures, \* how many applies have failed part way
  world,    \* who takes part and what is edited; it never changes
  blind     \* devices restarted while a file was ahead of their log

vars == <<log, disk, clock, failures, world, blind>>

Record == [row : Row, entry : Entry]

(* Every change made so far. *)
Everything == UNION {log[d] : d \in world.devices}

(* What a log says about row r. *)
About(L, r) == {x.entry : x \in {y \in L : y.row = r}}

Largest(T) == IF T = {} THEN 0 ELSE CHOOSE t \in T : \A u \in T : u <= t

TimesIn(L) == {x.entry.key.time : x \in L}

(* Mutant of Held: one stamp for all devices together. *)
HeldOfAny(L, origin) == Largest(TimesIn(L))

(* summarize: the newest stamp a log holds from each device. *)
Held(L, origin) == Largest(TimesIn({x \in L : x.entry.key.device = origin}))

(* entries_missing_from: what log L has above the summary of log M. *)
Missing(L, M) == {x \in L : x.entry.key.time > Held(M, x.entry.key.device)}

Linked(d, e) == d # e /\ Hub \in {d, e}

-----------------------------------------------------------------------------
EmptyRow(r) == IF r \in FixedRow THEN [c \in Column |-> Unset] ELSE Absent

Init ==
  /\ world \in World
  /\ log = [d \in world.devices |-> {}]
  /\ disk = [d \in world.devices |-> [r \in world.rows |-> EmptyRow(r)]]
  /\ clock = [d \in world.devices |-> 0]
  /\ failures = 0 /\ blind = {}

(* The keys a new entry of device d may get: stamped past its clock. *)
NewKeys(d) == {[time |-> t, device |-> d] : t \in clock[d] + 1 .. MaxTime}

(* A handler saves row r of device d and record appends the entry. *)
Change(d, r, e, row) ==
  /\ Cardinality(Everything) < world.changes
  /\ clock' = [clock EXCEPT ![d] = e.key.time]
  /\ log' = [log EXCEPT ![d] = @ \cup {[row |-> r, entry |-> e]}]
  /\ disk' = [disk EXCEPT ![d][r] = row]
  /\ UNCHANGED <<failures, world, blind>>

RowEntry(key, op, generated) ==
  [key |-> key, op |-> op, generated |-> generated, column |-> NoColumn]

CellEntry(key, c) == [RowEntry(key, "cell", FALSE) EXCEPT !.column = c]

(* The whole row, as the change under key leaves it. *)
Upsert(d, r, generated) ==
  \E key \in NewKeys(d) :
    Change(d, r, RowEntry(key, "upsert", generated), [c \in Column |-> key])

(* One cell of a row, as the change under key leaves it. *)
SetCell(d, r) ==
  \E key \in NewKeys(d), c \in Column :
    Change(d, r, CellEntry(key, c), [disk[d][r] EXCEPT ![c] = key])

(* A row under a fresh row id. *)
Add(d, r) ==
  /\ r \notin FixedRow /\ r \notin DerivedRow
  /\ \A e \in world.devices : disk[e][r] = Absent /\ About(log[e], r) = {}
  /\ Upsert(d, r, FALSE)

(* edit_row of an expense or a recurring template: the whole row. *)
EditRow(d, r) == r \notin CellRow /\ disk[d][r] # Absent /\ Upsert(d, r, FALSE)

(* A cell of a net worth table or of the cashflow income. *)
EditCell(d, r) == r \in CellRow /\ disk[d][r] # Absent /\ SetCell(d, r)

Delete(d, r) ==
  /\ r \notin FixedRow /\ disk[d][r] # Absent
  /\ \E key \in NewKeys(d) : Change(d, r, RowEntry(key, "delete", FALSE), Absent)

(* plan_for_month and insert_resolved: a template's row that the month     *)
(* does not hold is generated, unless the log says it stays deleted.       *)
RecurringApply(d, r) ==
  /\ r \in DerivedRow /\ disk[d][r] = Absent
  /\ ~GeneratedRowStaysDeleted(About(log[d], r))
  /\ Upsert(d, r, TRUE)

(* reinstate_for_month: the user confirms a row that apply has passed over *)
(* and the month does not hold.  It is an ordinary upsert.                 *)
Reinstate(d, r) ==
  /\ r \in DerivedRow /\ disk[d][r] = Absent
  /\ GeneratedRowStaysDeleted(About(log[d], r))
  /\ Upsert(d, r, FALSE)

-----------------------------------------------------------------------------
(* apply_remote_batch                                                      *)

(* What the plan for row r sees, and the part of it the batch brought. *)
Known(d, batch, r) == About(log[d] \cup batch, r)
Remote(d, batch, r) == About(batch \ log[d], r)

Merged(d, batch, r) ==
  RowAfter(disk[d][r], Known(d, batch, r), Remote(d, batch, r), r \in FixedRow)

(* The rows a batch brings something new for. *)
Touched(d, batch) == {r \in world.rows : Remote(d, batch, r) # {}}

(* The batch is refused as a whole when it sets cells of a missing row. *)
Accepted(d, batch) ==
  \A r \in world.rows \cap CellRow :
    SetsCells(Known(d, batch, r), Remote(d, batch, r), r \in FixedRow) => disk[d][r] # Absent

(* What one exchange carries from one device to another: the entries the   *)
(* other side lacks, or the whole log again.                               *)
Batches(from, to) == {Missing(log[from], log[to]), log[from]}

(* Mutant of Observed: the batch's stamps never reach the clock. *)
ObservedNothing(d, batch) == clock[d]

(* observe_remote of the batch's largest stamp, before any file is written. *)
Observed(d, batch) == Largest(TimesIn(batch) \cup {clock[d]})

Merge(from, to) ==
  \E batch \in Batches(from, to) :
    /\ batch # {} /\ Accepted(to, batch)
    /\ clock' = [clock EXCEPT ![to] = Observed(to, batch)]
    /\ disk' = [disk EXCEPT ![to] = [r \in world.rows |-> Merged(to, batch, r)]]
    /\ log' = [log EXCEPT ![to] = @ \cup batch]
    /\ UNCHANGED <<failures, world, blind>>

(* Mutant of MergeFailsInFiles: the entries are stored before the files. *)
MergeFailsLogFirst(from, to) ==
  \E batch \in Batches(from, to) : \E written \in SUBSET Touched(to, batch) :
    /\ ~(batch \subseteq log[to]) /\ Accepted(to, batch) /\ failures < MaxFailures
    /\ clock' = [clock EXCEPT ![to] = Observed(to, batch)]
    /\ disk' = [disk EXCEPT ![to] =
                  [r \in world.rows |-> IF r \in written THEN Merged(to, batch, r) ELSE @[r]]]
    /\ log' = [log EXCEPT ![to] = @ \cup batch]
    /\ failures' = failures + 1
    /\ UNCHANGED <<world, blind>>

(* A write fails after some of the files: the log takes nothing. *)
MergeFailsInFiles(from, to) ==
  \E batch \in Batches(from, to) : \E written \in SUBSET Touched(to, batch) :
    /\ ~(batch \subseteq log[to]) /\ Accepted(to, batch) /\ failures < MaxFailures
    /\ clock' = [clock EXCEPT ![to] = Observed(to, batch)]
    /\ disk' = [disk EXCEPT ![to] =
                  [r \in world.rows |-> IF r \in written THEN Merged(to, batch, r) ELSE @[r]]]
    /\ failures' = failures + 1
    /\ UNCHANGED <<log, world, blind>>

(* Mutant of StoredUpTo: the batch is appended in the order it arrived. *)
StoredAlone(new, last) == {last}

(* append_remote_batch sorts the entries: a write that stops part way has  *)
(* stored those up to some last one.                                       *)
StoredUpTo(new, last) == {x \in new : ~Precedes(last.entry, x.entry)}

(* Every file is written and the append stops after some of the lines. *)
MergeFailsInLog(from, to) ==
  \E batch \in Batches(from, to) : \E last \in batch \ log[to] :
    LET new == batch \ log[to]
        stored == StoredUpTo(new, last)
    IN /\ Accepted(to, batch) /\ failures < MaxFailures /\ stored # new
       /\ clock' = [clock EXCEPT ![to] = Observed(to, batch)]
       /\ disk' = [disk EXCEPT ![to] = [r \in world.rows |-> Merged(to, batch, r)]]
       /\ log' = [log EXCEPT ![to] = @ \cup stored]
       /\ failures' = failures + 1
       /\ UNCHANGED <<world, blind>>

RowInStep(d, r) == disk[d][r] = IF About(log[d], r) = {} THEN EmptyRow(r)
                                ELSE Described(About(log[d], r), r \in FixedRow)

InStep(d) == \A r \in world.rows : RowInStep(d, r)

(* The process restarts: the clock is what the log shows. *)
Restart(d) ==
  /\ clock[d] # Largest(TimesIn(log[d]))
  /\ clock' = [clock EXCEPT ![d] = Largest(TimesIn(log[d]))]
  /\ blind' = IF InStep(d) THEN blind ELSE blind \cup {d}
  /\ UNCHANGED <<log, disk, failures, world>>

Next ==
  \E d \in world.devices :
    \/ \E r \in world.rows : \/ Add(d, r) \/ EditRow(d, r) \/ EditCell(d, r) \/ Delete(d, r)
                      \/ RecurringApply(d, r) \/ Reinstate(d, r)
    \/ \E e \in world.devices : /\ Linked(d, e)
                         /\ \/ Merge(d, e)
                            \/ MergeFailsInFiles(d, e) \/ MergeFailsInLog(d, e)
    \/ Restart(d)

Spec == Init /\ [][Next]_vars

-----------------------------------------------------------------------------
TypeOK ==
  /\ log \in [world.devices -> SUBSET Record]
  /\ disk \in [world.devices -> [world.rows -> Content \cup {Absent}]]
  /\ clock \in [world.devices -> 0..MaxTime]
  /\ failures \in 0..MaxFailures /\ world \in World /\ blind \subseteq world.devices

(* A hub with one phone. *)
OnePhone == \E p \in Device : world.devices \subseteq {Hub, p}

(* What a device shows is what its log describes, and so devices with the  *)
(* same log show the same.  A batch that failed part way may put a file    *)
(* ahead of the log until the rest of the batch arrived.  A derived row is *)
(* held back by a delete that comes late, so for it this needs a hub with  *)
(* one phone: LocalWinnerIsOnDisk fails with two.                          *)
DiskMatchesLog ==
  \A d \in world.devices, r \in world.rows :
    /\ failures = 0 \/ log[d] = Everything
    /\ r \in DerivedRow => OnePhone
    => RowInStep(d, r)

(* The invariant of entries_missing_from: every log holds a prefix of what *)
(* each device wrote, also after an apply that stored part of its batch.   *)
PrefixPerDevice ==
  \A d, e \in world.devices : \A x \in log[d], y \in log[e] :
    /\ x.entry.key.device = y.entry.key.device
    /\ x.entry.key.time < y.entry.key.time
    => x \in log[e]

(* Where the user's own newest word on a generated row is a delete, no     *)
(* device that heard it shows the row, whatever apply made elsewhere.      *)
DeletedRowStaysDeleted ==
  failures = 0 =>
    \A d \in world.devices, r \in world.rows \cap DerivedRow :
      LET own == {e \in About(log[d], r) : ~e.generated}
      IN Deletes(Newest(own)) # {} => disk[d][r] = Absent

(* No batch a peer can offer is refused: a plan that sets cells finds its  *)
(* row.  With one peer this holds after failed applies too, so the retry   *)
(* is never refused.                                                       *)
BatchIsAccepted ==
  failures = 0 \/ OnePhone =>
    \A d, e \in world.devices : Linked(d, e) =>
      \A batch \in Batches(d, e) : Accepted(e, batch)

(* What merge.rs says where a plan writes nothing: where this device's own *)
(* entry decides a whole row, the row is already on disk.                  *)
LocalWinnerIsOnDisk ==
  \A d, e \in world.devices : Linked(d, e) =>
    \A batch \in Batches(d, e), r \in world.rows :
      LET S == Known(e, batch, r)
          remote == Remote(e, batch, r)
      IN r \notin CellRow /\ remote # {} /\ RowWinner(S) \cap remote = {} =>
           disk[e][r] = Described(S, r \in FixedRow)

(* An edit outranks every value its row showed when the user made it, so   *)
(* no merge lets an older value that the user has seen win over it.  The   *)
(* one exception is a process restarted between a batch that failed part   *)
(* way and its retry.                                                      *)
EditOutranksWhatItSaw ==
  [][\A d \in world.devices \ blind : \A x \in log'[d] \ log[d] :
       x.entry.key.device = d /\ disk[d][x.row] # Absent =>
         \A c \in Column : KeyBefore(disk[d][x.row][c], x.entry.key)]_vars

-----------------------------------------------------------------------------
(* What an exchange promises of the changes, without rows, batches, files  *)
(* and clocks.                                                             *)
Heard == [d \in world.devices |-> {x.entry.key : x \in log[d]}]

Promise == INSTANCE Histories WITH heard <- Heard

(* Whatever edits, exchanges, failed applies and restarts do to the logs,  *)
(* it is devices making changes later than all they know, and hearing of   *)
(* each other's in order and without a gap.                                *)
HistoriesAreKept == Promise!Spec

=============================================================================

--------------------------- MODULE ReplicasProofs ---------------------------
(***************************************************************************)
(* The properties of Replicas, proved for any number of devices, rows and  *)
(* changes, and for applies that fail any number of times.                 *)
(***************************************************************************)
EXTENDS Replicas, FiniteSetTheorems, WellFoundedInduction, TLAPS

(* A nonempty set of natural numbers has a least element. *)
LEMMA NatLeast ==
  ASSUME NEW T \in SUBSET Nat, T # {}
  PROVE  \E n \in T : \A m \in T : n <= m
<1>1. PICK n \in T : \A m \in T : ~(<<m, n>> \in OpToRel(<, Nat))
  BY WFMin, NatLessThanWellFounded
<1>2. \A m \in T : ~(m < n)
  BY <1>1 DEF OpToRel
<1> QED
  BY <1>2

(* A bounded one has a greatest element. *)
LEMMA GreatestUpTo ==
  ASSUME NEW N \in Nat, NEW T \in SUBSET (0..N), T # {}
  PROVE  \E n \in T : \A m \in T : m <= n
<1> DEFINE U == {N - t : t \in T}
<1>1. \A t \in T : t \in Nat /\ N - t \in Nat
  OBVIOUS
<1>2. U \in SUBSET Nat /\ U # {}
  BY <1>1
<1>3. PICK u \in U : \A v \in U : u <= v
  BY <1>2, NatLeast
<1>4. PICK t \in T : u = N - t
  OBVIOUS
<1>5. \A m \in T : N - t <= N - m
  BY <1>3, <1>4
<1> QED
  BY <1>1, <1>5

(* What every set of entries here is: well formed, stamped, one per key. *)
Clean(S) ==
  /\ S \subseteq Entry
  /\ \A e \in S : e.key.time \in 1..MaxTime /\ e.key.device \in Device
  /\ \A e, f \in S : e.key = f.key => e = f

(* Nothing is held back among entries that no template made. *)
Plain(S) == \A e \in S : ~e.generated

(* The entries S take a row away. *)
Gone(S, fixed) == Deleted(S) # {} \/ (~fixed /\ RowWinner(S) = {})

(* Whoever knows the entries S of the entries T, and among them those that *)
(* decide a row or a column, decides it as T do.                           *)
Agree(S, T) ==
  RowWinner(T) \subseteq S =>
    /\ RowWinner(S) = RowWinner(T)
    /\ \A c \in Column : Shown(T, c) \subseteq S => CellWinner(S, c) = CellWinner(T, c)

(***************************************************************************)
(* What a row in a file owes to the log next to it: where the entry that   *)
(* decides among all entries T, known here or not, is one of the entries L *)
(* of the log, the row shows it; and so does every column.  An apply that  *)
(* stopped part way may have put the row ahead of the log, and an edit may *)
(* have been made on top of that: while the entries that decide are not in *)
(* the log, nothing is said.                                               *)
(***************************************************************************)
Shows(row, L, T, fixed) ==
  RowWinner(T) \subseteq L =>
    IF Gone(T, fixed) THEN row = Absent
    ELSE /\ row # Absent
         /\ \A c \in Column : Shown(T, c) \subseteq L => row[c] = Values(T)[c]

Origin(x) == x.entry.key.device
Time(x) == x.entry.key.time

(* What the handlers record of each kind of row. *)
Kinds ==
  \A x \in Everything :
    /\ x.row \in world.rows
    /\ x.entry.generated => x.entry.op = "upsert" /\ x.row \in DerivedRow
    /\ x.entry.op = "cell" => x.row \in CellRow /\ x.entry.column \in Column
    /\ x.entry.op # "cell" => x.row \notin FixedRow

(* The clock is past every stamp of the log, and a device has all entries  *)
(* of its own.                                                             *)
Stamped ==
  \A d \in world.devices : \A x \in log[d] :
    /\ Time(x) \in 1..MaxTime /\ Time(x) <= clock[d]
    /\ Origin(x) \in world.devices /\ x \in log[Origin(x)]

KeysUnique == \A x, y \in Everything : x.entry.key = y.entry.key => x = y

(* The clock is past what the files show, except after a restart that read *)
(* it from a log behind the files.                                         *)
DiskCovered ==
  \A d \in world.devices \ blind : \A r \in world.rows, c \in Column :
    disk[d][r][c].time <= clock[d]

(* The rows about which devices come to agree: see DiskMatchesLog. *)
Convergent(r) == r \in DerivedRow => OnePhone

(* Every file shows what decides among all entries, once its log has that. *)
NewestOnDisk ==
  \A d \in world.devices, r \in world.rows : Convergent(r) =>
    Shows(disk[d][r], About(log[d], r), About(Everything, r), r \in FixedRow)

(* While no apply has failed, it shows what decides in its own log.        *)
LogOnDisk ==
  failures = 0 =>
    \A d \in world.devices, r \in world.rows : Convergent(r) =>
      Shows(disk[d][r], About(log[d], r), About(log[d], r), r \in FixedRow)

(* A device that generates a row over an upsert of its own user does so    *)
(* because its file heard of something later from the other one.           *)
GeneratedAfterPeer ==
  OnePhone =>
    \A d \in world.devices : \A u, g \in log[d] :
      /\ Origin(u) = d /\ Origin(g) = d /\ u.row = g.row /\ Time(u) < Time(g)
      /\ u.entry.op = "upsert" /\ ~u.entry.generated /\ g.entry.generated
      => \E v \in Everything : Origin(v) # d /\ Precedes(u.entry, v.entry)

LogInv == Kinds /\ Stamped /\ KeysUnique /\ PrefixPerDevice

DiskInv ==
  DiskCovered /\ NewestOnDisk /\ LogOnDisk /\ GeneratedAfterPeer /\ DeletedRowStaysDeleted

(* The inductive invariant. *)
IInv == TypeOK /\ LogInv /\ DiskInv

-----------------------------------------------------------------------------
(* Stamps                                                                  *)

(* The largest of some bounded numbers, or zero. *)
LEMMA LargestOf ==
  ASSUME NEW N \in Nat, NEW T \in SUBSET (0..N)
  PROVE  /\ Largest(T) \in 0..N
         /\ \A t \in T : t <= Largest(T)
         /\ T # {} => Largest(T) \in T
<1>1. CASE T = {}
  BY <1>1 DEF Largest
<1>2. CASE T # {}
  <2>1. \E t \in T : \A u \in T : u <= t
    BY <1>2, GreatestUpTo
  <2>2. Largest(T) \in T /\ \A u \in T : u <= Largest(T)
    BY <1>2, <2>1 DEF Largest
  <2> QED
    BY <2>2
<1> QED
  BY <1>1, <1>2

(* A finite set of numbers has a bound: one without would have a smallest  *)
(* subset without, and that subset a smaller one.                          *)
LEMMA FiniteBounded ==
  ASSUME NEW D \in SUBSET Nat, IsFiniteSet(D)
  PROVE  \E N \in Nat : D \subseteq 0..N
<1> DEFINE Bounded(A) == \E N \in Nat : A \subseteq 0..N
           U == {Cardinality(A) : A \in {B \in SUBSET D : ~Bounded(B)}}
<1>1. \A A \in SUBSET D : IsFiniteSet(A) /\ Cardinality(A) \in Nat
  BY FS_Subset, FS_CardinalityType
<1>2. SUFFICES ASSUME ~Bounded(D) PROVE FALSE
  OBVIOUS
<1>3. U \in SUBSET Nat /\ U # {}
  <2>1. D \in {B \in SUBSET D : ~Bounded(B)}
    BY <1>2
  <2>2. Cardinality(D) \in U
    BY <2>1
  <2>3. \A u \in U : u \in Nat
    BY <1>1
  <2> QED
    BY <2>2, <2>3
<1>4. PICK n \in U : \A m \in U : n <= m
  BY <1>3, NatLeast
<1>5. PICK A \in SUBSET D : ~Bounded(A) /\ n = Cardinality(A)
  BY <1>4
<1>6. A # {}
  <2>1. SUFFICES ASSUME A = {} PROVE FALSE
    OBVIOUS
  <2>2. A \subseteq 0..0
    BY <2>1
  <2> QED
    BY <1>5, <2>2
<1>7. PICK a \in A : TRUE
  BY <1>6
<1>8. Cardinality(A \ {a}) = n - 1 /\ n \in Nat /\ Cardinality(A \ {a}) \in Nat
  BY <1>1, <1>5, <1>7, FS_RemoveElement
<1>9. Bounded(A \ {a})
  <2>1. SUFFICES ASSUME ~Bounded(A \ {a}) PROVE FALSE
    OBVIOUS
  <2>2. A \ {a} \in {B \in SUBSET D : ~Bounded(B)}
    BY <2>1
  <2>3. n - 1 \in U
    BY <2>2, <1>8
  <2>4. n <= n - 1
    BY <2>3, <1>4
  <2> HIDE DEF U
  <2> QED
    BY <2>4, <1>8
<1>10. PICK N \in Nat : A \ {a} \subseteq 0..N
  BY <1>9
<1>11. a \in Nat
  BY <1>7
<1>12. CASE a <= N
  <2>1. A \subseteq 0..N
    BY <1>10, <1>11, <1>12
  <2> QED
    BY <2>1, <1>5
<1>13. CASE N <= a
  <2>1. A \subseteq 0..a
    BY <1>10, <1>11, <1>13
  <2> QED
    BY <2>1, <1>5, <1>11
<1> QED
  BY <1>10, <1>11, <1>12, <1>13

(* The stamps that entries carry are numbers. *)
LEMMA CleanKeys ==
  ASSUME NEW S, Clean(S)
  PROVE  \A e \in S : e \in Entry /\ e.key \in Key /\ e.key.time \in Nat /\ e.key.device \in Nat
BY ReplicaAssumption DEF Clean, Entry, Key

(* Of two stamps one comes first, and two of one key are the same. *)
LEMMA KeyOrder ==
  /\ \A j \in Key : ~KeyBefore(j, j)
  /\ \A j, k \in Key : KeyBefore(j, k) \/ KeyBefore(k, j) \/ j = k
  /\ \A i, j, k \in Key : KeyBefore(i, j) /\ KeyBefore(j, k) => KeyBefore(i, k)
BY DEF Key, KeyBefore

(* The same of the entries of a set. *)
LEMMA EntryOrder ==
  ASSUME NEW S, Clean(S)
  PROVE  /\ \A e \in S : ~Precedes(e, e)
         /\ \A e, f \in S : Precedes(e, f) \/ Precedes(f, e) \/ e = f
         /\ \A e, f, g \in S : Precedes(e, f) /\ Precedes(f, g) => Precedes(e, g)
<1> USE KeyOrder, CleanKeys DEF Precedes
<1>1. \A e, f \in S : e.key = f.key => e = f
  BY DEF Clean
<1> QED
  BY <1>1

(* A set of entries that is not empty has exactly one newest. *)
LEMMA NewestExists ==
  ASSUME NEW S, Clean(S), NEW T \in SUBSET S, T # {}
  PROVE  \E e \in T : Newest(T) = {e} /\ \A f \in T : f = e \/ Precedes(f, e)
<1> DEFINE Times == {e.key.time : e \in T}
<1>1. PICK t \in Times : \A u \in Times : u <= t
  <2>1. Times \in SUBSET (0..MaxTime) /\ Times # {}
    BY ReplicaAssumption DEF Clean
  <2> QED
    BY <2>1, ReplicaAssumption, GreatestUpTo
<1> DEFINE Last == {e.key.device : e \in {f \in T : f.key.time = t}}
<1>2. PICK d \in Last : \A u \in Last : u <= d
  <2>1. PICK N \in Nat : Device \subseteq 0..N
    BY ReplicaAssumption, FiniteBounded
  <2>2. Last \in SUBSET (0..N)
    BY <2>1 DEF Clean
  <2>3. Last # {}
    BY <1>1
  <2> QED
    BY <2>1, <2>2, <2>3, GreatestUpTo
<1>3. PICK e \in T : e.key.time = t /\ e.key.device = d
  BY <1>2
<1>4. \A f \in T : ~Precedes(e, f)
  <2>1. SUFFICES ASSUME NEW f \in T, Precedes(e, f) PROVE FALSE
    OBVIOUS
  <2>2. f.key.time <= t
    BY <1>1
  <2>3. f.key.time = t => f.key.device <= d
    BY <1>2
  <2> QED
    BY <2>1, <2>2, <2>3, <1>3, CleanKeys DEF Precedes, KeyBefore
<1>5. \A f \in T : f = e \/ Precedes(f, e)
  BY <1>3, <1>4, EntryOrder
<1>6. Newest(T) = {e}
  BY <1>4, <1>5 DEF Newest
<1> QED
  BY <1>3, <1>5, <1>6

-----------------------------------------------------------------------------
(* Who decides a row                                                       *)

(* The winner of a row is one of its entries for the whole row, later than *)
(* every other that nothing holds back; and there is one if there is any   *)
(* such entry, since deletes are never held back.                          *)
LEMMA RowWinnerIs ==
  ASSUME NEW S, Clean(S)
  PROVE  /\ RowWinner(S) = {} <=> Deletes(S) \cup Upserts(S) = {}
         /\ \A w \in RowWinner(S) :
              /\ RowWinner(S) = {w} /\ w \in S
              /\ w \in Deletes(S) \cup Upserts(S) /\ ~HeldBack(w, S)
              /\ \A f \in Deletes(S) \cup Upserts(S) :
                   HeldBack(f, S) \/ f = w \/ Precedes(f, w)
<1> DEFINE Whole == Deletes(S) \cup Upserts(S)
           Rivals == {e \in Whole : ~HeldBack(e, S)}
<1>1. Rivals \in SUBSET S /\ RowWinner(S) = Newest(Rivals)
  BY DEF RowWinner, Deletes, Upserts
<1>2. Whole # {} => Rivals # {}
  <2>1. CASE Deletes(S) # {}
    BY <2>1 DEF HeldBack, Deletes
  <2>2. CASE Deletes(S) = {}
    BY <2>2 DEF HeldBack, Newest
  <2> QED
    BY <2>1, <2>2
<1>3. CASE Rivals = {}
  <2>1. RowWinner(S) = {}
    BY <1>1, <1>3 DEF Newest
  <2> QED
    BY <2>1, <1>2, <1>3
<1>4. CASE Rivals # {}
  <2>1. PICK w \in Rivals : Newest(Rivals) = {w} /\ \A f \in Rivals : f = w \/ Precedes(f, w)
    BY <1>1, <1>4, NewestExists
  <2> QED
    BY <2>1, <1>1
<1> QED
  BY <1>3, <1>4

(* Whoever has these qualities is the winner. *)
LEMMA RowWinnerFrom ==
  ASSUME NEW S, Clean(S), NEW w \in Deletes(S) \cup Upserts(S), ~HeldBack(w, S),
         \A f \in Deletes(S) \cup Upserts(S) : HeldBack(f, S) \/ f = w \/ Precedes(f, w)
  PROVE  RowWinner(S) = {w}
<1>1. RowWinner(S) # {}
  BY RowWinnerIs
<1>2. PICK v \in RowWinner(S) : RowWinner(S) = {v}
  BY <1>1, RowWinnerIs
<1>3. v = w \/ Precedes(w, v)
  BY <1>2, RowWinnerIs
<1>4. v = w \/ Precedes(v, w)
  BY <1>2, RowWinnerIs
<1>5. v \in S /\ w \in S
  BY <1>2, RowWinnerIs DEF Deletes, Upserts
<1> QED
  BY <1>2, <1>3, <1>4, <1>5, EntryOrder

(* The cell edits that count: those after the upsert that decides the row. *)
LaterCells(S, c) == {e \in Cells(S, c) : \A u \in BaseUpsert(S) : Precedes(u, e)}

(* The winning cell edit of a row that is not deleted. *)
LEMMA CellWinnerIs ==
  ASSUME NEW S, Clean(S), NEW c
  PROVE  /\ Deleted(S) # {} => CellWinner(S, c) = {}
         /\ Deleted(S) = {} => (CellWinner(S, c) = {} <=> LaterCells(S, c) = {})
         /\ \A k \in CellWinner(S, c) :
              /\ CellWinner(S, c) = {k} /\ k \in LaterCells(S, c)
              /\ \A f \in LaterCells(S, c) : f = k \/ Precedes(f, k)
<1>1. LaterCells(S, c) \in SUBSET S
  BY DEF LaterCells, Cells
<1>2. CASE Deleted(S) # {}
  BY <1>2 DEF CellWinner
<1>3. CASE Deleted(S) = {}
  <2>1. CellWinner(S, c) = Newest(LaterCells(S, c))
    BY <1>3, ReplicaAssumption DEF CellWinner, LaterCells
  <2>2. CASE LaterCells(S, c) = {}
    BY <2>1, <2>2, <1>3 DEF Newest
  <2>3. CASE LaterCells(S, c) # {}
    <3>1. PICK k \in LaterCells(S, c) :
            /\ Newest(LaterCells(S, c)) = {k}
            /\ \A f \in LaterCells(S, c) : f = k \/ Precedes(f, k)
      BY <1>1, <2>3, NewestExists
    <3> QED
      BY <3>1, <2>1, <1>3
  <2> QED
    BY <2>2, <2>3
<1> QED
  BY <1>2, <1>3

(* A winning cell is a cell of its column. *)
LEMMA CellWinnerCell ==
  ASSUME NEW S, Clean(S), NEW c, NEW k \in CellWinner(S, c)
  PROVE  k \in S /\ k.op = "cell" /\ k.column = c
<1>1. k \in LaterCells(S, c)
  BY CellWinnerIs
<1> QED
  BY <1>1 DEF LaterCells, Cells

(* Whoever has these qualities is the winning cell. *)
LEMMA CellWinnerFrom ==
  ASSUME NEW S, Clean(S), NEW c, Deleted(S) = {},
         NEW k \in Cells(S, c), \A u \in BaseUpsert(S) : Precedes(u, k),
         \A f \in Cells(S, c) :
           f = k \/ Precedes(f, k) \/ \E u \in BaseUpsert(S) : ~Precedes(u, f)
  PROVE  CellWinner(S, c) = {k}
<1>1. CellWinner(S, c) # {}
  BY CellWinnerIs DEF LaterCells
<1>2. PICK j \in CellWinner(S, c) : CellWinner(S, c) = {j}
  BY <1>1, CellWinnerIs
<1>3. j = k \/ Precedes(k, j)
  BY <1>2, CellWinnerIs DEF LaterCells
<1>4. j \in Cells(S, c) /\ \A u \in BaseUpsert(S) : Precedes(u, j)
  BY <1>2, CellWinnerIs DEF LaterCells
<1>5. j = k \/ Precedes(j, k)
  BY <1>4
<1>6. j \in S /\ k \in S
  BY <1>4 DEF Cells
<1> QED
  BY <1>2, <1>3, <1>5, <1>6, EntryOrder

(* What a column shows is nothing or one entry, and its value that key. *)
LEMMA ShownIs ==
  ASSUME NEW S, Clean(S), NEW c \in Column
  PROVE  /\ Values(S)[c] \in Key
         /\ Shown(S, c) = {} => Values(S)[c] = Unset
         /\ \A e \in Shown(S, c) : /\ Shown(S, c) = {e} /\ e \in S
                                   /\ Values(S)[c] = e.key
<1>1. \A e \in Shown(S, c) : Shown(S, c) = {e} /\ e \in S
  <2>1. \A e \in CellWinner(S, c) : CellWinner(S, c) = {e} /\ e \in S
    BY CellWinnerIs DEF LaterCells, Cells
  <2>2. \A e \in BaseUpsert(S) : BaseUpsert(S) = {e} /\ e \in S
    BY RowWinnerIs DEF BaseUpsert, Upserts
  <2> QED
    BY <2>1, <2>2 DEF Shown
<1>2. Shown(S, c) = {} => Values(S)[c] = Unset
  BY DEF Values
<1>3. ASSUME NEW e \in Shown(S, c)
      PROVE  Values(S)[c] = e.key
  <2>1. Shown(S, c) = {e}
    BY <1>1
  <2> QED
    BY <2>1 DEF Values
<1>4. Unset \in Key
  BY DEF Unset, Key
<1> QED
  BY <1>1, <1>2, <1>3, <1>4, CleanKeys

-----------------------------------------------------------------------------
(* Which entries decide, as more of them become known                      *)

(* Plain entries that decide among more entries decide among fewer.        *)
LEMMA PlainAgree ==
  ASSUME NEW T, Clean(T), Plain(T), NEW S \in SUBSET T
  PROVE  Agree(S, T)
<1> SUFFICES ASSUME RowWinner(T) \subseteq S
             PROVE  /\ RowWinner(S) = RowWinner(T)
                    /\ \A c \in Column : Shown(T, c) \subseteq S => CellWinner(S, c) = CellWinner(T, c)
  BY DEF Agree
<1>1. Clean(S)
  BY DEF Clean
<1>2. Deletes(S) \subseteq Deletes(T) /\ Upserts(S) \subseteq Upserts(T)
      /\ \A c : Cells(S, c) \subseteq Cells(T, c)
  BY DEF Deletes, Upserts, Cells
<1>3. \A e \in S : ~HeldBack(e, S) /\ ~HeldBack(e, T)
  BY DEF Plain, HeldBack
<1>4. RowWinner(S) = RowWinner(T)
  <2>1. CASE RowWinner(T) = {}
    BY <2>1, <1>1, <1>2, RowWinnerIs
  <2>2. ASSUME NEW w \in RowWinner(T)
        PROVE  RowWinner(S) = {w} /\ RowWinner(T) = {w}
    <3>1. w \in Deletes(S) \cup Upserts(S) /\ ~HeldBack(w, S)
      BY <1>3, RowWinnerIs DEF Deletes, Upserts
    <3>2. \A f \in Deletes(S) \cup Upserts(S) : HeldBack(f, S) \/ f = w \/ Precedes(f, w)
      <4>1. \A f \in Deletes(S) \cup Upserts(S) : HeldBack(f, T) \/ f = w \/ Precedes(f, w)
        BY <1>2, RowWinnerIs
      <4> QED
        BY <4>1, <1>3 DEF Deletes, Upserts
    <3> QED
      BY <3>1, <3>2, <1>1, RowWinnerFrom, RowWinnerIs
  <2> QED
    BY <2>1, <2>2
<1>5. Deleted(S) = Deleted(T) /\ BaseUpsert(S) = BaseUpsert(T)
  BY <1>4 DEF Deleted, BaseUpsert
<1>6. ASSUME NEW c \in Column, Shown(T, c) \subseteq S
      PROVE  CellWinner(S, c) = CellWinner(T, c)
  <2>1. CASE Deleted(T) # {}
    BY <2>1, <1>1, <1>5, CellWinnerIs
  <2>2. CASE Deleted(T) = {} /\ CellWinner(T, c) = {}
    <3>1. LaterCells(S, c) \subseteq LaterCells(T, c)
      BY <1>2, <1>5 DEF LaterCells
    <3> QED
      BY <3>1, <2>2, <1>1, <1>5, CellWinnerIs
  <2>3. ASSUME Deleted(T) = {}, NEW k \in CellWinner(T, c)
        PROVE  CellWinner(S, c) = CellWinner(T, c)
    <3>1. CellWinner(T, c) = {k} /\ k \in LaterCells(T, c)
          /\ \A f \in LaterCells(T, c) : f = k \/ Precedes(f, k)
      BY CellWinnerIs
    <3>2. k \in S
      BY <3>1, <1>6 DEF Shown
    <3>3. k \in Cells(S, c) /\ \A u \in BaseUpsert(S) : Precedes(u, k)
      BY <3>1, <3>2, <1>5 DEF LaterCells, Cells
    <3>4. \A f \in Cells(S, c) :
            f = k \/ Precedes(f, k) \/ \E u \in BaseUpsert(S) : ~Precedes(u, f)
      BY <3>1, <1>2, <1>5 DEF LaterCells
    <3>5. CellWinner(S, c) = {k}
      BY <3>3, <3>4, <2>3, <1>1, <1>5, CellWinnerFrom
    <3> QED
      BY <3>1, <3>5
  <2> QED
    BY <2>1, <2>2, <2>3
<1> QED
  BY <1>4, <1>6

(* Entries that agree show the same. *)
LEMMA AgreeShown ==
  ASSUME NEW S, NEW T, Agree(S, T), RowWinner(T) \subseteq S
  PROVE  /\ Deleted(S) = Deleted(T) /\ BaseUpsert(S) = BaseUpsert(T)
         /\ \A fixed : Gone(S, fixed) <=> Gone(T, fixed)
         /\ \A c \in Column : Shown(T, c) \subseteq S =>
              Shown(S, c) = Shown(T, c) /\ Values(S)[c] = Values(T)[c]
<1>1. Deleted(S) = Deleted(T) /\ BaseUpsert(S) = BaseUpsert(T)
  BY DEF Agree, Deleted, BaseUpsert
<1>2. \A fixed : Gone(S, fixed) <=> Gone(T, fixed)
  BY <1>1 DEF Agree, Gone
<1>3. ASSUME NEW c \in Column, Shown(T, c) \subseteq S
      PROVE  Shown(S, c) = Shown(T, c) /\ Values(S)[c] = Values(T)[c]
  <2>1. Shown(S, c) = Shown(T, c)
    BY <1>1, <1>3 DEF Agree, Shown
  <2> QED
    BY <2>1 DEF Values
<1> QED
  BY <1>1, <1>2, <1>3

(* A row goes on showing what it shows when others add to what there is... *)
LEMMA ShowsAmongMore ==
  ASSUME NEW T, NEW U, Agree(T, U), NEW L \in SUBSET T, NEW row, NEW fixed,
         Shows(row, L, T, fixed)
  PROVE  Shows(row, L, U, fixed)
<1> SUFFICES ASSUME RowWinner(U) \subseteq L
             PROVE  IF Gone(U, fixed) THEN row = Absent
                    ELSE /\ row # Absent
                         /\ \A c \in Column : Shown(U, c) \subseteq L => row[c] = Values(U)[c]
  BY DEF Shows
<1>1. RowWinner(T) = RowWinner(U)
  BY DEF Agree
<1>2. Gone(T, fixed) <=> Gone(U, fixed)
  BY <1>1, AgreeShown
<1>3. \A c \in Column : Shown(U, c) \subseteq L => Shown(T, c) \subseteq L /\ Values(T)[c] = Values(U)[c]
  BY AgreeShown
<1> QED
  BY <1>1, <1>2, <1>3 DEF Shows

(* ...and owes a shorter log less. *)
LEMMA ShowsLess ==
  ASSUME NEW L, NEW K \in SUBSET L, NEW T, NEW row, NEW fixed, Shows(row, L, T, fixed)
  PROVE  Shows(row, K, T, fixed)
BY DEF Shows

(* A row that is there is not the one that is not. *)
LEMMA ContentPresent ==
  ASSUME NEW row \in Content
  PROVE  row # Absent
<1>1. PICK c \in Column : TRUE
  BY TableAssumption
<1>2. row[c].time # -1
  BY <1>1 DEF Content, Key
<1>3. Absent[c].time = -1
  BY <1>1 DEF Absent
<1> QED
  BY <1>2, <1>3

(* Values are those of a row that is there. *)
LEMMA ValuesPresent ==
  ASSUME NEW S, Clean(S)
  PROVE  Values(S) \in Content /\ Values(S) # Absent
<1>1. Values(S) \in Content
  <2>1. \A c \in Column : Values(S)[c] \in Key
    BY ShownIs
  <2>2. Values(S) = [c \in Column |-> Values(S)[c]]
    BY DEF Values
  <2> QED
    BY <2>1, <2>2 DEF Content
<1> QED
  BY <1>1, ContentPresent

(* A row that shows all of its log is the one the log describes. *)
LEMMA ShowsDescribed ==
  ASSUME NEW T, Clean(T), NEW fixed, NEW row \in Content \cup {Absent}, Shows(row, T, T, fixed)
  PROVE  row = Described(T, fixed)
<1>1. RowWinner(T) \subseteq T
  BY RowWinnerIs
<1>2. CASE Gone(T, fixed)
  BY <1>1, <1>2 DEF Shows, Gone, Described
<1>3. CASE ~Gone(T, fixed)
  <2>1. \A c \in Column : row[c] = Values(T)[c]
    BY <1>1, <1>3, ShownIs DEF Shows
  <2>2. row \in Content /\ Values(T) \in Content
    BY <1>1, <1>3, ValuesPresent DEF Shows
  <2>3. row = Values(T)
    BY <2>1, <2>2 DEF Content
  <2> QED
    BY <2>3, <1>3 DEF Gone, Described
<1> QED
  BY <1>2, <1>3

-----------------------------------------------------------------------------
(* What applying a batch makes of a row                                    *)

(* The row is well formed: cells are set on a row that is there.           *)
LEMMA MergedTyped ==
  ASSUME NEW S, Clean(S), NEW remote, NEW fixed, NEW row \in Content \cup {Absent},
         SetsCells(S, remote, fixed) => row # Absent
  PROVE  RowAfter(row, S, remote, fixed) \in Content \cup {Absent}
<1> DEFINE set == [c \in Column |-> IF CellWinner(S, c) \cap remote # {} THEN Values(S)[c]
                                   ELSE row[c]]
<1>1. Values(S) \in Content
  BY ValuesPresent
<1>2. SetsCells(S, remote, fixed) => set \in Content
  <2>1. SUFFICES ASSUME SetsCells(S, remote, fixed), NEW c \in Column
                 PROVE  set[c] \in Key
    BY DEF Content
  <2>2. row[c] \in Key /\ Values(S)[c] \in Key
    BY <1>1, <2>1 DEF Content
  <2> QED
    BY <2>2
<1> QED
  BY <1>1, <1>2 DEF RowAfter

(* Nothing of the batch applies: whatever decides is in the log already.   *)
LEMMA NothingApplies ==
  ASSUME NEW S, Clean(S), NEW L \in SUBSET S, NEW fixed,
         \A e \in S \ L : ~Applied(e, S, fixed)
  PROVE  /\ RowWinner(S) \subseteq L
         /\ ~Gone(S, fixed) => \A c \in Column : Shown(S, c) \subseteq L
<1>1. RowWinner(S) \subseteq L
  <2>1. SUFFICES ASSUME NEW w \in RowWinner(S), w \notin L PROVE FALSE
    OBVIOUS
  <2>2. w \in S /\ w.op # "cell"
    BY RowWinnerIs DEF Deletes, Upserts
  <2> QED
    BY <2>1, <2>2 DEF Applied
<1>2. ASSUME ~Gone(S, fixed), NEW c \in Column
      PROVE  Shown(S, c) \subseteq L
  <2>1. BaseUpsert(S) \subseteq L
    BY <1>1 DEF BaseUpsert, Upserts
  <2>2. CellWinner(S, c) \subseteq L
    <3>1. SUFFICES ASSUME NEW k \in CellWinner(S, c), k \notin L PROVE FALSE
      OBVIOUS
    <3>2. k \in S /\ k.op = "cell" /\ k.column = c
      BY CellWinnerIs DEF LaterCells, Cells
    <3>3. ~Unplaceable(S, fixed)
      BY <1>2 DEF Gone, Unplaceable
    <3> QED
      BY <3>1, <3>2, <3>3 DEF Applied
  <2> QED
    BY <2>1, <2>2 DEF Shown
<1> QED
  BY <1>1, <1>2

(* A batch that applies and neither deletes nor rewrites sets cells.       *)
LEMMA AppliesCells ==
  ASSUME NEW S, Clean(S), NEW remote \in SUBSET S, NEW fixed,
         \A e \in S : e.op = "cell" => e.column \in Column,
         NEW e \in remote, Applied(e, S, fixed),
         Deleted(S) \cap remote = {}, BaseUpsert(S) \cap remote = {}
  PROVE  SetsCells(S, remote, fixed)
<1>1. CASE e.op # "cell"
  <2>1. e \in RowWinner(S)
    BY <1>1 DEF Applied
  <2>2. e \in Deleted(S) \cup BaseUpsert(S)
    BY <2>1, RowWinnerIs DEF Deleted, BaseUpsert, Deletes, Upserts
  <2> QED
    BY <2>2
<1>2. CASE e.op = "cell"
  <2>1. ~Unplaceable(S, fixed) /\ e \in CellWinner(S, e.column) /\ e.column \in Column
    BY <1>2 DEF Applied
  <2>2. Deleted(S) = {}
    BY <2>1, CellWinnerIs
  <2> QED
    BY <2>1, <2>2 DEF SetsCells
<1> QED
  BY <1>1, <1>2

(* plan_row and apply_row_action: after a batch the row shows what is      *)
(* known then, among any entries T that decide no differently.             *)
LEMMA MergeShows ==
  ASSUME NEW T, Clean(T), NEW S \in SUBSET T, Agree(S, T), NEW L \in SUBSET S, NEW fixed,
         \A e \in S : e.op = "cell" => e.column \in Column,
         NEW row \in Content \cup {Absent}, Shows(row, L, T, fixed),
         SetsCells(S, S \ L, fixed) => row # Absent
  PROVE  Shows(RowAfter(row, S, S \ L, fixed), S, T, fixed)
<1> DEFINE remote == S \ L
           after == RowAfter(row, S, remote, fixed)
<1>c. Clean(S)
  BY DEF Clean
<1> SUFFICES ASSUME RowWinner(T) \subseteq S
             PROVE  IF Gone(S, fixed) THEN after = Absent
                    ELSE /\ after # Absent
                         /\ \A c \in Column : Shown(T, c) \subseteq S => after[c] = Values(S)[c]
  <2>1. SUFFICES ASSUME RowWinner(T) \subseteq S
                 PROVE  IF Gone(T, fixed) THEN after = Absent
                        ELSE /\ after # Absent
                             /\ \A c \in Column : Shown(T, c) \subseteq S => after[c] = Values(T)[c]
    BY DEF Shows
  <2> HIDE DEF after
  <2> QED
    BY <2>1, AgreeShown
<1>1. RowWinner(S) = RowWinner(T) /\ (Gone(S, fixed) <=> Gone(T, fixed))
      /\ \A c \in Column : Shown(T, c) \subseteq S => Shown(S, c) = Shown(T, c) /\ Values(S)[c] = Values(T)[c]
  BY AgreeShown DEF Agree
(* What the row showed before, in terms of what is known now. *)
<1>2. RowWinner(S) \subseteq L =>
        IF Gone(S, fixed) THEN row = Absent
        ELSE /\ row # Absent
             /\ \A c \in Column : Shown(T, c) \subseteq S /\ Shown(S, c) \subseteq L => row[c] = Values(S)[c]
  BY <1>1 DEF Shows
<1>3. CASE \A e \in remote : ~Applied(e, S, fixed)
  <2>1. after = row
    BY <1>3 DEF RowAfter
  <2> QED
    BY <2>1, <1>c, <1>2, <1>3, NothingApplies
<1>4. CASE Deleted(S) \cap remote # {}
  <2>1. Gone(S, fixed)
    BY <1>4 DEF Gone
  <2>2. after = Absent
    <3>1. PICK e \in remote : e \in Deleted(S)
      BY <1>4
    <3>2. Applied(e, S, fixed)
      BY <3>1 DEF Applied, Deleted, Deletes
    <3> QED
      BY <3>2, <1>4 DEF RowAfter
  <2> QED
    BY <2>1, <2>2
<1>5. CASE Deleted(S) \cap remote = {} /\ BaseUpsert(S) \cap remote # {}
  <2>1. PICK e \in remote : e \in BaseUpsert(S)
    BY <1>5
  <2>2. Applied(e, S, fixed)
    BY <2>1 DEF Applied, BaseUpsert, Upserts
  <2>3. after = Values(S)
    BY <2>2, <1>5 DEF RowAfter
  <2>4. ~Gone(S, fixed)
    <3>1. e \in RowWinner(S) /\ e.op = "upsert"
      BY <2>1 DEF BaseUpsert, Upserts
    <3>2. RowWinner(S) = {e}
      BY <3>1, <1>c, RowWinnerIs
    <3> QED
      BY <3>1, <3>2 DEF Gone, Deleted, Deletes
  <2> QED
    BY <2>3, <2>4, <1>c, ValuesPresent
<1>6. CASE /\ Deleted(S) \cap remote = {} /\ BaseUpsert(S) \cap remote = {}
           /\ \E e \in remote : Applied(e, S, fixed)
  <2>1. SetsCells(S, remote, fixed)
    BY <1>6, <1>c, AppliesCells
  <2>2. row # Absent /\ row \in Content
    BY <2>1
  <2>3. after = [c \in Column |-> IF CellWinner(S, c) \cap remote # {} THEN Values(S)[c] ELSE row[c]]
    BY <1>6, <2>1 DEF RowAfter
  <2>4. ~Gone(S, fixed)
    BY <2>1, ReplicaAssumption DEF SetsCells, Gone, Unplaceable
  <2>5. RowWinner(S) \subseteq L
    <3>1. RowWinner(S) \subseteq Deleted(S) \cup BaseUpsert(S) /\ RowWinner(S) \subseteq S
      BY <1>c, RowWinnerIs DEF Deleted, BaseUpsert, Deletes, Upserts
    <3> QED
      BY <3>1, <1>6
  <2>6. ASSUME NEW c \in Column, Shown(T, c) \subseteq S
        PROVE  after[c] = Values(S)[c]
    <3>1. CASE CellWinner(S, c) \cap remote # {}
      BY <2>3, <3>1
    <3>2. CASE CellWinner(S, c) \cap remote = {}
      <4>1. Shown(S, c) \subseteq S
        BY <1>c, ShownIs
      <4>2. Shown(S, c) \subseteq L
        BY <4>1, <3>2, <1>6 DEF Shown
      <4> QED
        BY <4>2, <3>2, <2>3, <2>4, <2>5, <2>6, <1>2
    <3> QED
      BY <3>1, <3>2
  <2>7. after \in Content
    <3>1. \A c \in Column : row[c] \in Key /\ Values(S)[c] \in Key
      BY <2>2, <1>c, ShownIs DEF Content
    <3> HIDE DEF after
    <3> QED
      BY <3>1, <2>3 DEF Content
  <2> HIDE DEF after
  <2> QED
    BY <2>4, <2>6, <2>7, ContentPresent
<1> QED
  BY <1>3, <1>4, <1>5, <1>6

(* A plan that sets cells finds the row there, if the row shows its log.   *)
LEMMA CellsFindTheirRow ==
  ASSUME NEW S, Clean(S), NEW L \in SUBSET S, NEW fixed, NEW row, Shows(row, L, S, fixed),
         SetsCells(S, S \ L, fixed)
  PROVE  row # Absent
<1>1. Deleted(S) = {} /\ BaseUpsert(S) \subseteq L
  BY RowWinnerIs DEF SetsCells, BaseUpsert, Upserts
<1>2. RowWinner(S) \subseteq L /\ ~Gone(S, fixed)
  <2>1. RowWinner(S) \subseteq Deleted(S) \cup BaseUpsert(S)
    BY RowWinnerIs DEF Deleted, BaseUpsert, Deletes, Upserts
  <2> QED
    BY <1>1, <2>1, ReplicaAssumption DEF SetsCells, Gone, Unplaceable
<1> QED
  BY <1>2 DEF Shows

(* A delete that decides among more entries decides among fewer: what it   *)
(* holds back it holds back there too.                                     *)
LEMMA DeleteDecides ==
  ASSUME NEW T, Clean(T), NEW S \in SUBSET T, NEW w \in RowWinner(T), w \in S, w.op = "delete"
  PROVE  RowWinner(S) = {w}
<1>1. Clean(S) /\ w \in Deletes(S) /\ w \in T
  BY DEF Clean, Deletes
<1>2. ~HeldBack(w, S)
  BY DEF HeldBack
<1>3. \A f \in Deletes(T) : f = w \/ Precedes(f, w)
  BY RowWinnerIs DEF Deletes, HeldBack
<1>4. w \in Newest(Deletes(S))
  <2>1. ASSUME NEW f \in Deletes(S) PROVE ~Precedes(w, f)
    <3>1. f \in T /\ (f = w \/ Precedes(f, w))
      BY <1>3 DEF Deletes
    <3> QED
      BY <3>1, <1>1, EntryOrder
  <2> QED
    BY <2>1, <1>1 DEF Newest
<1>5. ASSUME NEW f \in Deletes(S) \cup Upserts(S), f # w, ~Precedes(f, w)
      PROVE  HeldBack(f, S)
  <2>1. f \in T /\ f \in Deletes(T) \cup Upserts(T)
    BY DEF Deletes, Upserts
  <2>2. HeldBack(f, T)
    BY <2>1, <1>5, RowWinnerIs
  <2>3. Precedes(w, f)
    BY <2>1, <1>1, <1>5, EntryOrder
  <2> QED
    BY <2>2, <2>3, <1>4 DEF HeldBack
<1> QED
  BY <1>1, <1>2, <1>5, RowWinnerFrom

-----------------------------------------------------------------------------
(* What an edit makes of a row: x is the new entry, later than all of the  *)
(* log L, among the entries T that everybody has.                          *)

(* A new entry for the whole row decides, or an entry that the log lacks.  *)
LEMMA NewestDecides ==
  ASSUME NEW T, NEW x, Clean(T \cup {x}), NEW L \in SUBSET T, \A e \in L : Precedes(e, x),
         x.op \in {"upsert", "delete"}, ~HeldBack(x, T \cup {x}),
         RowWinner(T \cup {x}) \subseteq L \cup {x}
  PROVE  RowWinner(T \cup {x}) = {x}
<1> DEFINE U == T \cup {x}
<1>1. x \in Deletes(U) \cup Upserts(U)
  BY DEF Deletes, Upserts
<1>2. PICK w \in RowWinner(U) : RowWinner(U) = {w} /\ w \in U
  BY <1>1, RowWinnerIs
<1>3. w = x \/ Precedes(x, w)
  BY <1>1, <1>2, RowWinnerIs
<1>4. w = x \/ Precedes(w, x)
  BY <1>2
<1>5. w = x
  BY <1>2, <1>3, <1>4, EntryOrder
<1> QED
  BY <1>2, <1>5

(* The saved row shows an upsert that decides, in every column.            *)
LEMMA WrittenRowShows ==
  ASSUME NEW T, NEW x, Clean(T \cup {x}), NEW L \in SUBSET T, \A e \in L : Precedes(e, x),
         x.op = "upsert", NEW fixed,
         RowWinner(T \cup {x}) \subseteq L \cup {x} => RowWinner(T \cup {x}) = {x}
  PROVE  Shows([c \in Column |-> x.key], L \cup {x}, T \cup {x}, fixed)
<1> DEFINE U == T \cup {x}
           row == [c \in Column |-> x.key]
<1> SUFFICES ASSUME RowWinner(U) = {x}
             PROVE  IF Gone(U, fixed) THEN row = Absent
                    ELSE /\ row # Absent
                         /\ \A c \in Column : Shown(U, c) \subseteq L \cup {x} => row[c] = Values(U)[c]
  BY DEF Shows
<1>1. BaseUpsert(U) = {x} /\ Deleted(U) = {}
  BY DEF BaseUpsert, Deleted, Upserts, Deletes
<1>2. row # Absent
  <2>1. x.key \in Key
    BY CleanKeys
  <2> QED
    BY <2>1, ContentPresent DEF Content
<1>3. ASSUME NEW c \in Column, Shown(U, c) \subseteq L \cup {x}
      PROVE  Values(U)[c] = x.key
  <2>1. CellWinner(U, c) = {}
    <3>1. SUFFICES ASSUME NEW k \in CellWinner(U, c) PROVE FALSE
      OBVIOUS
    <3>2. k \in U /\ k.op = "cell" /\ Precedes(x, k)
      BY <1>1, CellWinnerIs DEF LaterCells, Cells
    <3>3. k \in L \cup {x}
      BY <1>3, <3>1 DEF Shown
    <3>4. Precedes(k, x)
      BY <3>2, <3>3
    <3> QED
      BY <3>2, <3>4, EntryOrder
  <2>2. x \in Shown(U, c)
    BY <2>1, <1>1 DEF Shown
  <2> HIDE DEF U
  <2>3. Clean(U)
    BY DEF U
  <2> QED
    BY <2>2, <2>3, ShownIs
<1> QED
  BY <1>1, <1>2, <1>3 DEF Gone

(* A user's own upsert is held back by nothing.                            *)
LEMMA UpsertShows ==
  ASSUME NEW T, NEW x, Clean(T \cup {x}), NEW L \in SUBSET T, \A e \in L : Precedes(e, x),
         x.op = "upsert", ~x.generated, NEW fixed
  PROVE  Shows([c \in Column |-> x.key], L \cup {x}, T \cup {x}, fixed)
BY NewestDecides, WrittenRowShows DEF HeldBack

(* Nor is a delete.                                                        *)
LEMMA DeleteShows ==
  ASSUME NEW T, NEW x, Clean(T \cup {x}), NEW L \in SUBSET T, \A e \in L : Precedes(e, x),
         x.op = "delete", NEW fixed
  PROVE  Shows(Absent, L \cup {x}, T \cup {x}, fixed)
<1> SUFFICES ASSUME RowWinner(T \cup {x}) \subseteq L \cup {x}
             PROVE  Gone(T \cup {x}, fixed)
  BY DEF Shows
<1>1. RowWinner(T \cup {x}) = {x}
  BY NewestDecides DEF HeldBack
<1> QED
  BY <1>1 DEF Gone, Deleted, Deletes

(* An upsert that does not decide leaves the others to decide.             *)
LEMMA UpsertAgree ==
  ASSUME NEW T, NEW x, Clean(T \cup {x}), x.op = "upsert"
  PROVE  Agree(T, T \cup {x})
<1> DEFINE U == T \cup {x}
<1> SUFFICES ASSUME RowWinner(U) \subseteq T
             PROVE  RowWinner(T) = RowWinner(U) /\ \A c \in Column : CellWinner(T, c) = CellWinner(U, c)
  BY DEF Agree
<1>1. Clean(T)
  BY DEF Clean
<1>2. Deletes(T) = Deletes(U) /\ Upserts(T) \subseteq Upserts(U) /\ x \in Upserts(U)
      /\ \A c : Cells(T, c) = Cells(U, c)
  BY DEF Deletes, Upserts, Cells
<1>3. \A e : HeldBack(e, T) <=> HeldBack(e, U)
  BY <1>2 DEF HeldBack
<1>4. PICK w \in RowWinner(U) : RowWinner(U) = {w}
  BY <1>2, RowWinnerIs
<1>5. RowWinner(T) = {w}
  <2>1. w \in Deletes(T) \cup Upserts(T) /\ ~HeldBack(w, T)
    BY <1>3, <1>4, RowWinnerIs DEF Deletes, Upserts
  <2>2. \A f \in Deletes(T) \cup Upserts(T) : HeldBack(f, T) \/ f = w \/ Precedes(f, w)
    BY <1>2, <1>3, <1>4, RowWinnerIs
  <2> QED
    BY <2>1, <2>2, <1>1, RowWinnerFrom
<1>6. Deleted(T) = Deleted(U) /\ BaseUpsert(T) = BaseUpsert(U)
  BY <1>4, <1>5 DEF Deleted, BaseUpsert
<1>7. ASSUME NEW c \in Column PROVE CellWinner(T, c) = CellWinner(U, c)
  <2> HIDE DEF U
  <2>1. Cells(T, c) = Cells(U, c)
    BY <1>2
  <2>2. {e \in Cells(T, c) : \A u \in BaseUpsert(T) : Precedes(u, e)}
          = {e \in Cells(U, c) : \A u \in BaseUpsert(U) : Precedes(u, e)}
    BY <2>1, <1>6
  <2> QED
    BY <2>2, <1>6 DEF CellWinner
<1> QED
  BY <1>4, <1>5, <1>7

(* A generated upsert is made of a row that is not there and not deleted:  *)
(* it decides unless what decides is not in the log.                       *)
LEMMA GeneratedShows ==
  ASSUME NEW T, NEW x, Clean(T \cup {x}), NEW L \in SUBSET T, \A e \in L : Precedes(e, x),
         x.op = "upsert", NEW fixed, Shows(Absent, L, T, fixed), Deleted(L) = {}
  PROVE  Shows([c \in Column |-> x.key], L \cup {x}, T \cup {x}, fixed)
<1> DEFINE U == T \cup {x}
<1>1. SUFFICES ASSUME RowWinner(U) \subseteq L \cup {x} PROVE RowWinner(U) = {x}
  BY WrittenRowShows
<1>2. Clean(T)
  BY DEF Clean
<1>3. x \in Upserts(U)
  BY DEF Upserts
<1>4. PICK w \in RowWinner(U) : RowWinner(U) = {w}
  BY <1>3, RowWinnerIs
<1>5. SUFFICES ASSUME w # x PROVE FALSE
  BY <1>4
<1>6. w \in L /\ RowWinner(T) = {w}
  BY <1>1, <1>4, <1>5, UpsertAgree DEF Agree
<1>7. Gone(T, fixed)
  BY <1>6 DEF Shows
<1>8. w.op = "delete"
  BY <1>6, <1>7 DEF Gone, Deleted, Deletes
<1>9. RowWinner(L) = {w}
  BY <1>2, <1>6, <1>8, DeleteDecides
<1> QED
  BY <1>8, <1>9 DEF Deleted, Deletes

(* A cell edit of a row that is there. *)
LEMMA CellShows ==
  ASSUME NEW T, NEW x, Clean(T \cup {x}), NEW L \in SUBSET T, \A e \in L : Precedes(e, x),
         x.op = "cell", x.column \in Column, NEW fixed, NEW row \in Content, Shows(row, L, T, fixed)
  PROVE  Shows([row EXCEPT ![x.column] = x.key], L \cup {x}, T \cup {x}, fixed)
<1> DEFINE U == T \cup {x}
           after == [row EXCEPT ![x.column] = x.key]
<1>1. Clean(T)
  BY DEF Clean
<1>2. Deletes(T) = Deletes(U) /\ Upserts(T) = Upserts(U)
      /\ \A c : Cells(U, c) = IF c = x.column THEN Cells(T, c) \cup {x} ELSE Cells(T, c)
  BY DEF Deletes, Upserts, Cells
<1>3. RowWinner(T) = RowWinner(U)
  <2>1. \A e : HeldBack(e, T) <=> HeldBack(e, U)
    BY <1>2 DEF HeldBack
  <2> QED
    BY <1>2, <2>1 DEF RowWinner
<1>4. Deleted(T) = Deleted(U) /\ BaseUpsert(T) = BaseUpsert(U) /\ (Gone(T, fixed) <=> Gone(U, fixed))
  BY <1>3 DEF Deleted, BaseUpsert, Gone
<1> SUFFICES ASSUME RowWinner(U) \subseteq L \cup {x}
             PROVE  IF Gone(U, fixed) THEN after = Absent
                    ELSE /\ after # Absent
                         /\ \A c \in Column : Shown(U, c) \subseteq L \cup {x} => after[c] = Values(U)[c]
  BY DEF Shows
<1>5. RowWinner(T) \subseteq L
  BY <1>3, RowWinnerIs DEF Deletes, Upserts
<1>6. ~Gone(U, fixed) /\ \A c \in Column : Shown(T, c) \subseteq L => row[c] = Values(T)[c]
  BY <1>4, <1>5, ContentPresent DEF Shows
<1>7. after # Absent
  <2>1. x.key \in Key
    BY CleanKeys
  <2>2. after \in Content
    BY <2>1 DEF Content
  <2> QED
    BY <2>2, ContentPresent
<1>8. ASSUME NEW c \in Column, c # x.column, Shown(U, c) \subseteq L \cup {x}
      PROVE  after[c] = Values(U)[c]
  <2>1. CellWinner(U, c) = CellWinner(T, c)
    BY <1>2, <1>4, <1>8 DEF CellWinner
  <2>2. Shown(U, c) = Shown(T, c)
    BY <2>1, <1>4 DEF Shown
  <2>3. Values(U)[c] = Values(T)[c]
    <3> HIDE DEF U, after
    <3> QED
      BY <2>2 DEF Values
  <2>4. Shown(T, c) \subseteq L
    <3>1. \A k \in CellWinner(T, c) : k.column = c
      BY <1>1, CellWinnerCell
    <3>2. x \notin BaseUpsert(T)
      BY DEF BaseUpsert, Upserts
    <3>3. x \notin Shown(T, c)
      BY <3>1, <3>2, <1>8 DEF Shown
    <3> QED
      BY <3>3, <2>2, <1>8
  <2> QED
    BY <2>2, <2>3, <2>4, <1>6, <1>8 DEF Content
<1>9. ASSUME Shown(U, x.column) \subseteq L \cup {x}
      PROVE  after[x.column] = Values(U)[x.column]
  <2>1. Deleted(U) = {} /\ BaseUpsert(U) \subseteq L
    BY <1>4, <1>5, <1>6 DEF Gone, BaseUpsert, Upserts
  <2>2. x \in LaterCells(U, x.column)
    BY <2>1, <1>2 DEF LaterCells
  <2>3. PICK k \in CellWinner(U, x.column) :
          /\ CellWinner(U, x.column) = {k} /\ k \in LaterCells(U, x.column)
          /\ k = x \/ Precedes(x, k)
    BY <2>1, <2>2, CellWinnerIs
  <2>4. Shown(U, x.column) = {k}
    BY <2>3 DEF Shown
  <2>5. k = x \/ Precedes(k, x)
    BY <2>4, <1>9
  <2>6. k = x
    BY <2>3, <2>5, EntryOrder DEF LaterCells, Cells
  <2>7. Values(U)[x.column] = x.key
    <3>1. Clean(U) /\ x \in Shown(U, x.column)
      BY <2>4, <2>6
    <3> HIDE DEF U
    <3> QED
      BY <3>1, ShownIs
  <2> QED
    BY <2>7 DEF Content
<1> QED
  BY <1>6, <1>7, <1>8, <1>9

-----------------------------------------------------------------------------
(* Deleted rows and late deletes                                           *)

(* The user's own entries of a row, the newest of which deletes it. *)
Own(S) == {e \in S : ~e.generated}
OwnDeleted(S) == Deletes(Newest(Own(S))) # {}

(* A delete that is the user's newest word decides the row: older entries  *)
(* of the user's lose to it and later ones of a template are held back.    *)
LEMMA OwnDeleteWins ==
  ASSUME NEW S, Clean(S), \A e \in S : e.generated => e.op = "upsert",
         NEW w \in Deletes(Newest(Own(S)))
  PROVE  RowWinner(S) = {w}
<1>1. w \in Deletes(S) /\ w \in S /\ ~HeldBack(w, S)
  BY DEF Deletes, Newest, Own, HeldBack
<1>2. \A f \in S : ~f.generated => f = w \/ Precedes(f, w)
  BY <1>1, EntryOrder DEF Deletes, Newest, Own
<1>3. \A f \in Deletes(S) : f = w \/ Precedes(f, w)
  BY <1>2 DEF Deletes
<1>4. w \in Newest(Deletes(S))
  <2>1. ASSUME NEW f \in Deletes(S) PROVE ~Precedes(w, f)
    <3>1. f \in S /\ (f = w \/ Precedes(f, w))
      BY <1>3 DEF Deletes
    <3> QED
      BY <3>1, <1>1, EntryOrder
  <2> QED
    BY <2>1, <1>1 DEF Newest
<1>5. ASSUME NEW f \in Deletes(S) \cup Upserts(S), f # w, ~Precedes(f, w)
      PROVE  HeldBack(f, S)
  <2>1. f \in S /\ f.generated /\ f.op = "upsert"
    BY <1>2, <1>5 DEF Deletes, Upserts
  <2>2. Precedes(w, f)
    BY <2>1, <1>1, <1>5, EntryOrder
  <2> QED
    BY <2>1, <2>2, <1>4 DEF HeldBack
<1> QED
  BY <1>1, <1>5, RowWinnerFrom

(* A batch leaves such a row deleted, or deletes it.                       *)
LEMMA OwnDeletedStays ==
  ASSUME NEW S, Clean(S), \A e \in S : e.generated => e.op = "upsert",
         \A e \in S : e.op # "cell",
         NEW L \in SUBSET S, NEW row, NEW fixed,
         OwnDeleted(L) => row = Absent, OwnDeleted(S)
  PROVE  RowAfter(row, S, S \ L, fixed) = Absent
<1>1. PICK w \in Deletes(Newest(Own(S))) : TRUE
  BY DEF OwnDeleted
<1>2. RowWinner(S) = {w} /\ w \in S /\ w.op = "delete" /\ ~w.generated
  BY OwnDeleteWins DEF Deletes, Newest, Own
<1>3. CASE w \in L
  <2>1. w \in Deletes(Newest(Own(L)))
    BY <1>2, <1>3 DEF Deletes, Newest, Own
  <2>2. row = Absent
    BY <2>1 DEF OwnDeleted
  <2>3. \A e \in S \ L : ~Applied(e, S, fixed)
    BY <1>2, <1>3 DEF Applied
  <2> QED
    BY <2>2, <2>3 DEF RowAfter
<1>4. CASE w \notin L
  <2>1. w \in Deleted(S) /\ w \in S \ L /\ Applied(w, S, fixed)
    BY <1>2, <1>4 DEF Deleted, Deletes, Applied
  <2> QED
    BY <2>1 DEF RowAfter
<1> QED
  BY <1>3, <1>4

(* Where a late delete x does not decide, what does is later than it; and  *)
(* decided before, unless x holds back what a template made since.         *)
LEMMA DeleteAgree ==
  ASSUME NEW T, NEW x, Clean(T \cup {x}), x.op = "delete",
         \A e \in T : e.generated => e.op = "upsert",
         NEW w \in RowWinner(T \cup {x}), w \in T, w # x
  PROVE  /\ Precedes(x, w)
         /\ \/ Agree(T, T \cup {x})
            \/ /\ w.op = "upsert" /\ ~w.generated
               /\ \E f \in T : f.op = "upsert" /\ f.generated /\ Precedes(w, f)
<1> DEFINE U == T \cup {x}
<1>c. Clean(T) /\ Clean(U)
  BY DEF Clean
<1>w. /\ RowWinner(U) = {w} /\ w \in Deletes(U) \cup Upserts(U) /\ ~HeldBack(w, U)
      /\ \A f \in Deletes(U) \cup Upserts(U) : HeldBack(f, U) \/ f = w \/ Precedes(f, w)
  BY <1>c, RowWinnerIs
<1>1. x \in Deletes(U) /\ \A f \in Deletes(U) : f = w \/ Precedes(f, w)
  BY <1>w DEF Deletes, HeldBack
<1>2. Precedes(x, w)
  BY <1>1
<1>3. RowWinner(T) = {w} => Agree(T, U)
  <2>1. SUFFICES ASSUME RowWinner(T) = {w} PROVE Agree(T, U)
    OBVIOUS
  <2>2. Deleted(T) = Deleted(U) /\ BaseUpsert(T) = BaseUpsert(U)
    BY <2>1, <1>w DEF Deleted, BaseUpsert
  <2>3. \A c : Cells(T, c) = Cells(U, c)
    BY DEF Cells
  <2>4. ASSUME NEW c PROVE CellWinner(T, c) = CellWinner(U, c)
    <3> HIDE DEF U
    <3>1. {e \in Cells(T, c) : \A u \in BaseUpsert(T) : Precedes(u, e)}
            = {e \in Cells(U, c) : \A u \in BaseUpsert(U) : Precedes(u, e)}
      <4>1. BaseUpsert(T) = BaseUpsert(U) /\ Cells(T, c) = Cells(U, c)
        BY <2>2, <2>3
      <4> QED
        BY <4>1
    <3>2. Deleted(T) = Deleted(U)
      BY <2>2
    <3> QED
      BY <3>1, <3>2 DEF CellWinner
  <2> HIDE DEF U
  <2> QED
    BY <2>1, <2>4, <1>w DEF Agree
<1>4. CASE w.op = "delete"
  <2>1. RowWinner(T) = {w}
    BY <1>c, <1>4, DeleteDecides
  <2> QED
    BY <2>1, <1>2, <1>3
<1>5. CASE w.op # "delete"
  <2>1. w.op = "upsert" /\ w \in Upserts(T)
    BY <1>5, <1>w DEF Deletes, Upserts
  <2>2. ~w.generated
    <3>1. PICK v \in Newest(Deletes(U)) : TRUE
      <4>1. Deletes(U) \in SUBSET U /\ Deletes(U) # {}
        BY <1>1 DEF Deletes
      <4> HIDE DEF U
      <4> QED
        BY <4>1, <1>c, NewestExists
    <3>2. v \in Deletes(U) /\ v # w
      BY <3>1, <1>5 DEF Newest, Deletes
    <3>3. Precedes(v, w)
      BY <3>2, <1>1
    <3> QED
      BY <3>1, <3>3, <2>1, <1>w DEF HeldBack
  <2>3. ASSUME \A f \in T : ~(f.op = "upsert" /\ f.generated /\ Precedes(w, f))
        PROVE  RowWinner(T) = {w}
    <3>1. ~HeldBack(w, T)
      BY <2>2 DEF HeldBack
    <3>2. ASSUME NEW f \in Deletes(T) \cup Upserts(T), f # w, ~Precedes(f, w)
          PROVE  FALSE
      <4>1. f \in T /\ f \in Deletes(U) \cup Upserts(U)
        BY DEF Deletes, Upserts
      <4>2. HeldBack(f, U)
        BY <4>1, <3>2, <1>w
      <4>3. f.op = "upsert" /\ f.generated
        BY <4>2 DEF HeldBack
      <4>4. Precedes(w, f)
        BY <4>1, <3>2, <1>c, EntryOrder
      <4> QED
        BY <4>1, <4>3, <4>4, <2>3
    <3> QED
      BY <3>1, <3>2, <2>1, <1>c, RowWinnerFrom
  <2> QED
    BY <2>1, <2>2, <2>3, <1>2, <1>3
<1> QED
  BY <1>4, <1>5

(* A merged row shows no stamp later than those of the row and the entries. *)
LEMMA MergedCovered ==
  ASSUME NEW S, Clean(S), NEW remote, NEW fixed, NEW row, NEW N \in Nat,
         \A e \in S : e.key.time <= N, NEW c \in Column, row[c].time <= N
  PROVE  RowAfter(row, S, remote, fixed)[c].time <= N
<1>1. Values(S)[c].time <= N
  BY ShownIs DEF Unset
<1>2. Absent[c].time <= N
  BY DEF Absent
<1> HIDE DEF Values
<1>3. CASE RowAfter(row, S, remote, fixed) \in {row, Absent, Values(S)}
  BY <1>1, <1>2, <1>3
<1>4. CASE RowAfter(row, S, remote, fixed)
             = [b \in Column |-> IF CellWinner(S, b) \cap remote # {} THEN Values(S)[b] ELSE row[b]]
  BY <1>1, <1>4
<1> QED
  BY <1>3, <1>4 DEF RowAfter

-----------------------------------------------------------------------------
(* Logs                                                                    *)

(* What makes the entries of a set of records clean. *)
CleanLog(E) ==
  /\ E \subseteq Record
  /\ \A x \in E : Time(x) \in 1..MaxTime /\ Origin(x) \in Device
  /\ \A x, y \in E : x.entry.key = y.entry.key => x = y

(* What such records say about a row is clean. *)
LEMMA CleanAbout ==
  ASSUME NEW E, CleanLog(E), NEW r
  PROVE  Clean(About(E, r))
BY DEF CleanLog, Clean, About, Record, Time, Origin

(* The devices and rows of a behaviour, and the types of its parts. *)
LEMMA WorldTypes ==
  ASSUME TypeOK
  PROVE  /\ world.devices \subseteq Device /\ world.devices \subseteq Nat /\ world.rows \subseteq Row
         /\ Everything \subseteq Record
         /\ \A d \in world.devices : /\ log[d] \subseteq Record /\ log[d] \subseteq Everything
                                    /\ clock[d] \in 0..MaxTime /\ clock[d] \in Nat
<1>1. world \in [devices : SUBSET Device, rows : SUBSET Row, changes : Nat]
  BY ReplicaAssumption DEF TypeOK
<1>2. world.devices \subseteq Device /\ world.devices \subseteq Nat /\ world.rows \subseteq Row
  BY <1>1, ReplicaAssumption
<1>3. \A d \in world.devices : /\ log[d] \subseteq Record
                              /\ clock[d] \in 0..MaxTime /\ clock[d] \in Nat
  BY ReplicaAssumption DEF TypeOK
<1>4. \A d \in world.devices : log[d] \subseteq Everything
  BY DEF Everything
<1>5. Everything \subseteq Record
  BY <1>3 DEF Everything
<1> QED
  BY <1>2, <1>3, <1>4, <1>5

(* Everything is clean. *)
LEMMA EverythingClean ==
  ASSUME TypeOK, LogInv
  PROVE  CleanLog(Everything)
<1>1. \A x \in Everything : Time(x) \in 1..MaxTime /\ Origin(x) \in Device
  BY WorldTypes DEF LogInv, Stamped, Everything
<1> QED
  BY <1>1, WorldTypes DEF LogInv, KeysUnique, CleanLog

(* A part of clean records is clean. *)
LEMMA CleanPart ==
  ASSUME NEW E, CleanLog(E), NEW F \in SUBSET E
  PROVE  CleanLog(F)
BY DEF CleanLog

(* Every entry is in the log of the device that made it. *)
LEMMA OwnComplete ==
  ASSUME TypeOK, LogInv, NEW x \in Everything
  PROVE  Origin(x) \in world.devices /\ x \in log[Origin(x)] /\ Time(x) \in 1..MaxTime
BY DEF LogInv, Stamped, Everything

(* A batch and the log it goes to are all that the two devices have.       *)
LEMMA BatchIsEnough ==
  ASSUME TypeOK, LogInv, NEW from \in world.devices, NEW to \in world.devices,
         NEW batch \in Batches(from, to)
  PROVE  batch \subseteq log[from] /\ log[to] \cup batch = log[to] \cup log[from]
<1>1. CASE batch = log[from]
  BY <1>1
<1>2. CASE batch = Missing(log[from], log[to])
  <2>1. batch \subseteq log[from]
    BY <1>2 DEF Missing
  <2>2. ASSUME NEW x \in log[from], x \notin batch
        PROVE  x \in log[to]
    <3> DEFINE own == {y \in log[to] : y.entry.key.device = Origin(x)}
    <3>1. Time(x) \in 1..MaxTime /\ ~(Time(x) > Held(log[to], Origin(x)))
      BY <2>2, <1>2 DEF Missing, LogInv, Stamped, Origin, Time
    <3>2. TimesIn(own) \in SUBSET (0..MaxTime)
      BY ReplicaAssumption DEF TimesIn, LogInv, Stamped, Time
    <3>3. /\ Held(log[to], Origin(x)) = Largest(TimesIn(own))
          /\ Largest(TimesIn(own)) \in 0..MaxTime
          /\ TimesIn(own) # {} => Largest(TimesIn(own)) \in TimesIn(own)
      BY <3>2, ReplicaAssumption, LargestOf DEF Held
    <3>4. TimesIn(own) # {}
      <4>1. SUFFICES ASSUME TimesIn(own) = {} PROVE FALSE
        OBVIOUS
      <4>2. Largest(TimesIn(own)) = 0
        BY <4>1 DEF Largest
      <4> QED
        BY <4>2, <3>1, <3>3, ReplicaAssumption
    <3>5. PICK y \in log[to] : Origin(y) = Origin(x) /\ Time(y) = Held(log[to], Origin(x))
      BY <3>3, <3>4 DEF TimesIn, Origin, Time
    <3>6. Time(x) < Time(y) \/ Time(x) = Time(y)
      BY <3>1, <3>3, <3>5, ReplicaAssumption
    <3>7. CASE Time(x) < Time(y)
      BY <3>5, <3>7 DEF LogInv, PrefixPerDevice, Origin, Time
    <3>8. CASE Time(x) = Time(y)
      <4>1. x \in Record /\ y \in Record
        BY WorldTypes
      <4>2. x.entry.key = y.entry.key
        BY <4>1, <3>5, <3>8 DEF Record, Entry, Key, Origin, Time
      <4> QED
        BY <4>2, WorldTypes DEF LogInv, KeysUnique
    <3> QED
      BY <3>6, <3>7, <3>8
  <2> QED
    BY <2>1, <2>2
<1> QED
  BY <1>1, <1>2 DEF Batches

-----------------------------------------------------------------------------
(* The steps                                                               *)

(* What a handler saves with an entry e about row r, and when. *)
Saves(d, r, e, row) ==
  \/ /\ e.op = "upsert" /\ ~e.generated /\ r \notin FixedRow
     /\ row = [c \in Column |-> e.key]
  \/ /\ e.op = "delete" /\ ~e.generated /\ r \notin FixedRow
     /\ row = Absent
  \/ /\ e.op = "cell" /\ ~e.generated /\ r \in CellRow /\ e.column \in Column
     /\ disk[d][r] # Absent /\ row = [disk[d][r] EXCEPT ![e.column] = e.key]
  \/ /\ e.op = "upsert" /\ e.generated /\ r \in DerivedRow
     /\ disk[d][r] = Absent /\ Deleted(About(log[d], r)) = {}
     /\ row = [c \in Column |-> e.key]

EditOf(d, r, e, row) ==
  Change(d, r, e, row) /\ e \in Entry /\ e.key \in NewKeys(d) /\ Saves(d, r, e, row)

(* An apply, complete or not, that writes some rows and stores new entries. *)
MergeOf(from, to, batch, new, written) ==
  /\ batch \in Batches(from, to) /\ Accepted(to, batch)
  /\ new \subseteq batch \ log[to]
  /\ \A x \in batch \ log[to], y \in new : Precedes(x.entry, y.entry) => x \in new
  /\ new # {} => written = world.rows
  /\ \/ failures' = failures /\ new = batch \ log[to] /\ written = world.rows
     \/ failures < MaxFailures /\ failures' = failures + 1
  /\ clock' = [clock EXCEPT ![to] = Observed(to, batch)]
  /\ disk' = [disk EXCEPT ![to] =
                [r \in world.rows |-> IF r \in written THEN Merged(to, batch, r) ELSE @[r]]]
  /\ log' = [log EXCEPT ![to] = @ \cup new]
  /\ UNCHANGED <<world, blind>>

(* An edit of the user's, or one that apply makes for him, is such an edit. *)
LEMMA EditForms ==
  ASSUME TypeOK, NEW d \in world.devices, NEW r \in world.rows,
         \/ Add(d, r) \/ EditRow(d, r) \/ EditCell(d, r) \/ Delete(d, r)
         \/ RecurringApply(d, r) \/ Reinstate(d, r)
  PROVE  \E e, row : EditOf(d, r, e, row)
<1>k. ASSUME NEW key \in NewKeys(d)
      PROVE  /\ key \in Key
             /\ \A op \in {"upsert", "delete"}, g \in BOOLEAN : RowEntry(key, op, g) \in Entry
             /\ \A c \in Column : CellEntry(key, c) \in Entry
  <2>1. clock[d] \in Nat /\ d \in Nat
    BY WorldTypes
  <2>2. key \in Key
    BY <2>1, ReplicaAssumption DEF NewKeys, Key
  <2> QED
    BY <2>2 DEF RowEntry, CellEntry, Entry
<1>f. r \in DerivedRow \/ r \notin CellRow => r \notin FixedRow
  BY ReplicaAssumption
<1>u. ASSUME r \notin FixedRow, Upsert(d, r, FALSE)
      PROVE  \E e, row : EditOf(d, r, e, row)
  <2>1. PICK key \in NewKeys(d) :
          Change(d, r, RowEntry(key, "upsert", FALSE), [c \in Column |-> key])
    BY <1>u DEF Upsert
  <2>2. EditOf(d, r, RowEntry(key, "upsert", FALSE), [c \in Column |-> key])
    BY <1>k, <1>u, <2>1 DEF EditOf, Saves, RowEntry
  <2> QED
    BY <2>2
<1>1. CASE Add(d, r) \/ EditRow(d, r) \/ Reinstate(d, r)
  BY <1>1, <1>u, <1>f DEF Add, EditRow, Reinstate
<1>2. CASE EditCell(d, r)
  <2>1. PICK key \in NewKeys(d), c \in Column :
          Change(d, r, CellEntry(key, c), [disk[d][r] EXCEPT ![c] = key])
    BY <1>2 DEF EditCell, SetCell
  <2>2. EditOf(d, r, CellEntry(key, c), [disk[d][r] EXCEPT ![c] = key])
    BY <1>k, <1>2, <2>1 DEF EditOf, Saves, EditCell, CellEntry, RowEntry
  <2> QED
    BY <2>2
<1>3. CASE Delete(d, r)
  <2>1. PICK key \in NewKeys(d) : Change(d, r, RowEntry(key, "delete", FALSE), Absent)
    BY <1>3 DEF Delete
  <2>2. EditOf(d, r, RowEntry(key, "delete", FALSE), Absent)
    BY <1>k, <1>3, <2>1 DEF EditOf, Saves, Delete, RowEntry
  <2> QED
    BY <2>2
<1>4. CASE RecurringApply(d, r)
  <2>1. PICK key \in NewKeys(d) :
          Change(d, r, RowEntry(key, "upsert", TRUE), [c \in Column |-> key])
    BY <1>4 DEF RecurringApply, Upsert
  <2>2. EditOf(d, r, RowEntry(key, "upsert", TRUE), [c \in Column |-> key])
    BY <1>k, <1>4, <2>1 DEF EditOf, Saves, RecurringApply, GeneratedRowStaysDeleted, RowEntry
  <2> QED
    BY <2>2
<1> QED
  BY <1>1, <1>2, <1>3, <1>4

(* An apply, however far it came, is such an apply. *)
LEMMA MergeForms ==
  ASSUME TypeOK, NEW from \in world.devices, NEW to \in world.devices,
         Merge(from, to) \/ MergeFailsInFiles(from, to) \/ MergeFailsInLog(from, to)
  PROVE  \E batch, new, written : MergeOf(from, to, batch, new, written)
<1>t. /\ log = [d \in world.devices |-> log[d]] /\ DOMAIN log = world.devices
      /\ disk[to] = [r \in world.rows |-> disk[to][r]]
  BY DEF TypeOK
<1>1. CASE Merge(from, to)
  <2>1. PICK batch \in Batches(from, to) :
          /\ Accepted(to, batch)
          /\ clock' = [clock EXCEPT ![to] = Observed(to, batch)]
          /\ disk' = [disk EXCEPT ![to] = [r \in world.rows |-> Merged(to, batch, r)]]
          /\ log' = [log EXCEPT ![to] = @ \cup batch]
          /\ UNCHANGED <<failures, world, blind>>
    BY <1>1 DEF Merge
  <2>2. log[to] \cup batch = log[to] \cup (batch \ log[to])
    OBVIOUS
  <2>3. log' = [log EXCEPT ![to] = @ \cup (batch \ log[to])]
    BY <2>1, <2>2
  <2>4. disk' = [disk EXCEPT ![to] =
                  [r \in world.rows |-> IF r \in world.rows THEN Merged(to, batch, r) ELSE @[r]]]
    BY <2>1
  <2>5. MergeOf(from, to, batch, batch \ log[to], world.rows)
    BY <2>1, <2>3, <2>4 DEF MergeOf
  <2> QED
    BY <2>5
<1>2. CASE MergeFailsInFiles(from, to)
  <2>1. PICK batch \in Batches(from, to) : \E written \in SUBSET Touched(to, batch) :
          /\ Accepted(to, batch) /\ failures < MaxFailures
          /\ clock' = [clock EXCEPT ![to] = Observed(to, batch)]
          /\ disk' = [disk EXCEPT ![to] =
                        [r \in world.rows |-> IF r \in written THEN Merged(to, batch, r) ELSE @[r]]]
          /\ failures' = failures + 1
          /\ UNCHANGED <<log, world, blind>>
    BY <1>2 DEF MergeFailsInFiles
  <2>2. log' = [log EXCEPT ![to] = @ \cup {}]
    BY <1>t, <2>1
  <2>3. \E written : MergeOf(from, to, batch, {}, written)
    BY <2>1, <2>2 DEF MergeOf
  <2> QED
    BY <2>3
<1>3. CASE MergeFailsInLog(from, to)
  <2>1. PICK batch \in Batches(from, to) : \E last \in batch \ log[to] :
          /\ Accepted(to, batch) /\ failures < MaxFailures
          /\ clock' = [clock EXCEPT ![to] = Observed(to, batch)]
          /\ disk' = [disk EXCEPT ![to] = [r \in world.rows |-> Merged(to, batch, r)]]
          /\ log' = [log EXCEPT ![to] = @ \cup StoredUpTo(batch \ log[to], last)]
          /\ failures' = failures + 1
          /\ UNCHANGED <<world, blind>>
    BY <1>3 DEF MergeFailsInLog
  <2>l. PICK last \in batch \ log[to] :
          log' = [log EXCEPT ![to] = @ \cup StoredUpTo(batch \ log[to], last)]
    BY <2>1
  <2>2. disk' = [disk EXCEPT ![to] =
                  [r \in world.rows |-> IF r \in world.rows THEN Merged(to, batch, r) ELSE @[r]]]
    BY <2>1
  <2>3. \A x \in batch : x.entry.key \in Key
    <3>1. batch \subseteq log[from] /\ log[from] \subseteq Record
      BY WorldTypes DEF Batches, Missing
    <3> QED
      BY <3>1 DEF Record, Entry
  <2>4. \A x \in batch \ log[to], y \in StoredUpTo(batch \ log[to], last) :
          Precedes(x.entry, y.entry) => x \in StoredUpTo(batch \ log[to], last)
    BY <2>3, KeyOrder DEF StoredUpTo, Precedes
  <2>5. StoredUpTo(batch \ log[to], last) \subseteq batch \ log[to]
    BY DEF StoredUpTo
  <2>6. MergeOf(from, to, batch, StoredUpTo(batch \ log[to], last), world.rows)
    BY <2>1, <2>l, <2>2, <2>4, <2>5 DEF MergeOf
  <2> QED
    BY <2>6
<1> QED
  BY <1>1, <1>2, <1>3

-----------------------------------------------------------------------------
(* What an edit changes                                                    *)

New(r, e) == [row |-> r, entry |-> e]

(* The new entry is later than all of its device's log, and in no log yet. *)
LEMMA EditIsNew ==
  ASSUME TypeOK, LogInv, NEW d \in world.devices, NEW r \in world.rows, NEW e, NEW row,
         EditOf(d, r, e, row)
  PROVE  /\ New(r, e) \in Record /\ New(r, e) \notin Everything
         /\ e \in Entry /\ e.key.device = d /\ e.key.time \in 1..MaxTime /\ clock[d] < e.key.time
         /\ \A x \in log[d] : Time(x) < e.key.time /\ Precedes(x.entry, e)
<1>1. e \in Entry /\ e.key.device = d /\ e.key.time \in clock[d] + 1 .. MaxTime
  BY DEF EditOf, NewKeys
<1>2. clock[d] \in Nat /\ r \in Row
  BY WorldTypes
<1>3. e.key.time \in 1..MaxTime /\ clock[d] < e.key.time
  BY <1>1, <1>2, ReplicaAssumption
<1>4. New(r, e) \in Record
  BY <1>1, <1>2 DEF New, Record
<1>5. \A x \in log[d] : Time(x) < e.key.time
  BY <1>2, <1>3, ReplicaAssumption DEF LogInv, Stamped
<1>6. \A x \in log[d] : Precedes(x.entry, e)
  BY <1>5 DEF Precedes, KeyBefore, Time
<1>7. New(r, e) \notin Everything
  <2>1. SUFFICES ASSUME New(r, e) \in Everything PROVE FALSE
    OBVIOUS
  <2>2. New(r, e) \in log[d] /\ Time(New(r, e)) \in Nat
    BY <2>1, <1>1, <1>3, OwnComplete DEF New, Origin, Time
  <2> QED
    BY <2>2, <1>5 DEF New, Time
<1> QED
  BY <1>1, <1>3, <1>4, <1>5, <1>6, <1>7

(* One log, one clock and one row change. *)
LEMMA EditEffect ==
  ASSUME TypeOK, LogInv, NEW d \in world.devices, NEW r \in world.rows, NEW e, NEW row,
         EditOf(d, r, e, row)
  PROVE  /\ world' = world /\ failures' = failures /\ blind' = blind
         /\ Everything' = Everything \cup {New(r, e)}
         /\ log'[d] = log[d] \cup {New(r, e)} /\ clock'[d] = e.key.time /\ disk'[d][r] = row
         /\ \A p \in world.devices : p # d => log'[p] = log[p] /\ clock'[p] = clock[p]
         /\ \A p \in world.devices, q \in world.rows :
              p # d \/ q # r => disk'[p][q] = disk[p][q]
<1>1. /\ UNCHANGED <<failures, world, blind>>
      /\ clock' = [clock EXCEPT ![d] = e.key.time]
      /\ log' = [log EXCEPT ![d] = @ \cup {New(r, e)}]
      /\ disk' = [disk EXCEPT ![d][r] = row]
  BY DEF EditOf, Change, New
<1>2. /\ log'[d] = log[d] \cup {New(r, e)} /\ clock'[d] = e.key.time
      /\ \A p \in world.devices : p # d => log'[p] = log[p] /\ clock'[p] = clock[p]
  BY <1>1 DEF TypeOK
<1>3. /\ disk'[d][r] = row
      /\ \A p \in world.devices, q \in world.rows :
           p # d \/ q # r => disk'[p][q] = disk[p][q]
  BY <1>1 DEF TypeOK
<1>4. Everything' = Everything \cup {New(r, e)}
  <2>1. Everything' = UNION {log'[p] : p \in world.devices}
    BY <1>1 DEF Everything
  <2>2. \A y : y \in Everything' <=> \E p \in world.devices : y \in log'[p]
    BY <2>1
  <2>3. \A y : y \in Everything <=> \E p \in world.devices : y \in log[p]
    BY DEF Everything
  <2> QED
    BY <2>2, <2>3, <1>2
<1> QED
  BY <1>1, <1>2, <1>3, <1>4

(* What is known of its row after an edit... *)
LEMMA AboutNew ==
  ASSUME NEW E, NEW r, NEW e
  PROVE  About(E \cup {New(r, e)}, r) = About(E, r) \cup {e}
<1>1. New(r, e).row = r /\ New(r, e).entry = e
  BY DEF New
<1> QED
  BY <1>1 DEF About

(* ...and of any other. *)
LEMMA AboutOther ==
  ASSUME NEW E, NEW r, NEW e, NEW q, q # r
  PROVE  About(E \cup {New(r, e)}, q) = About(E, q)
<1>1. New(r, e).row = r /\ New(r, e).entry = e
  BY DEF New
<1> QED
  BY <1>1 DEF About

(* The saved row is one that is there, or none. *)
LEMMA SavedTyped ==
  ASSUME TypeOK, LogInv, NEW d \in world.devices, NEW r \in world.rows, NEW e, NEW row,
         EditOf(d, r, e, row)
  PROVE  row \in Content \cup {Absent}
<1>1. e.key \in Key
  BY EditIsNew DEF Entry
<1>2. disk[d][r] \in Content \cup {Absent}
  BY DEF TypeOK
<1>3. [c \in Column |-> e.key] \in Content
  BY <1>1 DEF Content
<1>4. disk[d][r] \in Content /\ e.column \in Column =>
        [disk[d][r] EXCEPT ![e.column] = e.key] \in Content
  BY <1>1 DEF Content
<1> QED
  BY <1>2, <1>3, <1>4 DEF EditOf, Saves

(* The types hold after an edit. *)
LEMMA EditTyped ==
  ASSUME TypeOK, LogInv, NEW d \in world.devices, NEW r \in world.rows, NEW e, NEW row,
         EditOf(d, r, e, row)
  PROVE  TypeOK'
<1>1. row \in Content \cup {Absent} /\ New(r, e) \in Record /\ e.key.time \in 0..MaxTime
  BY SavedTyped, EditIsNew
<1>2. /\ UNCHANGED <<failures, world, blind>>
      /\ clock' = [clock EXCEPT ![d] = e.key.time]
      /\ log' = [log EXCEPT ![d] = @ \cup {New(r, e)}]
      /\ disk' = [disk EXCEPT ![d][r] = row]
  BY DEF EditOf, Change, New
<1>3. log' \in [world.devices -> SUBSET Record]
  BY <1>1, <1>2 DEF TypeOK
<1>4. clock' \in [world.devices -> 0..MaxTime]
  BY <1>1, <1>2 DEF TypeOK
<1>5. disk' \in [world.devices -> [world.rows -> Content \cup {Absent}]]
  <2> HIDE DEF Content, Absent
  <2> QED
    BY <1>1, <1>2 DEF TypeOK
<1>6. failures' \in 0..MaxFailures /\ world' \in World /\ blind' \subseteq world'.devices
  BY <1>2 DEF TypeOK
<1>7. world' = world
  BY <1>2
<1> HIDE DEF Content, Absent
<1> QED
  BY <1>3, <1>4, <1>5, <1>6, <1>7 DEF TypeOK

(* The logs are what they should be after an edit. *)
LEMMA EditLogs ==
  ASSUME TypeOK, LogInv, NEW d \in world.devices, NEW r \in world.rows, NEW e, NEW row,
         EditOf(d, r, e, row)
  PROVE  LogInv'
<1> DEFINE x == New(r, e)
<1>e. /\ world' = world /\ Everything' = Everything \cup {x}
      /\ log'[d] = log[d] \cup {x} /\ clock'[d] = e.key.time
      /\ \A p \in world.devices : p # d => log'[p] = log[p] /\ clock'[p] = clock[p]
  BY EditEffect
<1>n. /\ x \in Record /\ x \notin Everything
      /\ e.key.time \in 1..MaxTime /\ clock[d] < e.key.time
      /\ \A y \in log[d] : Time(y) < e.key.time
  BY EditIsNew
<1>x. x.row = r /\ x.entry = e /\ Origin(x) = d /\ Time(x) = e.key.time
  BY EditIsNew DEF New, Origin, Time
<1>o. \A y \in Everything : /\ Origin(y) \in world.devices /\ y \in log[Origin(y)]
                           /\ Time(y) \in 1..MaxTime
  BY OwnComplete
<1>m. \A p \in world.devices : log[p] \subseteq Everything /\ clock[p] \in Nat
  BY WorldTypes
<1> HIDE DEF x
<1>1. Kinds'
  <2>1. /\ e.generated => e.op = "upsert" /\ r \in DerivedRow
        /\ e.op = "cell" => r \in CellRow /\ e.column \in Column
        /\ e.op # "cell" => r \notin FixedRow
    BY ReplicaAssumption DEF EditOf, Saves
  <2> QED
    BY <2>1, <1>e, <1>x DEF LogInv, Kinds
<1>2. Stamped'
  <2>1. SUFFICES ASSUME NEW p \in world.devices, NEW y \in log'[p]
                 PROVE  /\ Time(y) \in 1..MaxTime /\ Time(y) <= clock'[p]
                        /\ Origin(y) \in world.devices /\ y \in log'[Origin(y)]
    BY <1>e DEF Stamped, Time, Origin
  <2>2. CASE y = x
    BY <2>2, <2>1, <1>e, <1>n, <1>x, <1>m, <1>o, ReplicaAssumption
  <2>3. CASE y # x
    <3>1. y \in log[p]
      BY <2>1, <2>3, <1>e
    <3>2. Time(y) \in 1..MaxTime /\ Time(y) <= clock[p] /\ Origin(y) \in world.devices
          /\ y \in log[Origin(y)]
      BY <3>1 DEF LogInv, Stamped
    <3>3. clock[p] <= clock'[p]
      BY <1>e, <1>n, <1>m, ReplicaAssumption
    <3>4. clock'[p] \in Nat
      BY <1>e, <1>n, <1>m, ReplicaAssumption
    <3>5. Time(y) <= clock'[p]
      BY <3>2, <3>3, <3>4, <2>1, <1>e, <1>m, ReplicaAssumption
    <3>6. y \in log'[Origin(y)]
      BY <3>2, <1>e
    <3> QED
      BY <3>2, <3>5, <3>6
  <2> QED
    BY <2>2, <2>3
<1>3. KeysUnique'
  <2>1. SUFFICES ASSUME NEW y \in Everything, y.entry.key = e.key PROVE FALSE
    BY <1>e, <1>x DEF LogInv, KeysUnique
  <2>2. Origin(y) = d /\ Time(y) = e.key.time
    BY <2>1, <1>x DEF Origin, Time
  <2> QED
    BY <2>2, <1>o, <1>n, ReplicaAssumption
<1>4. PrefixPerDevice'
  <2>1. SUFFICES ASSUME NEW p \in world.devices, NEW q \in world.devices,
                        NEW y \in log'[p], NEW z \in log'[q],
                        Origin(y) = Origin(z), Time(y) < Time(z)
                 PROVE  y \in log'[q]
    BY <1>e DEF PrefixPerDevice, Origin, Time
  <2>2. CASE z = x
    BY <2>1, <2>2, <1>e, <1>x, <1>n, <1>o, <1>m
  <2>3. CASE y = x /\ z # x
    <3>1. z \in Everything
      BY <2>1, <2>3, <1>e, <1>m
    <3>2. z \in log[d] /\ Time(z) \in 1..MaxTime /\ Time(x) \in 1..MaxTime
      <4>1. Origin(z) = d
        BY <2>1, <2>3, <1>x
      <4> QED
        BY <4>1, <3>1, <1>o, <1>x, <1>n
    <3>3. Time(x) < Time(z) /\ Time(z) < Time(x)
      BY <3>2, <2>1, <2>3, <1>x, <1>n
    <3> QED
      BY <3>2, <3>3, ReplicaAssumption
  <2>4. CASE y # x /\ z # x
    <3>1. y \in log[p] /\ z \in log[q]
      BY <2>1, <2>4, <1>e
    <3> QED
      BY <3>1, <2>1, <1>e DEF LogInv, PrefixPerDevice, Origin, Time
  <2> QED
    BY <2>2, <2>3, <2>4
<1> QED
  BY <1>1, <1>2, <1>3, <1>4 DEF LogInv

(* The new entry among the others about its row. *)
LEMMA EditRows ==
  ASSUME TypeOK, LogInv, NEW d \in world.devices, NEW r \in world.rows, NEW e, NEW row,
         EditOf(d, r, e, row)
  PROVE  /\ Clean(About(Everything, r) \cup {e})
         /\ \A p \in world.devices, q \in world.rows :
              About(log[p], q) \subseteq About(Everything, q)
         /\ \A f \in About(log[d], r) : Precedes(f, e)
<1> DEFINE x == New(r, e)
<1>1. CleanLog(Everything \cup {x})
  <2>1. CleanLog(Everything)
    BY EverythingClean
  <2>2. /\ x \in Record /\ x.entry = e /\ Origin(x) = d /\ Time(x) \in 1..MaxTime
        /\ \A y \in log[d] : Time(y) < e.key.time
    BY EditIsNew DEF New, Origin, Time
  <2>3. d \in Device
    BY WorldTypes
  <2>4. ASSUME NEW y \in Everything, y.entry.key = e.key PROVE FALSE
    <3>1. Origin(y) = d /\ Time(y) = e.key.time
      BY <2>2, <2>4 DEF Origin, Time
    <3>2. y \in log[d] /\ Time(y) \in 1..MaxTime
      BY <3>1, OwnComplete
    <3> QED
      BY <3>1, <3>2, <2>2, ReplicaAssumption
  <2> HIDE DEF x
  <2> QED
    BY <2>1, <2>2, <2>3, <2>4 DEF CleanLog
<1>2. About(Everything \cup {x}, r) = About(Everything, r) \cup {e}
  BY AboutNew
<1>3. Clean(About(Everything, r) \cup {e})
  <2> HIDE DEF x
  <2> QED
    BY <1>1, <1>2, CleanAbout
<1>4. \A p \in world.devices, q \in world.rows : About(log[p], q) \subseteq About(Everything, q)
  BY DEF About, Everything
<1>5. \A f \in About(log[d], r) : Precedes(f, e)
  BY EditIsNew DEF About
<1> QED
  BY <1>3, <1>4, <1>5

(* What is known of that row after the edit... *)
LEMMA EditedRow ==
  ASSUME TypeOK, LogInv, NEW d \in world.devices, NEW r \in world.rows, NEW e, NEW row,
         EditOf(d, r, e, row)
  PROVE  /\ About(Everything', r) = About(Everything, r) \cup {e}
         /\ About(log'[d], r) = About(log[d], r) \cup {e}
BY EditEffect, AboutNew

(* ...of any other... *)
LEMMA OtherRow ==
  ASSUME TypeOK, LogInv, NEW d \in world.devices, NEW r \in world.rows, NEW e, NEW row,
         EditOf(d, r, e, row), NEW q \in world.rows, q # r
  PROVE  About(Everything', q) = About(Everything, q)
<1>1. Everything' = Everything \cup {New(r, e)}
  BY EditEffect
<1> QED
  BY <1>1, AboutOther

(* ...and by any other log. *)
LEMMA OtherLog ==
  ASSUME TypeOK, LogInv, NEW d \in world.devices, NEW r \in world.rows, NEW e, NEW row,
         EditOf(d, r, e, row), NEW p \in world.devices, NEW q \in world.rows, p # d \/ q # r
  PROVE  About(log'[p], q) = About(log[p], q)
<1>1. CASE p # d
  BY <1>1, EditEffect
<1>2. CASE p = d /\ q # r
  <2>1. log'[d] = log[d] \cup {New(r, e)}
    BY EditEffect
  <2> QED
    BY <2>1, <1>2, AboutOther
<1> QED
  BY <1>1, <1>2

(* Entries about a row that is not derived are plain. *)
LEMMA PlainRow ==
  ASSUME LogInv, NEW r, r \notin DerivedRow
  PROVE  Plain(About(Everything, r))
BY DEF LogInv, Kinds, Plain, About

(* Entries about a row are of the kinds the row has. *)
LEMMA RowKinds ==
  ASSUME LogInv, NEW r, NEW e \in About(Everything, r)
  PROVE  /\ e.generated => e.op = "upsert"
         /\ e.op = "cell" => r \in CellRow /\ e.column \in Column
BY DEF LogInv, Kinds, About

(* The saved row shows the new entry, among any entries T.                 *)
LEMMA SavedShows ==
  ASSUME TypeOK, LogInv, NEW d \in world.devices, NEW r \in world.rows, NEW e, NEW row,
         EditOf(d, r, e, row),
         NEW T, Clean(T \cup {e}), About(log[d], r) \subseteq T,
         Shows(disk[d][r], About(log[d], r), T, r \in FixedRow)
  PROVE  Shows(row, About(log[d], r) \cup {e}, T \cup {e}, r \in FixedRow)
<1> DEFINE L == About(log[d], r)
<1>1. \A f \in L : Precedes(f, e)
  BY EditRows
<1>2. disk[d][r] \in Content \cup {Absent}
  BY DEF TypeOK
<1>3. Saves(d, r, e, row)
  BY DEF EditOf
<1> HIDE DEF L
<1>4. L \subseteq T /\ Shows(disk[d][r], L, T, r \in FixedRow)
  BY DEF L
<1>5. CASE e.op = "upsert" /\ ~e.generated /\ row = [c \in Column |-> e.key]
  <2>1. Shows(row, L \cup {e}, T \cup {e}, r \in FixedRow)
    BY <1>1, <1>4, <1>5, UpsertShows
  <2> QED
    BY <2>1 DEF L
<1>6. CASE e.op = "delete" /\ row = Absent
  <2>1. Shows(row, L \cup {e}, T \cup {e}, r \in FixedRow)
    BY <1>1, <1>4, <1>6, DeleteShows
  <2> QED
    BY <2>1 DEF L
<1>7. CASE e.op = "cell" /\ e.column \in Column /\ disk[d][r] # Absent
           /\ row = [disk[d][r] EXCEPT ![e.column] = e.key]
  <2>1. Shows(row, L \cup {e}, T \cup {e}, r \in FixedRow)
    BY <1>1, <1>2, <1>4, <1>7, CellShows
  <2> QED
    BY <2>1 DEF L
<1>8. CASE e.op = "upsert" /\ disk[d][r] = Absent /\ Deleted(About(log[d], r)) = {}
           /\ row = [c \in Column |-> e.key]
  <2>1. Deleted(L) = {} /\ Shows(Absent, L, T, r \in FixedRow)
    BY <1>4, <1>8 DEF L
  <2>2. Shows(row, L \cup {e}, T \cup {e}, r \in FixedRow)
    BY <1>1, <1>4, <1>8, <2>1, GeneratedShows
  <2> QED
    BY <2>2 DEF L
<1> QED
  BY <1>3, <1>5, <1>6, <1>7, <1>8 DEF Saves

(* A delete of a derived row, on a hub with one phone, changes nothing of  *)
(* what the other device owes to its log: an upsert of that device's user  *)
(* that the delete comes before was made over nothing of the deleter's.    *)
LEMMA DeleteElsewhere ==
  ASSUME TypeOK, LogInv, GeneratedAfterPeer, OnePhone,
         NEW d \in world.devices, NEW r \in world.rows, NEW e, NEW row,
         EditOf(d, r, e, row), e.op = "delete",
         NEW p \in world.devices, p # d,
         Shows(disk[p][r], About(log[p], r), About(Everything, r), r \in FixedRow)
  PROVE  Shows(disk[p][r], About(log[p], r), About(Everything, r) \cup {e}, r \in FixedRow)
<1> DEFINE T == About(Everything, r)
           L == About(log[p], r)
<1>1. Clean(T \cup {e}) /\ L \subseteq T
  BY EditRows
<1>2. \A f \in T : f.generated => f.op = "upsert"
  BY RowKinds
<1>3. Shows(disk[p][r], L, T, r \in FixedRow)
  OBVIOUS
<1>k. \A f \in T : \E x \in Everything : x.row = r /\ x.entry = f
  BY DEF About
<1>l. \A f \in L : \E x \in log[p] : x.row = r /\ x.entry = f
  BY DEF About
<1>n. /\ \A x \in log[d] : Precedes(x.entry, e)
      /\ \A x \in Everything : x.entry # e \/ x.row # r
  <2>1. \A x \in Everything : x.entry # e \/ x.row # r
    <3>1. SUFFICES ASSUME NEW x \in Everything, x.entry = e, x.row = r PROVE FALSE
      OBVIOUS
    <3>2. x \in Record
      BY WorldTypes
    <3>3. x = New(r, e)
      BY <3>1, <3>2 DEF Record, New
    <3> QED
      BY <3>3, EditIsNew
  <2> QED
    BY <2>1, EditIsNew
<1>d. \A x \in Everything : Origin(x) = d \/ Origin(x) = p
  <2>1. world.devices \subseteq {d, p}
    BY DEF OnePhone
  <2> QED
    BY <2>1, OwnComplete
<1> HIDE DEF T, L
<1>4. SUFFICES ASSUME RowWinner(T \cup {e}) \subseteq L, ~Agree(T, T \cup {e}) PROVE FALSE
  <2>1. CASE Agree(T, T \cup {e})
    <3>1. Shows(disk[p][r], L, T \cup {e}, r \in FixedRow)
      BY <2>1, <1>1, <1>3, ShowsAmongMore
    <3> QED
      BY <3>1 DEF T, L
  <2>2. CASE ~(RowWinner(T \cup {e}) \subseteq L)
    <3>1. Shows(disk[p][r], L, T \cup {e}, r \in FixedRow)
      BY <2>2 DEF Shows
    <3> QED
      BY <3>1 DEF T, L
  <2> QED
    BY <1>4, <2>1, <2>2
<1>5. PICK w \in RowWinner(T \cup {e}) : TRUE
  <2>1. e \in Deletes(T \cup {e})
    BY DEF Deletes
  <2> QED
    BY <2>1, <1>1, RowWinnerIs
<1>6. w \in L /\ w \in T /\ w # e
  <2>1. w \in L /\ w \in T
    BY <1>1, <1>4, <1>5
  <2> QED
    BY <2>1, <1>k, <1>n
<1>7. /\ Precedes(e, w) /\ w.op = "upsert" /\ ~w.generated
      /\ \E f \in T : f.op = "upsert" /\ f.generated /\ Precedes(w, f)
  BY <1>1, <1>2, <1>4, <1>5, <1>6, DeleteAgree
<1>8. PICK f \in T : f.generated /\ Precedes(w, f)
  BY <1>7
<1>9. PICK u \in log[p] : u.row = r /\ u.entry = w
  BY <1>6, <1>l
<1>10. PICK g \in Everything : g.row = r /\ g.entry = f
  BY <1>8, <1>k
(* Both come after the delete, so neither is known to the deleter. *)
<1>11. \A x \in Everything : x.row = r /\ Precedes(e, x.entry) => x \notin log[d] /\ Origin(x) = p
  <2>1. SUFFICES ASSUME NEW x \in Everything, x.row = r, Precedes(e, x.entry), x \in log[d]
                 PROVE  FALSE
    BY <1>d, OwnComplete
  <2>2. Precedes(x.entry, e) /\ x.entry \in T
    BY <2>1, <1>n DEF T, About
  <2> QED
    BY <2>1, <2>2, <1>1, EntryOrder
<1>12. Precedes(e, f)
  BY <1>1, <1>6, <1>7, <1>8, EntryOrder
<1>13. u \in Everything /\ Origin(u) = p /\ Origin(g) = p /\ g \in log[p]
  BY <1>7, <1>9, <1>10, <1>11, <1>12, WorldTypes, OwnComplete
<1>14. Time(u) < Time(g)
  <2>1. p \in Nat
    BY WorldTypes
  <2> QED
    BY <2>1, <1>8, <1>9, <1>10, <1>13 DEF Precedes, KeyBefore, Time, Origin
<1>15. PICK v \in Everything : Origin(v) # p /\ Precedes(w, v.entry)
  BY <1>7, <1>8, <1>9, <1>10, <1>13, <1>14 DEF GeneratedAfterPeer
<1>16. v \in log[d]
  BY <1>15, <1>d, OwnComplete
<1>17. Precedes(v.entry, e)
  BY <1>16, <1>n
<1>18. w.key \in Key /\ v.entry.key \in Key /\ e.key \in Key
  <2>1. v \in Record /\ u \in Record
    BY <1>13, <1>15, WorldTypes
  <2> QED
    BY <2>1, <1>9, EditIsNew DEF Record, Entry
<1> QED
  BY <1>7, <1>15, <1>17, <1>18, KeyOrder DEF Precedes

(* After an edit every file shows what decides, if its log has that. *)
LEMMA EditNewest ==
  ASSUME TypeOK, LogInv, NewestOnDisk, GeneratedAfterPeer,
         NEW d \in world.devices, NEW r \in world.rows, NEW e, NEW row, EditOf(d, r, e, row)
  PROVE  NewestOnDisk'
<1>w. world' = world
  BY EditEffect
<1>n. log'[d] = log[d] \cup {New(r, e)}
  BY EditEffect
<1>l. About(log'[d], r) = About(log[d], r) \cup {e}
  BY <1>n, AboutNew
<1>v. Everything' = Everything \cup {New(r, e)}
  BY EditEffect
<1>e. About(Everything', r) = About(Everything, r) \cup {e}
  BY <1>v, AboutNew
<1>1. SUFFICES ASSUME NEW p \in world.devices, NEW q \in world.rows, Convergent(q)
               PROVE  Shows(disk'[p][q], About(log'[p], q), About(Everything', q), q \in FixedRow)
  BY <1>w DEF NewestOnDisk, Convergent, OnePhone
<1>2. Shows(disk[p][q], About(log[p], q), About(Everything, q), q \in FixedRow)
  BY <1>1 DEF NewestOnDisk
<1>3. CASE q # r
  <2>1. About(Everything', q) = About(Everything, q) /\ About(log'[p], q) = About(log[p], q)
    BY <1>3, OtherRow, OtherLog
  <2>2. disk'[p][q] = disk[p][q]
    BY <1>3, EditEffect
  <2> QED
    BY <2>1, <2>2, <1>2
<1>4. CASE q = r /\ p = d
  <2>1. Clean(About(Everything, r) \cup {e}) /\ About(log[d], r) \subseteq About(Everything, r)
    BY EditRows
  <2>2. Shows(disk[d][r], About(log[d], r), About(Everything, r), r \in FixedRow)
    BY <1>2, <1>4
  <2>3. Shows(row, About(log[d], r) \cup {e}, About(Everything, r) \cup {e}, r \in FixedRow)
    BY <2>1, <2>2, SavedShows
  <2>4. /\ disk'[d][r] = row
        /\ About(Everything', r) = About(Everything, r) \cup {e}
        /\ About(log'[d], r) = About(log[d], r) \cup {e}
    <3>1. disk'[d][r] = row
      BY EditEffect
    <3> QED
      BY <3>1, <1>l, <1>e
  <2> QED
    BY <2>3, <2>4, <1>4
<1>5. CASE q = r /\ p # d
  <2> DEFINE T == About(Everything, r)
             U == T \cup {e}
             L == About(log[p], r)
  <2>1. Clean(U) /\ L \in SUBSET T
    BY EditRows
  <2>2. Shows(disk[p][r], L, T, r \in FixedRow)
    BY <1>2, <1>5
  <2>3. Shows(disk[p][r], L, U, r \in FixedRow)
    <3>1. CASE r \notin DerivedRow
      <4>1. Plain(T) /\ ~e.generated
        BY <3>1, PlainRow DEF EditOf, Saves
      <4>2. Plain(U)
        BY <4>1 DEF Plain
      <4>3. T \in SUBSET U
        OBVIOUS
      <4> HIDE DEF T, U, L
      <4>4. Agree(T, U)
        BY <4>2, <4>3, <2>1, PlainAgree
      <4> QED
        BY <4>4, <2>1, <2>2, ShowsAmongMore
    <3>2. CASE r \in DerivedRow /\ e.op = "upsert"
      <4> HIDE DEF T, L
      <4>1. Agree(T, U)
        BY <3>2, <2>1, UpsertAgree
      <4> HIDE DEF U
      <4> QED
        BY <4>1, <2>1, <2>2, ShowsAmongMore
    <3>3. CASE r \in DerivedRow /\ e.op = "delete"
      <4>1. OnePhone
        BY <3>3, <1>1, <1>5 DEF Convergent
      <4> QED
        BY <4>1, <3>3, <2>2, <1>5, DeleteElsewhere
    <3> QED
      BY <3>1, <3>2, <3>3, ReplicaAssumption DEF EditOf, Saves
  <2>4. disk'[p][r] = disk[p][r] /\ About(Everything', r) = U /\ About(log'[p], r) = L
    BY <1>5, EditEffect, EditedRow, OtherLog
  <2> QED
    BY <2>3, <2>4, <1>5
<1> QED
  BY <1>3, <1>4, <1>5

(* After an edit every file shows its log, if no apply has failed. *)
LEMMA EditLogShown ==
  ASSUME TypeOK, LogInv, LogOnDisk,
         NEW d \in world.devices, NEW r \in world.rows, NEW e, NEW row, EditOf(d, r, e, row)
  PROVE  LogOnDisk'
<1>w. world' = world /\ failures' = failures
  BY EditEffect
<1>d. disk'[d][r] = row
  BY EditEffect
<1>n. log'[d] = log[d] \cup {New(r, e)}
  BY EditEffect
<1>l. About(log'[d], r) = About(log[d], r) \cup {e}
  BY <1>n, AboutNew
<1>r. disk'[d][r] = row /\ About(log'[d], r) = About(log[d], r) \cup {e}
  BY <1>d, <1>l
<1>1. SUFFICES ASSUME failures = 0, NEW p \in world.devices, NEW q \in world.rows, Convergent(q)
               PROVE  Shows(disk'[p][q], About(log'[p], q), About(log'[p], q), q \in FixedRow)
  BY <1>w DEF LogOnDisk, Convergent, OnePhone
<1>2. Shows(disk[p][q], About(log[p], q), About(log[p], q), q \in FixedRow)
  BY <1>1 DEF LogOnDisk
<1>3. CASE q # r \/ p # d
  <2>1. About(log'[p], q) = About(log[p], q)
    BY <1>3, OtherLog
  <2>2. disk'[p][q] = disk[p][q]
    BY <1>3, EditEffect
  <2> QED
    BY <2>1, <2>2, <1>2
<1>4. CASE q = r /\ p = d
  <2> DEFINE L == About(log[d], r)
  <2>1. Clean(L \cup {e})
    <3>1. Clean(About(Everything, r) \cup {e}) /\ L \subseteq About(Everything, r)
      BY EditRows
    <3> HIDE DEF L
    <3> QED
      BY <3>1 DEF Clean
  <2>2. Shows(disk[d][r], L, L, r \in FixedRow)
    BY <1>2, <1>4
  <2>3. Shows(row, L \cup {e}, L \cup {e}, r \in FixedRow)
    <3>1. \A T : Clean(T \cup {e}) /\ L \subseteq T /\ Shows(disk[d][r], L, T, r \in FixedRow) =>
                   Shows(row, L \cup {e}, T \cup {e}, r \in FixedRow)
      BY SavedShows
    <3> HIDE DEF L
    <3> QED
      BY <3>1, <2>1, <2>2
  <2>4. disk'[d][r] = row /\ About(log'[d], r) = L \cup {e}
    BY <1>r
  <2> QED
    BY <2>3, <2>4, <1>4
<1> QED
  BY <1>3, <1>4

(* A row is generated again over what the other device did last. *)
LEMMA EditGenerated ==
  ASSUME TypeOK, LogInv, NewestOnDisk, GeneratedAfterPeer,
         NEW d \in world.devices, NEW r \in world.rows, NEW e, NEW row, EditOf(d, r, e, row)
  PROVE  GeneratedAfterPeer'
<1> DEFINE x == New(r, e)
<1>e. /\ world' = world /\ Everything' = Everything \cup {x}
      /\ log'[d] = log[d] \cup {x}
      /\ \A p \in world.devices : p # d => log'[p] = log[p]
  BY EditEffect
<1>x. x.row = r /\ x.entry = e /\ Origin(x) = d
  BY EditIsNew DEF New, Origin
<1>n. \A y \in log[d] : Time(y) < Time(x) /\ Time(y) \in Nat /\ Time(x) \in Nat
  <2>1. Time(x) = e.key.time /\ Time(x) \in 1..MaxTime
    BY <1>x, EditIsNew DEF Time
  <2>2. \A y \in log[d] : Time(y) < e.key.time /\ Time(y) \in 1..MaxTime
    BY EditIsNew DEF LogInv, Stamped
  <2> HIDE DEF x
  <2> QED
    BY <2>1, <2>2, ReplicaAssumption
<1> HIDE DEF x
<1>1. SUFFICES ASSUME OnePhone, NEW p \in world.devices, NEW u \in log'[p], NEW g \in log'[p],
                      Origin(u) = p, Origin(g) = p, u.row = g.row, Time(u) < Time(g),
                      u.entry.op = "upsert", ~u.entry.generated, g.entry.generated
               PROVE  \E v \in Everything' : Origin(v) # p /\ Precedes(u.entry, v.entry)
  BY <1>e DEF GeneratedAfterPeer, OnePhone, Origin, Time
<1>2. CASE u \in log[p] /\ g \in log[p]
  <2>1. \E v \in Everything : Origin(v) # p /\ Precedes(u.entry, v.entry)
    BY <1>1, <1>2 DEF GeneratedAfterPeer
  <2> QED
    BY <2>1, <1>e
<1>3. CASE u = x /\ p = d
  <2>1. g = x \/ g \in log[d]
    BY <1>3, <1>e
  <2> QED
    BY <2>1, <1>1, <1>3, <1>n, <1>x
<1>4. CASE g = x /\ u \in log[d] /\ p = d
  <2>1. /\ e.generated /\ r \in DerivedRow /\ disk[d][r] = Absent
        /\ Deleted(About(log[d], r)) = {}
    BY <1>1, <1>4, <1>x DEF EditOf, Saves
  <2> DEFINE T == About(Everything, r)
             L == About(log[d], r)
  <2>2. Shows(Absent, L, T, r \in FixedRow)
    BY <2>1, <1>1 DEF NewestOnDisk, Convergent
  <2>3. Clean(T) /\ L \in SUBSET T /\ \A f \in T : \E v \in Everything : v.entry = f /\ v.row = r
    <3>1. Clean(T \cup {e}) /\ L \in SUBSET T
      BY EditRows
    <3>2. \A f \in T : \E v \in Everything : v.entry = f /\ v.row = r
      BY DEF About
    <3> HIDE DEF T, L
    <3> QED
      BY <3>1, <3>2 DEF Clean
  <2>4. u.entry \in L
    BY <1>1, <1>4, <1>x DEF About
  <2>5. \A v \in log[d] : v.row = r => v.entry \in L
    BY DEF About
  <2>6. Deleted(L) = {}
    BY <2>1
  <2> HIDE DEF T, L
  <2>7. u.entry \in Upserts(T) /\ ~HeldBack(u.entry, T)
    BY <2>3, <2>4, <1>1 DEF Upserts, HeldBack
  <2>8. PICK w \in RowWinner(T) : RowWinner(T) = {w} /\ w \in T /\ (u.entry = w \/ Precedes(u.entry, w))
    <3>1. RowWinner(T) # {}
      BY <2>3, <2>7, RowWinnerIs
    <3> QED
      BY <3>1, <2>3, <2>7, RowWinnerIs
  <2>9. w \notin L
    <3>1. SUFFICES ASSUME w \in L PROVE FALSE
      OBVIOUS
    <3>2. Gone(T, r \in FixedRow)
      BY <3>1, <2>2, <2>8, ContentPresent DEF Shows
    <3>3. w.op = "delete"
      BY <3>2, <2>8 DEF Gone, Deleted, Deletes
    <3>4. RowWinner(L) = {w}
      BY <3>1, <3>3, <2>3, <2>8, DeleteDecides
    <3> QED
      BY <3>3, <3>4, <2>6 DEF Deleted, Deletes
  <2>10. Precedes(u.entry, w)
    BY <2>4, <2>8, <2>9
  <2>11. PICK v \in Everything : v.entry = w /\ v.row = r
    BY <2>3, <2>8
  <2>12. Origin(v) # d
    BY <2>5, <2>9, <2>11, OwnComplete
  <2> QED
    BY <2>10, <2>11, <2>12, <1>e, <1>4
<1> QED
  BY <1>1, <1>2, <1>3, <1>4, <1>e, <1>n

(* A user's upsert ends what a user's delete began; nothing else does. *)
LEMMA EditDeleted ==
  ASSUME TypeOK, LogInv, DeletedRowStaysDeleted,
         NEW d \in world.devices, NEW r \in world.rows, NEW e, NEW row, EditOf(d, r, e, row)
  PROVE  DeletedRowStaysDeleted'
<1>w. world' = world /\ failures' = failures
  BY EditEffect
<1>d. disk'[d][r] = row
  BY EditEffect
<1>n. log'[d] = log[d] \cup {New(r, e)}
  BY EditEffect
<1>l. About(log'[d], r) = About(log[d], r) \cup {e}
  BY <1>n, AboutNew
<1>r. disk'[d][r] = row /\ About(log'[d], r) = About(log[d], r) \cup {e}
  BY <1>d, <1>l
<1>1. SUFFICES ASSUME failures = 0, NEW p \in world.devices, NEW q \in world.rows \cap DerivedRow,
                      OwnDeleted(About(log'[p], q))
               PROVE  disk'[p][q] = Absent
  BY <1>w DEF DeletedRowStaysDeleted, OwnDeleted, Own
<1>2. OwnDeleted(About(log[p], q)) => disk[p][q] = Absent
  BY <1>1 DEF DeletedRowStaysDeleted, OwnDeleted, Own
<1>3. CASE q # r \/ p # d
  <2>1. About(log'[p], q) = About(log[p], q)
    BY <1>3, OtherLog
  <2>2. disk'[p][q] = disk[p][q]
    BY <1>3, EditEffect
  <2> QED
    BY <2>1, <2>2, <1>1, <1>2
<1>4. CASE q = r /\ p = d
  <2> DEFINE L == About(log[d], r)
             M == L \cup {e}
  <2>1. About(log'[d], r) = M /\ disk'[d][r] = row
    BY <1>r
  <2>2. \A f \in L : Precedes(f, e)
    BY EditRows
  <2>c. Clean(M) /\ Clean(L) /\ \A f \in L : f.generated => f.op = "upsert"
    <3>1. Clean(About(Everything, r) \cup {e}) /\ L \subseteq About(Everything, r)
      BY EditRows
    <3>2. \A f \in About(Everything, r) : f.generated => f.op = "upsert"
      BY RowKinds
    <3> HIDE DEF L
    <3> QED
      BY <3>1, <3>2 DEF Clean
  <2>3. OwnDeleted(M)
    BY <2>1, <1>1, <1>4
  <2>k. r \notin CellRow
    BY <1>4, ReplicaAssumption
  <2>4. CASE row = Absent
    BY <2>1, <2>4, <1>4
  <2>5. CASE e.op = "upsert" /\ ~e.generated
    <3> HIDE DEF L
    <3>1. PICK w \in Newest(Own(M)) : w.op = "delete"
      BY <2>3 DEF OwnDeleted, Deletes
    <3>2. w \in L /\ e \in Own(M) /\ ~Precedes(w, e)
      BY <3>1, <2>5 DEF Newest, Own
    <3> QED
      BY <3>2, <2>2
  <2>6. CASE e.op = "upsert" /\ e.generated /\ Deleted(L) = {}
    <3> HIDE DEF L
    <3>1. Own(M) = Own(L)
      BY <2>6 DEF Own
    <3>2. PICK w : w \in Deletes(Newest(Own(L)))
      BY <3>1, <2>3 DEF OwnDeleted
    <3>3. RowWinner(L) = {w} /\ w.op = "delete"
      BY <3>2, <2>c, OwnDeleteWins DEF Deletes
    <3> QED
      BY <3>3, <2>6 DEF Deleted, Deletes
  <2> QED
    BY <2>4, <2>5, <2>6, <2>k DEF EditOf, Saves
<1> QED
  BY <1>3, <1>4

(* The clock is past what the files show after an edit. *)
LEMMA EditCovered ==
  ASSUME TypeOK, LogInv, DiskCovered,
         NEW d \in world.devices, NEW r \in world.rows, NEW e, NEW row, EditOf(d, r, e, row)
  PROVE  DiskCovered'
<1>w. world' = world /\ blind' = blind
  BY EditEffect
<1>1. SUFFICES ASSUME NEW p \in world.devices \ blind, NEW q \in world.rows, NEW c \in Column
               PROVE  disk'[p][q][c].time <= clock'[p]
  BY <1>w DEF DiskCovered
<1>t. /\ disk[p][q][c].time <= clock[p] /\ disk[p][q] \in Content \cup {Absent}
      /\ disk[p][q][c].time \in Int /\ Absent[c].time = -1
  <2>1. disk[p][q] \in Content \cup {Absent}
    BY DEF TypeOK
  <2>2. Absent[c].time = -1
    BY DEF Absent
  <2>3. disk[p][q] \in Content => disk[p][q][c].time \in Nat
    BY DEF Content, Key
  <2> QED
    BY <2>1, <2>2, <2>3 DEF DiskCovered
<1>2. CASE p # d
  BY <1>2, <1>t, EditEffect
<1>3. CASE p = d
  <2>1. clock'[d] = e.key.time /\ clock[d] < e.key.time /\ e.key.time \in Nat /\ clock[d] \in Nat
    <3>1. clock[d] \in Nat
      BY WorldTypes
    <3> QED
      BY <3>1, EditEffect, EditIsNew
  <2>2. CASE q # r
    <3>1. disk'[p][q] = disk[p][q]
      BY <2>2, EditEffect
    <3> QED
      BY <3>1, <2>1, <1>t, <1>3
  <2>3. CASE q = r
    <3>1. disk'[p][q] = row
      BY <2>3, <1>3, EditEffect
    <3>2. row[c] = e.key \/ row = Absent \/ row[c] = disk[p][q][c]
      <4>1. CASE row = [b \in Column |-> e.key] \/ row = Absent
        BY <4>1
      <4>2. CASE disk[d][r] # Absent /\ row = [disk[d][r] EXCEPT ![e.column] = e.key]
        <5>1. disk[d][r] \in [Column -> Key]
          BY <4>2, <1>t, <1>3, <2>3 DEF Content
        <5> QED
          BY <5>1, <4>2, <1>3, <2>3
      <4> QED
        BY <4>1, <4>2 DEF EditOf, Saves
    <3> QED
      BY <3>1, <3>2, <2>1, <1>t, <1>3
  <2> QED
    BY <2>2, <2>3
<1> QED
  BY <1>2, <1>3

-----------------------------------------------------------------------------
(* What an apply changes                                                   *)

(* The clock passes the stamps of the batch and never goes back. *)
LEMMA BatchObserved ==
  ASSUME TypeOK, LogInv, NEW to \in world.devices, NEW batch \in SUBSET Everything
  PROVE  /\ Observed(to, batch) \in 0..MaxTime /\ clock[to] <= Observed(to, batch)
         /\ \A x \in batch : Time(x) <= Observed(to, batch)
<1> DEFINE times == TimesIn(batch) \cup {clock[to]}
<1>1. times \in SUBSET (0..MaxTime)
  <2>1. \A x \in batch : Time(x) \in 0..MaxTime
    BY OwnComplete, ReplicaAssumption
  <2> QED
    BY <2>1, WorldTypes DEF TimesIn, Time
<1>2. /\ Largest(times) \in 0..MaxTime
      /\ \A t \in times : t <= Largest(times)
  BY <1>1, ReplicaAssumption, LargestOf
<1>3. \A x \in batch : Time(x) \in times
  BY DEF TimesIn, Time
<1>4. clock[to] \in times
  OBVIOUS
<1> HIDE DEF times
<1>5. Observed(to, batch) = Largest(times)
  BY DEF Observed, times
<1> QED
  BY <1>2, <1>3, <1>4, <1>5

(* One log, one clock and the rows written change: nothing new is made. *)
LEMMA MergeEffect ==
  ASSUME TypeOK, LogInv, NEW from \in world.devices, NEW to \in world.devices,
         NEW batch, NEW new, NEW written, MergeOf(from, to, batch, new, written)
  PROVE  /\ world' = world /\ blind' = blind
         /\ batch \subseteq log[from] /\ batch \subseteq Everything /\ new \subseteq batch
         /\ log'[to] = log[to] \cup new /\ clock'[to] = Observed(to, batch)
         /\ \A p \in world.devices : p # to => log'[p] = log[p] /\ clock'[p] = clock[p]
         /\ Everything' = Everything
<1>1. /\ UNCHANGED <<world, blind>> /\ new \subseteq batch
      /\ clock' = [clock EXCEPT ![to] = Observed(to, batch)]
      /\ log' = [log EXCEPT ![to] = @ \cup new]
  BY DEF MergeOf
<1>2. batch \subseteq log[from] /\ batch \subseteq Everything
  BY BatchIsEnough, WorldTypes DEF MergeOf
<1>3. /\ log'[to] = log[to] \cup new /\ clock'[to] = Observed(to, batch)
      /\ \A p \in world.devices : p # to => log'[p] = log[p] /\ clock'[p] = clock[p]
  BY <1>1 DEF TypeOK
<1>4. Everything' = Everything
  <2>1. Everything' = UNION {log'[p] : p \in world.devices}
    BY <1>1 DEF Everything
  <2>2. \A y : y \in Everything' <=> \E p \in world.devices : y \in log'[p]
    BY <2>1
  <2>3. \A y : y \in Everything <=> \E p \in world.devices : y \in log[p]
    BY DEF Everything
  <2>4. \A y \in new : y \in log[from]
    BY <1>1, <1>2
  <2> QED
    BY <2>2, <2>3, <2>4, <1>3
<1> QED
  BY <1>1, <1>2, <1>3, <1>4

(* A written row is the merged one, and no other changes. *)
LEMMA MergeWrites ==
  ASSUME TypeOK, LogInv, NEW from \in world.devices, NEW to \in world.devices,
         NEW batch, NEW new, NEW written, MergeOf(from, to, batch, new, written),
         NEW p \in world.devices, NEW q \in world.rows
  PROVE  /\ p = to /\ q \in written => disk'[p][q] = Merged(to, batch, q)
         /\ p # to \/ q \notin written => disk'[p][q] = disk[p][q]
<1>1. disk' = [disk EXCEPT ![to] =
                [r \in world.rows |-> IF r \in written THEN Merged(to, batch, r) ELSE @[r]]]
  BY DEF MergeOf
<1> HIDE DEF Merged
<1> QED
  BY <1>1 DEF TypeOK

(* What an apply knows of a row: more than the log, and no more than all.  *)
LEMMA KnownRows ==
  ASSUME TypeOK, LogInv, NEW to \in world.devices, NEW batch \in SUBSET Everything,
         NEW q \in world.rows
  PROVE  /\ Clean(About(Everything, q)) /\ Known(to, batch, q) \subseteq About(Everything, q)
         /\ About(log[to], q) \subseteq Known(to, batch, q)
         /\ Remote(to, batch, q) = Known(to, batch, q) \ About(log[to], q)
<1>1. Clean(About(Everything, q))
  BY EverythingClean, CleanAbout
<1>2. log[to] \subseteq Everything
  BY WorldTypes
<1>3. /\ Known(to, batch, q) \subseteq About(Everything, q)
      /\ About(log[to], q) \subseteq Known(to, batch, q)
  BY <1>2 DEF Known, About
<1>4. \A x, y \in Everything : x.row = y.row /\ x.entry = y.entry => x = y
  BY WorldTypes DEF Record
<1>5. Remote(to, batch, q) = Known(to, batch, q) \ About(log[to], q)
  BY <1>2, <1>4 DEF Remote, Known, About
<1> QED
  BY <1>1, <1>3, <1>5

(* Only a row that merges by cells has cells set, and an accepted batch    *)
(* finds it there.                                                         *)
LEMMA SetRowPresent ==
  ASSUME TypeOK, LogInv, NEW to \in world.devices, NEW batch \in SUBSET Everything,
         Accepted(to, batch), NEW q \in world.rows,
         SetsCells(Known(to, batch, q), Remote(to, batch, q), q \in FixedRow)
  PROVE  disk[to][q] # Absent
<1> DEFINE S == Known(to, batch, q)
<1>1. Clean(S) /\ S \subseteq About(Everything, q)
  <2>1. Clean(About(Everything, q)) /\ S \subseteq About(Everything, q)
    BY KnownRows
  <2> HIDE DEF S
  <2> QED
    BY <2>1 DEF Clean
<1>2. PICK c \in Column : CellWinner(S, c) # {}
  BY DEF SetsCells
<1> HIDE DEF S
<1>3. PICK k \in CellWinner(S, c) : k \in S /\ k.op = "cell"
  BY <1>1, <1>2, CellWinnerCell
<1>4. q \in CellRow
  BY <1>1, <1>3, RowKinds
<1> QED
  BY <1>4 DEF Accepted

(* Where devices come to agree, what an apply knows decides as all does:   *)
(* with one phone it is all there is.                                      *)
LEMMA KnownAgree ==
  ASSUME TypeOK, LogInv, NEW from \in world.devices, NEW to \in world.devices,
         Linked(from, to), NEW batch \in Batches(from, to),
         NEW q \in world.rows, Convergent(q)
  PROVE  /\ Agree(Known(to, batch, q), About(Everything, q))
         /\ q \in DerivedRow => Known(to, batch, q) = About(Everything, q)
<1>1. batch \in SUBSET Everything
  BY BatchIsEnough, WorldTypes
<1>2. ASSUME q \in DerivedRow PROVE Known(to, batch, q) = About(Everything, q)
  <2>1. world.devices \subseteq {from, to}
    BY <1>2 DEF Convergent, OnePhone, Linked
  <2>2. log[to] \cup batch = Everything
    BY <2>1, BatchIsEnough DEF Everything
  <2> QED
    BY <2>2 DEF Known
<1>3. Agree(Known(to, batch, q), About(Everything, q))
  <2> DEFINE S == Known(to, batch, q)
             T == About(Everything, q)
  <2>1. Clean(T) /\ S \in SUBSET T
    BY <1>1, KnownRows
  <2>2. CASE q \in DerivedRow
    <3>1. S = T
      BY <1>2, <2>2
    <3> HIDE DEF S, T
    <3> QED
      BY <3>1 DEF Agree, S, T
  <2>3. CASE q \notin DerivedRow
    <3>1. Plain(T)
      BY <2>3, PlainRow
    <3> HIDE DEF S, T
    <3>2. Agree(S, T)
      BY <3>1, <2>1, PlainAgree
    <3> QED
      BY <3>2 DEF S, T
  <2> QED
    BY <2>2, <2>3
<1> QED
  BY <1>2, <1>3

(* The merged row shows what is known, among any entries that agree. *)
LEMMA MergedShows ==
  ASSUME TypeOK, LogInv, NEW to \in world.devices, NEW batch \in SUBSET Everything,
         Accepted(to, batch), NEW q \in world.rows,
         NEW T, T \subseteq About(Everything, q), Known(to, batch, q) \subseteq T,
         Agree(Known(to, batch, q), T),
         Shows(disk[to][q], About(log[to], q), T, q \in FixedRow)
  PROVE  Shows(Merged(to, batch, q), Known(to, batch, q), T, q \in FixedRow)
<1> DEFINE S == Known(to, batch, q)
           L == About(log[to], q)
           fixed == q \in FixedRow
<1>1. Clean(T) /\ S \in SUBSET T /\ L \in SUBSET S /\ Remote(to, batch, q) = S \ L
  <2>1. /\ Clean(About(Everything, q)) /\ L \in SUBSET S
        /\ Remote(to, batch, q) = S \ L
    BY KnownRows
  <2> HIDE DEF S, L
  <2> QED
    BY <2>1 DEF Clean, S
<1>2. SetsCells(S, S \ L, fixed) => disk[to][q] # Absent
  BY <1>1, SetRowPresent
<1>3. \A e \in S : e.op = "cell" => e.column \in Column
  BY <1>1, RowKinds
<1>4. disk[to][q] \in Content \cup {Absent}
  BY DEF TypeOK
<1>5. Merged(to, batch, q) = RowAfter(disk[to][q], S, S \ L, fixed)
  BY <1>1 DEF Merged
<1>6. Agree(S, T) /\ Shows(disk[to][q], L, T, fixed)
  OBVIOUS
<1> HIDE DEF S, L, fixed
<1>7. Shows(RowAfter(disk[to][q], S, S \ L, fixed), S, T, fixed)
  BY <1>1, <1>2, <1>3, <1>4, <1>6, MergeShows
<1> QED
  BY <1>5, <1>7 DEF S, fixed

(* The types hold after an apply. *)
LEMMA MergeTyped ==
  ASSUME TypeOK, LogInv, NEW from \in world.devices, NEW to \in world.devices,
         NEW batch, NEW new, NEW written, MergeOf(from, to, batch, new, written)
  PROVE  TypeOK'
<1>b. batch \in SUBSET Everything /\ new \subseteq batch /\ Accepted(to, batch)
  <2>1. Accepted(to, batch)
    BY DEF MergeOf
  <2> QED
    BY <2>1, MergeEffect
<1>1. \A q \in world.rows : Merged(to, batch, q) \in Content \cup {Absent}
  <2>1. SUFFICES ASSUME NEW q \in world.rows PROVE Merged(to, batch, q) \in Content \cup {Absent}
    OBVIOUS
  <2> DEFINE S == Known(to, batch, q)
             remote == Remote(to, batch, q)
  <2>2. Clean(S)
    <3>1. Clean(About(Everything, q)) /\ S \subseteq About(Everything, q)
      BY <1>b, KnownRows
    <3> HIDE DEF S
    <3> QED
      BY <3>1 DEF Clean
  <2>3. SetsCells(S, remote, q \in FixedRow) => disk[to][q] # Absent
    BY <1>b, SetRowPresent
  <2>4. disk[to][q] \in Content \cup {Absent}
    BY DEF TypeOK
  <2>5. Merged(to, batch, q) = RowAfter(disk[to][q], S, remote, q \in FixedRow)
    BY DEF Merged
  <2> HIDE DEF S, remote
  <2> QED
    BY <2>2, <2>3, <2>4, <2>5, MergedTyped
<1>2. /\ UNCHANGED <<world, blind>> /\ failures' \in 0..MaxFailures
      /\ clock' = [clock EXCEPT ![to] = Observed(to, batch)]
      /\ disk' = [disk EXCEPT ![to] =
                    [r \in world.rows |-> IF r \in written THEN Merged(to, batch, r) ELSE @[r]]]
      /\ log' = [log EXCEPT ![to] = @ \cup new]
  BY ReplicaAssumption DEF MergeOf, TypeOK
<1>3. log' \in [world.devices -> SUBSET Record]
  <2>1. new \subseteq Record
    BY <1>b, WorldTypes
  <2> QED
    BY <2>1, <1>2 DEF TypeOK
<1>4. clock' \in [world.devices -> 0..MaxTime]
  <2>1. Observed(to, batch) \in 0..MaxTime
    BY <1>b, BatchObserved
  <2> QED
    BY <2>1, <1>2 DEF TypeOK
<1>5. disk' \in [world.devices -> [world.rows -> Content \cup {Absent}]]
  <2> HIDE DEF Content, Absent, Merged
  <2> QED
    BY <1>1, <1>2 DEF TypeOK
<1>6. world' \in World /\ blind' \subseteq world'.devices /\ world' = world
  BY <1>2 DEF TypeOK
<1> HIDE DEF Content, Absent
<1> QED
  BY <1>2, <1>3, <1>4, <1>5, <1>6 DEF TypeOK

(* The logs are what they should be after an apply.                        *)
LEMMA MergeLogs ==
  ASSUME TypeOK, LogInv, NEW from \in world.devices, NEW to \in world.devices,
         NEW batch, NEW new, NEW written, MergeOf(from, to, batch, new, written)
  PROVE  LogInv'
<1>e. /\ world' = world /\ Everything' = Everything
      /\ batch \subseteq log[from] /\ batch \subseteq Everything /\ new \subseteq batch
      /\ log'[to] = log[to] \cup new /\ clock'[to] = Observed(to, batch)
      /\ \A p \in world.devices : p # to => log'[p] = log[p] /\ clock'[p] = clock[p]
  BY MergeEffect
<1>1. Kinds' /\ KeysUnique'
  BY <1>e DEF LogInv, Kinds, KeysUnique
<1>2. Stamped'
  <2>1. SUFFICES ASSUME NEW p \in world.devices, NEW y \in log'[p]
                 PROVE  /\ Time(y) \in 1..MaxTime /\ Time(y) <= clock'[p]
                        /\ Origin(y) \in world.devices /\ y \in log'[Origin(y)]
    BY <1>e DEF Stamped, Time, Origin
  <2>2. y \in Everything
    BY <2>1, <1>e, WorldTypes
  <2>3. Time(y) \in 1..MaxTime /\ Origin(y) \in world.devices /\ y \in log[Origin(y)]
    BY <2>2, OwnComplete
  <2>4. y \in log'[Origin(y)]
    BY <2>3, <1>e
  <2>5. Time(y) <= clock'[p]
    <3>1. CASE y \in new /\ p = to
      BY <3>1, <1>e, BatchObserved
    <3>2. CASE y \in log[p]
      <4>1. Time(y) <= clock[p] /\ clock[p] \in Nat
        BY <3>2, WorldTypes DEF LogInv, Stamped
      <4>2. CASE p = to
        <5>1. clock[to] <= Observed(to, batch) /\ Observed(to, batch) \in 0..MaxTime
          BY <1>e, BatchObserved
        <5> QED
          BY <5>1, <4>1, <4>2, <2>3, <1>e, ReplicaAssumption
      <4> QED
        BY <4>1, <4>2, <1>e
    <3> QED
      BY <3>1, <3>2, <2>1, <1>e
  <2> QED
    BY <2>3, <2>4, <2>5
<1>3. PrefixPerDevice'
  <2>1. SUFFICES ASSUME NEW p \in world.devices, NEW q \in world.devices,
                        NEW y \in log'[p], NEW z \in log'[q],
                        Origin(y) = Origin(z), Time(y) < Time(z)
                 PROVE  y \in log'[q]
    BY <1>e DEF PrefixPerDevice, Origin, Time
  <2>2. \A a, b \in world.devices : \A u \in log[a], v \in log[b] :
          Origin(u) = Origin(v) /\ Time(u) < Time(v) => u \in log[b]
    BY DEF LogInv, PrefixPerDevice, Origin, Time
  <2>3. PICK a \in world.devices : y \in log[a]
    BY <2>1, <1>e
  <2>4. CASE z \in log[q]
    <3>1. y \in log[q]
      BY <2>1, <2>2, <2>3, <2>4
    <3> QED
      BY <3>1, <1>e
  <2>5. CASE z \notin log[q]
    <3>1. q = to /\ z \in new /\ z \in log[from]
      BY <2>1, <2>5, <1>e
    <3>2. y \in log[from]
      BY <3>1, <2>1, <2>2, <2>3
    <3>3. y \in log[to] \cup batch
      BY <3>2, BatchIsEnough DEF MergeOf
    <3>4. CASE y \in log[to]
      BY <3>1, <3>4, <1>e
    <3>5. CASE y \in batch \ log[to]
      <4>1. Precedes(y.entry, z.entry)
        BY <2>1 DEF Precedes, KeyBefore, Time
      <4>2. y \in new
        BY <4>1, <3>1, <3>5 DEF MergeOf
      <4> QED
        BY <4>2, <3>1, <1>e
    <3> QED
      BY <3>3, <3>4, <3>5
  <2> QED
    BY <2>4, <2>5
<1> QED
  BY <1>1, <1>2, <1>3 DEF LogInv

(* What is known of a row in the log of the target: with the whole batch,  *)
(* with the part of it that was stored, and in any other log.              *)
LEMMA StoredRows ==
  ASSUME TypeOK, LogInv, NEW from \in world.devices, NEW to \in world.devices,
         NEW batch, NEW new, NEW written, MergeOf(from, to, batch, new, written),
         NEW q \in world.rows
  PROVE  /\ About(log'[to], q) \subseteq Known(to, batch, q)
         /\ new = {} => About(log'[to], q) = About(log[to], q)
         /\ new = batch \ log[to] => About(log'[to], q) = Known(to, batch, q)
<1>1. log'[to] = log[to] \cup new /\ new \subseteq batch
  BY MergeEffect
<1>2. About(log'[to], q) \subseteq Known(to, batch, q)
  BY <1>1 DEF About, Known
<1>3. new = {} => About(log'[to], q) = About(log[to], q)
  BY <1>1
<1>4. new = batch \ log[to] => log[to] \cup new = log[to] \cup batch
  OBVIOUS
<1>5. new = batch \ log[to] => About(log'[to], q) = Known(to, batch, q)
  BY <1>1, <1>4 DEF Known
<1> QED
  BY <1>2, <1>3, <1>5

(* After an apply every file shows what decides, if its log has that.      *)
LEMMA MergeNewest ==
  ASSUME TypeOK, LogInv, NewestOnDisk, NEW from \in world.devices, NEW to \in world.devices,
         Linked(from, to),
         NEW batch, NEW new, NEW written, MergeOf(from, to, batch, new, written)
  PROVE  NewestOnDisk'
<1>e. /\ world' = world /\ Everything' = Everything
      /\ batch \in SUBSET Everything /\ new \subseteq batch
      /\ \A p \in world.devices : p # to => log'[p] = log[p]
  BY MergeEffect
<1>b. batch \in Batches(from, to) /\ Accepted(to, batch) /\ (new # {} => written = world.rows)
  BY DEF MergeOf
<1>1. SUFFICES ASSUME NEW p \in world.devices, NEW q \in world.rows, Convergent(q)
               PROVE  Shows(disk'[p][q], About(log'[p], q), About(Everything, q), q \in FixedRow)
  BY <1>e DEF NewestOnDisk, Convergent, OnePhone
<1>2. Shows(disk[p][q], About(log[p], q), About(Everything, q), q \in FixedRow)
  BY <1>1 DEF NewestOnDisk
<1>3. CASE p # to
  <2>1. disk'[p][q] = disk[p][q] /\ log'[p] = log[p]
    BY <1>3, <1>e, MergeWrites
  <2> QED
    BY <2>1, <1>2
<1>4. CASE p = to /\ q \in written
  <2> DEFINE S == Known(to, batch, q)
             T == About(Everything, q)
  <2>1. S \subseteq T
    BY <1>e, KnownRows
  <2>2. Agree(S, T)
    BY <1>1, <1>b, KnownAgree
  <2>3. Shows(disk[to][q], About(log[to], q), T, q \in FixedRow)
    BY <1>2, <1>4
  <2>4. Shows(Merged(to, batch, q), S, T, q \in FixedRow)
    BY <2>1, <2>2, <2>3, <1>e, <1>b, MergedShows
  <2>5. About(log'[to], q) \in SUBSET S
    BY StoredRows
  <2> HIDE DEF S, T
  <2>6. Shows(Merged(to, batch, q), About(log'[to], q), T, q \in FixedRow)
    BY <2>4, <2>5, ShowsLess
  <2>7. disk'[to][q] = Merged(to, batch, q)
    BY <1>4, MergeWrites
  <2> QED
    BY <2>6, <2>7, <1>4 DEF T
<1>5. CASE p = to /\ q \notin written
  <2>1. new = {}
    BY <1>5, <1>b
  <2>2. About(log'[to], q) = About(log[to], q)
    BY <2>1, StoredRows
  <2>3. disk'[to][q] = disk[to][q]
    BY <1>5, MergeWrites
  <2> QED
    BY <2>2, <2>3, <1>2, <1>5
<1> QED
  BY <1>3, <1>4, <1>5

(* A complete apply leaves every file showing its log.                     *)
LEMMA MergeLogShown ==
  ASSUME TypeOK, LogInv, NewestOnDisk, LogOnDisk,
         NEW from \in world.devices, NEW to \in world.devices, Linked(from, to),
         NEW batch, NEW new, NEW written, MergeOf(from, to, batch, new, written)
  PROVE  LogOnDisk'
<1>e. /\ world' = world /\ batch \in SUBSET Everything
      /\ \A p \in world.devices : p # to => log'[p] = log[p]
  BY MergeEffect
<1>1. SUFFICES ASSUME failures' = 0, NEW p \in world.devices, NEW q \in world.rows, Convergent(q)
               PROVE  Shows(disk'[p][q], About(log'[p], q), About(log'[p], q), q \in FixedRow)
  BY <1>e DEF LogOnDisk, Convergent, OnePhone
<1>b. /\ batch \in Batches(from, to) /\ Accepted(to, batch)
      /\ failures = 0 /\ new = batch \ log[to] /\ written = world.rows
  BY <1>1, ReplicaAssumption DEF MergeOf, TypeOK
<1>2. Shows(disk[p][q], About(log[p], q), About(log[p], q), q \in FixedRow)
  BY <1>1, <1>b DEF LogOnDisk
<1>3. CASE p # to
  <2>1. disk'[p][q] = disk[p][q] /\ log'[p] = log[p]
    BY <1>3, <1>e, MergeWrites
  <2> QED
    BY <2>1, <1>2
<1>4. CASE p = to
  <2> DEFINE S == Known(to, batch, q)
             T == About(Everything, q)
             L == About(log[to], q)
  <2>1. Clean(T) /\ S \in SUBSET T /\ L \in SUBSET S
    BY <1>e, KnownRows
  <2>2. Shows(disk[to][q], L, S, q \in FixedRow)
    <3>1. CASE q \in DerivedRow
      <4>1. S = T
        BY <3>1, <1>1, <1>b, KnownAgree
      <4>2. Shows(disk[to][q], L, T, q \in FixedRow)
        BY <1>1 DEF NewestOnDisk
      <4> HIDE DEF S, T, L
      <4> QED
        BY <4>1, <4>2
    <3>2. CASE q \notin DerivedRow
      <4>1. Plain(T)
        BY <3>2, PlainRow
      <4>2. Shows(disk[to][q], L, L, q \in FixedRow)
        BY <1>2, <1>4
      <4> HIDE DEF S, T, L
      <4>3. Clean(S) /\ Plain(S)
        BY <4>1, <2>1 DEF Clean, Plain
      <4>4. Agree(L, S)
        BY <4>3, <2>1, PlainAgree
      <4> QED
        BY <4>2, <4>4, ShowsAmongMore
    <3> QED
      BY <3>1, <3>2
  <2>3. Agree(S, S)
    <3> HIDE DEF S
    <3> QED
      BY DEF Agree
  <2>4. Shows(Merged(to, batch, q), S, S, q \in FixedRow)
    BY <2>1, <2>2, <2>3, <1>e, <1>b, MergedShows
  <2>5. About(log'[to], q) = S
    BY <1>b, StoredRows
  <2>6. disk'[to][q] = Merged(to, batch, q)
    BY <1>b, MergeWrites
  <2> HIDE DEF S
  <2> QED
    BY <2>4, <2>5, <2>6, <1>4
<1> QED
  BY <1>3, <1>4

(* An apply brings no device entries of its own. *)
LEMMA MergeGenerated ==
  ASSUME TypeOK, LogInv, GeneratedAfterPeer,
         NEW from \in world.devices, NEW to \in world.devices,
         NEW batch, NEW new, NEW written, MergeOf(from, to, batch, new, written)
  PROVE  GeneratedAfterPeer'
<1>e. /\ world' = world /\ Everything' = Everything
      /\ batch \subseteq Everything /\ new \subseteq batch /\ log'[to] = log[to] \cup new
      /\ \A p \in world.devices : p # to => log'[p] = log[p]
  BY MergeEffect
<1>1. ASSUME NEW p \in world.devices, NEW y \in log'[p], Origin(y) = p
      PROVE  y \in log[p]
  <2>1. y \in Everything
    BY <1>1, <1>e, WorldTypes
  <2> QED
    BY <2>1, <1>1, OwnComplete
<1>2. SUFFICES ASSUME OnePhone, NEW p \in world.devices, NEW u \in log'[p], NEW g \in log'[p],
                      Origin(u) = p, Origin(g) = p, u.row = g.row, Time(u) < Time(g),
                      u.entry.op = "upsert", ~u.entry.generated, g.entry.generated
               PROVE  \E v \in Everything : Origin(v) # p /\ Precedes(u.entry, v.entry)
  BY <1>e DEF GeneratedAfterPeer, OnePhone, Origin, Time
<1>3. u \in log[p] /\ g \in log[p]
  BY <1>1, <1>2
<1> QED
  BY <1>2, <1>3 DEF GeneratedAfterPeer

(* A row that the user's newest word deletes is not there after an apply.  *)
LEMMA MergeDeleted ==
  ASSUME TypeOK, LogInv, DeletedRowStaysDeleted,
         NEW from \in world.devices, NEW to \in world.devices,
         NEW batch, NEW new, NEW written, MergeOf(from, to, batch, new, written)
  PROVE  DeletedRowStaysDeleted'
<1>e. /\ world' = world /\ batch \in SUBSET Everything
      /\ \A p \in world.devices : p # to => log'[p] = log[p]
  BY MergeEffect
<1>1. SUFFICES ASSUME failures' = 0, NEW p \in world.devices, NEW q \in world.rows \cap DerivedRow,
                      OwnDeleted(About(log'[p], q))
               PROVE  disk'[p][q] = Absent
  BY <1>e DEF DeletedRowStaysDeleted, OwnDeleted, Own
<1>b. failures = 0 /\ new = batch \ log[to] /\ written = world.rows
  BY <1>1, ReplicaAssumption DEF MergeOf, TypeOK
<1>2. OwnDeleted(About(log[p], q)) => disk[p][q] = Absent
  BY <1>1, <1>b DEF DeletedRowStaysDeleted, OwnDeleted, Own
<1>3. CASE p # to
  <2>1. disk'[p][q] = disk[p][q] /\ log'[p] = log[p]
    BY <1>3, <1>e, MergeWrites
  <2> QED
    BY <2>1, <1>1, <1>2
<1>4. CASE p = to
  <2> DEFINE S == Known(to, batch, q)
             L == About(log[to], q)
  <2>1. About(log'[to], q) = S /\ disk'[to][q] = Merged(to, batch, q)
    <3>1. About(log'[to], q) = S
      BY <1>b, StoredRows
    <3>2. disk'[to][q] = Merged(to, batch, q)
      BY <1>b, MergeWrites
    <3> QED
      BY <3>1, <3>2
  <2>2. /\ Clean(About(Everything, q)) /\ S \subseteq About(Everything, q) /\ L \subseteq S
        /\ Remote(to, batch, q) = S \ L
    BY <1>e, KnownRows
  <2>3. Merged(to, batch, q) = RowAfter(disk[to][q], S, S \ L, q \in FixedRow)
    BY <2>2 DEF Merged
  <2>4. /\ \A e \in S : e.generated => e.op = "upsert"
        /\ \A e \in S : e.op # "cell"
    BY <2>2, RowKinds, ReplicaAssumption
  <2>5. OwnDeleted(S) /\ (OwnDeleted(L) => disk[to][q] = Absent)
    BY <2>1, <1>1, <1>2, <1>4
  <2> HIDE DEF S, L
  <2>6. Clean(S) /\ L \in SUBSET S
    BY <2>2 DEF Clean
  <2>7. RowAfter(disk[to][q], S, S \ L, q \in FixedRow) = Absent
    BY <2>4, <2>5, <2>6, OwnDeletedStays
  <2> QED
    BY <2>1, <2>3, <2>7, <1>4
<1> QED
  BY <1>3, <1>4

(* The clock is past what the files show after an apply. *)
LEMMA MergeCovered ==
  ASSUME TypeOK, LogInv, DiskCovered,
         NEW from \in world.devices, NEW to \in world.devices,
         NEW batch, NEW new, NEW written, MergeOf(from, to, batch, new, written)
  PROVE  DiskCovered'
<1>e. /\ world' = world /\ blind' = blind /\ batch \in SUBSET Everything
      /\ clock'[to] = Observed(to, batch)
      /\ \A p \in world.devices : p # to => clock'[p] = clock[p]
  BY MergeEffect
<1>1. SUFFICES ASSUME NEW p \in world.devices \ blind, NEW q \in world.rows, NEW c \in Column
               PROVE  disk'[p][q][c].time <= clock'[p]
  BY <1>e DEF DiskCovered
<1>2. disk[p][q][c].time <= clock[p]
  BY DEF DiskCovered
<1>3. CASE p # to
  <2>1. disk'[p][q] = disk[p][q] /\ clock'[p] = clock[p]
    BY <1>3, <1>e, MergeWrites
  <2> QED
    BY <2>1, <1>2
<1>4. CASE p = to
  <2>o. /\ Observed(to, batch) \in Nat /\ clock[to] \in Nat /\ clock[to] <= Observed(to, batch)
        /\ \A x \in batch : Time(x) <= Observed(to, batch)
    BY <1>e, BatchObserved, WorldTypes, ReplicaAssumption
  <2>1. disk[to][q][c].time <= Observed(to, batch)
    <3>1. disk[to][q][c].time \in Int
      <4>1. disk[to][q] \in Content \cup {Absent}
        BY DEF TypeOK
      <4>2. Absent[c].time = -1
        BY DEF Absent
      <4>3. disk[to][q] \in Content => disk[to][q][c].time \in Nat
        BY DEF Content, Key
      <4> QED
        BY <4>1, <4>2, <4>3
    <3> QED
      BY <3>1, <2>o, <1>2, <1>4
  <2>2. CASE q \in written
    <3> DEFINE S == Known(to, batch, q)
               remote == Remote(to, batch, q)
    <3>1. Clean(S)
      <4>1. Clean(About(Everything, q)) /\ S \subseteq About(Everything, q)
        BY <1>e, KnownRows
      <4> HIDE DEF S
      <4> QED
        BY <4>1 DEF Clean
    <3>2. \A e \in S : e.key.time <= Observed(to, batch)
      <4>1. \A e \in S : \E x \in log[to] \cup batch : x.entry = e
        BY DEF Known, About
      <4>2. \A x \in log[to] \cup batch : Time(x) <= Observed(to, batch)
        <5>1. \A x \in log[to] : Time(x) \in 1..MaxTime /\ Time(x) <= clock[to]
          BY DEF LogInv, Stamped
        <5> QED
          BY <5>1, <2>o, ReplicaAssumption
      <4> HIDE DEF S
      <4> QED
        BY <4>1, <4>2 DEF Time
    <3>3. disk'[to][q] = RowAfter(disk[to][q], S, remote, q \in FixedRow)
      BY <2>2, MergeWrites DEF Merged
    <3> HIDE DEF S, remote
    <3>4. RowAfter(disk[to][q], S, remote, q \in FixedRow)[c].time <= Observed(to, batch)
      BY <3>1, <3>2, <2>1, <2>o, MergedCovered
    <3> QED
      BY <3>3, <3>4, <1>e, <1>4
  <2>3. CASE q \notin written
    <3>1. disk'[to][q] = disk[to][q]
      BY <2>3, MergeWrites
    <3> QED
      BY <3>1, <2>1, <1>e, <1>4
  <2> QED
    BY <2>2, <2>3
<1> QED
  BY <1>3, <1>4

-----------------------------------------------------------------------------
(* Restarts                                                                *)

(* A restart changes a clock only.  It is past all of the log; and past    *)
(* the files, where they show no more than the log, or the device is       *)
(* counted as blind.                                                       *)
LEMMA RestartKeeps ==
  ASSUME IInv, NEW d \in world.devices, Restart(d)
  PROVE  IInv'
<1> USE DEF IInv
<1>e. /\ UNCHANGED <<log, disk, failures, world>>
      /\ clock' = [clock EXCEPT ![d] = Largest(TimesIn(log[d]))]
      /\ blind' = IF InStep(d) THEN blind ELSE blind \cup {d}
  BY DEF Restart
<1>k. /\ clock'[d] = Largest(TimesIn(log[d]))
      /\ \A p \in world.devices : p # d => clock'[p] = clock[p]
  BY <1>e DEF TypeOK
<1>t. TimesIn(log[d]) \in SUBSET (0..MaxTime)
  BY ReplicaAssumption DEF TimesIn, LogInv, Stamped, Time
<1>l. /\ Largest(TimesIn(log[d])) \in 0..MaxTime
      /\ \A x \in log[d] : Time(x) <= Largest(TimesIn(log[d]))
  <2>1. /\ Largest(TimesIn(log[d])) \in 0..MaxTime
        /\ \A t \in TimesIn(log[d]) : t <= Largest(TimesIn(log[d]))
    BY <1>t, ReplicaAssumption, LargestOf
  <2>2. \A x \in log[d] : Time(x) \in TimesIn(log[d])
    BY DEF TimesIn, Time
  <2> QED
    BY <2>1, <2>2
<1>1. TypeOK'
  BY <1>e, <1>l DEF TypeOK
<1>2. LogInv'
  <2>1. Everything' = Everything
    BY <1>e DEF Everything
  <2>2. Stamped'
    BY <1>e, <1>k, <1>l DEF LogInv, Stamped, Time, Origin
  <2> QED
    BY <2>1, <2>2, <1>e DEF LogInv, Kinds, KeysUnique, PrefixPerDevice
<1>3. DiskCovered'
  <2>1. SUFFICES ASSUME NEW p \in world.devices \ blind', NEW r \in world.rows, NEW c \in Column
                 PROVE  disk[p][r][c].time <= clock'[p]
    BY <1>e DEF DiskCovered
  <2>2. CASE p # d
    BY <2>1, <2>2, <1>e, <1>k DEF DiskInv, DiskCovered
  <2>3. CASE p = d
    <3> DEFINE S == About(log[d], r)
    <3>1. InStep(d)
      BY <2>1, <2>3, <1>e
    <3>2. disk[d][r] \in {EmptyRow(r), Absent, Values(S)}
      BY <3>1 DEF InStep, RowInStep, Described
    <3>3. EmptyRow(r)[c].time <= Largest(TimesIn(log[d]))
          /\ Absent[c].time <= Largest(TimesIn(log[d]))
      BY <1>l, ReplicaAssumption DEF EmptyRow, Absent, Unset
    <3>4. Clean(S)
      BY CleanPart, EverythingClean, CleanAbout, WorldTypes
    <3>5. \A e \in S : e.key.time <= Largest(TimesIn(log[d]))
      BY <1>l DEF About, Time
    <3> HIDE DEF S
    <3>6. Values(S)[c].time <= Largest(TimesIn(log[d]))
      BY <3>4, <3>5, <1>l, ReplicaAssumption, ShownIs DEF Unset
    <3> QED
      BY <3>2, <3>3, <3>6, <1>k, <2>3
  <2> QED
    BY <2>2, <2>3
<1>4. (NewestOnDisk /\ LogOnDisk /\ GeneratedAfterPeer /\ DeletedRowStaysDeleted)'
  <2>1. Everything' = Everything
    BY <1>e DEF Everything
  <2>2. NewestOnDisk'
    BY <2>1, <1>e DEF DiskInv, NewestOnDisk, Convergent, OnePhone
  <2>3. LogOnDisk'
    BY <1>e DEF DiskInv, LogOnDisk, Convergent, OnePhone
  <2>4. GeneratedAfterPeer'
    BY <2>1, <1>e DEF DiskInv, GeneratedAfterPeer, OnePhone
  <2>5. DeletedRowStaysDeleted'
    BY <1>e DEF DiskInv, DeletedRowStaysDeleted
  <2> QED
    BY <2>2, <2>3, <2>4, <2>5
<1> QED
  BY <1>1, <1>2, <1>3, <1>4 DEF DiskInv

-----------------------------------------------------------------------------
(* The invariant                                                           *)

(* Nothing has been written, and nothing is said about it. *)
LEMMA InitInvariant ==
  ASSUME Init
  PROVE  IInv
<1>1. world \in [devices : SUBSET Device, rows : SUBSET Row, changes : Nat]
  BY ReplicaAssumption DEF Init
<1>2. Everything = {}
  BY DEF Init, Everything
<1>3. /\ \A d \in world.devices : log[d] = {} /\ clock[d] = 0
      /\ \A d \in world.devices, r \in world.rows : disk[d][r] = EmptyRow(r)
  BY DEF Init
<1>4. \A r : EmptyRow(r) \in Content \cup {Absent}
  BY DEF EmptyRow, Content, Unset, Key
<1>5. TypeOK
  <2> HIDE DEF Content, Absent
  <2> QED
    BY <1>1, <1>4, ReplicaAssumption DEF Init, TypeOK
<1>6. LogInv
  BY <1>2, <1>3 DEF LogInv, Kinds, Stamped, KeysUnique, PrefixPerDevice
<1>7. DiskCovered
  <2>1. \A r : \A c \in Column : EmptyRow(r)[c].time <= 0
    BY DEF EmptyRow, Absent, Unset
  <2> HIDE DEF EmptyRow
  <2> QED
    BY <2>1, <1>3 DEF DiskCovered
<1>8. \A r : About({}, r) = {}
  BY DEF About
<1>9. \A r : Shows(EmptyRow(r), {}, {}, r \in FixedRow)
  <2>1. SUFFICES ASSUME NEW r PROVE Shows(EmptyRow(r), {}, {}, r \in FixedRow)
    OBVIOUS
  <2>2. Clean({})
    BY DEF Clean
  <2>3. RowWinner({}) = {}
    BY DEF RowWinner, Newest, Deletes, Upserts
  <2>4. Deleted({}) = {} /\ (Gone({}, r \in FixedRow) <=> r \notin FixedRow)
    BY <2>3 DEF Deleted, Deletes, Gone
  <2>5. ASSUME NEW c \in Column PROVE Values({})[c] = Unset
    <3>1. Shown({}, c) = {}
      BY <2>2, ShownIs
    <3> QED
      BY <3>1, <2>2, ShownIs
  <2>6. CASE r \notin FixedRow
    BY <2>4, <2>6 DEF Shows, EmptyRow
  <2>7. CASE r \in FixedRow
    <3>1. EmptyRow(r) \in Content /\ \A c \in Column : EmptyRow(r)[c] = Unset
      BY <2>7 DEF EmptyRow, Content, Unset, Key
    <3>2. EmptyRow(r) # Absent
      BY <3>1, ContentPresent
    <3> HIDE DEF Values
    <3> QED
      BY <3>1, <3>2, <2>4, <2>5, <2>7 DEF Shows
  <2> QED
    BY <2>6, <2>7
<1>10. NewestOnDisk /\ LogOnDisk
  BY <1>2, <1>3, <1>8, <1>9 DEF NewestOnDisk, LogOnDisk
<1>11. GeneratedAfterPeer
  BY <1>3 DEF GeneratedAfterPeer
<1>12. DeletedRowStaysDeleted
  BY <1>3, <1>8 DEF DeletedRowStaysDeleted, Deletes, Newest
<1> QED
  BY <1>5, <1>6, <1>7, <1>10, <1>11, <1>12 DEF IInv, DiskInv

(* An edit keeps the invariant... *)
LEMMA EditKeeps ==
  ASSUME IInv, NEW d \in world.devices, NEW r \in world.rows, NEW e, NEW row,
         EditOf(d, r, e, row)
  PROVE  IInv'
<1> USE DEF IInv, DiskInv
<1>1. TypeOK' /\ LogInv'
  BY EditTyped, EditLogs
<1>2. DiskCovered'
  BY EditCovered
<1>3. NewestOnDisk' /\ LogOnDisk'
  BY EditNewest, EditLogShown
<1>4. GeneratedAfterPeer' /\ DeletedRowStaysDeleted'
  BY EditGenerated, EditDeleted
<1> QED
  BY <1>1, <1>2, <1>3, <1>4

(* ...and so does an apply, however far it came. *)
LEMMA MergeKeeps ==
  ASSUME IInv, NEW from \in world.devices, NEW to \in world.devices, Linked(from, to),
         NEW batch, NEW new, NEW written, MergeOf(from, to, batch, new, written)
  PROVE  IInv'
<1> USE DEF IInv, DiskInv
<1>1. TypeOK' /\ LogInv'
  BY MergeTyped, MergeLogs
<1>2. DiskCovered'
  BY MergeCovered
<1>3. NewestOnDisk' /\ LogOnDisk'
  BY MergeNewest, MergeLogShown
<1>4. GeneratedAfterPeer' /\ DeletedRowStaysDeleted'
  BY MergeGenerated, MergeDeleted
<1> QED
  BY <1>1, <1>2, <1>3, <1>4

(* Every step is an edit, an apply, a restart, or none.                    *)
LEMMA NextForms ==
  ASSUME TypeOK, Next
  PROVE  \/ \E d \in world.devices, r \in world.rows : \E e, row : EditOf(d, r, e, row)
         \/ \E d, p \in world.devices :
              Linked(d, p) /\ \E batch, new, written : MergeOf(d, p, batch, new, written)
         \/ \E d \in world.devices : Restart(d)
<1>1. PICK d \in world.devices :
        \/ \E r \in world.rows : \/ Add(d, r) \/ EditRow(d, r) \/ EditCell(d, r) \/ Delete(d, r)
                                 \/ RecurringApply(d, r) \/ Reinstate(d, r)
        \/ \E p \in world.devices :
             Linked(d, p) /\ (Merge(d, p) \/ MergeFailsInFiles(d, p) \/ MergeFailsInLog(d, p))
        \/ Restart(d)
  BY DEF Next
<1>2. ASSUME NEW r \in world.rows,
             \/ Add(d, r) \/ EditRow(d, r) \/ EditCell(d, r) \/ Delete(d, r)
             \/ RecurringApply(d, r) \/ Reinstate(d, r)
      PROVE  \E e, row : EditOf(d, r, e, row)
  BY <1>2, EditForms
<1>3. ASSUME NEW p \in world.devices,
             Merge(d, p) \/ MergeFailsInFiles(d, p) \/ MergeFailsInLog(d, p)
      PROVE  \E batch, new, written : MergeOf(d, p, batch, new, written)
  BY <1>3, MergeForms
<1> QED
  BY <1>1, <1>2, <1>3

(* What always holds of the logs and the files: the invariant is           *)
(* established by Init and kept by every step.                             *)
THEOREM ReplicaInvariant == Spec => []IInv
<1>1. Init => IInv
  BY InitInvariant
<1>2. IInv /\ [Next]_vars => IInv'
  <2>1. SUFFICES ASSUME IInv, [Next]_vars PROVE IInv'
    OBVIOUS
  <2>2. CASE Next
    <3>1. ASSUME NEW d \in world.devices, NEW r \in world.rows, NEW e, NEW row, EditOf(d, r, e, row)
          PROVE  IInv'
      BY <2>1, <3>1, EditKeeps
    <3>2. ASSUME NEW d \in world.devices, NEW p \in world.devices, Linked(d, p),
                 NEW batch, NEW new, NEW written, MergeOf(d, p, batch, new, written)
          PROVE  IInv'
      BY <2>1, <3>2, MergeKeeps
    <3>3. ASSUME NEW d \in world.devices, Restart(d)
          PROVE  IInv'
      BY <2>1, <3>3, RestartKeeps
    <3>4. TypeOK
      BY <2>1 DEF IInv
    <3> QED
      BY <3>1, <3>2, <3>3, <3>4, <2>2, NextForms
  <2>3. CASE UNCHANGED vars
    <3> USE <2>1, <2>3 DEF vars, IInv, LogInv, DiskInv
    <3>e. Everything' = Everything
      BY DEF Everything
    <3>1. TypeOK'
      BY DEF TypeOK
    <3>2. LogInv'
      BY <3>e DEF Kinds, Stamped, KeysUnique, PrefixPerDevice
    <3>3. DiskCovered' /\ DeletedRowStaysDeleted'
      BY DEF DiskCovered, DeletedRowStaysDeleted
    <3>4. NewestOnDisk'
      BY <3>e DEF NewestOnDisk, Convergent, OnePhone
    <3>5. LogOnDisk'
      BY DEF LogOnDisk, Convergent, OnePhone
    <3>6. GeneratedAfterPeer'
      BY <3>e DEF GeneratedAfterPeer, OnePhone
    <3> QED
      BY <3>1, <3>2, <3>3, <3>4, <3>5, <3>6
  <2> QED
    BY <2>1, <2>2, <2>3
<1> QED
  BY <1>1, <1>2, PTL DEF Spec

(* The state of the replicas always has its types. *)
THEOREM ReplicaTypes == Spec => []TypeOK
<1>1. IInv => TypeOK
  BY DEF IInv
<1> QED
  BY <1>1, ReplicaInvariant, PTL

(* Every log holds a prefix of what each device wrote, also after an apply *)
(* that stored part of its batch: entries_missing_from may count on it.    *)
THEOREM LogsHoldPrefixes == Spec => []PrefixPerDevice
<1>1. IInv => PrefixPerDevice
  BY DEF IInv, LogInv
<1> QED
  BY <1>1, ReplicaInvariant, PTL

(* Where the user's own newest word on a generated row is a delete, no     *)
(* device that heard it shows the row, with any number of phones.          *)
THEOREM DeletedRowsStayDeleted == Spec => []DeletedRowStaysDeleted
<1>1. IInv => DeletedRowStaysDeleted
  BY DEF IInv, DiskInv
<1> QED
  BY <1>1, ReplicaInvariant, PTL

(* A file shows what its log describes: while no apply has failed, and     *)
(* whenever the log has all there is.                                      *)
THEOREM DisksMatchLogs == Spec => []DiskMatchesLog
<1>1. IInv => DiskMatchesLog
  <2>1. SUFFICES ASSUME IInv, NEW d \in world.devices, NEW r \in world.rows,
                        failures = 0 \/ log[d] = Everything, Convergent(r)
                 PROVE  RowInStep(d, r)
    BY DEF DiskMatchesLog, Convergent
  <2> DEFINE L == About(log[d], r)
  <2>2. Shows(disk[d][r], L, L, r \in FixedRow)
    BY <2>1 DEF IInv, DiskInv, NewestOnDisk, LogOnDisk
  <2>3. Clean(L) /\ disk[d][r] \in Content \cup {Absent}
    <3>1. TypeOK /\ LogInv
      BY <2>1 DEF IInv
    <3>2. Clean(L)
      BY <3>1, EverythingClean, CleanPart, CleanAbout, WorldTypes
    <3> QED
      BY <3>1, <3>2 DEF TypeOK
  <2>4. disk[d][r] = Described(L, r \in FixedRow)
    <3> HIDE DEF L
    <3> QED
      BY <2>2, <2>3, ShowsDescribed
  <2>5. L = {} => Described(L, r \in FixedRow) = EmptyRow(r)
    <3>1. SUFFICES ASSUME L = {} PROVE Described({}, r \in FixedRow) = EmptyRow(r)
      OBVIOUS
    <3>2. RowWinner({}) = {} /\ Deleted({}) = {} /\ BaseUpsert({}) = {}
      BY DEF RowWinner, Deleted, BaseUpsert, Newest, Deletes, Upserts
    <3>3. \A c : Shown({}, c) = {}
      BY <3>2 DEF Shown, CellWinner, Newest, Cells
    <3>4. Values({}) = [c \in Column |-> Unset]
      BY <3>3 DEF Values
    <3> QED
      BY <3>2, <3>4 DEF Described, EmptyRow
  <2> QED
    BY <2>4, <2>5 DEF RowInStep
<1> QED
  BY <1>1, ReplicaInvariant, PTL

(* No batch a peer can offer is refused, also after failed applies on a    *)
(* hub with one phone: the retry of a part applied batch goes through.     *)
THEOREM BatchesAreAccepted == Spec => []BatchIsAccepted
<1>1. IInv => BatchIsAccepted
  <2>1. SUFFICES ASSUME IInv, failures = 0 \/ OnePhone,
                        NEW d \in world.devices, NEW p \in world.devices, Linked(d, p),
                        NEW batch \in Batches(d, p), NEW r \in world.rows \cap CellRow,
                        SetsCells(Known(p, batch, r), Remote(p, batch, r), r \in FixedRow)
                 PROVE  disk[p][r] # Absent
    BY DEF BatchIsAccepted, Accepted
  <2>i. TypeOK /\ LogInv /\ NewestOnDisk /\ LogOnDisk
    BY <2>1 DEF IInv, DiskInv
  <2> DEFINE S == Known(p, batch, r)
             T == About(Everything, r)
             L == About(log[p], r)
  <2>2. batch \in SUBSET Everything
    BY <2>i, BatchIsEnough, WorldTypes
  <2>3. Clean(T) /\ S \in SUBSET T /\ L \in SUBSET S /\ Remote(p, batch, r) = S \ L
    BY <2>i, <2>2, KnownRows
  <2>4. r \notin DerivedRow /\ Convergent(r)
    BY ReplicaAssumption DEF Convergent
  <2>5. Plain(T)
    BY <2>i, <2>4, PlainRow
  <2>6. Shows(disk[p][r], L, S, r \in FixedRow)
    <3>1. CASE failures = 0
      <4>1. Shows(disk[p][r], L, L, r \in FixedRow)
        BY <2>i, <2>4, <3>1 DEF LogOnDisk
      <4> HIDE DEF S, T, L
      <4>2. Clean(S) /\ Plain(S)
        BY <2>3, <2>5 DEF Clean, Plain
      <4>3. Agree(L, S)
        BY <4>2, <2>3, PlainAgree
      <4> QED
        BY <4>1, <4>3, ShowsAmongMore
    <3>2. CASE OnePhone
      <4>1. Shows(disk[p][r], L, T, r \in FixedRow)
        BY <2>i, <2>4 DEF NewestOnDisk
      <4>2. S = T
        <5>1. world.devices \subseteq {d, p}
          BY <2>1, <3>2 DEF OnePhone, Linked
        <5>2. log[p] \cup batch = Everything
          BY <5>1, <2>i, BatchIsEnough DEF Everything
        <5> QED
          BY <5>2 DEF Known
      <4> HIDE DEF S, T, L
      <4> QED
        BY <4>1, <4>2
    <3> QED
      BY <2>1, <3>1, <3>2
  <2>7. SetsCells(S, S \ L, r \in FixedRow)
    BY <2>1, <2>3
  <2> HIDE DEF S, T, L
  <2>8. Clean(S)
    BY <2>3 DEF Clean
  <2> QED
    BY <2>3, <2>6, <2>7, <2>8, CellsFindTheirRow
<1> QED
  BY <1>1, ReplicaInvariant, PTL

(* An edit is stamped past every value its row showed, so no merge lets a  *)
(* value that the user has seen win over it: whatever failed before, but   *)
(* for a restart between a batch that failed part way and its retry.       *)
THEOREM EditsOutrankWhatTheySaw == Spec => EditOutranksWhatItSaw
<1> DEFINE Outranks ==
      \A d \in world.devices \ blind : \A x \in log'[d] \ log[d] :
        x.entry.key.device = d /\ disk[d][x.row] # Absent =>
          \A c \in Column : KeyBefore(disk[d][x.row][c], x.entry.key)
<1>1. IInv /\ [Next]_vars => [Outranks]_vars
  <2>1. SUFFICES ASSUME IInv, Next, NEW d \in world.devices \ blind, NEW x \in log'[d] \ log[d],
                        Origin(x) = d, disk[d][x.row] # Absent, NEW c \in Column
                 PROVE  KeyBefore(disk[d][x.row][c], x.entry.key)
    BY DEF Origin
  <2>i. TypeOK /\ LogInv /\ DiskCovered
    BY <2>1 DEF IInv, DiskInv
  <2>2. CASE \E p \in world.devices, r \in world.rows : \E e, row : EditOf(p, r, e, row)
    <3>p. PICK p \in world.devices, r \in world.rows : \E e, row : EditOf(p, r, e, row)
      BY <2>2
    <3>1. PICK e, row : EditOf(p, r, e, row)
      BY <3>p
    <3>2. p = d /\ x = New(r, e)
      <4>1. /\ log'[p] = log[p] \cup {New(r, e)}
            /\ \A q \in world.devices : q # p => log'[q] = log[q]
        BY <2>i, <3>1, EditEffect
      <4> QED
        BY <4>1, <2>1
    <3>3. x.row = r /\ x.entry = e /\ clock[d] < e.key.time /\ e.key.time \in Nat /\ clock[d] \in Nat
      <4>1. clock[p] < e.key.time /\ e.key.time \in 1..MaxTime /\ clock[p] \in Nat
        BY <2>i, <3>1, EditIsNew, WorldTypes
      <4> QED
        BY <4>1, <3>2, ReplicaAssumption DEF New
    <3>4. disk[d][r][c].time <= clock[d] /\ disk[d][r][c].time \in Nat
      <4>1. disk[d][r] \in Content
        BY <2>i, <2>1, <3>3 DEF TypeOK
      <4> QED
        BY <4>1, <2>i DEF DiskCovered, Content, Key
    <3> QED
      BY <3>3, <3>4 DEF KeyBefore
  <2>3. CASE \E p, q \in world.devices :
               Linked(p, q) /\ \E batch, new, written : MergeOf(p, q, batch, new, written)
    <3>p. PICK p \in world.devices, q \in world.devices :
            \E batch, new, written : MergeOf(p, q, batch, new, written)
      BY <2>3
    <3>1. PICK batch, new, written : MergeOf(p, q, batch, new, written)
      BY <3>p
    <3>2. Everything' = Everything /\ world' = world
      BY <2>i, <3>1, MergeEffect
    <3>3. x \in Everything
      BY <3>2, <2>1 DEF Everything
    <3>4. x \in log[d]
      BY <3>3, <2>i, <2>1, OwnComplete
    <3> QED
      BY <3>4, <2>1
  <2>4. CASE \E p \in world.devices : Restart(p)
    BY <2>1, <2>4 DEF Restart
  <2> QED
    BY <2>i, <2>1, <2>2, <2>3, <2>4, NextForms
<1> QED
  BY <1>1, ReplicaInvariant, PTL DEF Spec, EditOutranksWhatItSaw

-----------------------------------------------------------------------------
(* The abstract specification                                              *)

(* What a device has heard of after its log has grown by these records.    *)
LEMMA HeardGrows ==
  ASSUME TypeOK, world' = world, NEW d \in world.devices, NEW new,
         log' = [log EXCEPT ![d] = @ \cup new]
  PROVE  Heard' = [Heard EXCEPT ![d] = @ \cup {x.entry.key : x \in new}]
<1> DEFINE Keys(L) == {x.entry.key : x \in L}
<1>1. Keys(log[d] \cup new) = Keys(log[d]) \cup Keys(new)
  OBVIOUS
<1>2. \A p \in world.devices : log'[p] = IF p = d THEN log[d] \cup new ELSE log[p]
  BY DEF TypeOK
<1>3. Heard = [p \in world.devices |-> Keys(log[p])]
  BY DEF Heard
<1>4. Heard' = [p \in world.devices |-> Keys(log'[p])]
  BY DEF Heard
<1> HIDE DEF Keys
<1>5. Heard' = [Heard EXCEPT ![d] = @ \cup Keys(new)]
  <2> DEFINE more == [Heard EXCEPT ![d] = Heard[d] \cup Keys(new)]
  <2>1. \A p \in world.devices : Keys(log'[p]) = IF p = d THEN Keys(log[d]) \cup Keys(new) ELSE Keys(log[p])
    BY ONLY <1>1, <1>2
  <2>2. Heard[d] = Keys(log[d])
    BY ONLY <1>3, d \in world.devices
  <2>3. more = [p \in world.devices |-> Keys(log'[p])]
    BY ONLY <1>3, <2>1, <2>2, d \in world.devices
  <2> QED
    BY ONLY <1>4, <2>3
<1> QED
  BY <1>5 DEF Keys

(* An edit makes a change. *)
LEMMA EditMakes ==
  ASSUME IInv, NEW d \in world.devices, NEW r, NEW e, NEW row, EditOf(d, r, e, row)
  PROVE  Promise!Make(d)
<1>1. /\ world' = world /\ log' = [log EXCEPT ![d] = @ \cup {[row |-> r, entry |-> e]}]
      /\ e.key \in NewKeys(d)
  BY DEF EditOf, Change
<1>2. PICK t \in clock[d] + 1 .. MaxTime : e.key = [time |-> t, device |-> d]
  BY <1>1 DEF NewKeys
<1>3. {x.entry.key : x \in {[row |-> r, entry |-> e]}} = {[time |-> t, device |-> d]}
  BY <1>2
<1>4. Heard' = [Heard EXCEPT ![d] = @ \cup {[time |-> t, device |-> d]}]
  BY <1>1, <1>3, HeardGrows DEF IInv
<1>5. clock[d] \in Nat /\ MaxTime \in Nat /\ t \in 1..MaxTime
  BY WorldTypes, ReplicaAssumption DEF IInv
<1>6. ASSUME NEW p \in world.devices, NEW x \in log[p], Origin(x) = d \/ x \in log[d]
      PROVE  Time(x) < t
  <2>1. x \in Everything
    BY WorldTypes DEF IInv
  <2>2. x \in log[d] /\ Time(x) \in 1..MaxTime
    BY <1>6, <2>1, OwnComplete DEF IInv
  <2>3. Time(x) <= clock[d]
    BY <2>2 DEF IInv, LogInv, Stamped
  <2> QED
    BY <1>5, <2>2, <2>3
<1>7. ASSUME NEW k \in Promise!Made, k.device = d \/ k \in Heard[d]
      PROVE  k.time < t
  <2>1. CASE k \in Heard[d]
    BY <1>6, <2>1 DEF Heard, Time
  <2>2. CASE k.device = d
    <3>1. PICK p \in world.devices : k \in Heard[p]
      BY DEF Promise!Made, Heard
    <3> QED
      BY <1>6, <2>2, <3>1 DEF Heard, Time, Origin
  <2> QED
    BY <1>7, <2>1, <2>2
<1> QED
  BY <1>4, <1>5, <1>7 DEF Promise!Make

(* An apply hears of changes, without a gap even where it stops part way.  *)
LEMMA MergeHears ==
  ASSUME IInv, NEW from \in world.devices, NEW to \in world.devices, Linked(from, to),
         NEW batch, NEW new, NEW written, MergeOf(from, to, batch, new, written)
  PROVE  Promise!Hear(to, from)
<1> DEFINE keys == {x.entry.key : x \in new}
           news == keys \ Heard[to]
<1>1. /\ world' = world /\ log' = [log EXCEPT ![to] = @ \cup new] /\ batch \in Batches(from, to)
      /\ new \subseteq batch
  BY DEF MergeOf
<1>2. Heard' = [Heard EXCEPT ![to] = @ \cup news]
  <2>1. Heard' = [Heard EXCEPT ![to] = Heard[to] \cup keys]
    BY <1>1, HeardGrows DEF IInv
  <2>2. Heard[to] \cup keys = Heard[to] \cup news
    OBVIOUS
  <2> QED
    BY <2>1, <2>2
<1>3. new \subseteq log[from] /\ from # to /\ Hub \in {to, from}
  BY <1>1, BatchIsEnough DEF IInv, Linked
<1>4. news \in SUBSET (Heard[from] \ Heard[to])
  BY <1>3 DEF Heard
<1>5. PrefixPerDevice'
  BY MergeLogs DEF IInv, LogInv
<1>6. ASSUME NEW j \in Heard[from], NEW k \in Heard'[to], j.device = k.device, j.time < k.time
      PROVE  j \in Heard'[to]
  <2>1. PICK x \in log[from] : j = x.entry.key
    BY DEF Heard
  <2>2. PICK y \in log'[to] : k = y.entry.key
    BY <1>1 DEF Heard
  <2>3. x \in log'[from]
    BY <1>1, <1>3 DEF IInv, TypeOK
  <2>4. x \in log'[to]
    BY <1>1, <1>5, <1>6, <2>1, <2>2, <2>3 DEF PrefixPerDevice
  <2> QED
    BY <1>1, <2>1, <2>4 DEF Heard
<1> QED
  BY <1>2, <1>3, <1>4, <1>6 DEF Promise!Hear

(* Replicas implements Histories: every step makes or hears of changes, or *)
(* leaves what is heard as it is.                                          *)
THEOREM ReplicasKeepHistories == Spec => HistoriesAreKept
<1>1. Init => Promise!Init
  BY DEF Init, Promise!Init, Heard
<1>2. IInv /\ [Next]_vars => [Promise!Next]_Heard
  <2>1. SUFFICES ASSUME IInv, [Next]_vars PROVE [Promise!Next]_Heard
    OBVIOUS
  <2>2. DOMAIN Heard = world.devices
    BY DEF Heard
  <2>3. ASSUME NEW d \in world.devices, NEW r, NEW e, NEW row, EditOf(d, r, e, row)
        PROVE  Promise!Next
    BY <2>1, <2>2, <2>3, EditMakes DEF Promise!Next
  <2>4. ASSUME NEW d \in world.devices, NEW p \in world.devices, Linked(d, p),
               NEW batch, NEW new, NEW written, MergeOf(d, p, batch, new, written)
        PROVE  Promise!Next
    BY <2>1, <2>2, <2>4, MergeHears DEF Promise!Next
  <2>5. ASSUME UNCHANGED <<log, world>> PROVE UNCHANGED Heard
    BY <2>5 DEF Heard
  <2>6. CASE Next
    <3>1. TypeOK
      BY <2>1 DEF IInv
    <3>2. ASSUME NEW d, Restart(d) PROVE UNCHANGED Heard
      BY <2>5, <3>2 DEF Restart
    <3> QED
      BY <2>3, <2>4, <2>6, <3>1, <3>2, NextForms
  <2>7. CASE UNCHANGED vars
    BY <2>5, <2>7 DEF vars
  <2> QED
    BY <2>1, <2>6, <2>7
<1> QED
  BY <1>1, <1>2, ReplicaInvariant, PTL DEF Spec, HistoriesAreKept, Promise!Spec

=============================================================================

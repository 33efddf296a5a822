--------------------------- MODULE NetWorthProofs ---------------------------
(***************************************************************************)
(* What holds of NetWorth for every set of devices, names and pages and    *)
(* for every bound: a log that is not marked tells the tables, row by row, *)
(* settled devices show the same, an asset keeps its two rows or none, and *)
(* the charts add up.                                                      *)
(***************************************************************************)
EXTENDS NetWorth, FiniteSetTheorems, WellFoundedInduction, TLAPS

(* The tables are sequences of rows with an id each, and no two with one.  *)
(* n bounds the ids given so far.                                          *)
GoodRow(row, n) == row.id \in 1..n /\ row = RowOf(row.id, [c \in Column |-> row[c]])

GoodSheet(sheet, n) ==
  /\ sheet \in Seq(Range(sheet)) /\ IdsAreUnique(sheet)
  /\ \A i \in DOMAIN sheet : GoodRow(sheet[i], n)

GoodFrames(f, n) == DOMAIN f = Table /\ \A t \in Table : GoodSheet(f[t], n)

(* A step saves such a table, or records a change of a row. *)
IsSave(step, t) == step.do = "save" /\ step.table = t

IsRecord(step) == step.do = "record"

GoodStep(step, n) ==
  \/ step.do = "save" /\ step.table \in Table /\ GoodSheet(step.sheet, n)
  \/ /\ step.do = "record" /\ step.table \in Table /\ step.id \in 1..n
     /\ step.op \in {"upsert", "delete", "cell"}

GoodSteps(todo, n) ==
  todo \in Seq(Range(todo)) /\ \A i \in DOMAIN todo : GoodStep(todo[i], n)

(* An entry is about a row of a table.  Nothing here is generated. *)
GoodEntry(e, n) ==
  /\ e.table \in Table /\ e.id \in 1..n
  /\ e.op \in {"upsert", "delete", "cell"} /\ e.generated = FALSE
  /\ e.key.time \in Nat /\ e.key.device \in Device

Typed ==
  /\ page \in Page /\ requests \in Nat /\ failures \in Nat
  /\ DOMAIN disk = Device /\ DOMAIN log = Device /\ DOMAIN steps = Device
  /\ clock \in [Device -> Nat]
  /\ IsFiniteSet(Everything) /\ \A e \in Everything : GoodEntry(e, requests)
  /\ \A d \in Device : GoodFrames(disk[d], requests) /\ GoodSteps(steps[d], requests)

(* A stamp tells an entry, and a device holds all it has written, with its *)
(* clock not behind anything it holds.                                     *)
Distinct(S) ==
  \A e, f \in S : e.key.time = f.key.time /\ e.key.device = f.key.device => e = f

StampsTell ==
  /\ Distinct(Everything)
  /\ \A d \in Device : \A e \in Everything : e.key.device = d => e \in log[d]
  /\ \A d \in Device : \A e \in log[d] : e.key.time <= clock[d]

-----------------------------------------------------------------------------
(* What a log tells of a table                                             *)

(* Of the entries S of a row, w decides whether it is there. *)
Decides(S, w) ==
  w \in S /\ w.op # "cell" /\ \A e \in S : e.op # "cell" => e = w \/ M!Precedes(e, w)

(* Over the upsert w, v gives the value of column c. *)
Shows(S, w, c, v) ==
  /\ v \in S
  /\ v = w \/ (v.op = "cell" /\ v.column = c /\ M!Precedes(w, v))
  /\ \A e \in S :
       e.op = "cell" /\ e.column = c /\ M!Precedes(w, e) => e = v \/ M!Precedes(e, v)

OfRow(S, t, id) == {e \in S : e.table = t /\ e.id = id}

(* Of the entries U there are, a device holds L.  Where one of L decides a *)
(* row or a cell of table t, the sheet says what it says.                  *)
Tells(L, U, t, sheet) ==
  /\ \A i \in DOMAIN sheet : \E e \in OfRow(U, t, sheet[i].id) : e.op # "cell"
  /\ \A w \in L : w.table = t /\ Decides(OfRow(U, t, w.id), w) =>
       /\ w.op = "delete" => \A i \in DOMAIN sheet : sheet[i].id # w.id
       /\ w.op = "upsert" =>
            /\ \E i \in DOMAIN sheet : sheet[i].id = w.id
            /\ \A i \in DOMAIN sheet : sheet[i].id = w.id =>
                 \A c \in Column : \A v \in L :
                   Shows(OfRow(U, t, w.id), w, c, v) => sheet[i][c] = v.cells[c]

(* The entries that count against what device d holds: its files follow    *)
(* its log alone, until a merge that failed may have changed a file        *)
(* without storing the entries.                                            *)
Heard(d) == IF failures = 0 \/ ~apart THEN log[d] ELSE Everything

-----------------------------------------------------------------------------
(* What the rest of a request will do                                      *)

(* The times at which the steps of a device with the log L can be: after   *)
(* all of the log, and after every record before.                          *)
Stamps(todo, L) ==
  {s \in [DOMAIN todo -> Nat] :
     /\ \A i \in DOMAIN todo : \A e \in L : e.key.time < s[i]
     /\ \A i, j \in DOMAIN todo : i < j /\ IsRecord(todo[i]) => s[i] < s[j]}

(* What its first k steps record. *)
Written(todo, s, k, d) ==
  {EntryOf(todo[i], [time |-> s[i], device |-> d]) :
     i \in {j \in DOMAIN todo : j <= k /\ IsRecord(todo[j])}}

(* After step k a record of table t follows whose save is done. *)
OpenAfter(todo, k, t) ==
  \E j \in DOMAIN todo :
    /\ k < j /\ IsRecord(todo[j]) /\ todo[j].table = t
    /\ \A i \in DOMAIN todo : k < i /\ i < j => ~IsSave(todo[i], t)

(* The file of table t is this sheet after step k. *)
SheetAfter(todo, f, k, t, sheet) ==
  \/ sheet = f[t] /\ \A i \in DOMAIN todo : i <= k => ~IsSave(todo[i], t)
  \/ \E j \in DOMAIN todo :
       /\ j <= k /\ IsSave(todo[j], t) /\ sheet = todo[j].sheet
       /\ \A i \in DOMAIN todo : j < i /\ i <= k => ~IsSave(todo[i], t)

(* Wherever the request is cut off, but with no save left unrecorded, the  *)
(* log tells the tables.                                                   *)
Coherent(todo, f, L, U, d) ==
  \A s \in Stamps(todo, L), k \in 0..Len(todo), t \in Table :
    ~OpenAfter(todo, k, t) =>
      \A sheet : SheetAfter(todo, f, k, t, sheet) =>
        Tells(L \cup Written(todo, s, k, d), U \cup Written(todo, s, k, d), t, sheet)

RequestsAreCoherent ==
  \A d \in Device \ (marked \cup astray) :
    Coherent(steps[d], disk[d], log[d], Heard(d), d)

IInv == Typed /\ StampsTell /\ RequestsAreCoherent

-----------------------------------------------------------------------------
(* What a request does to the rows of one table                            *)

(* New entries are later than all the device has. *)
Timed(S) == \A e \in S : e.key.time \in Nat

Later(V, L) == \A e \in V, f \in L : f.key.time < e.key.time

(* By then they win against those. *)
LEMMA LaterWins ==
  ASSUME NEW e, NEW f, e.key.time \in Nat, f.key.time \in Nat, f.key.time < e.key.time
  PROVE  M!Precedes(f, e) /\ ~M!Precedes(e, f) /\ e # f
BY DEF M!Precedes, M!KeyBefore

(* Who holds less is told less, and what others write tells no more of     *)
(* what it holds.                                                          *)
LEMMA TellsLess ==
  ASSUME NEW L, NEW U, NEW K, NEW W, NEW t, NEW sheet,
         K \subseteq L, K \subseteq U, U \subseteq W, Tells(L, U, t, sheet)
  PROVE  Tells(K, W, t, sheet)
<1>1. ASSUME NEW i \in DOMAIN sheet
      PROVE  \E e \in OfRow(W, t, sheet[i].id) : e.op # "cell"
  BY DEF Tells, OfRow
<1>2. ASSUME NEW w \in K, w.table = t, Decides(OfRow(W, t, w.id), w)
      PROVE  w \in L /\ Decides(OfRow(U, t, w.id), w)
  BY <1>2 DEF Decides, OfRow
<1>3. ASSUME NEW w \in K, NEW c, NEW v \in K, Shows(OfRow(W, t, w.id), w, c, v)
      PROVE  v \in L /\ Shows(OfRow(U, t, w.id), w, c, v)
  BY <1>3 DEF Shows, OfRow
<1> QED
  BY <1>1, <1>2, <1>3 DEF Tells

(* Only the entries about the table matter. *)
LEMMA TellsOfTable ==
  ASSUME NEW L, NEW U, NEW K, NEW W, NEW t, NEW sheet,
         \A e : e.table = t => (e \in L <=> e \in K),
         \A e : e.table = t => (e \in U <=> e \in W),
         Tells(L, U, t, sheet)
  PROVE  Tells(K, W, t, sheet)
<1>1. \A id : OfRow(W, t, id) = OfRow(U, t, id)
  BY DEF OfRow
<1>2. ASSUME NEW w, NEW c, NEW v, Shows(OfRow(W, t, w.id), w, c, v)
      PROVE  v.table = t
  BY <1>2 DEF Shows, OfRow
<1>3. \A i \in DOMAIN sheet : \E e \in OfRow(W, t, sheet[i].id) : e.op # "cell"
  BY <1>1 DEF Tells
<1>4. ASSUME NEW w \in K, w.table = t, Decides(OfRow(W, t, w.id), w)
      PROVE  w \in L /\ Decides(OfRow(U, t, w.id), w)
  BY <1>1, <1>4
<1>5. ASSUME NEW w \in K, w.table = t, Decides(OfRow(W, t, w.id), w), w.op = "upsert",
             NEW i \in DOMAIN sheet, sheet[i].id = w.id,
             NEW c \in Column, NEW v \in K, Shows(OfRow(W, t, w.id), w, c, v)
      PROVE  sheet[i][c] = v.cells[c]
  <2>1. w \in L /\ Decides(OfRow(U, t, w.id), w)
    BY <1>4, <1>5
  <2>2. v \in L /\ Shows(OfRow(U, t, w.id), w, c, v)
    BY <1>1, <1>2, <1>5
  <2> QED
    BY <1>5, <2>1, <2>2 DEF Tells
<1>6. ASSUME NEW w \in K, w.table = t, Decides(OfRow(W, t, w.id), w)
      PROVE  /\ w.op = "delete" => \A i \in DOMAIN sheet : sheet[i].id # w.id
             /\ w.op = "upsert" => \E i \in DOMAIN sheet : sheet[i].id = w.id
  BY <1>4, <1>6 DEF Tells
<1> QED
  BY <1>3, <1>5, <1>6 DEF Tells

(* V sets column c of the rows of some ids to a value. *)
SetsColumn(V, t, ids, c, value) ==
  /\ \A e \in V : e.table = t /\ e.op = "cell" /\ e.column = c /\ e.cells[c] = value /\ e.id \in ids
  /\ \A id \in ids : \E e \in V : e.id = id

(* They are later than what gave that column a value before. *)
LaterOn(V, L, c) ==
  \A e \in V, f \in L : f.op # "cell" \/ f.column = c => f.key.time < e.key.time

(* The cells of the rows of one name change, and entries say so. *)
LEMMA SettingTells ==
  ASSUME NEW L, NEW U, NEW V, NEW t, NEW sheet, NEW n, NEW c \in Column, NEW value,
         Timed(L), Timed(V), LaterOn(V, L, c), IdsAreUnique(sheet),
         \A i \in DOMAIN sheet : DOMAIN sheet[i] = Column \cup {"id"},
         SetsColumn(V, t, {sheet[i].id : i \in {j \in DOMAIN sheet : sheet[j].name = n}},
                    c, value),
         Tells(L, U, t, sheet)
  PROVE  Tells(L \cup V, U \cup V, t, SetWhere(sheet, n, c, value))
<1> DEFINE new == SetWhere(sheet, n, c, value)
           hits == {j \in DOMAIN sheet : sheet[j].name = n}
<1>1. /\ DOMAIN new = DOMAIN sheet
      /\ \A i \in DOMAIN sheet : new[i] = IF i \in hits THEN [sheet[i] EXCEPT ![c] = value]
                                          ELSE sheet[i]
  BY DEF SetWhere
<1>2. c # "id"
  BY DEF Column
<1> HIDE DEF new
<1>3. \A i \in DOMAIN sheet : new[i].id = sheet[i].id
  BY <1>1, <1>2
<1>4. /\ \A e \in V : /\ e.table = t /\ e.op = "cell" /\ e.column = c /\ e.cells[c] = value
                      /\ \E i \in hits : e.id = sheet[i].id
      /\ \A i \in hits : \E e \in V : e.id = sheet[i].id
  BY DEF SetsColumn
<1>5. ASSUME NEW w \in L \cup V, w.table = t, Decides(OfRow(U \cup V, t, w.id), w)
      PROVE  w \in L /\ Decides(OfRow(U, t, w.id), w)
  BY <1>4, <1>5 DEF Decides, OfRow
<1>6. ASSUME NEW w \in L \cup V, w.table = t, Decides(OfRow(U \cup V, t, w.id), w),
             w.op = "upsert", NEW i \in DOMAIN sheet, sheet[i].id = w.id,
             NEW k \in Column, NEW v \in L \cup V, Shows(OfRow(U \cup V, t, w.id), w, k, v)
      PROVE  new[i][k] = v.cells[k]
  <2>1. w \in L /\ Decides(OfRow(U, t, w.id), w)
    BY <1>5, <1>6
  <2>2. CASE v \in V
    <3>1. v # w /\ v.column = k /\ k = c /\ v.id = w.id
      BY <1>4, <1>6, <2>2 DEF Shows, OfRow
    <3>2. PICK j \in hits : v.id = sheet[j].id
      BY <1>4, <2>2
    <3>3. i = j
      BY <1>6, <3>1, <3>2 DEF IdsAreUnique
    <3>4. new[i] = [sheet[i] EXCEPT ![c] = value] /\ c \in DOMAIN sheet[i]
      BY <1>1, <3>2, <3>3
    <3> QED
      BY <1>4, <2>2, <3>1, <3>4
  <2>3. CASE v \in L /\ v \notin V
    <3>1. Shows(OfRow(U, t, w.id), w, k, v)
      BY <1>6, <2>3 DEF Shows, OfRow
    <3>2. sheet[i][k] = v.cells[k]
      BY <1>6, <2>1, <2>3, <3>1 DEF Tells
    <3>3. CASE i \in hits /\ k = c
      <4>1. PICK e \in V : e.id = sheet[i].id
        BY <1>4, <3>3
      <4>2. e.key.time \in Nat /\ v.key.time \in Nat /\ w.key.time \in Nat
        BY <2>1, <2>3 DEF Timed
      <4>3. v.key.time < e.key.time /\ w.key.time < e.key.time
        <5>1. v = w \/ v.column = c
          BY <1>6, <3>3 DEF Shows
        <5> QED
          BY <1>6, <2>1, <2>3, <5>1 DEF LaterOn
      <4>4. M!Precedes(w, e) /\ e # v /\ ~M!Precedes(e, v)
        BY <4>2, <4>3, LaterWins
      <4>5. e \in OfRow(U \cup V, t, w.id) /\ e.op = "cell" /\ e.column = k
        BY <1>4, <1>6, <3>3, <4>1 DEF OfRow
      <4> QED
        BY <1>6, <4>4, <4>5 DEF Shows
    <3>4. CASE ~(i \in hits /\ k = c)
      BY <1>1, <3>2, <3>4
    <3> QED
      BY <3>3, <3>4
  <2> QED
    BY <2>2, <2>3
<1>7. ASSUME NEW w \in L \cup V, w.table = t, Decides(OfRow(U \cup V, t, w.id), w)
      PROVE  /\ w.op = "delete" => \A i \in DOMAIN sheet : sheet[i].id # w.id
             /\ w.op = "upsert" => \E i \in DOMAIN sheet : sheet[i].id = w.id
  BY <1>5, <1>7 DEF Tells
<1>8. ASSUME NEW i \in DOMAIN sheet
      PROVE  \E e \in OfRow(U \cup V, t, sheet[i].id) : e.op # "cell"
  BY DEF Tells, OfRow
<1>9. \A i \in DOMAIN new : \E e \in OfRow(U \cup V, t, new[i].id) : e.op # "cell"
  BY <1>1, <1>3, <1>8
<1>10. ASSUME NEW w \in L \cup V, w.table = t, Decides(OfRow(U \cup V, t, w.id), w)
       PROVE  /\ w.op = "delete" => \A i \in DOMAIN new : new[i].id # w.id
              /\ w.op = "upsert" => \E i \in DOMAIN new : new[i].id = w.id
              /\ w.op = "upsert" =>
                   \A i \in DOMAIN new : new[i].id = w.id =>
                     \A k \in Column : \A v \in L \cup V :
                       Shows(OfRow(U \cup V, t, w.id), w, k, v) => new[i][k] = v.cells[k]
  <2>1. w.op = "delete" => \A i \in DOMAIN new : new[i].id # w.id
    BY <1>1, <1>3, <1>7, <1>10
  <2>2. w.op = "upsert" => \E i \in DOMAIN new : new[i].id = w.id
    BY <1>1, <1>3, <1>7, <1>10
  <2>3. ASSUME w.op = "upsert", NEW i \in DOMAIN new, new[i].id = w.id, NEW k \in Column,
               NEW v \in L \cup V, Shows(OfRow(U \cup V, t, w.id), w, k, v)
        PROVE  new[i][k] = v.cells[k]
    <3>1. i \in DOMAIN sheet /\ sheet[i].id = w.id
      BY <1>1, <1>3, <2>3
    <3> QED
      BY <1>6, <1>10, <2>3, <3>1
  <2> QED
    BY <2>1, <2>2, <2>3
<1>11. Tells(L \cup V, U \cup V, t, new)
  BY <1>9, <1>10, Zenon DEF Tells
<1> QED
  BY <1>11 DEF new

-----------------------------------------------------------------------------
(* The rows at some positions                                              *)

(* A nonempty set of natural numbers has a least element. *)
LEMMA NatLeast ==
  ASSUME NEW T \in SUBSET Nat, T # {}
  PROVE  \E n \in T : \A m \in T : n <= m
<1>1. PICK n \in T : \A m \in T : ~(<<m, n>> \in OpToRel(<, Nat))
  BY WFMin, NatLessThanWellFounded
<1>2. \A m \in T : ~(m < n)
  BY <1>1 DEF OpToRel
<1> QED
  BY <1>2

(* Where before[x] are the elements of P that come before x in a line, how *)
(* many they are numbers the elements from zero.                           *)
Lined(P, before) ==
  /\ IsFiniteSet(P)
  /\ \A x \in P : before[x] \subseteq P /\ x \notin before[x]
  /\ \A x, y \in P : x = y \/ (before[x] \subseteq before[y] /\ x \in before[y])
                           \/ (before[y] \subseteq before[x] /\ y \in before[x])

Numbered(P, before) ==
  /\ Cardinality(P) \in Nat
  /\ \A x \in P : Cardinality(before[x]) \in 0..Cardinality(P) - 1
  /\ \A x, y \in P : Cardinality(before[x]) = Cardinality(before[y]) => x = y
  /\ \A n \in 0..Cardinality(P) - 1 : \E x \in P : Cardinality(before[x]) = n

(* Such numbers are given: each rank, from zero on, to one of them.        *)
LEMMA RanksAreNumbers ==
  ASSUME NEW P, NEW before, Lined(P, before)
  PROVE  Numbered(P, before)
<1> DEFINE N == Cardinality(P)
           rank == [x \in P |-> Cardinality(before[x])]
<1>1. N \in Nat /\ IsFiniteSet(P)
  BY FS_CardinalityType DEF Lined
<1>2. ASSUME NEW x \in P
      PROVE  /\ IsFiniteSet(before[x]) /\ Cardinality(before[x]) \in Nat
             /\ Cardinality(before[x]) < N
  <2>1. before[x] \in SUBSET P /\ x \in P /\ x \notin before[x]
    BY DEF Lined
  <2>2. IsFiniteSet(before[x]) /\ Cardinality(before[x]) <= N /\ before[x] # P
    BY <1>1, <2>1, FS_Subset
  <2>3. Cardinality(before[x]) \in Nat
    BY <2>2, FS_CardinalityType
  <2>4. Cardinality(before[x]) = N => before[x] = P
    BY <1>1, <2>1, FS_Subset
  <2> HIDE DEF N
  <2> QED
    BY <1>1, <2>2, <2>3, <2>4
<1>3. ASSUME NEW x \in P, NEW y \in P, x # y
      PROVE  rank[x] # rank[y]
  <2>1. ASSUME NEW u \in P, NEW v \in P, before[u] \subseteq before[v], u \in before[v]
        PROVE  Cardinality(before[u]) # Cardinality(before[v])
    <3>1. u \notin before[u]
      BY DEF Lined
    <3>2. before[u] \in SUBSET before[v] /\ before[u] # before[v]
      BY <2>1, <3>1
    <3> QED
      BY <1>2, <3>2, FS_Subset
  <2> QED
    BY <1>3, <2>1 DEF Lined
<1>4. rank \in [P -> 0..N - 1]
  BY <1>1, <1>2
<1>5. rank \in Injection(P, 0..N - 1)
  BY <1>3, <1>4 DEF Injection, IsInjective
<1>6. IsFiniteSet(0..N - 1) /\ Cardinality(0..N - 1) = N
  BY <1>1, FS_Interval
<1>7. rank \in Surjection(P, 0..N - 1)
  <2> HIDE DEF rank
  <2> QED
    BY <1>1, <1>5, <1>6, FS_Injection
<1>8. \A n \in 0..N - 1 : \E x \in P : rank[x] = n
  BY <1>7 DEF Surjection
<1> QED
  BY <1>1, <1>3, <1>4, <1>8 DEF Numbered

(* RowsAt takes the row at each position once, and nothing else. *)
LEMMA RowsAtPicks ==
  ASSUME NEW sheet, NEW N \in Nat, NEW P \in SUBSET (1..N)
  PROVE  /\ RowsAt(sheet, P) \in Seq(Range(RowsAt(sheet, P)))
         /\ \A n \in DOMAIN RowsAt(sheet, P) : \E i \in P : RowsAt(sheet, P)[n] = sheet[i]
         /\ \A i \in P : \E n \in DOMAIN RowsAt(sheet, P) : RowsAt(sheet, P)[n] = sheet[i]
         /\ (\A i, k \in P : sheet[i].id = sheet[k].id => i = k) => IdsAreUnique(RowsAt(sheet, P))
<1> DEFINE before == [i \in P |-> {j \in P : j < i}]
           At(n) == CHOOSE i \in P : Cardinality({j \in P : j <= i}) = n
           C == Cardinality(P)
           picked == RowsAt(sheet, P)
<1>1. \A i \in P : i \in Int
  OBVIOUS
<1>2. Lined(P, before)
  <2>1. IsFiniteSet(P)
    <3>1. IsFiniteSet(1..N)
      BY FS_Interval
    <3> QED
      BY ONLY <3>1, P \in SUBSET (1..N), FS_Subset
  <2>2. \A i \in P : before[i] \subseteq P /\ i \notin before[i]
    BY <1>1
  <2>3. \A i, k \in P : \/ i = k \/ (before[i] \subseteq before[k] /\ i \in before[k])
                                \/ (before[k] \subseteq before[i] /\ k \in before[i])
    <3>1. ASSUME NEW i \in P, NEW k \in P, i < k
          PROVE  before[i] \subseteq before[k] /\ i \in before[k]
      <4>1. \A j \in P : j < i => j < k
        BY <1>1, <3>1
      <4> QED
        BY <3>1, <4>1
    <3>2. \A i, k \in P : i = k \/ i < k \/ k < i
      BY <1>1
    <3> QED
      BY <3>1, <3>2
  <2> QED
    BY <2>1, <2>2, <2>3 DEF Lined
<1>3. \A i \in P : Cardinality({j \in P : j <= i}) = Cardinality(before[i]) + 1
  <2>1. ASSUME NEW i \in P
        PROVE  Cardinality({j \in P : j <= i}) = Cardinality(before[i]) + 1
    <3>1. {j \in P : j <= i} = before[i] \cup {i} /\ i \notin before[i] /\ before[i] \in SUBSET P
      <4>1. \A j \in P : j <= i <=> j < i \/ j = i
        BY <1>1
      <4>2. ~(i < i)
        BY <1>1
      <4> QED
        BY <4>1, <4>2
    <3>2. IsFiniteSet(before[i])
      BY <1>2, <3>1, FS_Subset DEF Lined
    <3> HIDE DEF before
    <3> QED
      BY <3>1, <3>2, FS_AddElement
  <2> QED
    BY <2>1
<1> HIDE DEF before
<1>4. /\ C \in Nat
      /\ \A i \in P : Cardinality(before[i]) \in 0..C - 1
      /\ \A i, k \in P : Cardinality(before[i]) = Cardinality(before[k]) => i = k
      /\ \A n \in 0..C - 1 : \E i \in P : Cardinality(before[i]) = n
  <2>1. Numbered(P, before)
    BY <1>2, RanksAreNumbers
  <2> QED
    BY <2>1 DEF Numbered
<1>5. DOMAIN picked = 1..C /\ picked = [n \in 1..C |-> sheet[At(n)]]
  BY DEF RowsAt
<1> HIDE DEF picked, C
<1>6. \A n \in 1..C : At(n) \in P /\ Cardinality(before[At(n)]) + 1 = n
  <2>1. ASSUME NEW n \in 1..C
        PROVE  At(n) \in P /\ Cardinality(before[At(n)]) + 1 = n
    <3>1. n - 1 \in 0..C - 1
      BY <1>4
    <3>2. PICK i \in P : Cardinality(before[i]) = n - 1
      BY <1>4, <3>1
    <3>3. Cardinality({j \in P : j <= i}) = n
      BY <1>3, <3>2
    <3>4. At(n) \in P /\ Cardinality({j \in P : j <= At(n)}) = n
      BY <3>3
    <3> QED
      BY <1>3, <3>4
  <2> QED
    BY <2>1
<1> HIDE DEF At
<1>7. \A i \in P : \E n \in 1..C : At(n) = i
  <2>1. ASSUME NEW i \in P
        PROVE  \E n \in 1..C : At(n) = i
    <3>1. Cardinality(before[i]) + 1 \in 1..C
      BY <1>4
    <3>2. PICK n \in 1..C : n = Cardinality(before[i]) + 1
      BY <3>1
    <3>3. At(n) \in P /\ Cardinality(before[At(n)]) + 1 = n
      BY <1>6
    <3>4. Cardinality(before[At(n)]) \in Nat /\ Cardinality(before[i]) \in Nat
      <4>1. \A j \in P : Cardinality(before[j]) \in Nat
        BY <1>4
      <4> QED
        BY <3>3, <4>1
    <3>5. Cardinality(before[At(n)]) = Cardinality(before[i])
      BY <3>2, <3>3, <3>4
    <3> QED
      BY <1>4, <3>3, <3>5
  <2> QED
    BY <2>1
<1>8. \A n \in DOMAIN picked : \E i \in P : picked[n] = sheet[i]
  BY <1>5, <1>6
<1>9. \A i \in P : \E n \in DOMAIN picked : picked[n] = sheet[i]
  BY <1>5, <1>7
<1>10. picked \in Seq(Range(picked))
  <2>1. picked \in [1..C -> Range(picked)]
    BY <1>5 DEF Range
  <2> QED
    BY <1>4, <2>1
<1>11. (\A i, k \in P : sheet[i].id = sheet[k].id => i = k) => IdsAreUnique(picked)
  <2>1. ASSUME \A i, k \in P : sheet[i].id = sheet[k].id => i = k,
               NEW n \in 1..C, NEW m \in 1..C, picked[n].id = picked[m].id
        PROVE  n = m
    <3>1. At(n) = At(m)
      BY <1>5, <1>6, <2>1
    <3>2. /\ Cardinality(before[At(n)]) + 1 = n /\ Cardinality(before[At(m)]) + 1 = m
      BY <1>6
    <3> QED
      BY <3>1, <3>2
  <2> QED
    BY <1>5, <2>1 DEF IdsAreUnique
<1> QED
  BY <1>8, <1>9, <1>10, <1>11 DEF picked

-----------------------------------------------------------------------------
(* Rows that go and rows that come                                         *)

(* What a filter keeps of a good table is a good table. *)
LEMMA FilterKeepsRows ==
  ASSUME NEW n, NEW sheet, GoodSheet(sheet, n), NEW P \in SUBSET DOMAIN sheet
  PROVE  /\ GoodSheet(RowsAt(sheet, P), n)
         /\ \A k \in DOMAIN RowsAt(sheet, P) : \E i \in P : RowsAt(sheet, P)[k] = sheet[i]
         /\ \A i \in P : \E k \in DOMAIN RowsAt(sheet, P) : RowsAt(sheet, P)[k] = sheet[i]
<1>1. sheet \in Seq(Range(sheet)) /\ IdsAreUnique(sheet)
      /\ \A i \in DOMAIN sheet : GoodRow(sheet[i], n)
  BY DEF GoodSheet
<1>2. Len(sheet) \in Nat /\ DOMAIN sheet = 1..Len(sheet)
  BY <1>1
<1>3. P \in SUBSET (1..Len(sheet))
  BY <1>2
<1>4. /\ RowsAt(sheet, P) \in Seq(Range(RowsAt(sheet, P)))
      /\ \A k \in DOMAIN RowsAt(sheet, P) : \E i \in P : RowsAt(sheet, P)[k] = sheet[i]
      /\ \A i \in P : \E k \in DOMAIN RowsAt(sheet, P) : RowsAt(sheet, P)[k] = sheet[i]
      /\ (\A i, k \in P : sheet[i].id = sheet[k].id => i = k) => IdsAreUnique(RowsAt(sheet, P))
  BY <1>2, <1>3, RowsAtPicks
<1>5. \A i, k \in P : sheet[i].id = sheet[k].id => i = k
  BY <1>1 DEF IdsAreUnique
<1>6. \A k \in DOMAIN RowsAt(sheet, P) : GoodRow(RowsAt(sheet, P)[k], n)
  BY <1>1, <1>4
<1> QED
  BY <1>4, <1>5, <1>6 DEF GoodSheet

(* V deletes the rows of some ids of a table. *)
DeletesRows(V, t, ids) ==
  /\ \A e \in V : e.table = t /\ e.op = "delete" /\ e.id \in ids
  /\ \A id \in ids : \E e \in V : e.id = id

(* The rows of one name go, and entries say so. *)
LEMMA RemovingTells ==
  ASSUME NEW L, NEW U, NEW V, NEW t, NEW sheet, NEW n, NEW m,
         Timed(L), Timed(V), Later(V, L), GoodSheet(sheet, m),
         DeletesRows(V, t, {sheet[i].id : i \in {j \in DOMAIN sheet : sheet[j].name = n}}),
         Tells(L, U, t, sheet)
  PROVE  Tells(L \cup V, U \cup V, t, Without(sheet, n))
<1> DEFINE new == Without(sheet, n)
           hits == {j \in DOMAIN sheet : sheet[j].name = n}
           stay == {j \in DOMAIN sheet : sheet[j].name # n}
<1>1. /\ \A k \in DOMAIN new : \E i \in stay : new[k] = sheet[i]
      /\ \A i \in stay : \E k \in DOMAIN new : new[k] = sheet[i]
  <2>1. stay \in SUBSET DOMAIN sheet
    OBVIOUS
  <2>2. new = RowsAt(sheet, stay)
    BY DEF Without
  <2> HIDE DEF stay, new
  <2> QED
    BY <2>1, <2>2, FilterKeepsRows
<1>2. \A i \in DOMAIN sheet : i \in hits \/ i \in stay
  OBVIOUS
<1>3. \A i, k \in DOMAIN sheet : sheet[i].id = sheet[k].id => i = k
  BY DEF GoodSheet, IdsAreUnique
<1>4. /\ \A e \in V : e.table = t /\ e.op = "delete" /\ \E i \in hits : e.id = sheet[i].id
      /\ \A i \in hits : \E e \in V : e.id = sheet[i].id
  BY DEF DeletesRows
<1>5. hits \subseteq DOMAIN sheet /\ stay \subseteq DOMAIN sheet /\ \A i \in hits : i \notin stay
  OBVIOUS
<1> HIDE DEF new, hits, stay
<1>6. ASSUME NEW w \in L, w.table = t, Decides(OfRow(U \cup V, t, w.id), w)
      PROVE  /\ Decides(OfRow(U, t, w.id), w)
             /\ \A i \in hits : sheet[i].id # w.id
  <2>1. w \notin V
    <3>1. w \in V => w.key.time < w.key.time /\ w.key.time \in Nat
      BY DEF Later, Timed
    <3> QED
      BY <3>1
  <2>2. Decides(OfRow(U, t, w.id), w)
    BY <1>6, <2>1 DEF Decides, OfRow
  <2>3. ASSUME NEW i \in hits, sheet[i].id = w.id
        PROVE  FALSE
    <3>1. PICK e \in V : e.id = w.id
      BY <1>4, <2>3
    <3>2. e \in OfRow(U \cup V, t, w.id) /\ e.op # "cell"
      BY <1>4, <3>1 DEF OfRow
    <3>3. e = w \/ M!Precedes(e, w)
      BY <1>6, <3>2 DEF Decides
    <3>4. e # w /\ ~M!Precedes(e, w)
      BY LaterWins DEF Timed, Later
    <3> QED
      BY <3>3, <3>4
  <2> QED
    BY <2>2, <2>3
<1>7. ASSUME NEW w \in L \cup V, w.table = t, Decides(OfRow(U \cup V, t, w.id), w)
      PROVE  w.op = "delete" => \A k \in DOMAIN new : new[k].id # w.id
  <2>1. CASE w \in V
    <3>1. PICK i \in hits : sheet[i].id = w.id
      BY <1>4, <2>1
    <3> QED
      BY <1>1, <1>3, <1>5, <3>1
  <2>2. CASE w \in L
    <3>1. w.op = "delete" => \A i \in DOMAIN sheet : sheet[i].id # w.id
      BY <1>6, <1>7, <2>2 DEF Tells
    <3> QED
      BY <1>1, <1>5, <3>1
  <2> QED
    BY <2>1, <2>2
<1>8. ASSUME NEW w \in L \cup V, w.table = t, Decides(OfRow(U \cup V, t, w.id), w),
             w.op = "upsert"
      PROVE  \E k \in DOMAIN new : new[k].id = w.id
  <2>1. w \in L
    BY <1>4, <1>8
  <2>2. PICK i \in DOMAIN sheet : sheet[i].id = w.id
    BY <1>6, <1>8, <2>1 DEF Tells
  <2>3. i \in stay
    BY <1>2, <1>6, <1>8, <2>1, <2>2
  <2> QED
    BY <1>1, <2>2, <2>3
<1>9. ASSUME NEW w \in L \cup V, w.table = t, Decides(OfRow(U \cup V, t, w.id), w),
             w.op = "upsert", NEW k \in DOMAIN new, new[k].id = w.id,
             NEW c \in Column, NEW v \in L \cup V, Shows(OfRow(U \cup V, t, w.id), w, c, v)
      PROVE  new[k][c] = v.cells[c]
  <2>1. w \in L /\ Decides(OfRow(U, t, w.id), w)
    BY <1>4, <1>6, <1>9
  <2>2. PICK i \in stay : new[k] = sheet[i]
    BY <1>1
  <2>3. v \in L
    BY <1>4, <1>9, <2>1 DEF Shows
  <2>4. Shows(OfRow(U, t, w.id), w, c, v)
    <3>1. v \in V => v.op = "delete"
      BY <1>4
    <3>2. v = w \/ v.op = "cell"
      BY <1>9 DEF Shows
    <3>3. w.op = "upsert"
      BY <1>9
    <3> QED
      BY <1>9, <3>1, <3>2, <3>3 DEF Shows, OfRow
  <2> QED
    BY <1>5, <1>9, <2>1, <2>2, <2>3, <2>4 DEF Tells
<1>10. ASSUME NEW k \in DOMAIN new
       PROVE  \E e \in OfRow(U \cup V, t, new[k].id) : e.op # "cell"
  <2>1. PICK i \in stay : new[k] = sheet[i]
    BY <1>1
  <2>2. \E e \in OfRow(U, t, new[k].id) : e.op # "cell"
    BY <1>5, <2>1 DEF Tells
  <2> QED
    BY <2>2 DEF OfRow
<1>11. Tells(L \cup V, U \cup V, t, new)
  BY <1>7, <1>8, <1>9, <1>10 DEF Tells
<1> QED
  BY <1>11 DEF new

(* A row under an id nothing is known of is appended, and entries say so. *)
LEMMA AddingTells ==
  ASSUME NEW L, NEW U, NEW V, NEW t, NEW sheet, NEW row,
         sheet \in Seq(Range(sheet)), V # {},
         \A e \in V : /\ e.op = "upsert" /\ e.table = t /\ e.id = row.id
                      /\ \A c \in Column : row[c] = e.cells[c],
         L \subseteq U, \A f \in U : f.table = t => f.id # row.id,
         \A i \in DOMAIN sheet : sheet[i].id # row.id,
         Tells(L, U, t, sheet)
  PROVE  Tells(L \cup V, U \cup V, t, Append(sheet, row))
<1> DEFINE new == Append(sheet, row)
           N == Len(sheet)
<1>1. /\ N \in Nat /\ DOMAIN sheet = 1..N /\ DOMAIN new = 1..N + 1
      /\ new[N + 1] = row /\ \A i \in 1..N : new[i] = sheet[i]
  OBVIOUS
<1> HIDE DEF new, N
<1>2. /\ N + 1 \in DOMAIN new
      /\ \A i \in DOMAIN new : i = N + 1 \/ i \in DOMAIN sheet
      /\ \A i \in DOMAIN sheet : i \in DOMAIN new /\ new[i] = sheet[i]
  BY <1>1
<1>3. \A id : id # row.id => OfRow(U \cup V, t, id) = OfRow(U, t, id)
  BY DEF OfRow
<1>4. OfRow(U \cup V, t, row.id) = V
  BY DEF OfRow
<1>5. ASSUME NEW w \in L \cup V, w.table = t, Decides(OfRow(U \cup V, t, w.id), w),
             w.id # row.id
      PROVE  w \in L /\ Decides(OfRow(U, t, w.id), w)
  BY <1>3, <1>5
<1>6. ASSUME NEW w \in L \cup V, w.table = t, w.id = row.id
      PROVE  w \in V
  BY <1>6
<1>7. ASSUME NEW w \in L \cup V, w.table = t, Decides(OfRow(U \cup V, t, w.id), w)
      PROVE  w.op = "delete" => \A k \in DOMAIN new : new[k].id # w.id
  BY <1>1, <1>2, <1>5, <1>6, <1>7 DEF Tells
<1>8. ASSUME NEW w \in L \cup V, w.table = t, Decides(OfRow(U \cup V, t, w.id), w),
             w.op = "upsert"
      PROVE  \E k \in DOMAIN new : new[k].id = w.id
  <2>1. CASE w.id = row.id
    BY <1>1, <1>2, <2>1
  <2>2. CASE w.id # row.id
    BY <1>2, <1>5, <1>8, <2>2 DEF Tells
  <2> QED
    BY <2>1, <2>2
<1>9. ASSUME NEW w \in L \cup V, w.table = t, Decides(OfRow(U \cup V, t, w.id), w),
             w.op = "upsert", NEW k \in DOMAIN new, new[k].id = w.id,
             NEW c \in Column, NEW v \in L \cup V, Shows(OfRow(U \cup V, t, w.id), w, c, v)
      PROVE  new[k][c] = v.cells[c]
  <2>1. CASE w.id = row.id
    <3>1. new[k] = row
      BY <1>1, <1>2, <1>9, <2>1
    <3>2. v \in V
      BY <1>4, <1>9, <2>1 DEF Shows
    <3> QED
      BY <3>1, <3>2
  <2>2. CASE w.id # row.id
    <3>1. w \in L /\ Decides(OfRow(U, t, w.id), w)
      BY <1>5, <1>9, <2>2
    <3>2. k \in DOMAIN sheet /\ new[k] = sheet[k]
      BY <1>1, <1>2, <1>9, <2>2
    <3>3. Shows(OfRow(U, t, w.id), w, c, v) /\ v \notin V
      BY <1>3, <1>9, <2>2 DEF Shows, OfRow
    <3> QED
      BY <1>9, <3>1, <3>2, <3>3 DEF Tells
  <2> QED
    BY <2>1, <2>2
<1>10. ASSUME NEW k \in DOMAIN new
       PROVE  \E f \in OfRow(U \cup V, t, new[k].id) : f.op # "cell"
  <2>1. CASE k = N + 1
    BY <1>1, <1>4, <2>1
  <2>2. CASE k \in DOMAIN sheet
    BY <1>2, <2>2 DEF Tells, OfRow
  <2> QED
    BY <1>2, <2>1, <2>2
<1>11. Tells(L \cup V, U \cup V, t, new)
  BY <1>7, <1>8, <1>9, <1>10 DEF Tells
<1> QED
  BY <1>11 DEF new

-----------------------------------------------------------------------------
(* Good tables stay good                                                   *)

(* A sequence is one of what it holds. *)
LEMMA SeqOfItsRange ==
  ASSUME NEW N \in Nat, NEW s, DOMAIN s = 1..N, s = [i \in 1..N |-> s[i]]
  PROVE  s \in Seq(Range(s)) /\ Len(s) = N
<1>1. s \in [1..N -> Range(s)]
  BY DEF Range
<1>2. s \in Seq(Range(s))
  BY <1>1
<1>3. Len(s) = N
  BY <1>2
<1> QED
  BY <1>2, <1>3

(* One sequence and then another. *)
Joined(c, a, b) ==
  /\ c \in Seq(Range(c)) /\ Len(a) \in Nat /\ Len(b) \in Nat /\ Len(c) = Len(a) + Len(b)
  /\ DOMAIN c = 1..Len(c) /\ DOMAIN a = 1..Len(a) /\ DOMAIN b = 1..Len(b)
  /\ \A i \in 1..Len(a) : c[i] = a[i]
  /\ \A i \in 1..Len(b) : c[Len(a) + i] = b[i]

(* That is what joining them gives. *)
LEMMA JoiningThem ==
  ASSUME NEW a, NEW b, a \in Seq(Range(a)), b \in Seq(Range(b))
  PROVE  Joined(a \o b, a, b)
<1> DEFINE c == a \o b
<1>1. c \in Seq(Range(a) \cup Range(b))
  OBVIOUS
<1>2. /\ Len(a) \in Nat /\ Len(b) \in Nat /\ Len(c) = Len(a) + Len(b)
      /\ DOMAIN c = 1..Len(c) /\ DOMAIN a = 1..Len(a) /\ DOMAIN b = 1..Len(b)
      /\ \A i \in 1..Len(a) : c[i] = a[i]
      /\ \A i \in 1..Len(b) : c[Len(a) + i] = b[i]
  OBVIOUS
<1> HIDE DEF c
<1>3. c \in Seq(Range(c))
  <2>1. PICK k \in Nat : c \in [1..k -> Range(a) \cup Range(b)]
    BY <1>1
  <2>2. c = [i \in 1..k |-> c[i]] /\ DOMAIN c = 1..k
    BY <2>1
  <2> QED
    BY <2>2, SeqOfItsRange
<1> QED
  BY <1>2, <1>3 DEF Joined, c

(* The facts about a row that the proofs use. *)
LEMMA RowFacts ==
  ASSUME NEW n, NEW row, GoodRow(row, n)
  PROVE  DOMAIN row = Column \cup {"id"} /\ row.id \in 1..n
BY DEF GoodRow, RowOf

(* A row made of an id and cells has them. *)
LEMMA RowOfGives ==
  ASSUME NEW id, NEW cells
  PROVE  /\ RowOf(id, cells).id = id /\ \A c \in Column : RowOf(id, cells)[c] = cells[c]
         /\ RowOf(id, cells) = RowOf(id, [c \in Column |-> RowOf(id, cells)[c]])
<1>1. "id" \notin Column
  BY DEF Column
<1>2. RowOf(id, cells).id = id /\ \A c \in Column : RowOf(id, cells)[c] = cells[c]
  BY <1>1 DEF RowOf
<1>3. RowOf(id, cells) = RowOf(id, [c \in Column |-> cells[c]])
  BY <1>1 DEF RowOf
<1>4. [c \in Column |-> cells[c]] = [c \in Column |-> RowOf(id, cells)[c]]
  BY <1>2
<1> QED
  BY <1>2, <1>3, <1>4

(* More ids may have been given since. *)
LEMMA GoodForMore ==
  ASSUME NEW n \in Nat, NEW m \in Nat, n <= m
  PROVE  /\ \A sheet : GoodSheet(sheet, n) => GoodSheet(sheet, m)
         /\ \A f : GoodFrames(f, n) => GoodFrames(f, m)
         /\ \A step : GoodStep(step, n) => GoodStep(step, m)
         /\ \A todo : GoodSteps(todo, n) => GoodSteps(todo, m)
         /\ \A e : GoodEntry(e, n) => GoodEntry(e, m)
<1>1. \A id : id \in 1..n => id \in 1..m
  OBVIOUS
<1>2. ASSUME NEW sheet, GoodSheet(sheet, n) PROVE GoodSheet(sheet, m)
  BY <1>1, <1>2 DEF GoodSheet, GoodRow
<1>3. ASSUME NEW step, GoodStep(step, n) PROVE GoodStep(step, m)
  BY <1>1, <1>2, <1>3 DEF GoodStep
<1>4. \A f : GoodFrames(f, n) => GoodFrames(f, m)
  BY <1>2 DEF GoodFrames
<1>5. \A todo : GoodSteps(todo, n) => GoodSteps(todo, m)
  BY <1>3 DEF GoodSteps
<1>6. \A e : GoodEntry(e, n) => GoodEntry(e, m)
  BY <1>1 DEF GoodEntry
<1> QED
  BY <1>2, <1>3, <1>4, <1>5, <1>6

(* Setting a column of some rows keeps a sheet good.                       *)
LEMMA SetKeepsRows ==
  ASSUME NEW n, NEW sheet, GoodSheet(sheet, n), NEW name, NEW c \in Column, NEW value
  PROVE  GoodSheet(SetWhere(sheet, name, c, value), n)
<1> DEFINE new == SetWhere(sheet, name, c, value)
           N == Len(sheet)
<1>1. /\ sheet \in Seq(Range(sheet)) /\ IdsAreUnique(sheet)
      /\ \A i \in DOMAIN sheet : GoodRow(sheet[i], n)
  BY DEF GoodSheet
<1>2. N \in Nat /\ DOMAIN sheet = 1..N
  BY <1>1
<1>3. /\ DOMAIN new = DOMAIN sheet /\ new = [i \in DOMAIN sheet |-> new[i]]
      /\ \A i \in DOMAIN sheet : \/ new[i] = sheet[i]
                                 \/ new[i] = [sheet[i] EXCEPT ![c] = value]
  BY DEF SetWhere
<1> HIDE DEF new, N
<1>4. ASSUME NEW i \in DOMAIN sheet
      PROVE  new[i].id = sheet[i].id /\ GoodRow(new[i], n)
  <2>1. GoodRow(sheet[i], n) /\ DOMAIN sheet[i] = Column \cup {"id"} /\ sheet[i].id \in 1..n
    BY <1>1, RowFacts
  <2>2. c # "id"
    BY DEF Column
  <2>3. CASE new[i] = sheet[i]
    BY <2>1, <2>3
  <2>4. CASE new[i] = [sheet[i] EXCEPT ![c] = value]
    <3>1. /\ new[i].id = sheet[i].id /\ DOMAIN new[i] = Column \cup {"id"}
          /\ new[i] = [k \in Column \cup {"id"} |-> new[i][k]]
      BY <2>1, <2>2, <2>4
    <3>2. new[i] = RowOf(new[i].id, [k \in Column |-> new[i][k]])
      BY <3>1 DEF RowOf
    <3> QED
      BY <2>1, <3>1, <3>2 DEF GoodRow
  <2> QED
    BY <1>3, <2>3, <2>4
<1>5. IdsAreUnique(new)
  BY <1>1, <1>3, <1>4 DEF IdsAreUnique
<1>6. new \in Seq(Range(new))
  BY <1>2, <1>3, SeqOfItsRange
<1>7. GoodSheet(new, n)
  BY <1>3, <1>4, <1>5, <1>6 DEF GoodSheet
<1> QED
  BY <1>7 DEF new

(* So does a new row under the next id.                                    *)
LEMMA AddKeepsRows ==
  ASSUME NEW n \in Nat, NEW sheet, GoodSheet(sheet, n), NEW cells
  PROVE  GoodSheet(Append(sheet, RowOf(n + 1, cells)), n + 1)
<1> DEFINE row == RowOf(n + 1, cells)
           new == Append(sheet, row)
           N == Len(sheet)
<1>1. /\ sheet \in Seq(Range(sheet)) /\ IdsAreUnique(sheet)
      /\ \A i \in DOMAIN sheet : GoodRow(sheet[i], n)
  BY DEF GoodSheet
<1>2. row.id = n + 1 /\ row = RowOf(row.id, [c \in Column |-> row[c]])
  BY RowOfGives
<1> HIDE DEF row
<1>3. /\ N \in Nat /\ DOMAIN sheet = 1..N /\ DOMAIN new = 1..N + 1
      /\ new = [i \in 1..N + 1 |-> new[i]]
      /\ new[N + 1] = row /\ \A i \in 1..N : new[i] = sheet[i]
  <2>1. N \in Nat /\ DOMAIN sheet = 1..N
    BY <1>1
  <2>2. DOMAIN new = 1..N + 1 /\ new[N + 1] = row /\ \A i \in 1..N : new[i] = sheet[i]
    BY <1>1
  <2>3. new = [i \in 1..N + 1 |-> new[i]]
    <3>1. new \in Seq(Range(sheet) \cup {row})
      BY <1>1
    <3> HIDE DEF new
    <3>2. PICK k \in Nat : new \in [1..k -> Range(sheet) \cup {row}]
      BY <3>1
    <3>3. new = [i \in DOMAIN new |-> new[i]]
      BY <3>2
    <3> QED
      BY <2>2, <3>3
  <2> QED
    BY <2>1, <2>2, <2>3
<1> HIDE DEF new, N
<1>4. GoodRow(row, n + 1)
  <2>1. n + 1 \in 1..n + 1
    OBVIOUS
  <2>2. row.id \in 1..n + 1
    BY <1>2, <2>1
  <2> QED
    BY <1>2, <2>2, Zenon DEF GoodRow
<1>5. \A i \in 1..N : GoodRow(new[i], n + 1) /\ new[i].id # n + 1
  <2>1. ASSUME NEW i \in 1..N
        PROVE  GoodRow(new[i], n + 1) /\ new[i].id # n + 1
    <3>1. GoodRow(sheet[i], n) /\ new[i] = sheet[i]
      BY <1>1, <1>3
    <3>2. sheet[i].id \in 1..n
      BY <3>1 DEF GoodRow
    <3>3. sheet[i].id \in 1..n + 1 /\ sheet[i].id # n + 1
      BY <3>2
    <3> QED
      BY <3>1, <3>3 DEF GoodRow
  <2> QED
    BY <2>1
<1>6. \A i \in 1..N + 1 : i = N + 1 \/ i \in 1..N
  BY <1>3
<1>7. IdsAreUnique(new)
  <2>1. \A i, j \in 1..N : new[i].id = new[j].id => i = j
    BY <1>1, <1>3 DEF IdsAreUnique
  <2> QED
    BY <1>2, <1>3, <1>5, <1>6, <2>1 DEF IdsAreUnique
<1>8. new \in Seq(Range(new))
  <2>1. N + 1 \in Nat
    BY <1>3
  <2> QED
    BY <1>3, <2>1, SeqOfItsRange
<1>9. GoodSheet(new, n + 1)
  BY <1>3, <1>4, <1>5, <1>6, <1>7, <1>8 DEF GoodSheet
<1> QED
  BY <1>9 DEF new, row

(* The ids of the rows of a name. *)
LEMMA IdsOfName ==
  ASSUME NEW n, NEW sheet, GoodSheet(sheet, n), NEW name
  PROVE  /\ RowIdsWhere(sheet, name) \in Seq(Range(RowIdsWhere(sheet, name)))
         /\ Range(RowIdsWhere(sheet, name))
              = {sheet[i].id : i \in {j \in DOMAIN sheet : sheet[j].name = name}}
         /\ Range(RowIdsWhere(sheet, name)) \subseteq 1..n
<1> DEFINE P == {j \in DOMAIN sheet : sheet[j].name = name}
           hits == RowsAt(sheet, P)
           ids == RowIdsWhere(sheet, name)
<1>1. P \in SUBSET DOMAIN sheet
  OBVIOUS
<1>2. ids = [i \in DOMAIN hits |-> hits[i].id]
  BY DEF RowIdsWhere, Named
<1> HIDE DEF P, hits, ids
<1>3. /\ GoodSheet(hits, n)
      /\ \A k \in DOMAIN hits : \E i \in P : hits[k] = sheet[i]
      /\ \A i \in P : \E k \in DOMAIN hits : hits[k] = sheet[i]
  BY <1>1, FilterKeepsRows DEF hits
<1>4. hits \in Seq(Range(hits)) /\ \A k \in DOMAIN hits : hits[k].id \in 1..n
  BY <1>3 DEF GoodSheet, GoodRow
<1>5. Len(hits) \in Nat /\ DOMAIN hits = 1..Len(hits)
  BY <1>4
<1>6. ids \in Seq(Range(ids))
  <2>1. DOMAIN ids = 1..Len(hits) /\ ids = [i \in 1..Len(hits) |-> ids[i]]
    BY <1>2, <1>5
  <2> QED
    BY <1>5, <2>1, SeqOfItsRange
<1>7. Range(ids) = {hits[k].id : k \in DOMAIN hits}
  <2>1. DOMAIN ids = DOMAIN hits /\ \A k \in DOMAIN hits : ids[k] = hits[k].id
    BY <1>2
  <2> QED
    BY <2>1 DEF Range
<1>8. Range(ids) = {sheet[i].id : i \in P}
  <2>1. \A k \in DOMAIN hits : hits[k].id \in {sheet[i].id : i \in P}
    BY <1>3
  <2>2. \A i \in P : sheet[i].id \in {hits[k].id : k \in DOMAIN hits}
    BY <1>3
  <2> QED
    BY <1>7, <2>1, <2>2
<1>9. Range(ids) \subseteq 1..n
  BY <1>4, <1>7
<1> QED
  BY <1>6, <1>8, <1>9 DEF P, ids

-----------------------------------------------------------------------------
(* One change of one or two tables: saves, and then records                *)

(* A device with the log L can make the entries V of the records R. *)
MadeOf(V, R, L, d) ==
  /\ \A e \in V : \E i \in DOMAIN R, k \in Nat :
       e = EntryOf(R[i], [time |-> k, device |-> d]) /\ \A f \in L : f.key.time < k
  /\ \A i \in DOMAIN R : \E k \in Nat : EntryOf(R[i], [time |-> k, device |-> d]) \in V

(* Every table of T is saved as g has it, and once, before the first       *)
(* record; then come the records of these tables, and no others.           *)
IsBlock(todo, T, g, records) ==
  /\ todo \in Seq(Range(todo))
  /\ \A i \in DOMAIN todo :
       /\ todo[i].table \in T
       /\ \/ todo[i].do = "save" /\ todo[i].sheet = g[todo[i].table]
          \/ /\ IsRecord(todo[i])
             /\ \E j \in DOMAIN records[todo[i].table] : todo[i] = records[todo[i].table][j]
  /\ \A i, j \in DOMAIN todo : i < j /\ IsRecord(todo[i]) => IsRecord(todo[j])
  /\ \A i, j \in DOMAIN todo : \A t \in T : IsSave(todo[i], t) /\ IsSave(todo[j], t) => i = j
  /\ \A t \in T : \E i \in DOMAIN todo : IsSave(todo[i], t)
  /\ \A t \in T : \A j \in DOMAIN records[t] :
       \E i \in DOMAIN todo : todo[i] = records[t][j] /\ IsRecord(todo[i]) /\ todo[i].table = t

(* The column a cell sets. *)
ColumnOf(cells) == CHOOSE c \in DOMAIN cells : TRUE

(* What an entry has of its record. *)
IsEntry(e, step, key) ==
  /\ e.table = step.table /\ e.id = step.id /\ e.op = step.op /\ e.cells = step.cells
  /\ e.key = key /\ e.generated = FALSE
  /\ step.op = "cell" => e.column = ColumnOf(step.cells)

(* EntryOf makes such an entry. *)
LEMMA EntryFields ==
  ASSUME NEW step, NEW key
  PROVE  IsEntry(EntryOf(step, key), step, key)
BY DEF EntryOf, IsEntry, ColumnOf

(* Of frames f that a log tells, and tables that it would tell with all of *)
(* their records, a block makes such frames at every point that counts.    *)
LEMMA BlockIsCoherent ==
  ASSUME NEW f, NEW L, NEW U, NEW d, NEW todo, NEW T, NEW g, NEW records,
         IsBlock(todo, T, g, records),
         \A t \in Table : Tells(L, U, t, f[t]),
         \A t \in T : \A V : MadeOf(V, records[t], L, d) => Tells(L \cup V, U \cup V, t, g[t])
  PROVE  /\ Coherent(todo, f, L, U, d)
         /\ \A t \in Table :
              SheetAfter(todo, f, Len(todo), t, IF t \in T THEN g[t] ELSE f[t])
<1>1. Len(todo) \in Nat /\ DOMAIN todo = 1..Len(todo)
  BY DEF IsBlock
<1>2. \A i \in DOMAIN todo : ~(todo[i].do = "save" /\ IsRecord(todo[i]))
  BY DEF IsRecord
<1>3. ASSUME NEW s \in Stamps(todo, L), NEW k \in 0..Len(todo), NEW t \in Table,
             ~OpenAfter(todo, k, t), NEW sheet, SheetAfter(todo, f, k, t, sheet)
      PROVE  Tells(L \cup Written(todo, s, k, d), U \cup Written(todo, s, k, d), t, sheet)
  <2> DEFINE W == Written(todo, s, k, d)
             Entry(i) == EntryOf(todo[i], [time |-> s[i], device |-> d])
             V == {e \in W : e.table = t}
  <2>1. \A e : e \in W <=> \E i \in DOMAIN todo : i <= k /\ IsRecord(todo[i]) /\ e = Entry(i)
    BY DEF Written
  <2>2. \A i : Entry(i).table = todo[i].table
    BY EntryFields DEF IsEntry
  <2>3. \A i \in DOMAIN todo : s[i] \in Nat /\ \A e \in L : e.key.time < s[i]
    BY DEF Stamps
  <2> HIDE DEF W
  <2>4. CASE t \notin T
    <3>1. \A i \in DOMAIN todo : ~IsSave(todo[i], t)
      BY <2>4 DEF IsBlock, IsSave
    <3>2. sheet = f[t]
      BY <1>3, <3>1 DEF SheetAfter
    <3>3. \A e \in W : e.table # t
      <4>1. \A i \in DOMAIN todo : todo[i].table # t
        BY <2>4 DEF IsBlock
      <4> HIDE DEF Entry
      <4> QED
        BY <2>1, <2>2, <4>1
    <3>4. /\ \A e : e.table = t => (e \in L <=> e \in L \cup W)
          /\ \A e : e.table = t => (e \in U <=> e \in U \cup W)
      BY <3>3
    <3>5. Tells(L, U, t, sheet)
      BY <3>2
    <3>6. Tells(L \cup W, U \cup W, t, sheet)
      BY ONLY <3>4, <3>5, TellsOfTable
    <3> QED
      BY <3>6 DEF W
  <2>5. ASSUME t \in T, NEW p \in DOMAIN todo, IsSave(todo[p], t), k < p
        PROVE  Tells(L \cup W, U \cup W, t, sheet)
    <3>1. \A i \in DOMAIN todo : i <= k => ~IsRecord(todo[i])
      <4>1. \A i \in DOMAIN todo : i <= k => i < p
        BY <1>1, <2>5
      <4>2. ~IsRecord(todo[p])
        BY <2>5 DEF IsSave, IsRecord
      <4> QED
        BY <2>5, <4>1, <4>2 DEF IsBlock
    <3>2. W = {}
      BY <2>1, <3>1
    <3>3. \A j \in DOMAIN todo : IsSave(todo[j], t) => ~(j <= k)
      <4>1. \A j \in DOMAIN todo : IsSave(todo[j], t) => j = p
        BY <2>5 DEF IsBlock
      <4> QED
        BY <1>1, <2>5, <4>1
    <3>4. sheet = f[t]
      BY <1>3, <3>3 DEF SheetAfter
    <3>5. L \cup W = L /\ U \cup W = U
      BY <3>2
    <3> QED
      BY <3>4, <3>5
  <2>6. ASSUME t \in T, NEW p \in DOMAIN todo, IsSave(todo[p], t), p <= k
        PROVE  Tells(L \cup W, U \cup W, t, sheet)
    <3>1. \A j \in DOMAIN todo : IsSave(todo[j], t) => j = p
      BY <2>6 DEF IsBlock
    <3>2. todo[p].sheet = g[t]
      BY <1>2, <2>6 DEF IsBlock, IsSave
    <3>3. sheet = g[t]
      BY <1>3, <2>6, <3>1, <3>2 DEF SheetAfter
    <3>4. ASSUME NEW i \in DOMAIN todo, IsRecord(todo[i]), todo[i].table = t
          PROVE  i <= k
      <4>1. CASE k < i
        <5>1. \A j \in DOMAIN todo : k < j /\ j < i => ~IsSave(todo[j], t)
          BY <1>1, <2>6, <3>1
        <5> QED
          BY <1>3, <3>4, <4>1, <5>1 DEF OpenAfter
      <4> QED
        BY <1>1, <4>1
    <3>5. MadeOf(V, records[t], L, d)
      <4>1. ASSUME NEW e \in V
            PROVE  \E i \in DOMAIN records[t], m \in Nat :
                     /\ e = EntryOf(records[t][i], [time |-> m, device |-> d])
                     /\ \A x \in L : x.key.time < m
        <5>1. PICK i \in DOMAIN todo : i <= k /\ IsRecord(todo[i]) /\ e = Entry(i)
          BY <2>1
        <5>2. todo[i].table = t
          BY <2>2, <5>1
        <5>3. PICK j \in DOMAIN records[t] : todo[i] = records[t][j]
          BY <1>2, <5>1, <5>2 DEF IsBlock
        <5>4. e = EntryOf(records[t][j], [time |-> s[i], device |-> d])
          BY <5>1, <5>3
        <5> QED
          BY <2>3, <5>4
      <4>2. ASSUME NEW j \in DOMAIN records[t]
            PROVE  \E m \in Nat : EntryOf(records[t][j], [time |-> m, device |-> d]) \in V
        <5>1. PICK i \in DOMAIN todo :
                todo[i] = records[t][j] /\ IsRecord(todo[i]) /\ todo[i].table = t
          BY <2>6 DEF IsBlock
        <5>2. Entry(i) \in V
          BY <2>1, <2>2, <3>4, <5>1
        <5>3. EntryOf(records[t][j], [time |-> s[i], device |-> d]) \in V
          BY <5>1, <5>2
        <5> QED
          BY <2>3, <5>3
      <4> QED
        BY <4>1, <4>2 DEF MadeOf
    <3>6. Tells(L \cup V, U \cup V, t, sheet)
      BY <2>6, <3>3, <3>5
    <3>7. /\ \A e : e.table = t => (e \in L \cup V <=> e \in L \cup W)
          /\ \A e : e.table = t => (e \in U \cup V <=> e \in U \cup W)
      OBVIOUS
    <3> HIDE DEF V
    <3> QED
      BY ONLY <3>6, <3>7, TellsOfTable
  <2>7. CASE t \in T
    <3>1. PICK p \in DOMAIN todo : IsSave(todo[p], t)
      BY <2>7 DEF IsBlock
    <3>2. p <= k \/ k < p
      BY <1>1
    <3> QED
      BY <2>5, <2>6, <2>7, <3>1, <3>2 DEF W
  <2> QED
    BY <2>4, <2>7
<1>4. Coherent(todo, f, L, U, d)
  BY <1>3 DEF Coherent
<1>5. ASSUME NEW t \in Table
      PROVE  SheetAfter(todo, f, Len(todo), t, IF t \in T THEN g[t] ELSE f[t])
  <2>1. CASE t \notin T
    <3>1. \A i \in DOMAIN todo : ~IsSave(todo[i], t)
      BY <2>1 DEF IsBlock, IsSave
    <3> QED
      BY <2>1, <3>1 DEF SheetAfter
  <2>2. CASE t \in T
    <3>1. PICK p \in DOMAIN todo : IsSave(todo[p], t)
      BY <2>2 DEF IsBlock
    <3>2. todo[p].sheet = g[t]
      BY <1>2, <3>1 DEF IsBlock, IsSave
    <3>3. \A i \in DOMAIN todo : p < i => ~IsSave(todo[i], t)
      <4>1. \A i \in DOMAIN todo : IsSave(todo[i], t) => i = p
        BY <2>2, <3>1 DEF IsBlock
      <4> QED
        BY <1>1, <4>1
    <3>4. p <= Len(todo)
      BY <1>1
    <3> QED
      BY <2>2, <3>1, <3>2, <3>3, <3>4 DEF SheetAfter
  <2> QED
    BY <2>1, <2>2
<1> QED
  BY <1>4, <1>5

(* What a block writes to is a table of its own, and each of one or two.   *)
SomeTables(ts) == \E a, b \in Table : a # b /\ (ts = <<a>> \/ ts = <<a, b>>)

(* They are told apart by their place.                                     *)
LEMMA SomeTablesFacts ==
  ASSUME NEW ts, SomeTables(ts)
  PROVE  /\ ts \in Seq(Table) /\ Len(ts) \in {1, 2} /\ DOMAIN ts = 1..Len(ts)
         /\ Range(ts) \subseteq Table /\ \A t : t \in Range(ts) <=> \E i \in 1..Len(ts) : t = ts[i]
         /\ \A i, j \in 1..Len(ts) : ts[i] = ts[j] => i = j
<1>1. PICK a \in Table : \E b \in Table : a # b /\ (ts = <<a>> \/ ts = <<a, b>>)
  BY DEF SomeTables
<1>2. PICK b \in Table : a # b /\ (ts = <<a>> \/ ts = <<a, b>>)
  BY <1>1
<1>3. ts \in Seq(Table) /\ Len(ts) \in {1, 2} /\ DOMAIN ts = 1..Len(ts)
  <2>1. CASE ts = <<a>>
    BY <2>1
  <2>2. CASE ts = <<a, b>>
    BY <2>2
  <2> QED
    BY <1>2, <2>1, <2>2
<1>4. \A i, j \in 1..Len(ts) : ts[i] = ts[j] => i = j
  <2>1. CASE ts = <<a>>
    BY <2>1
  <2>2. CASE ts = <<a, b>>
    <3>1. Len(ts) = 2 /\ ts[1] = a /\ ts[2] = b
      BY <2>2
    <3>2. \A i \in 1..2 : i = 1 \/ i = 2
      OBVIOUS
    <3> QED
      BY <1>2, <3>1, <3>2
  <2> QED
    BY <1>2, <2>1, <2>2
<1>5. \A t : t \in Range(ts) <=> \E i \in 1..Len(ts) : t = ts[i]
  BY <1>3 DEF Range
<1>6. Range(ts) \subseteq Table
  BY <1>3, <1>5
<1> QED
  BY <1>3, <1>4, <1>5, <1>6

(* The records of a block: those of the first table, and of the second. *)
RecordsOf(ts, records) == records[ts[1]] \o IF Len(ts) = 1 THEN <<>> ELSE records[ts[2]]

(* R is made of the records of each table, all of them. *)
Gathers(R, ts, records) ==
  /\ R \in Seq(Range(R))
  /\ \A i \in DOMAIN R : \E t \in Range(ts) : \E j \in DOMAIN records[t] : R[i] = records[t][j]
  /\ \A t \in Range(ts) : \A j \in DOMAIN records[t] : \E i \in DOMAIN R : R[i] = records[t][j]

(* Those records are in sequence. *)
LEMMA RecordsOfTables ==
  ASSUME NEW ts, SomeTables(ts), NEW records,
         \A t \in Range(ts) : records[t] \in Seq(Range(records[t]))
  PROVE  Gathers(RecordsOf(ts, records), ts, records)
<1> DEFINE R == RecordsOf(ts, records)
           a == records[ts[1]]
           b == IF Len(ts) = 1 THEN <<>> ELSE records[ts[2]]
<1>1. /\ Len(ts) \in {1, 2} /\ \A t : t \in Range(ts) <=> \E i \in 1..Len(ts) : t = ts[i]
  BY SomeTablesFacts
<1>2. ts[1] \in Range(ts) /\ (Len(ts) = 2 => ts[2] \in Range(ts))
  BY <1>1
<1>3. \A t \in Range(ts) : t = ts[1] \/ (Len(ts) = 2 /\ t = ts[2])
  BY <1>1
<1>4. R = a \o b
  BY DEF RecordsOf
<1>5. a \in Seq(Range(a)) /\ Len(a) \in Nat /\ DOMAIN a = 1..Len(a)
  BY <1>2
<1>6. b \in Seq(Range(b)) /\ Len(b) \in Nat /\ DOMAIN b = 1..Len(b)
  <2>1. CASE Len(ts) = 1
    <3>1. b = <<>>
      BY <2>1
    <3>2. <<>> \in Seq(Range(<<>>)) /\ Len(<<>>) = 0 /\ DOMAIN <<>> = 1..0
      OBVIOUS
    <3> HIDE DEF b
    <3> QED
      BY <3>1, <3>2
  <2>2. CASE Len(ts) = 2
    BY <1>2, <2>2
  <2> QED
    BY <1>1, <2>1, <2>2
<1>7. \A j \in DOMAIN b : Len(ts) = 2 /\ b = records[ts[2]]
  <2>1. Len(ts) = 1 => b = <<>>
    OBVIOUS
  <2>2. Len(ts) = 2 => b = records[ts[2]]
    OBVIOUS
  <2> HIDE DEF b
  <2> QED
    BY <1>1, <1>6, <2>1, <2>2
<1>8. Len(ts) = 2 => b = records[ts[2]]
  OBVIOUS
<1> HIDE DEF R, a, b
<1>9. Joined(R, a, b)
  BY <1>4, <1>5, <1>6, JoiningThem
<1>10. /\ Len(R) = Len(a) + Len(b) /\ DOMAIN R = 1..Len(R)
       /\ \A i \in 1..Len(a) : R[i] = a[i]
       /\ \A i \in 1..Len(b) : R[Len(a) + i] = b[i]
  BY <1>9 DEF Joined
<1>11. R \in Seq(Range(R))
  BY <1>9 DEF Joined
<1>12. ASSUME NEW i \in DOMAIN R
       PROVE  \E t \in Range(ts) : \E j \in DOMAIN records[t] : R[i] = records[t][j]
  <2>1. CASE i \in 1..Len(a)
    BY <1>2, <1>5, <1>10, <2>1 DEF a
  <2>2. CASE i \notin 1..Len(a)
    <3>1. i - Len(a) \in 1..Len(b) /\ Len(a) + (i - Len(a)) = i
      BY <1>5, <1>6, <1>10, <2>2
    <3>2. R[i] = b[i - Len(a)] /\ i - Len(a) \in DOMAIN b
      BY <1>6, <1>10, <3>1
    <3> QED
      BY <1>2, <1>7, <3>2
  <2> QED
    BY <2>1, <2>2
<1>13. ASSUME NEW t \in Range(ts), NEW j \in DOMAIN records[t]
       PROVE  \E i \in DOMAIN R : R[i] = records[t][j]
  <2>1. CASE t = ts[1]
    <3>1. j \in 1..Len(a) /\ a[j] = records[t][j]
      BY <1>5, <2>1 DEF a
    <3>2. j \in DOMAIN R
      BY <1>5, <1>6, <1>10, <3>1
    <3> QED
      BY <1>10, <3>1, <3>2
  <2>2. CASE Len(ts) = 2 /\ t = ts[2]
    <3>1. j \in 1..Len(b) /\ b[j] = records[t][j]
      BY <1>6, <1>8, <2>2
    <3>2. Len(a) + j \in DOMAIN R
      BY <1>5, <1>6, <1>10, <3>1
    <3> QED
      BY <1>10, <3>1, <3>2
  <2> QED
    BY <1>3, <2>1, <2>2
<1> QED
  BY <1>11, <1>12, <1>13 DEF R, Gathers

(* The steps of a change are such a block. *)
LEMMA WorkIsBlock ==
  ASSUME NEW f, NEW ts, SomeTables(ts), NEW g, NEW records, NEW n,
         \A t \in Range(ts) :
           /\ GoodSteps(records[t], n)
           /\ \A j \in DOMAIN records[t] : IsRecord(records[t][j]) /\ records[t][j].table = t,
         \A t \in Range(ts) : GoodSheet(g[t], n)
  PROVE  /\ IsBlock(Work(f, ts, g, records).steps, Range(ts), g, records)
         /\ GoodSteps(Work(f, ts, g, records).steps, n)
<1> DEFINE todo == Work(f, ts, g, records).steps
           saves == [i \in DOMAIN ts |-> Save(ts[i], g[ts[i]])]
           R == RecordsOf(ts, records)
           m == Len(ts)
<1>1. /\ m \in {1, 2} /\ DOMAIN ts = 1..m /\ Range(ts) \subseteq Table
      /\ \A t : t \in Range(ts) <=> \E i \in 1..m : t = ts[i]
      /\ \A i, j \in 1..m : ts[i] = ts[j] => i = j
  BY SomeTablesFacts
<1>2. /\ R \in Seq(Range(R))
      /\ \A i \in DOMAIN R : \E t \in Range(ts) : \E j \in DOMAIN records[t] : R[i] = records[t][j]
      /\ \A t \in Range(ts) : \A j \in DOMAIN records[t] : \E i \in DOMAIN R : R[i] = records[t][j]
  <2> HIDE DEF R, saves, todo, m
  <2>1. \A t \in Range(ts) : records[t] \in Seq(Range(records[t]))
    BY DEF GoodSteps
  <2>2. Gathers(RecordsOf(ts, records), ts, records)
    BY <2>1, RecordsOfTables
  <2> QED
    BY <2>2 DEF R, Gathers
<1>3. todo = saves \o R
  BY DEF Work, RecordsOf
<1>4. /\ DOMAIN saves = 1..m /\ saves = [i \in 1..m |-> saves[i]]
      /\ \A i \in 1..m : saves[i] = Save(ts[i], g[ts[i]])
  BY <1>1
<1> HIDE DEF todo, saves, R, m
<1>5. saves \in Seq(Range(saves)) /\ Len(saves) = m
  BY <1>1, <1>4, SeqOfItsRange
<1>6. Len(R) \in Nat /\ DOMAIN R = 1..Len(R) /\ m \in Nat
  BY <1>1, <1>2
<1>7. Joined(todo, saves, R)
  BY <1>2, <1>3, <1>5, JoiningThem
<1>8. /\ Len(todo) = m + Len(R) /\ DOMAIN todo = 1..Len(todo)
      /\ \A i \in 1..m : todo[i] = saves[i]
      /\ \A i \in 1..Len(R) : todo[m + i] = R[i]
  BY <1>5, <1>7, Zenon DEF Joined
<1>9. todo \in Seq(Range(todo))
  BY <1>7 DEF Joined
<1>10. ASSUME NEW i \in 1..m
       PROVE  /\ i \in DOMAIN todo /\ todo[i].do = "save" /\ todo[i].table = ts[i]
              /\ todo[i].sheet = g[ts[i]]
  <2>1. todo[i] = Save(ts[i], g[ts[i]])
    BY <1>4, <1>8
  <2>2. i \in DOMAIN todo
    BY <1>6, <1>8
  <2> QED
    BY <2>1, <2>2 DEF Save
<1>11. ASSUME NEW i \in DOMAIN todo, i \notin 1..m
       PROVE  /\ IsRecord(todo[i]) /\ todo[i].table \in Range(ts) /\ GoodStep(todo[i], n)
              /\ \E j \in DOMAIN records[todo[i].table] : todo[i] = records[todo[i].table][j]
  <2>1. i - m \in DOMAIN R /\ m + (i - m) = i
    BY <1>6, <1>8, <1>11
  <2>2. todo[i] = R[i - m]
    BY <1>6, <1>8, <2>1
  <2>3. PICK t \in Range(ts) : \E j \in DOMAIN records[t] : R[i - m] = records[t][j]
    BY <1>2, <2>1
  <2>4. PICK j \in DOMAIN records[t] : R[i - m] = records[t][j]
    BY <2>3
  <2>5. IsRecord(todo[i]) /\ todo[i].table = t /\ GoodStep(todo[i], n)
    BY <2>2, <2>4 DEF GoodSteps
  <2> QED
    BY <2>2, <2>4, <2>5
<1>12. \A i, j : ~(todo[i].do = "save" /\ IsRecord(todo[i]))
  BY DEF IsRecord
<1>13. \A i \in DOMAIN todo :
         /\ todo[i].table \in Range(ts)
         /\ \/ todo[i].do = "save" /\ todo[i].sheet = g[todo[i].table]
            \/ /\ IsRecord(todo[i])
               /\ \E j \in DOMAIN records[todo[i].table] : todo[i] = records[todo[i].table][j]
  <2>1. ASSUME NEW i \in DOMAIN todo, i \in 1..m
        PROVE  /\ todo[i].table \in Range(ts)
               /\ todo[i].do = "save" /\ todo[i].sheet = g[todo[i].table]
    BY <1>1, <1>10, <2>1
  <2> QED
    BY <1>11, <2>1
<1>14. \A i, j \in DOMAIN todo : i < j /\ IsRecord(todo[i]) => IsRecord(todo[j])
  <2>1. ASSUME NEW i \in DOMAIN todo, NEW j \in DOMAIN todo, i < j, IsRecord(todo[i])
        PROVE  IsRecord(todo[j])
    <3>1. i \notin 1..m
      BY <1>10, <1>12, <2>1
    <3>2. j \notin 1..m
      BY <1>6, <1>8, <2>1, <3>1
    <3> QED
      BY <1>11, <3>2
  <2> QED
    BY <2>1
<1>15. \A i, j \in DOMAIN todo : \A t \in Range(ts) :
         IsSave(todo[i], t) /\ IsSave(todo[j], t) => i = j
  <2>1. \A i \in DOMAIN todo : todo[i].do = "save" => i \in 1..m
    BY <1>11, <1>12
  <2> QED
    BY <1>1, <1>10, <2>1 DEF IsSave
<1>16. \A t \in Range(ts) : \E i \in DOMAIN todo : IsSave(todo[i], t)
  BY <1>1, <1>10 DEF IsSave
<1>17. ASSUME NEW t \in Range(ts), NEW j \in DOMAIN records[t]
       PROVE  \E i \in DOMAIN todo :
                todo[i] = records[t][j] /\ IsRecord(todo[i]) /\ todo[i].table = t
  <2>1. PICK i \in DOMAIN R : R[i] = records[t][j]
    BY <1>2
  <2>2. m + i \in DOMAIN todo /\ todo[m + i] = records[t][j]
    BY <1>6, <1>8, <2>1
  <2> QED
    BY <2>2
<1>18. ASSUME NEW i \in DOMAIN todo
       PROVE  GoodStep(todo[i], n)
  <2>1. CASE i \in 1..m
    BY <1>1, <1>10, <2>1 DEF GoodStep
  <2> QED
    BY <1>11, <2>1
<1>19. IsBlock(todo, Range(ts), g, records)
  BY <1>9, <1>13, <1>14, <1>15, <1>16, <1>17 DEF IsBlock
<1>20. GoodSteps(todo, n)
  BY <1>9, <1>18 DEF GoodSteps
<1> QED
  BY <1>19, <1>20 DEF todo

(* What a request sets out to do: good steps and frames, which are those   *)
(* of the files when the steps are done, coherent all along.               *)
GoodWork(work, f, L, U, d, n) ==
  /\ GoodSteps(work.steps, n) /\ GoodFrames(work.frames, n)
  /\ \A t \in Table : SheetAfter(work.steps, f, Len(work.steps), t, work.frames[t])
  /\ Coherent(work.steps, f, L, U, d)

(* A change of some tables is good work if its records, at later stamps,   *)
(* make the log tell the new sheets.                                       *)
LEMMA WorkIsGood ==
  ASSUME NEW f, NEW L, NEW U, NEW d, NEW ts, SomeTables(ts), NEW g, NEW records, NEW n,
         GoodFrames(f, n), \A t \in Table : Tells(L, U, t, f[t]),
         \A t \in Range(ts) :
           /\ GoodSteps(records[t], n)
           /\ \A j \in DOMAIN records[t] : IsRecord(records[t][j]) /\ records[t][j].table = t,
         \A t \in Range(ts) : GoodSheet(g[t], n),
         \A t \in Range(ts) : \A V :
           MadeOf(V, records[t], L, d) => Tells(L \cup V, U \cup V, t, g[t])
  PROVE  GoodWork(Work(f, ts, g, records), f, L, U, d, n)
<1> DEFINE work == Work(f, ts, g, records)
<1>1. IsBlock(work.steps, Range(ts), g, records) /\ GoodSteps(work.steps, n)
  BY WorkIsBlock
<1>2. \A t \in Table : work.frames[t] = IF t \in Range(ts) THEN g[t] ELSE f[t]
  BY DEF Work
<1>3. DOMAIN work.frames = Table
  BY DEF Work
<1> DEFINE T == Range(ts)
           todo == work.steps
<1> HIDE DEF work
<1>4. /\ Coherent(work.steps, f, L, U, d)
      /\ \A t \in Table :
           SheetAfter(work.steps, f, Len(work.steps), t, IF t \in Range(ts) THEN g[t] ELSE f[t])
  <2>1. /\ IsBlock(todo, T, g, records)
        /\ \A t \in T : \A V : MadeOf(V, records[t], L, d) => Tells(L \cup V, U \cup V, t, g[t])
    BY <1>1
  <2> HIDE DEF T, todo
  <2>2. /\ Coherent(todo, f, L, U, d)
        /\ \A t \in Table : SheetAfter(todo, f, Len(todo), t, IF t \in T THEN g[t] ELSE f[t])
    BY <2>1, BlockIsCoherent
  <2> QED
    BY <2>2 DEF T, todo
<1>5. \A t \in Table : SheetAfter(work.steps, f, Len(work.steps), t, work.frames[t])
  BY <1>2, <1>4
<1>6. GoodFrames(work.frames, n)
  BY <1>2, <1>3 DEF GoodFrames
<1> QED
  BY <1>1, <1>4, <1>5, <1>6 DEF GoodWork, work

-----------------------------------------------------------------------------
(* The records a change makes                                              *)

(* The same record for each of some ids. *)
IsAll(R, t, ids, op, cells, n) ==
  /\ GoodSteps(R, n)
  /\ \A i \in DOMAIN R : IsRecord(R[i]) /\ R[i].table = t /\ R[i].op = op /\ R[i].cells = cells
  /\ \A i \in DOMAIN R : R[i].id \in ids
  /\ \A id \in ids : \E i \in DOMAIN R : R[i].id = id

(* RecordAll makes them. *)
LEMMA RecordAllGives ==
  ASSUME NEW n, NEW t \in Table, NEW ids, ids \in Seq(Range(ids)), Range(ids) \subseteq 1..n,
         NEW op \in {"upsert", "delete", "cell"}, NEW cells
  PROVE  IsAll(RecordAll(t, ids, op, cells), t, Range(ids), op, cells, n)
<1> DEFINE R == RecordAll(t, ids, op, cells)
<1>1. Len(ids) \in Nat /\ DOMAIN ids = 1..Len(ids)
  OBVIOUS
<1>2. /\ DOMAIN R = DOMAIN ids /\ R = [i \in DOMAIN ids |-> R[i]]
      /\ \A i \in DOMAIN ids : R[i] = RecordStep(t, ids[i], op, cells)
  BY DEF RecordAll
<1> HIDE DEF R
<1>3. \A i \in DOMAIN ids : /\ R[i].do = "record" /\ R[i].table = t /\ R[i].id = ids[i]
                            /\ R[i].op = op /\ R[i].cells = cells
  BY <1>2 DEF RecordStep
<1>4. \A i \in DOMAIN ids : ids[i] \in Range(ids)
  BY DEF Range
<1>5. \A id \in Range(ids) : \E i \in DOMAIN ids : ids[i] = id
  BY DEF Range
<1>6. R \in Seq(Range(R))
  <2>1. DOMAIN R = 1..Len(ids) /\ R = [i \in 1..Len(ids) |-> R[i]]
    BY <1>1, <1>2
  <2> QED
    BY <1>1, <2>1, SeqOfItsRange
<1>7. \A i \in DOMAIN R : GoodStep(R[i], n)
  BY <1>2, <1>3, <1>4 DEF GoodStep
<1>8. GoodSteps(R, n)
  BY <1>6, <1>7 DEF GoodSteps
<1> QED
  BY <1>2, <1>3, <1>4, <1>5, <1>8 DEF IsAll, IsRecord, R

(* Such an entry for each of some ids. *)
AreOf(V, t, ids, op, cells) ==
  /\ \A e \in V : /\ e.table = t /\ e.op = op /\ e.cells = cells /\ e.id \in ids
                  /\ op = "cell" => e.column = ColumnOf(cells)
  /\ \A id \in ids : \E e \in V : e.id = id

(* The entries made of them. *)
LEMMA MadeOfAll ==
  ASSUME NEW n, NEW R, NEW t, NEW ids, NEW op, NEW cells, IsAll(R, t, ids, op, cells, n),
         NEW V, NEW L, NEW d, MadeOf(V, R, L, d)
  PROVE  AreOf(V, t, ids, op, cells) /\ Timed(V) /\ Later(V, L)
<1>1. ASSUME NEW e \in V
      PROVE  /\ e.table = t /\ e.op = op /\ e.cells = cells /\ e.id \in ids
             /\ op = "cell" => e.column = ColumnOf(cells)
             /\ e.key.time \in Nat /\ \A f \in L : f.key.time < e.key.time
  <2>1. PICK i \in DOMAIN R :
          \E k \in Nat : e = EntryOf(R[i], [time |-> k, device |-> d])
                         /\ \A f \in L : f.key.time < k
    BY DEF MadeOf
  <2>2. PICK k \in Nat : /\ e = EntryOf(R[i], [time |-> k, device |-> d])
                         /\ \A f \in L : f.key.time < k
    BY <2>1
  <2> DEFINE key == [time |-> k, device |-> d]
  <2>3. /\ e.table = R[i].table /\ e.id = R[i].id /\ e.op = R[i].op
        /\ e.key = key /\ e.cells = R[i].cells
        /\ R[i].op = "cell" => e.column = ColumnOf(R[i].cells)
    <3>1. e = EntryOf(R[i], key)
      BY <2>2
    <3> HIDE DEF key
    <3>2. IsEntry(e, R[i], key)
      BY <3>1, EntryFields
    <3> QED
      BY <3>2 DEF IsEntry
  <2>4. R[i].table = t /\ R[i].op = op /\ R[i].cells = cells /\ R[i].id \in ids
    BY DEF IsAll
  <2>5. e.key.time = k
    BY <2>3
  <2> QED
    BY <2>2, <2>3, <2>4, <2>5
<1>2. ASSUME NEW id \in ids
      PROVE  \E e \in V : e.id = id
  <2>1. PICK i \in DOMAIN R : R[i].id = id
    BY DEF IsAll
  <2>2. PICK k \in Nat : EntryOf(R[i], [time |-> k, device |-> d]) \in V
    BY DEF MadeOf
  <2>3. EntryOf(R[i], [time |-> k, device |-> d]).id = id
    BY <2>1, EntryFields DEF IsEntry
  <2> QED
    BY <2>2, <2>3
<1> QED
  BY <1>1, <1>2 DEF Timed, Later, AreOf

(* The entries of two sequences of records are those of each. *)
LEMMA MadeOfBoth ==
  ASSUME NEW a, NEW b, NEW R, Joined(R, a, b), NEW V, NEW L, NEW d, MadeOf(V, R, L, d)
  PROVE  \E A, B : V = A \cup B /\ MadeOf(A, a, L, d) /\ MadeOf(B, b, L, d)
<1> DEFINE Makes(r, e) == \E k \in Nat : /\ e = EntryOf(r, [time |-> k, device |-> d])
                                         /\ \A f \in L : f.key.time < k
           A == {e \in V : \E i \in DOMAIN a : Makes(a[i], e)}
           B == {e \in V : \E i \in DOMAIN b : Makes(b[i], e)}
<1>1. /\ \A i \in DOMAIN R : (i \in DOMAIN a /\ R[i] = a[i])
                             \/ \E j \in DOMAIN b : R[i] = b[j]
      /\ \A i \in DOMAIN a : \E j \in DOMAIN R : R[j] = a[i]
      /\ \A i \in DOMAIN b : \E j \in DOMAIN R : R[j] = b[i]
  <2>1. ASSUME NEW i \in DOMAIN R, i \notin DOMAIN a
        PROVE  \E j \in DOMAIN b : R[i] = b[j]
    <3>1. i - Len(a) \in 1..Len(b) /\ Len(a) + (i - Len(a)) = i
      BY <2>1 DEF Joined
    <3> QED
      BY <3>1 DEF Joined
  <2>2. \A i \in DOMAIN R : i \in DOMAIN a => R[i] = a[i]
    BY DEF Joined
  <2>3. \A i \in DOMAIN a : i \in DOMAIN R /\ R[i] = a[i]
    BY DEF Joined
  <2>4. \A i \in DOMAIN b : Len(a) + i \in DOMAIN R /\ R[Len(a) + i] = b[i]
    BY DEF Joined
  <2> QED
    BY <2>1, <2>2, <2>3, <2>4
<1>2. ASSUME NEW e \in V
      PROVE  \E i \in DOMAIN R : Makes(R[i], e)
  BY DEF MadeOf
<1>3. \A r, k : (\E i \in DOMAIN R : R[i] = r) /\ k \in Nat
                 /\ EntryOf(r, [time |-> k, device |-> d]) \in V
                => Makes(r, EntryOf(r, [time |-> k, device |-> d]))
  <2>1. ASSUME NEW r, NEW k \in Nat, EntryOf(r, [time |-> k, device |-> d]) \in V
        PROVE  Makes(r, EntryOf(r, [time |-> k, device |-> d]))
    <3> DEFINE e == EntryOf(r, [time |-> k, device |-> d])
    <3>1. PICK i \in DOMAIN R : Makes(R[i], e)
      BY <1>2, <2>1
    <3>2. PICK l \in Nat : /\ e = EntryOf(R[i], [time |-> l, device |-> d])
                           /\ \A f \in L : f.key.time < l
      BY <3>1
    <3>3. IsEntry(e, r, [time |-> k, device |-> d]) /\ IsEntry(e, R[i], [time |-> l, device |-> d])
      BY <3>2, EntryFields
    <3> HIDE DEF e
    <3>4. e.key.time = k /\ e.key.time = l
      BY <3>3 DEF IsEntry
    <3> USE DEF e
    <3> QED
      BY <3>2, <3>4
  <2> QED
    BY <2>1
<1>4. V = A \cup B
  <2>1. ASSUME NEW e \in V, e \notin A
        PROVE  e \in B
    <3>1. PICK i \in DOMAIN R : Makes(R[i], e)
      BY <1>2
    <3>2. i \notin DOMAIN a \/ R[i] # a[i]
      BY <2>1, <3>1
    <3>3. PICK j \in DOMAIN b : R[i] = b[j]
      BY <1>1, <3>2
    <3> QED
      BY <3>1, <3>3
  <2> QED
    BY <2>1
<1>5. MadeOf(A, a, L, d)
  <2>1. ASSUME NEW i \in DOMAIN a
        PROVE  \E k \in Nat : EntryOf(a[i], [time |-> k, device |-> d]) \in A
    <3>1. PICK j \in DOMAIN R : R[j] = a[i]
      BY <1>1
    <3>2. PICK k \in Nat : EntryOf(a[i], [time |-> k, device |-> d]) \in V
      BY <3>1 DEF MadeOf
    <3> QED
      BY <1>3, <3>1, <3>2
  <2> QED
    BY <2>1 DEF MadeOf
<1>6. MadeOf(B, b, L, d)
  <2>1. ASSUME NEW i \in DOMAIN b
        PROVE  \E k \in Nat : EntryOf(b[i], [time |-> k, device |-> d]) \in B
    <3>1. PICK j \in DOMAIN R : R[j] = b[i]
      BY <1>1
    <3>2. PICK k \in Nat : EntryOf(b[i], [time |-> k, device |-> d]) \in V
      BY <3>1 DEF MadeOf
    <3> QED
      BY <1>3, <3>1, <3>2
  <2> QED
    BY <2>1 DEF MadeOf
<1> QED
  BY <1>4, <1>5, <1>6

-----------------------------------------------------------------------------
(* The changes a request is made of                                        *)

(* Frames with good tables, which a log with times tells. *)
Told(f, L, U, n) ==
  /\ GoodFrames(f, n) /\ IsFiniteSet(L) /\ Timed(L)
  /\ \A t \in Table : Tells(L, U, t, f[t])

(* The one column a cell sets. *)
LEMMA CellSets ==
  ASSUME NEW c, NEW v
  PROVE  Cell(c, v)[c] = v /\ ColumnOf(Cell(c, v)) = c
<1>1. DOMAIN Cell(c, v) = {c} /\ Cell(c, v)[c] = v
  BY DEF Cell
<1>2. (CHOOSE x \in {c} : TRUE) = c
  OBVIOUS
<1> QED
  BY <1>1, <1>2 DEF ColumnOf

(* The entries that set a column of the rows of a name. *)
LEMMA MadeSetsColumn ==
  ASSUME NEW n \in Nat, NEW sheet, GoodSheet(sheet, n), NEW t \in Table, NEW name,
         NEW c \in Column, NEW value, NEW V, NEW L, NEW d,
         MadeOf(V, RecordAll(t, RowIdsWhere(sheet, name), "cell", Cell(c, value)), L, d)
  PROVE  /\ SetsColumn(V, t, {sheet[i].id : i \in {j \in DOMAIN sheet : sheet[j].name = name}},
                       c, value)
         /\ Timed(V) /\ Later(V, L)
<1> DEFINE ids == RowIdsWhere(sheet, name)
           hit == {sheet[i].id : i \in {j \in DOMAIN sheet : sheet[j].name = name}}
           R == RecordAll(t, ids, "cell", Cell(c, value))
<1>1. ids \in Seq(Range(ids)) /\ Range(ids) = hit /\ Range(ids) \subseteq 1..n
  BY IdsOfName
<1>2. MadeOf(V, R, L, d)
  OBVIOUS
<1> HIDE DEF ids, hit
<1>3. IsAll(R, t, hit, "cell", Cell(c, value), n)
  BY <1>1, RecordAllGives
<1> HIDE DEF R
<1>4. /\ \A e \in V : /\ e.table = t /\ e.op = "cell" /\ e.cells = Cell(c, value) /\ e.id \in hit
                      /\ e.column = ColumnOf(Cell(c, value))
      /\ \A id \in hit : \E e \in V : e.id = id
      /\ Timed(V) /\ Later(V, L)
  <2>1. AreOf(V, t, hit, "cell", Cell(c, value)) /\ Timed(V) /\ Later(V, L)
    BY <1>2, <1>3, MadeOfAll
  <2> QED
    BY <2>1 DEF AreOf
<1>5. SetsColumn(V, t, hit, c, value)
  BY <1>4, CellSets DEF SetsColumn
<1> QED
  BY <1>4, <1>5 DEF hit

(* A column of the rows of a name is set. *)
LEMMA SettingIsGood ==
  ASSUME NEW n \in Nat, NEW f, NEW L, NEW U, NEW d, Told(f, L, U, n),
         NEW ts, SomeTables(ts), NEW name, NEW c \in Column, NEW value
  PROVE  GoodWork(SetNamed(f, ts, name, c, value), f, L, U, d, n)
<1> DEFINE g == [t \in Table |-> SetWhere(f[t], name, c, value)]
           records == [t \in Table |->
                         RecordAll(t, RowIdsWhere(f[t], name), "cell", Cell(c, value))]
<1>1. /\ GoodFrames(f, n) /\ \A t \in Table : Tells(L, U, t, f[t]) /\ GoodSheet(f[t], n)
      /\ Timed(L)
  BY DEF Told, GoodFrames
<1>2. Range(ts) \subseteq Table
  BY SomeTablesFacts
<1>3. ASSUME NEW t \in Range(ts)
      PROVE  /\ GoodSteps(records[t], n)
             /\ \A j \in DOMAIN records[t] : IsRecord(records[t][j]) /\ records[t][j].table = t
  <2> DEFINE ids == RowIdsWhere(f[t], name)
  <2>1. t \in Table /\ GoodSheet(f[t], n)
    BY <1>1, <1>2
  <2>2. ids \in Seq(Range(ids)) /\ Range(ids) \subseteq 1..n
    BY <2>1, IdsOfName
  <2>3. records[t] = RecordAll(t, ids, "cell", Cell(c, value))
    BY <2>1
  <2> HIDE DEF ids, records
  <2>4. IsAll(RecordAll(t, ids, "cell", Cell(c, value)), t, Range(ids), "cell", Cell(c, value), n)
    BY <2>1, <2>2, RecordAllGives
  <2> QED
    BY <2>3, <2>4 DEF IsAll
<1>4. ASSUME NEW t \in Range(ts)
      PROVE  GoodSheet(g[t], n)
  BY <1>1, <1>2, SetKeepsRows
<1>5. ASSUME NEW t \in Range(ts), NEW V, MadeOf(V, records[t], L, d)
      PROVE  Tells(L \cup V, U \cup V, t, g[t])
  <2>1. t \in Table /\ GoodSheet(f[t], n) /\ Tells(L, U, t, f[t])
    BY <1>1, <1>2
  <2>2. /\ SetsColumn(V, t, {f[t][i].id : i \in {j \in DOMAIN f[t] : f[t][j].name = name}}, c, value)
        /\ Timed(V) /\ Later(V, L)
    BY <1>5, <2>1, MadeSetsColumn
  <2>3. LaterOn(V, L, c)
    BY <2>2 DEF Later, LaterOn
  <2>4. IdsAreUnique(f[t]) /\ \A i \in DOMAIN f[t] : DOMAIN f[t][i] = Column \cup {"id"}
    BY <2>1, RowFacts DEF GoodSheet
  <2>5. Tells(L \cup V, U \cup V, t, SetWhere(f[t], name, c, value))
    BY <1>1, <2>1, <2>2, <2>3, <2>4, SettingTells
  <2> QED
    BY <2>1, <2>5
<1>6. SetNamed(f, ts, name, c, value) = Work(f, ts, g, records)
  BY DEF SetNamed
<1> HIDE DEF g, records
<1> QED
  BY <1>1, <1>3, <1>4, <1>5, <1>6, WorkIsGood

(* The rows of a name are removed. *)
LEMMA RemovingIsGood ==
  ASSUME NEW n \in Nat, NEW f, NEW L, NEW U, NEW d, Told(f, L, U, n),
         NEW ts, SomeTables(ts), NEW name
  PROVE  GoodWork(RemoveNamed(f, ts, name), f, L, U, d, n)
<1> DEFINE g == [t \in Table |-> Without(f[t], name)]
           records == [t \in Table |-> RecordAll(t, RowIdsWhere(f[t], name), "delete", <<>>)]
<1>1. /\ GoodFrames(f, n) /\ \A t \in Table : Tells(L, U, t, f[t]) /\ GoodSheet(f[t], n)
      /\ Timed(L)
  BY DEF Told, GoodFrames
<1>2. Range(ts) \subseteq Table
  BY SomeTablesFacts
<1>3. ASSUME NEW t \in Range(ts)
      PROVE  IsAll(records[t], t,
                   {f[t][i].id : i \in {j \in DOMAIN f[t] : f[t][j].name = name}},
                   "delete", <<>>, n)
  <2> DEFINE ids == RowIdsWhere(f[t], name)
             hit == {f[t][i].id : i \in {j \in DOMAIN f[t] : f[t][j].name = name}}
  <2>1. t \in Table /\ GoodSheet(f[t], n)
    BY <1>1, <1>2
  <2>2. ids \in Seq(Range(ids)) /\ Range(ids) = hit /\ Range(ids) \subseteq 1..n
    BY <2>1, IdsOfName
  <2>3. records[t] = RecordAll(t, ids, "delete", <<>>)
    BY <2>1
  <2> HIDE DEF ids, hit, records
  <2>4. IsAll(RecordAll(t, ids, "delete", <<>>), t, hit, "delete", <<>>, n)
    BY <2>1, <2>2, RecordAllGives
  <2> QED
    BY <2>3, <2>4 DEF hit
<1>4. ASSUME NEW t \in Range(ts)
      PROVE  GoodSheet(g[t], n)
  <2> DEFINE P == {i \in DOMAIN f[t] : f[t][i].name # name}
  <2>1. g[t] = RowsAt(f[t], P) /\ P \in SUBSET DOMAIN f[t] /\ GoodSheet(f[t], n)
    BY <1>1, <1>2 DEF Without
  <2> HIDE DEF P, g
  <2> QED
    BY <2>1, FilterKeepsRows
<1>5. ASSUME NEW t \in Range(ts), NEW V, MadeOf(V, records[t], L, d)
      PROVE  Tells(L \cup V, U \cup V, t, g[t])
  <2> DEFINE hit == {f[t][i].id : i \in {j \in DOMAIN f[t] : f[t][j].name = name}}
  <2>1. t \in Table /\ GoodSheet(f[t], n) /\ Tells(L, U, t, f[t])
    BY <1>1, <1>2
  <2>2. IsAll(records[t], t, hit, "delete", <<>>, n)
    BY <1>3
  <2> HIDE DEF hit, records
  <2>3. /\ \A e \in V : e.table = t /\ e.op = "delete" /\ e.id \in hit
        /\ \A id \in hit : \E e \in V : e.id = id
        /\ Timed(V) /\ Later(V, L)
    BY <1>5, <2>2, MadeOfAll DEF AreOf
  <2>4. DeletesRows(V, t, hit)
    BY <2>3 DEF DeletesRows
  <2>5. Tells(L \cup V, U \cup V, t, Without(f[t], name))
    BY <1>1, <2>1, <2>3, <2>4, RemovingTells DEF hit
  <2> QED
    BY <2>1, <2>5
<1>6. RemoveNamed(f, ts, name) = Work(f, ts, g, records)
  BY DEF RemoveNamed
<1>7. \A t \in Range(ts) :
        /\ GoodSteps(records[t], n)
        /\ \A j \in DOMAIN records[t] : IsRecord(records[t][j]) /\ records[t][j].table = t
  BY <1>3 DEF IsAll
<1> HIDE DEF g, records
<1> QED
  BY <1>1, <1>4, <1>5, <1>6, <1>7, WorkIsGood

(* A row is added under an id that no row and no entry has. *)
LEMMA AddingIsGood ==
  ASSUME requests \in Nat, NEW f, NEW L, NEW U, NEW d, Told(f, L, U, requests),
         NEW ts, SomeTables(ts), NEW name, L \subseteq U, \A e \in U : e.id \in 1..requests
  PROVE  GoodWork(AddRow(f, ts, name), f, L, U, d, requests + 1)
<1> DEFINE n == requests + 1
           cells == [c \in Column |-> IF c = "name" THEN name ELSE 0]
           g == [t \in Table |-> Append(f[t], RowOf(n, cells))]
           r(t) == RecordStep(t, n, "upsert", cells)
           records == [t \in Table |-> <<r(t)>>]
<1>1. /\ GoodFrames(f, requests) /\ Timed(L)
      /\ \A t \in Table : Tells(L, U, t, f[t]) /\ GoodSheet(f[t], requests)
  BY DEF Told, GoodFrames
<1>2. Range(ts) \subseteq Table
  BY SomeTablesFacts
<1>3. n \in Nat /\ requests <= n /\ n \notin 1..requests /\ n \in 1..n
  OBVIOUS
<1>4. AddRow(f, ts, name) = Work(f, ts, g, records)
  BY DEF AddRow
<1> HIDE DEF cells
<1>5. ASSUME NEW t \in Range(ts)
      PROVE  IsAll(records[t], t, {n}, "upsert", cells, n)
  <2> DEFINE ids == <<n>>
  <2>1. t \in Table
    BY <1>2
  <2>2. ids \in Seq(Range(ids)) /\ Range(ids) = {n} /\ DOMAIN ids = 1..1 /\ ids[1] = n
    <3>1. ids \in Seq({n}) /\ DOMAIN ids = 1..1 /\ ids[1] = n
      OBVIOUS
    <3>2. Range(ids) = {n}
      BY <3>1 DEF Range
    <3> QED
      BY <3>1, <3>2
  <2>3. records[t] = [i \in DOMAIN ids |-> RecordStep(t, ids[i], "upsert", cells)]
    <3>1. records[t] = <<r(t)>>
      BY <2>1
    <3>2. [i \in DOMAIN ids |-> RecordStep(t, ids[i], "upsert", cells)] = [i \in 1..1 |-> r(t)]
      BY <2>2
    <3> HIDE DEF r
    <3>3. <<r(t)>> = [i \in 1..1 |-> r(t)]
      OBVIOUS
    <3> QED
      BY <3>1, <3>2, <3>3
  <2>4. Range(ids) \subseteq 1..n
    BY <1>3, <2>2
  <2> HIDE DEF ids, records, n
  <2>5. IsAll(RecordAll(t, ids, "upsert", cells), t, Range(ids), "upsert", cells, n)
    BY <2>1, <2>2, <2>4, RecordAllGives
  <2>6. records[t] = RecordAll(t, ids, "upsert", cells)
    BY <2>3 DEF RecordAll
  <2> QED
    BY <2>2, <2>5, <2>6
<1>6. ASSUME NEW t \in Range(ts)
      PROVE  GoodSheet(g[t], n)
  <2>1. t \in Table /\ GoodSheet(f[t], requests)
    BY <1>1, <1>2
  <2>2. GoodSheet(Append(f[t], RowOf(requests + 1, cells)), requests + 1)
    BY <2>1, AddKeepsRows
  <2> QED
    BY <2>1, <2>2
<1>7. ASSUME NEW t \in Range(ts), NEW V, MadeOf(V, records[t], L, d)
      PROVE  Tells(L \cup V, U \cup V, t, g[t])
  <2> DEFINE row == RowOf(n, cells)
             sheet == f[t]
  <2>1. t \in Table /\ GoodSheet(sheet, requests) /\ Tells(L, U, t, sheet)
    BY <1>1, <1>2
  <2>2. AreOf(V, t, {n}, "upsert", cells)
    <3>1. IsAll(records[t], t, {n}, "upsert", cells, n)
      BY <1>5
    <3> HIDE DEF records, n
    <3> QED
      BY <1>7, <3>1, MadeOfAll
  <2>3. row.id = n /\ \A c \in Column : row[c] = cells[c]
    <3>1. "id" \notin Column
      BY DEF Column
    <3> HIDE DEF n
    <3> QED
      BY <3>1 DEF RowOf
  <2>4. g[t] = Append(sheet, row)
    BY <2>1
  <2>5. /\ sheet \in Seq(Range(sheet)) /\ \A i \in DOMAIN sheet : sheet[i].id \in 1..requests
    BY <2>1 DEF GoodSheet, GoodRow
  <2> HIDE DEF row, sheet, n, g
  <2>6. V # {} /\ \A e \in V : /\ e.op = "upsert" /\ e.table = t /\ e.id = row.id
                               /\ \A c \in Column : row[c] = e.cells[c]
    BY <2>2, <2>3 DEF AreOf
  <2>7. \A e \in U : e.table = t => e.id # row.id
    BY <1>3, <2>3
  <2>8. \A i \in DOMAIN sheet : sheet[i].id # row.id
    BY <1>3, <2>3, <2>5
  <2>9. Tells(L \cup V, U \cup V, t, Append(sheet, row))
    BY <2>1, <2>5, <2>6, <2>7, <2>8, AddingTells
  <2> QED
    BY <2>4, <2>9
<1>8. GoodFrames(f, n) /\ \A t \in Table : Tells(L, U, t, f[t])
  BY <1>1, <1>3, GoodForMore
<1>9. \A t \in Range(ts) :
        /\ GoodSteps(records[t], n)
        /\ \A j \in DOMAIN records[t] : IsRecord(records[t][j]) /\ records[t][j].table = t
  BY <1>5 DEF IsAll
<1> HIDE DEF g, records, n
<1>10. GoodWork(Work(f, ts, g, records), f, L, U, d, n)
  BY <1>6, <1>7, <1>8, <1>9, WorkIsGood
<1> QED
  BY <1>4, <1>10 DEF n

(* A price is set, and with it its currency. *)
LEMMA PricingIsGood ==
  ASSUME NEW n \in Nat, NEW f, NEW L, NEW U, NEW d, Told(f, L, U, n), NEW name,
         NEW withCurrency \in BOOLEAN
  PROVE  GoodWork(SetAssetPrice(f, name, withCurrency), f, L, U, d, n)
<1> DEFINE sheet == f["prices"]
           priced == SetWhere(sheet, name, "month", New)
           both == SetWhere(priced, name, "currency", New)
           ids == RowIdsWhere(sheet, name)
           a == RecordAll("prices", ids, "cell", Cell("month", New))
           b == RecordAll("prices", ids, "cell", Cell("currency", New))
           g == [t \in Table |-> both]
           records == [t \in Table |-> a \o b]
           hit == {sheet[i].id : i \in {j \in DOMAIN sheet : sheet[j].name = name}}
<1>1. /\ "prices" \in Table /\ SomeTables(Prices)
      /\ "month" \in Column /\ "currency" \in Column /\ "name" \in Column
      /\ "month" # "currency" /\ "month" # "name" /\ "month" # "id" /\ "name" # "id"
  <2>1. "prices" \in Table /\ "holdings" \in Table /\ "prices" # "holdings"
    BY DEF Table
  <2>2. SomeTables(Prices)
    BY <2>1 DEF SomeTables, Prices
  <2> QED
    BY <2>1, <2>2 DEF Column
<1>2. CASE ~withCurrency
  <2>1. SetAssetPrice(f, name, withCurrency) = SetNamed(f, Prices, name, "month", New)
    BY <1>2 DEF SetAssetPrice
  <2> QED
    BY <1>1, <2>1, SettingIsGood
<1>3. CASE withCurrency
  <2>1. SetAssetPrice(f, name, withCurrency) = Work(f, Prices, g, records)
    BY <1>3 DEF SetAssetPrice
  <2>2. \A t : t \in Range(Prices) <=> t = "prices"
    BY DEF Prices, Range
  <2>3. /\ GoodFrames(f, n) /\ \A t \in Table : Tells(L, U, t, f[t])
        /\ Timed(L) /\ GoodSheet(sheet, n)
    BY <1>1 DEF Told, GoodFrames
  <2>4. ids \in Seq(Range(ids)) /\ Range(ids) = hit /\ Range(ids) \subseteq 1..n
    BY <2>3, IdsOfName
  <2>5. records["prices"] = a \o b /\ g["prices"] = both
    BY <1>1
  <2>6. GoodSheet(priced, n)
    BY <1>1, <2>3, SetKeepsRows
  <2>7. GoodSheet(both, n)
    BY <1>1, <2>6, SetKeepsRows
  <2>8. {priced[i].id : i \in {j \in DOMAIN priced : priced[j].name = name}} = hit
    <3>1. /\ DOMAIN priced = DOMAIN sheet
          /\ \A i \in DOMAIN sheet : priced[i].id = sheet[i].id /\ priced[i].name = sheet[i].name
      BY <1>1 DEF SetWhere
    <3> HIDE DEF priced, sheet
    <3> QED
      BY <3>1
  <2> HIDE DEF g, records, sheet, priced, both, ids, hit
  <2>9. /\ IsAll(a, "prices", hit, "cell", Cell("month", New), n)
        /\ IsAll(b, "prices", hit, "cell", Cell("currency", New), n)
    BY <1>1, <2>4, RecordAllGives
  <2> HIDE DEF a, b
  <2>10. Joined(a \o b, a, b)
    BY <2>9, JoiningThem DEF IsAll, GoodSteps
  <2>11. /\ GoodSteps(a \o b, n)
         /\ \A j \in DOMAIN (a \o b) : IsRecord((a \o b)[j]) /\ (a \o b)[j].table = "prices"
    <3> DEFINE R == a \o b
    <3> HIDE DEF R
    <3>1. Joined(R, a, b)
      BY <2>10 DEF R
    <3>2. ASSUME NEW i \in DOMAIN R
          PROVE  (\E j \in DOMAIN a : R[i] = a[j]) \/ (\E j \in DOMAIN b : R[i] = b[j])
      <4>1. CASE i \in 1..Len(a)
        BY <3>1, <4>1 DEF Joined
      <4>2. CASE i \notin 1..Len(a)
        <5>1. i - Len(a) \in 1..Len(b) /\ Len(a) + (i - Len(a)) = i
          BY <3>1, <4>2 DEF Joined
        <5> QED
          BY <3>1, <5>1 DEF Joined
      <4> QED
        BY <4>1, <4>2
    <3>3. \A i \in DOMAIN R : /\ GoodStep(R[i], n) /\ IsRecord(R[i]) /\ R[i].table = "prices"
      BY <2>9, <3>2 DEF IsAll, GoodSteps
    <3>4. GoodSteps(R, n)
      BY <3>1, <3>3 DEF GoodSteps, Joined
    <3> QED
      BY <3>3, <3>4 DEF R
  <2>12. ASSUME NEW V, MadeOf(V, a \o b, L, d)
         PROVE  Tells(L \cup V, U \cup V, "prices", both)
    <3>1. PICK A, B : V = A \cup B /\ MadeOf(A, a, L, d) /\ MadeOf(B, b, L, d)
      BY <2>10, <2>12, MadeOfBoth
    <3>2. /\ SetsColumn(A, "prices", hit, "month", New) /\ Timed(A) /\ Later(A, L)
          /\ SetsColumn(B, "prices", hit, "currency", New) /\ Timed(B) /\ Later(B, L)
      BY <1>1, <2>3, <3>1, MadeSetsColumn DEF a, b, hit, ids
    <3>3. LaterOn(A, L, "month") /\ LaterOn(B, L \cup A, "currency") /\ Timed(L \cup A)
      BY <1>1, <2>3, <3>2 DEF LaterOn, Later, SetsColumn, Timed
    <3>4. /\ \A i \in DOMAIN sheet : DOMAIN sheet[i] = Column \cup {"id"}
          /\ \A i \in DOMAIN priced : DOMAIN priced[i] = Column \cup {"id"}
          /\ IdsAreUnique(sheet) /\ IdsAreUnique(priced)
      BY <2>3, <2>6, RowFacts DEF GoodSheet
    <3>5. Tells(L, U, "prices", sheet)
      BY <1>1, <2>3 DEF sheet
    <3>6. Tells(L \cup A, U \cup A, "prices", priced)
      BY <1>1, <2>3, <3>2, <3>3, <3>4, <3>5, SettingTells DEF priced, hit
    <3>7. Tells((L \cup A) \cup B, (U \cup A) \cup B, "prices", both)
      BY <1>1, <2>8, <3>2, <3>3, <3>4, <3>6, SettingTells DEF both
    <3>8. (L \cup A) \cup B = L \cup V /\ (U \cup A) \cup B = U \cup V
      BY <3>1
    <3> QED
      BY <3>7, <3>8
  <2>13. GoodWork(Work(f, Prices, g, records), f, L, U, d, n)
    <3>1. \A t \in Range(Prices) :
            /\ GoodSteps(records[t], n)
            /\ \A j \in DOMAIN records[t] : IsRecord(records[t][j]) /\ records[t][j].table = t
      BY <2>2, <2>5, <2>11
    <3>2. \A t \in Range(Prices) : GoodSheet(g[t], n)
      BY <2>2, <2>5, <2>7
    <3>3. \A t \in Range(Prices) : \A V :
            MadeOf(V, records[t], L, d) => Tells(L \cup V, U \cup V, t, g[t])
      <4>1. ASSUME NEW t \in Range(Prices), NEW V, MadeOf(V, records[t], L, d)
            PROVE  Tells(L \cup V, U \cup V, t, g[t])
        <5>1. t = "prices" /\ MadeOf(V, a \o b, L, d)
          BY <2>2, <2>5, <4>1
        <5> QED
          BY <2>5, <2>12, <5>1
      <4> QED
        BY <4>1
    <3> QED
      BY <1>1, <2>3, <3>1, <3>2, <3>3, WorkIsGood
  <2> QED
    BY <2>1, <2>13
<1> QED
  BY <1>2, <1>3

-----------------------------------------------------------------------------
(* One change after another                                                *)

(* A finite set of natural numbers has a greatest one. *)
LEMMA FiniteGreatest ==
  ASSUME NEW S \in SUBSET Nat, IsFiniteSet(S), S # {}
  PROVE  \E m \in S : \A x \in S : x <= m
<1> DEFINE above(x) == {y \in S : x < y}
           T == {Cardinality(above(x)) : x \in S}
<1>1. ASSUME NEW x \in S
      PROVE  IsFiniteSet(above(x)) /\ Cardinality(above(x)) \in Nat
  <2>1. above(x) \subseteq S
    OBVIOUS
  <2> HIDE DEF above
  <2>2. IsFiniteSet(above(x))
    BY <2>1, FS_Subset
  <2> QED
    BY <2>2, FS_CardinalityType
<1>2. ASSUME NEW x \in S, NEW y \in S, x < y
      PROVE  Cardinality(above(y)) < Cardinality(above(x))
  <2>1. above(y) \subseteq above(x) /\ y \in above(x) /\ y \notin above(y)
    <3>1. \A z \in S : z \in Nat
      OBVIOUS
    <3>2. \A z \in S : y < z => x < z
      BY <1>2, <3>1
    <3>3. ~(y < y)
      BY <3>1
    <3> QED
      BY <1>2, <3>2, <3>3
  <2> HIDE DEF above
  <2>2. IsFiniteSet(above(x)) /\ above(y) # above(x)
    BY <1>1, <2>1
  <2>3. Cardinality(above(y)) <= Cardinality(above(x))
        /\ (Cardinality(above(y)) = Cardinality(above(x)) => above(y) = above(x))
    BY <2>1, <2>2, FS_Subset
  <2> QED
    BY <1>1, <2>2, <2>3
<1>3. T \in SUBSET Nat /\ T # {}
  BY <1>1
<1>4. PICK n \in T : \A m \in T : n <= m
  BY <1>3, NatLeast
<1>5. PICK x \in S : n = Cardinality(above(x))
  OBVIOUS
<1>6. \A y \in S : ~(x < y)
  <2>1. \A y \in S : n <= Cardinality(above(y))
    BY <1>4
  <2> HIDE DEF above, T
  <2> QED
    BY <1>1, <1>2, <1>5, <2>1
<1> QED
  BY <1>6

(* What a finite set is mapped to is finite. *)
LEMMA ImageIsFinite ==
  ASSUME NEW S, IsFiniteSet(S), NEW map
  PROVE  IsFiniteSet({map[x] : x \in S})
<1> DEFINE T == {map[x] : x \in S}
           g == [x \in S |-> map[x]]
<1>1. g \in Surjection(S, T)
  BY DEF Surjection
<1> HIDE DEF g, T
<1>2. IsFiniteSet(T)
  BY <1>1, FS_Surjection
<1> QED
  BY <1>2 DEF T

(* The steps of a device can have stamps. *)
LEMMA SomeStamps ==
  ASSUME NEW L, IsFiniteSet(L), Timed(L), NEW n, NEW todo, GoodSteps(todo, n)
  PROVE  \E s : s \in Stamps(todo, L)
<1>1. Len(todo) \in Nat /\ DOMAIN todo = 1..Len(todo)
  BY DEF GoodSteps
<1>2. \E T \in Nat : \A e \in L : e.key.time <= T
  <2> DEFINE times == {e.key.time : e \in L}
  <2>1. IsFiniteSet(times)
    <3> DEFINE time == [e \in L |-> e.key.time]
    <3>1. times = {time[e] : e \in L}
      OBVIOUS
    <3> HIDE DEF time, times
    <3> QED
      BY <3>1, ImageIsFinite
  <2>2. times \in SUBSET Nat
    BY DEF Timed
  <2>3. CASE L = {}
    BY <2>3
  <2>4. CASE L # {}
    <3>1. times # {} /\ \A e \in L : e.key.time \in times
      BY <2>4
    <3> HIDE DEF times
    <3>2. PICK m \in times : \A x \in times : x <= m
      BY <2>1, <2>2, <3>1, FiniteGreatest
    <3> QED
      BY <2>2, <3>1, <3>2
  <2> QED
    BY <2>3, <2>4
<1>3. PICK T \in Nat : \A e \in L : e.key.time <= T
  BY <1>2
<1> DEFINE s == [i \in DOMAIN todo |-> T + i]
<1>4. s \in [DOMAIN todo -> Nat]
  BY <1>1
<1>5. ASSUME NEW i \in DOMAIN todo, NEW e \in L
      PROVE  e.key.time < s[i]
  BY <1>1, <1>3 DEF Timed
<1>6. \A i, j \in DOMAIN todo : i < j => s[i] < s[j]
  BY <1>1
<1> HIDE DEF s
<1> QED
  BY <1>4, <1>5, <1>6 DEF Stamps

(* There is one last save of a table. *)
LEMMA OneSheetAfter ==
  ASSUME NEW todo, NEW f, NEW k, NEW t, NEW x, NEW y, DOMAIN todo \subseteq Nat,
         SheetAfter(todo, f, k, t, x), SheetAfter(todo, f, k, t, y)
  PROVE  x = y
<1>1. \A i, j \in DOMAIN todo : i < j \/ i = j \/ j < i
  OBVIOUS
<1>2. ASSUME NEW i \in DOMAIN todo, i <= k, IsSave(todo[i], t), x = todo[i].sheet,
             \A l \in DOMAIN todo : i < l /\ l <= k => ~IsSave(todo[l], t),
             NEW j \in DOMAIN todo, j <= k, IsSave(todo[j], t), y = todo[j].sheet,
             \A l \in DOMAIN todo : j < l /\ l <= k => ~IsSave(todo[l], t)
      PROVE  x = y
  BY <1>1, <1>2
<1> QED
  BY <1>2, Zenon DEF SheetAfter

(* When the steps are done, the frames they lead to are told. *)
LEMMA ToldAfter ==
  ASSUME NEW n, NEW f, NEW L, NEW U, NEW d, NEW work, Told(f, L, U, n),
         GoodWork(work, f, L, U, d, n), NEW s \in Stamps(work.steps, L)
  PROVE  Told(work.frames, L \cup Written(work.steps, s, Len(work.steps), d),
              U \cup Written(work.steps, s, Len(work.steps), d), n)
<1> DEFINE todo == work.steps
           k == Len(todo)
           W == Written(todo, s, k, d)
           Entry(i) == EntryOf(todo[i], [time |-> s[i], device |-> d])
           P == {j \in DOMAIN todo : j <= k /\ IsRecord(todo[j])}
<1>1. k \in Nat /\ DOMAIN todo = 1..k
  BY DEF GoodWork, GoodSteps
<1>2. W = {Entry(i) : i \in P}
  BY DEF Written
<1>3. IsFiniteSet(W)
  <2>1. IsFiniteSet(1..k)
    BY <1>1, FS_Interval
  <2>2. P \subseteq 1..k
    BY <1>1
  <2>3. IsFiniteSet(P)
    BY <2>1, <2>2, FS_Subset
  <2> HIDE DEF P, W, Entry
  <2> DEFINE entry == [i \in P |-> Entry(i)]
  <2>4. W = {entry[i] : i \in P}
    BY <1>2
  <2> HIDE DEF entry
  <2> QED
    BY <2>3, <2>4, ImageIsFinite
<1>4. Timed(W)
  <2>1. ASSUME NEW i \in P
        PROVE  Entry(i).key.time \in Nat
    <3>1. IsEntry(Entry(i), todo[i], [time |-> s[i], device |-> d])
      BY EntryFields
    <3>2. Entry(i).key.time = s[i]
      BY <3>1 DEF IsEntry
    <3>3. s[i] \in Nat
      BY DEF Stamps
    <3> QED
      BY <3>2, <3>3
  <2> HIDE DEF P, W, Entry
  <2> QED
    BY <1>2, <2>1 DEF Timed
<1>5. ASSUME NEW t \in Table
      PROVE  Tells(L \cup W, U \cup W, t, work.frames[t])
  <2>1. ~OpenAfter(todo, k, t)
    BY <1>1 DEF OpenAfter
  <2>2. SheetAfter(todo, f, k, t, work.frames[t]) /\ k \in 0..Len(todo)
    BY <1>1 DEF GoodWork
  <2>3. Coherent(todo, f, L, U, d)
    BY DEF GoodWork
  <2> HIDE DEF k, W, todo
  <2>4. s \in Stamps(todo, L)
    BY DEF todo
  <2> QED
    BY <2>1, <2>2, <2>3, <2>4 DEF Coherent, W
<1>6. IsFiniteSet(L \cup W)
  <2>1. IsFiniteSet(L)
    BY DEF Told
  <2> HIDE DEF W
  <2> QED
    BY <1>3, <2>1, FS_Union
<1>7. Timed(L \cup W)
  <2>1. Timed(L)
    BY DEF Told
  <2> HIDE DEF W
  <2> QED
    BY <1>4, <2>1 DEF Timed
<1>8. GoodFrames(work.frames, n)
  BY DEF GoodWork
<1> HIDE DEF W
<1>9. Told(work.frames, L \cup W, U \cup W, n)
  BY <1>5, <1>6, <1>7, <1>8 DEF Told
<1> QED
  BY <1>9 DEF W, k, todo

(* The steps of two changes, one after another. *)
LEMMA JoinedSteps ==
  ASSUME NEW todo, NEW a, NEW b, Joined(todo, a, b)
  PROVE  /\ Len(a) \in Nat /\ Len(b) \in Nat /\ Len(todo) = Len(a) + Len(b)
         /\ \A i \in DOMAIN a : i \in DOMAIN todo /\ todo[i] = a[i] /\ i \in Nat /\ i <= Len(a)
         /\ \A i \in DOMAIN b : /\ Len(a) + i \in DOMAIN todo /\ todo[Len(a) + i] = b[i]
                                /\ i \in Nat /\ 0 < i /\ i <= Len(b)
         /\ \A i \in DOMAIN todo :
              /\ i \in Nat /\ 0 < i /\ i <= Len(todo)
              /\ i \in DOMAIN a \/ (i - Len(a) \in DOMAIN b /\ Len(a) < i)
         /\ \A i \in DOMAIN todo : i \in DOMAIN a <=> i <= Len(a)
BY DEF Joined

(* What the first steps record comes before what the others do. *)
StampedAfter(todo, s, a, first, b, rest, L, d) ==
  /\ first \in Stamps(a, L)
  /\ \A k \in Nat : k <= Len(a) => Written(todo, s, k, d) = Written(a, first, k, d)
  /\ rest \in Stamps(b, L \cup Written(a, first, Len(a), d))
  /\ \A k \in Nat : Written(todo, s, Len(a) + k, d)
       = Written(a, first, Len(a), d) \cup Written(b, rest, k, d)

(* The stamps of the first steps, and those of the others after them. *)
LEMMA StampsOfBoth ==
  ASSUME NEW todo, NEW a, NEW b, Joined(todo, a, b), NEW L, Timed(L), NEW d,
         NEW s \in Stamps(todo, L), NEW first, NEW rest,
         first = [i \in DOMAIN a |-> s[i]], rest = [i \in DOMAIN b |-> s[Len(a) + i]]
  PROVE  StampedAfter(todo, s, a, first, b, rest, L, d)
<1> DEFINE m == Len(a)
           Entry(i) == EntryOf(todo[i], [time |-> s[i], device |-> d])
           First(i) == EntryOf(a[i], [time |-> first[i], device |-> d])
           Rest(i) == EntryOf(b[i], [time |-> rest[i], device |-> d])
<1>1. /\ m \in Nat /\ Len(b) \in Nat
      /\ \A i \in DOMAIN a : i \in DOMAIN todo /\ todo[i] = a[i] /\ i \in Nat /\ i <= m
      /\ \A i \in DOMAIN b : m + i \in DOMAIN todo /\ todo[m + i] = b[i] /\ i \in Nat /\ 0 < i
      /\ \A i \in DOMAIN todo :
           i \in Nat /\ (i \in DOMAIN a \/ (i - m \in DOMAIN b /\ m < i))
      /\ \A i \in DOMAIN todo : i \in DOMAIN a <=> i <= m
  BY JoinedSteps
<1>2. /\ \A i \in DOMAIN todo : s[i] \in Nat /\ \A e \in L : e.key.time < s[i]
      /\ \A i, j \in DOMAIN todo : i < j /\ IsRecord(todo[i]) => s[i] < s[j]
  BY DEF Stamps
<1>3. /\ DOMAIN first = DOMAIN a /\ \A i \in DOMAIN a : first[i] = s[i]
      /\ DOMAIN rest = DOMAIN b /\ \A i \in DOMAIN b : rest[i] = s[m + i]
  OBVIOUS
<1> HIDE DEF m
<1>4. first \in Stamps(a, L)
  <2>1. first \in [DOMAIN a -> Nat]
    BY <1>1, <1>2
  <2> QED
    BY <1>1, <1>2, <1>3, <2>1 DEF Stamps
<1>5. \A k : \A e : e \in Written(todo, s, k, d) <=>
               \E i \in DOMAIN todo : i <= k /\ IsRecord(todo[i]) /\ e = Entry(i)
  BY DEF Written
<1>6. \A k : \A e : e \in Written(a, first, k, d) <=>
               \E i \in DOMAIN a : i <= k /\ IsRecord(a[i]) /\ e = First(i)
  BY DEF Written
<1>7. \A k : \A e : e \in Written(b, rest, k, d) <=>
               \E i \in DOMAIN b : i <= k /\ IsRecord(b[i]) /\ e = Rest(i)
  BY DEF Written
<1>8. \A k : \A e : e \in Written(a, first, k, d) <=>
               \E i \in DOMAIN a : i <= k /\ IsRecord(todo[i]) /\ e = Entry(i)
  <2>1. \A i \in DOMAIN a : a[i] = todo[i] /\ first[i] = s[i]
    BY <1>1, <1>3
  <2>2. \A i \in DOMAIN a : First(i) = Entry(i)
    BY <2>1
  <2> HIDE DEF Entry, First
  <2>3. ASSUME NEW k, NEW e, e \in Written(a, first, k, d)
        PROVE  \E i \in DOMAIN a : i <= k /\ IsRecord(todo[i]) /\ e = Entry(i)
    BY <1>6, <2>1, <2>2, <2>3
  <2>4. ASSUME NEW k, NEW i \in DOMAIN a, i <= k, IsRecord(todo[i])
        PROVE  Entry(i) \in Written(a, first, k, d)
    <3>1. IsRecord(a[i]) /\ Entry(i) = First(i)
      BY <2>1, <2>2, <2>4
    <3> QED
      BY <1>6, <2>4, <3>1
  <2> QED
    BY <2>3, <2>4
<1>9. \A k : \A e : e \in Written(b, rest, k, d) <=>
               \E i \in DOMAIN b : i <= k /\ IsRecord(todo[m + i]) /\ e = Entry(m + i)
  <2>1. \A i \in DOMAIN b : b[i] = todo[m + i] /\ rest[i] = s[m + i]
    BY <1>1, <1>3
  <2> HIDE DEF Entry
  <2>2. \A i \in DOMAIN b : Rest(i) = Entry(m + i)
    BY <2>1 DEF Entry
  <2> HIDE DEF Rest
  <2>3. ASSUME NEW k, NEW e, e \in Written(b, rest, k, d)
        PROVE  \E i \in DOMAIN b : i <= k /\ IsRecord(todo[m + i]) /\ e = Entry(m + i)
    BY <1>7, <2>1, <2>2, <2>3
  <2>4. ASSUME NEW k, NEW i \in DOMAIN b, i <= k, IsRecord(todo[m + i])
        PROVE  Entry(m + i) \in Written(b, rest, k, d)
    <3>1. IsRecord(b[i]) /\ Entry(m + i) = Rest(i)
      BY <2>1, <2>2, <2>4
    <3> QED
      BY <1>7, <2>4, <3>1
  <2> QED
    BY <2>3, <2>4
<1> HIDE DEF Entry
<1>10. ASSUME NEW k \in Nat, k <= m
       PROVE  Written(todo, s, k, d) = Written(a, first, k, d)
  <2>1. \A i \in DOMAIN todo : i <= k => i \in DOMAIN a
    BY <1>1, <1>10
  <2>2. ASSUME NEW e \in Written(todo, s, k, d)
        PROVE  e \in Written(a, first, k, d)
    BY <1>5, <1>8, <2>1, <2>2
  <2>3. ASSUME NEW e \in Written(a, first, k, d)
        PROVE  e \in Written(todo, s, k, d)
    BY <1>1, <1>5, <1>8, <2>3
  <2> QED
    BY <2>2, <2>3
<1>11. ASSUME NEW k \in Nat
       PROVE  Written(todo, s, m + k, d) = Written(a, first, m, d) \cup Written(b, rest, k, d)
  <2>1. ASSUME NEW e \in Written(todo, s, m + k, d)
        PROVE  e \in Written(a, first, m, d) \/ e \in Written(b, rest, k, d)
    <3>1. PICK i \in DOMAIN todo : i <= m + k /\ IsRecord(todo[i]) /\ e = Entry(i)
      BY <1>5, <2>1
    <3>2. CASE i \in DOMAIN a
      BY <1>1, <1>8, <3>1, <3>2
    <3>3. CASE i - m \in DOMAIN b /\ m < i
      <4>1. m + (i - m) = i /\ i - m <= k
        BY <1>1, <3>1
      <4> QED
        BY <1>9, <3>1, <3>3, <4>1
    <3> QED
      BY <1>1, <3>2, <3>3
  <2>2. ASSUME NEW e \in Written(a, first, m, d)
        PROVE  e \in Written(todo, s, m + k, d)
    <3>1. PICK i \in DOMAIN a : i <= m /\ IsRecord(todo[i]) /\ e = Entry(i)
      BY <1>8, <2>2
    <3>2. i \in DOMAIN todo /\ i <= m + k
      BY <1>1, <3>1
    <3> QED
      BY <1>5, <3>1, <3>2
  <2>3. ASSUME NEW e \in Written(b, rest, k, d)
        PROVE  e \in Written(todo, s, m + k, d)
    <3>1. PICK i \in DOMAIN b : i <= k /\ IsRecord(todo[m + i]) /\ e = Entry(m + i)
      BY <1>9, <2>3
    <3>2. m + i \in DOMAIN todo /\ m + i <= m + k
      BY <1>1, <3>1
    <3> QED
      BY <1>5, <3>1, <3>2
  <2> QED
    BY <2>1, <2>2, <2>3
<1>12. rest \in Stamps(b, L \cup Written(a, first, m, d))
  <2>1. rest \in [DOMAIN b -> Nat]
    <3>1. \A i \in DOMAIN b : rest[i] \in Nat
      BY <1>1, <1>2, <1>3
    <3>2. rest = [i \in DOMAIN b |-> rest[i]]
      OBVIOUS
    <3> QED
      BY <3>1, <3>2
  <2>2. ASSUME NEW i \in DOMAIN b, NEW e \in L
        PROVE  e.key.time < rest[i]
    BY <1>1, <1>2, <1>3
  <2>3. ASSUME NEW i \in DOMAIN b, NEW e \in Written(a, first, m, d)
        PROVE  e.key.time < rest[i]
    <3>1. PICK j \in DOMAIN a : IsRecord(todo[j]) /\ e = Entry(j)
      BY <1>8, <2>3
    <3>2. e.key.time = s[j]
      <4>1. IsEntry(Entry(j), todo[j], [time |-> s[j], device |-> d])
        BY EntryFields DEF Entry
      <4> QED
        BY <3>1, <4>1 DEF IsEntry
    <3>3. j \in DOMAIN todo /\ m + i \in DOMAIN todo /\ j < m + i
      BY <1>1
    <3>4. s[j] < s[m + i]
      BY <1>2, <3>1, <3>3
    <3> QED
      BY <1>3, <3>2, <3>4
  <2>4. ASSUME NEW i \in DOMAIN b, NEW j \in DOMAIN b, i < j, IsRecord(b[i])
        PROVE  rest[i] < rest[j]
    <3>1. m + i < m + j /\ m + i \in DOMAIN todo /\ m + j \in DOMAIN todo /\ IsRecord(todo[m + i])
      BY <1>1, <2>4
    <3>2. s[m + i] < s[m + j]
      BY <1>2, <3>1
    <3> QED
      BY <1>3, <3>2
  <2> QED
    BY <1>3, <2>1, <2>2, <2>3, <2>4 DEF Stamps
<1> QED
  BY <1>4, <1>10, <1>11, <1>12 DEF m, StampedAfter

(* The tables after the steps of both. *)
LEMMA SheetsOfBoth ==
  ASSUME NEW todo, NEW a, NEW b, Joined(todo, a, b), NEW f, NEW g, NEW t,
         SheetAfter(a, f, Len(a), t, g)
  PROVE  /\ \A k \in Nat : \A sheet :
              k <= Len(a) /\ SheetAfter(todo, f, k, t, sheet) => SheetAfter(a, f, k, t, sheet)
         /\ \A k \in Nat : \A sheet, h :
              h[t] = g /\ SheetAfter(todo, f, Len(a) + k, t, sheet)
                => SheetAfter(b, h, k, t, sheet)
         /\ \A k \in Nat : \A sheet, h :
              h[t] = g /\ SheetAfter(b, h, k, t, sheet)
                => SheetAfter(todo, f, Len(a) + k, t, sheet)
<1> DEFINE m == Len(a)
<1>1. /\ m \in Nat /\ Len(b) \in Nat /\ Len(todo) = m + Len(b)
      /\ \A i \in DOMAIN a : i \in DOMAIN todo /\ todo[i] = a[i] /\ i \in Nat /\ i <= m
      /\ \A i \in DOMAIN b : /\ m + i \in DOMAIN todo /\ todo[m + i] = b[i] /\ i \in Nat
                             /\ 0 < i /\ i <= Len(b)
      /\ \A i \in DOMAIN todo :
           i \in Nat /\ i <= Len(todo) /\ (i \in DOMAIN a \/ (i - m \in DOMAIN b /\ m < i))
      /\ \A i \in DOMAIN todo : i \in DOMAIN a <=> i <= m
  BY JoinedSteps
<1>2. SheetAfter(a, f, m, t, g)
  OBVIOUS
<1> HIDE DEF m
<1>3. ASSUME NEW k \in Nat, NEW sheet, k <= m, SheetAfter(todo, f, k, t, sheet)
      PROVE  SheetAfter(a, f, k, t, sheet)
  <2>1. \A i \in DOMAIN todo : i <= k => i \in DOMAIN a /\ todo[i] = a[i]
    BY <1>1, <1>3
  <2>2. CASE sheet = f[t] /\ \A i \in DOMAIN todo : i <= k => ~IsSave(todo[i], t)
    BY <1>1, <2>2 DEF SheetAfter
  <2>3. ASSUME NEW j \in DOMAIN todo, j <= k, IsSave(todo[j], t), sheet = todo[j].sheet,
               \A i \in DOMAIN todo : j < i /\ i <= k => ~IsSave(todo[i], t)
        PROVE  SheetAfter(a, f, k, t, sheet)
    <3>1. j \in DOMAIN a /\ IsSave(a[j], t) /\ sheet = a[j].sheet
      BY <2>1, <2>3
    <3>2. \A i \in DOMAIN a : j < i /\ i <= k => ~IsSave(a[i], t)
      BY <1>1, <2>3
    <3> QED
      BY <2>3, <3>1, <3>2 DEF SheetAfter
  <2> QED
    BY <1>3, <2>2, <2>3 DEF SheetAfter
<1>4. ASSUME NEW k \in Nat, NEW sheet, NEW h, h[t] = g, SheetAfter(todo, f, m + k, t, sheet)
      PROVE  SheetAfter(b, h, k, t, sheet)
  <2>1. \A i \in DOMAIN b : i <= k => m + i <= m + k
    BY <1>1
  <2>2. ASSUME NEW j \in DOMAIN b, j <= k, IsSave(b[j], t), sheet = b[j].sheet,
               \A i \in DOMAIN b : j < i /\ i <= k => ~IsSave(b[i], t)
        PROVE  SheetAfter(b, h, k, t, sheet)
    BY <2>2 DEF SheetAfter
  <2>3. CASE sheet = f[t] /\ \A i \in DOMAIN todo : i <= m + k => ~IsSave(todo[i], t)
    <3>1. \A i \in DOMAIN a : ~IsSave(a[i], t)
      <4>1. \A i \in DOMAIN a : i <= m + k
        BY <1>1
      <4> QED
        BY <1>1, <2>3, <4>1
    <3>2. g = f[t]
      BY <1>2, <3>1 DEF SheetAfter
    <3>3. \A i \in DOMAIN b : i <= k => ~IsSave(b[i], t)
      BY <1>1, <2>1, <2>3
    <3> QED
      BY <1>4, <2>3, <3>2, <3>3 DEF SheetAfter
  <2>4. ASSUME NEW j \in DOMAIN todo, j <= m + k, IsSave(todo[j], t), sheet = todo[j].sheet,
               \A i \in DOMAIN todo : j < i /\ i <= m + k => ~IsSave(todo[i], t)
        PROVE  SheetAfter(b, h, k, t, sheet)
    <3>1. CASE j \in DOMAIN a
      <4>1. \A i \in DOMAIN a : j < i /\ i <= m => ~IsSave(a[i], t)
        <5>1. \A i \in DOMAIN a : i <= m + k
          BY <1>1
        <5> QED
          BY <1>1, <2>4, <5>1
      <4>2. SheetAfter(a, f, m, t, sheet)
        <5>1. j <= m /\ IsSave(a[j], t) /\ sheet = a[j].sheet
          BY <1>1, <2>4, <3>1
        <5> QED
          BY <3>1, <4>1, <5>1 DEF SheetAfter
      <4>3. sheet = g
        <5>1. DOMAIN a \subseteq Nat
          BY <1>1
        <5> QED
          BY <1>2, <4>2, <5>1, OneSheetAfter
      <4>4. \A i \in DOMAIN b : i <= k => ~IsSave(b[i], t)
        <5>1. \A i \in DOMAIN b : j < m + i
          BY <1>1, <3>1
        <5> QED
          BY <1>1, <2>1, <2>4, <5>1
      <4> QED
        BY <1>4, <4>3, <4>4 DEF SheetAfter
    <3>2. CASE j - m \in DOMAIN b /\ m < j
      <4>1. m + (j - m) = j /\ j - m <= k
        BY <1>1, <2>4
      <4>2. IsSave(b[j - m], t) /\ sheet = b[j - m].sheet
        BY <1>1, <2>4, <3>2, <4>1
      <4>3. \A i \in DOMAIN b : j - m < i /\ i <= k => ~IsSave(b[i], t)
        <5>1. \A i \in DOMAIN b : j - m < i => j < m + i
          BY <1>1
        <5> QED
          BY <1>1, <2>1, <2>4, <5>1
      <4> QED
        BY <2>2, <3>2, <4>1, <4>2, <4>3
    <3> QED
      BY <1>1, <3>1, <3>2
  <2> QED
    BY <1>4, <2>3, <2>4 DEF SheetAfter
<1>5. ASSUME NEW k \in Nat, NEW sheet, NEW h, h[t] = g, SheetAfter(b, h, k, t, sheet)
      PROVE  SheetAfter(todo, f, m + k, t, sheet)
  <2>1. CASE sheet = g /\ \A i \in DOMAIN b : i <= k => ~IsSave(b[i], t)
    <3>1. ASSUME NEW i \in DOMAIN todo, i \notin DOMAIN a, i <= m + k
          PROVE  ~IsSave(todo[i], t)
      <4>1. i - m \in DOMAIN b /\ m + (i - m) = i /\ i - m <= k
        BY <1>1, <3>1
      <4> QED
        BY <1>1, <2>1, <4>1
    <3>2. CASE g = f[t] /\ \A i \in DOMAIN a : i <= m => ~IsSave(a[i], t)
      <4>1. \A i \in DOMAIN todo : i <= m + k => ~IsSave(todo[i], t)
        BY <1>1, <3>1, <3>2
      <4> QED
        BY <2>1, <3>2, <4>1 DEF SheetAfter
    <3>3. ASSUME NEW j \in DOMAIN a, j <= m, IsSave(a[j], t), g = a[j].sheet,
                 \A i \in DOMAIN a : j < i /\ i <= m => ~IsSave(a[i], t)
          PROVE  SheetAfter(todo, f, m + k, t, sheet)
      <4>1. \A i \in DOMAIN todo : j < i /\ i <= m + k => ~IsSave(todo[i], t)
        BY <1>1, <3>1, <3>3
      <4>2. /\ j \in DOMAIN todo /\ j <= m + k /\ IsSave(todo[j], t)
            /\ sheet = todo[j].sheet
        BY <1>1, <2>1, <3>3
      <4> QED
        BY <4>1, <4>2 DEF SheetAfter
    <3> QED
      BY <1>2, <3>2, <3>3 DEF SheetAfter
  <2>2. ASSUME NEW j \in DOMAIN b, j <= k, IsSave(b[j], t), sheet = b[j].sheet,
               \A i \in DOMAIN b : j < i /\ i <= k => ~IsSave(b[i], t)
        PROVE  SheetAfter(todo, f, m + k, t, sheet)
    <3>1. ASSUME NEW i \in DOMAIN todo, m + j < i, i <= m + k
          PROVE  ~IsSave(todo[i], t)
      <4>1. i \notin DOMAIN a
        BY <1>1, <3>1
      <4>2. i - m \in DOMAIN b /\ m + (i - m) = i /\ j < i - m /\ i - m <= k
        BY <1>1, <3>1, <4>1
      <4> QED
        BY <1>1, <2>2, <4>2
    <3>2. /\ m + j \in DOMAIN todo /\ m + j <= m + k /\ IsSave(todo[m + j], t)
          /\ sheet = todo[m + j].sheet
      BY <1>1, <2>2
    <3> QED
      BY <3>1, <3>2 DEF SheetAfter
  <2> QED
    BY <1>5, <2>1, <2>2 DEF SheetAfter
<1> QED
  BY <1>3, <1>4, <1>5 DEF m

(* What is left open after some steps of both is left open by one. *)
LEMMA OpenAfterBoth ==
  ASSUME NEW todo, NEW a, NEW b, Joined(todo, a, b), NEW t
  PROVE  /\ \A k \in Nat : OpenAfter(a, k, t) => OpenAfter(todo, k, t)
         /\ \A k \in Nat : OpenAfter(b, k, t) <=> OpenAfter(todo, Len(a) + k, t)
<1> DEFINE m == Len(a)
<1>1. /\ m \in Nat /\ Len(b) \in Nat
      /\ \A i \in DOMAIN a : i \in DOMAIN todo /\ todo[i] = a[i] /\ i \in Nat /\ i <= m
      /\ \A i \in DOMAIN b : m + i \in DOMAIN todo /\ todo[m + i] = b[i] /\ i \in Nat
      /\ \A i \in DOMAIN todo :
           i \in Nat /\ (i \in DOMAIN a \/ (i - m \in DOMAIN b /\ m < i))
      /\ \A i \in DOMAIN todo : i \in DOMAIN a <=> i <= m
  BY JoinedSteps
<1> HIDE DEF m
<1>2. ASSUME NEW k \in Nat, OpenAfter(a, k, t)
      PROVE  OpenAfter(todo, k, t)
  <2>1. PICK j \in DOMAIN a : /\ k < j /\ IsRecord(a[j]) /\ a[j].table = t
                              /\ \A i \in DOMAIN a : k < i /\ i < j => ~IsSave(a[i], t)
    BY <1>2 DEF OpenAfter
  <2>2. \A i \in DOMAIN todo : i < j => i \in DOMAIN a
    BY <1>1
  <2> QED
    BY <1>1, <2>1, <2>2 DEF OpenAfter
<1>3. ASSUME NEW k \in Nat, OpenAfter(b, k, t)
      PROVE  OpenAfter(todo, m + k, t)
  <2>1. PICK j \in DOMAIN b : /\ k < j /\ IsRecord(b[j]) /\ b[j].table = t
                              /\ \A i \in DOMAIN b : k < i /\ i < j => ~IsSave(b[i], t)
    BY <1>3 DEF OpenAfter
  <2>2. ASSUME NEW i \in DOMAIN todo, m + k < i, i < m + j
        PROVE  ~IsSave(todo[i], t)
    <3>1. i - m \in DOMAIN b /\ m + (i - m) = i /\ k < i - m /\ i - m < j
      BY <1>1, <2>2
    <3> QED
      BY <1>1, <2>1, <3>1
  <2>3. m + j \in DOMAIN todo /\ m + k < m + j /\ IsRecord(todo[m + j]) /\ todo[m + j].table = t
    BY <1>1, <2>1
  <2> QED
    BY <2>2, <2>3 DEF OpenAfter
<1>4. ASSUME NEW k \in Nat, OpenAfter(todo, m + k, t)
      PROVE  OpenAfter(b, k, t)
  <2>1. PICK j \in DOMAIN todo :
          /\ m + k < j /\ IsRecord(todo[j]) /\ todo[j].table = t
          /\ \A i \in DOMAIN todo : m + k < i /\ i < j => ~IsSave(todo[i], t)
    BY <1>4 DEF OpenAfter
  <2>2. j - m \in DOMAIN b /\ m + (j - m) = j /\ k < j - m
    <3>1. j \notin DOMAIN a
      BY <1>1, <2>1
    <3> QED
      BY <1>1, <2>1, <3>1
  <2>3. \A i \in DOMAIN b : k < i /\ i < j - m => m + k < m + i /\ m + i < j
    BY <1>1, <2>2
  <2>4. \A i \in DOMAIN b : k < i /\ i < j - m => ~IsSave(b[i], t)
    BY <1>1, <2>1, <2>3
  <2>5. IsRecord(b[j - m]) /\ b[j - m].table = t
    BY <1>1, <2>1, <2>2
  <2> QED
    BY <2>2, <2>4, <2>5 DEF OpenAfter
<1> QED
  BY <1>2, <1>3, <1>4 DEF m

(* Work on the frames that other work leads to. *)
LEMMA MoreIsGood ==
  ASSUME NEW n, NEW f, NEW L, NEW U, NEW d, NEW work, NEW more, NEW both, Told(f, L, U, n),
         GoodWork(work, f, L, U, d, n),
         \A K, W : Told(work.frames, K, W, n) => GoodWork(more, work.frames, K, W, d, n),
         both.frames = more.frames, both.steps = work.steps \o more.steps
  PROVE  GoodWork(both, f, L, U, d, n)
<1> DEFINE a == work.steps
           b == more.steps
           todo == both.steps
           g == work.frames
           m == Len(a)
<1>1. GoodSteps(a, n)
  BY DEF GoodWork
<1>2. Timed(L) /\ IsFiniteSet(L)
  BY DEF Told
<1>3. \A s \in Stamps(a, L) :
        GoodWork(more, g, L \cup Written(a, s, m, d), U \cup Written(a, s, m, d), d, n)
  BY ToldAfter
<1>4. GoodSteps(b, n) /\ GoodFrames(more.frames, n)
      /\ \A t \in Table : SheetAfter(b, g, Len(b), t, more.frames[t])
  <2>1. PICK s : s \in Stamps(a, L)
    <3> HIDE DEF a
    <3> QED
      BY <1>1, <1>2, SomeStamps
  <2> QED
    BY <1>3, <2>1 DEF GoodWork
<1>5. \A t \in Table : SheetAfter(a, f, m, t, g[t])
  BY DEF GoodWork
<1>6. Coherent(a, f, L, U, d)
  BY DEF GoodWork
<1>7. \A s \in Stamps(a, L) :
        Coherent(b, g, L \cup Written(a, s, m, d), U \cup Written(a, s, m, d), d)
  BY <1>3 DEF GoodWork
<1>8. todo = a \o b
  OBVIOUS
<1> HIDE DEF a, b, todo, g, m
<1>9. Joined(todo, a, b)
  BY <1>1, <1>4, <1>8, JoiningThem DEF GoodSteps
<1>10. GoodSteps(todo, n)
  <2>1. \A i \in DOMAIN todo : (i \in DOMAIN a /\ todo[i] = a[i])
                               \/ \E j \in DOMAIN b : todo[i] = b[j]
    <3>1. ASSUME NEW i \in DOMAIN todo, i \notin DOMAIN a
          PROVE  \E j \in DOMAIN b : todo[i] = b[j]
      <4>1. i - m \in DOMAIN b /\ m + (i - m) = i
        BY <1>9, <3>1, JoinedSteps DEF m
      <4>2. todo[m + (i - m)] = b[i - m]
        BY <1>9, <4>1, JoinedSteps DEF m
      <4> QED
        BY <4>1, <4>2
    <3>2. \A i \in DOMAIN a : todo[i] = a[i]
      BY <1>9, JoinedSteps
    <3> QED
      BY <3>1, <3>2
  <2>2. todo \in Seq(Range(todo))
    BY <1>9 DEF Joined
  <2> QED
    BY <1>1, <1>4, <2>1, <2>2 DEF GoodSteps
<1>11. ASSUME NEW s \in Stamps(todo, L), NEW k \in 0..Len(todo), NEW t \in Table,
              ~OpenAfter(todo, k, t), NEW sheet, SheetAfter(todo, f, k, t, sheet)
       PROVE  Tells(L \cup Written(todo, s, k, d), U \cup Written(todo, s, k, d), t, sheet)
  <2> DEFINE first == [i \in DOMAIN a |-> s[i]]
             rest == [i \in DOMAIN b |-> s[m + i]]
             A == Written(a, first, m, d)
  <2>1. /\ first \in Stamps(a, L)
        /\ \A l \in Nat : l <= m => Written(todo, s, l, d) = Written(a, first, l, d)
        /\ rest \in Stamps(b, L \cup A)
        /\ \A l \in Nat : Written(todo, s, m + l, d) = A \cup Written(b, rest, l, d)
    <3>1. first = [i \in DOMAIN a |-> s[i]] /\ rest = [i \in DOMAIN b |-> s[Len(a) + i]]
      BY DEF m
    <3> HIDE DEF first, rest
    <3>2. StampedAfter(todo, s, a, first, b, rest, L, d)
      BY <1>2, <1>9, <3>1, StampsOfBoth
    <3> QED
      BY <3>2 DEF m, StampedAfter
  <2> HIDE DEF first, rest
  <2>2. m \in Nat /\ Len(b) \in Nat /\ Len(todo) = m + Len(b) /\ k \in Nat
    BY <1>9, JoinedSteps DEF m
  <2>3. SheetAfter(a, f, Len(a), t, g[t])
    BY <1>5 DEF m
  <2>4. CASE k <= m
    <3>1. SheetAfter(a, f, k, t, sheet)
      BY <1>9, <1>11, <2>2, <2>3, <2>4, SheetsOfBoth DEF m
    <3>2. ~OpenAfter(a, k, t)
      BY <1>9, <1>11, <2>2, OpenAfterBoth
    <3>3. k \in 0..Len(a) /\ Written(todo, s, k, d) = Written(a, first, k, d)
      BY <2>1, <2>2, <2>4 DEF m
    <3>4. Tells(L \cup Written(a, first, k, d), U \cup Written(a, first, k, d), t, sheet)
      BY <1>6, <2>1, <3>1, <3>2, <3>3 DEF Coherent
    <3> QED
      BY <3>3, <3>4
  <2>5. CASE m < k
    <3>1. PICK l \in Nat : k = m + l /\ l \in 0..Len(b)
      BY <2>2, <2>5
    <3>2. SheetAfter(b, g, l, t, sheet)
      BY <1>9, <1>11, <2>3, <3>1, SheetsOfBoth DEF m
    <3>3. ~OpenAfter(b, l, t)
      BY <1>9, <1>11, <3>1, OpenAfterBoth DEF m
    <3>4. Coherent(b, g, L \cup A, U \cup A, d)
      BY <1>7, <2>1
    <3> DEFINE B == Written(b, rest, l, d)
    <3> HIDE DEF A
    <3>5. Tells((L \cup A) \cup B, (U \cup A) \cup B, t, sheet)
      BY <2>1, <3>1, <3>2, <3>3, <3>4 DEF Coherent
    <3>6. Written(todo, s, k, d) = A \cup B
      BY <2>1, <3>1
    <3> HIDE DEF B
    <3>7. (L \cup A) \cup B = L \cup (A \cup B) /\ (U \cup A) \cup B = U \cup (A \cup B)
      OBVIOUS
    <3> QED
      BY <3>5, <3>6, <3>7
  <2> QED
    BY <2>2, <2>4, <2>5
<1>12. Coherent(todo, f, L, U, d)
  BY <1>11 DEF Coherent
<1>13. \A t \in Table : SheetAfter(todo, f, Len(todo), t, both.frames[t])
  <2>1. ASSUME NEW t \in Table
        PROVE  SheetAfter(todo, f, Len(todo), t, both.frames[t])
    <3>1. SheetAfter(a, f, Len(a), t, g[t]) /\ SheetAfter(b, g, Len(b), t, both.frames[t])
      BY <1>4, <1>5 DEF m
    <3>2. Len(b) \in Nat /\ Len(todo) = Len(a) + Len(b)
      BY <1>9, JoinedSteps
    <3> QED
      BY <1>9, <3>1, <3>2, SheetsOfBoth
  <2> QED
    BY <2>1
<1>14. GoodFrames(both.frames, n)
  BY <1>4
<1> QED
  BY <1>10, <1>12, <1>13, <1>14 DEF GoodWork, todo

-----------------------------------------------------------------------------
(* The requests                                                            *)

(* With no steps, the files tell what the log does. *)
LEMMA NoStepsAreCoherent ==
  ASSUME NEW f, NEW L, NEW U, NEW d, \A t \in Table : Tells(L, U, t, f[t])
  PROVE  /\ Coherent(<<>>, f, L, U, d)
         /\ \A t \in Table : SheetAfter(<<>>, f, 0, t, f[t])
<1> DEFINE todo == <<>>
<1>1. DOMAIN todo = {} /\ Len(todo) = 0 /\ 0..0 = {0}
  OBVIOUS
<1>2. \A t : SheetAfter(todo, f, 0, t, f[t])
  BY <1>1 DEF SheetAfter
<1> HIDE DEF todo
<1>3. ASSUME NEW s \in Stamps(todo, L), NEW k \in 0..Len(todo), NEW t \in Table,
             ~OpenAfter(todo, k, t), NEW sheet, SheetAfter(todo, f, k, t, sheet)
      PROVE  Tells(L \cup Written(todo, s, k, d), U \cup Written(todo, s, k, d), t, sheet)
  <2>1. sheet = f[t]
    BY <1>1, <1>3 DEF SheetAfter
  <2>2. Written(todo, s, k, d) = {}
    BY <1>1 DEF Written
  <2> QED
    BY <2>1, <2>2
<1> QED
  BY <1>2, <1>3 DEF Coherent, todo

(* A request that does nothing. *)
LEMMA NothingIsGood ==
  ASSUME NEW n, NEW f, NEW L, NEW U, NEW d, Told(f, L, U, n)
  PROVE  GoodWork(Nothing(f), f, L, U, d, n)
<1>1. GoodFrames(f, n) /\ \A t \in Table : Tells(L, U, t, f[t])
  BY DEF Told
<1>2. Nothing(f).frames = f /\ Nothing(f).steps = <<>> /\ Len(<<>>) = 0
  BY DEF Nothing
<1>3. Coherent(<<>>, f, L, U, d) /\ \A t \in Table : SheetAfter(<<>>, f, 0, t, f[t])
  BY <1>1, NoStepsAreCoherent
<1>4. GoodSteps(<<>>, n)
  <2>1. <<>> \in Seq(Range(<<>>))
    OBVIOUS
  <2>2. DOMAIN <<>> = {}
    OBVIOUS
  <2> QED
    BY <2>1, <2>2 DEF GoodSteps
<1> QED
  BY <1>1, <1>2, <1>3, <1>4 DEF GoodWork

(* A part of an update, given or not. *)
LEMMA GivenIsGood ==
  ASSUME NEW n, NEW f, NEW L, NEW U, NEW d, NEW work, NEW more, NEW wanted, NEW part,
         Told(f, L, U, n), GoodWork(work, f, L, U, d, n),
         \A K, W : Told(work.frames, K, W, n) => GoodWork(more, work.frames, K, W, d, n)
  PROVE  GoodWork(Given(work, wanted, part, more), f, L, U, d, n)
<1>1. CASE part \in wanted
  <2> DEFINE both == Given(work, wanted, part, more)
  <2>1. both.frames = more.frames /\ both.steps = work.steps \o more.steps
    BY <1>1 DEF Given
  <2> HIDE DEF both
  <2> QED
    BY <2>1, MoreIsGood DEF both
<1>2. CASE part \notin wanted
  BY <1>2 DEF Given
<1> QED
  BY <1>1, <1>2

(* The tables of a page. *)
LEMMA PagesHaveTables ==
  /\ SomeTables(Investments) /\ SomeTables(Holdings) /\ SomeTables(Prices)
  /\ SomeTables(Liquidity) /\ SomeTables(Credits)
  /\ {"name", "meta", "month", "currency"} = Column
<1>1. /\ "holdings" \in Table /\ "prices" \in Table /\ "liquidity" \in Table
      /\ "credits" \in Table /\ "holdings" # "prices"
      /\ "liquidity" # "prices" /\ "credits" # "prices"
  BY DEF Table
<1>2. /\ Investments = <<"holdings", "prices">> /\ Liquidity = <<"liquidity">>
      /\ Credits = <<"credits">> /\ Holdings = <<"holdings">> /\ Prices = <<"prices">>
  BY DEF Investments, Liquidity, Credits, Holdings, Prices, Files
<1> QED
  BY <1>1, <1>2, Zenon DEF SomeTables, Column

(* A rename, or nothing when the name stays. *)
LEMMA RenamingIsGood ==
  ASSUME NEW n \in Nat, NEW f, NEW L, NEW U, NEW d, Told(f, L, U, n), NEW old, NEW new
  PROVE  /\ GoodWork(RenameAsset(f, old, new), f, L, U, d, n)
         /\ GoodWork(RenameLiquidity(f, old, new), f, L, U, d, n)
         /\ GoodWork(RenameCredit(f, old, new), f, L, U, d, n)
<1>1. "name" \in Column
  BY DEF Column
<1>2. GoodWork(Nothing(f), f, L, U, d, n)
  BY NothingIsGood
<1>3. GoodWork(SetNamed(f, Investments, old, "name", new), f, L, U, d, n)
  BY <1>1, PagesHaveTables, SettingIsGood
<1>4. GoodWork(SetNamed(f, Liquidity, old, "name", new), f, L, U, d, n)
  BY <1>1, PagesHaveTables, SettingIsGood
<1>5. GoodWork(SetNamed(f, Credits, old, "name", new), f, L, U, d, n)
  BY <1>1, PagesHaveTables, SettingIsGood
<1> QED
  BY <1>2, <1>3, <1>4, <1>5 DEF RenameAsset, RenameLiquidity, RenameCredit

(* A part of an update of one name. *)
LEMMA PartsAreGood ==
  ASSUME NEW n \in Nat, NEW f, NEW L, NEW U, NEW d, Told(f, L, U, n), NEW name
  PROVE  /\ GoodWork(SetAssetCategory(f, name), f, L, U, d, n)
         /\ GoodWork(SetAssetLink(f, name), f, L, U, d, n)
         /\ GoodWork(SetAssetCurrency(f, name), f, L, U, d, n)
         /\ GoodWork(SetLiquidityCategory(f, name), f, L, U, d, n)
         /\ GoodWork(SetLiquidityCurrency(f, name), f, L, U, d, n)
         /\ GoodWork(SetCreditCurrency(f, name), f, L, U, d, n)
<1>1. "meta" \in Column /\ "currency" \in Column
  BY DEF Column
<1>2. GoodWork(SetNamed(f, Investments, name, "meta", New), f, L, U, d, n)
  BY <1>1, PagesHaveTables, SettingIsGood
<1>3. GoodWork(SetNamed(f, Holdings, name, "currency", New), f, L, U, d, n)
  BY <1>1, PagesHaveTables, SettingIsGood
<1>4. GoodWork(SetNamed(f, Liquidity, name, "meta", New), f, L, U, d, n)
  BY <1>1, PagesHaveTables, SettingIsGood
<1>5. GoodWork(SetNamed(f, Liquidity, name, "currency", New), f, L, U, d, n)
  BY <1>1, PagesHaveTables, SettingIsGood
<1>6. GoodWork(SetNamed(f, Credits, name, "currency", New), f, L, U, d, n)
  BY <1>1, PagesHaveTables, SettingIsGood
<1> QED
  BY <1>2, <1>3, <1>4, <1>5, <1>6
  DEF SetAssetCategory, SetAssetLink, SetAssetCurrency, SetLiquidityCategory,
      SetLiquidityCurrency, SetCreditCurrency

(* What a request sets out to do is good whatever log tells the files. *)
Sound(d, work) ==
  \A L, U : Told(disk[d], L, U, requests) /\ L \subseteq U /\ (\A e \in U : e.id \in 1..requests)
              => GoodWork(work, disk[d], L, U, d, requests + 1)

(* It gives no id, or the next one. *)
LEMMA SoundWithoutIds ==
  ASSUME requests \in Nat, NEW d, NEW work,
         \A L, U : Told(disk[d], L, U, requests) => GoodWork(work, disk[d], L, U, d, requests)
  PROVE  Sound(d, work)
<1>1. ASSUME NEW L, NEW U, GoodWork(work, disk[d], L, U, d, requests)
      PROVE  GoodWork(work, disk[d], L, U, d, requests + 1)
  <2>1. requests + 1 \in Nat /\ requests <= requests + 1
    OBVIOUS
  <2>2. /\ GoodSteps(work.steps, requests) => GoodSteps(work.steps, requests + 1)
        /\ GoodFrames(work.frames, requests) => GoodFrames(work.frames, requests + 1)
    BY <2>1, GoodForMore
  <2> QED
    BY <1>1, <2>2 DEF GoodWork
<1> QED
  BY <1>1 DEF Sound

(* The requests about the investments. *)
LEMMA InvestmentRequests ==
  ASSUME requests \in Nat, NEW d
  PROVE  AddInvestment(d) \/ UpdateInvestment(d) \/ DeleteInvestment(d) \/ SetQuantity(d)
           \/ SetPrice(d) =>
             steps[d] = <<>> /\ \E work : Sound(d, work) /\ Request(d, work)
<1> DEFINE f == disk[d]
<1>1. CASE AddInvestment(d)
  <2>1. PICK n \in Name : Request(d, AddAsset(f, n)) /\ steps[d] = <<>>
    BY <1>1 DEF AddInvestment, Ready
  <2>2. Sound(d, AddAsset(f, n))
    BY PagesHaveTables, AddingIsGood DEF Sound, AddAsset
  <2> QED
    BY <2>1, <2>2
<1>2. CASE UpdateInvestment(d)
  <2>1. PICK old \in Name, new \in Name, wanted \in Parts({"category", "currency", "link"}) :
          LET renamed == RenameAsset(f, old, new)
              filed == Given(renamed, wanted, "category", SetAssetCategory(renamed.frames, new))
              priced == Given(filed, wanted, "currency", SetAssetCurrency(filed.frames, new))
          IN Request(d, Given(priced, wanted, "link", SetAssetLink(priced.frames, new)))
    BY <1>2 DEF UpdateInvestment
  <2> DEFINE renamed == RenameAsset(f, old, new)
             filed == Given(renamed, wanted, "category", SetAssetCategory(renamed.frames, new))
             priced == Given(filed, wanted, "currency", SetAssetCurrency(filed.frames, new))
             work == Given(priced, wanted, "link", SetAssetLink(priced.frames, new))
  <2>2. Request(d, work) /\ steps[d] = <<>>
    BY <1>2, <2>1 DEF UpdateInvestment, Ready
  <2> HIDE DEF f, renamed, filed, priced, work
  <2>3. ASSUME NEW L, NEW U, Told(f, L, U, requests)
        PROVE  GoodWork(work, f, L, U, d, requests)
    <3>1. GoodWork(renamed, f, L, U, d, requests)
      BY <2>3, RenamingIsGood DEF renamed
    <3>2. \A g, K, W : Told(g, K, W, requests) =>
            /\ GoodWork(SetAssetCategory(g, new), g, K, W, d, requests)
            /\ GoodWork(SetAssetCurrency(g, new), g, K, W, d, requests)
            /\ GoodWork(SetAssetLink(g, new), g, K, W, d, requests)
      BY PartsAreGood
    <3>3. GoodWork(filed, f, L, U, d, requests)
      BY <2>3, <3>1, <3>2, GivenIsGood DEF filed
    <3>4. GoodWork(priced, f, L, U, d, requests)
      BY <2>3, <3>2, <3>3, GivenIsGood DEF priced
    <3> QED
      BY <2>3, <3>2, <3>4, GivenIsGood DEF work
  <2>4. Sound(d, work)
    BY <2>3, SoundWithoutIds DEF f
  <2> QED
    BY <2>2, <2>4
<1>3. CASE DeleteInvestment(d)
  <2>1. PICK n \in Name : Request(d, RemoveAsset(f, n)) /\ steps[d] = <<>>
    BY <1>3 DEF DeleteInvestment, Ready
  <2>2. Sound(d, RemoveAsset(f, n))
    BY PagesHaveTables, RemovingIsGood, SoundWithoutIds DEF RemoveAsset
  <2> QED
    BY <2>1, <2>2
<1>4. CASE SetQuantity(d)
  <2>1. PICK n \in Name :
          Request(d, SetNamed(f, Holdings, n, "month", New)) /\ steps[d] = <<>>
    BY <1>4 DEF SetQuantity, Ready
  <2>2. "month" \in Column
    BY DEF Column
  <2>3. Sound(d, SetNamed(f, Holdings, n, "month", New))
    BY <2>2, PagesHaveTables, SettingIsGood, SoundWithoutIds
  <2> QED
    BY <2>1, <2>3
<1>5. CASE SetPrice(d)
  <2>1. PICK n \in Name, withCurrency \in BOOLEAN :
          Request(d, SetAssetPrice(f, n, withCurrency)) /\ steps[d] = <<>>
    BY <1>5 DEF SetPrice, Ready
  <2>2. Sound(d, SetAssetPrice(f, n, withCurrency))
    BY PricingIsGood, SoundWithoutIds
  <2> QED
    BY <2>1, <2>2
<1> QED
  BY <1>1, <1>2, <1>3, <1>4, <1>5

(* The requests about the liquidity. *)
LEMMA LiquidityRequests ==
  ASSUME requests \in Nat, NEW d
  PROVE  AddLiquidity(d) \/ UpdateLiquidity(d) \/ DeleteLiquidity(d) \/ SetLiquidity(d) =>
           steps[d] = <<>> /\ \E work : Sound(d, work) /\ Request(d, work)
<1> DEFINE f == disk[d]
<1>1. CASE AddLiquidity(d)
  <2>1. PICK n \in Name : Request(d, AddLiquidityAsset(f, n)) /\ steps[d] = <<>>
    BY <1>1 DEF AddLiquidity, Ready
  <2>2. Sound(d, AddLiquidityAsset(f, n))
    BY PagesHaveTables, AddingIsGood DEF Sound, AddLiquidityAsset
  <2> QED
    BY <2>1, <2>2
<1>2. CASE UpdateLiquidity(d)
  <2>1. PICK old \in Name, new \in Name, wanted \in Parts({"category", "currency"}) :
          LET renamed == RenameLiquidity(f, old, new)
              filed == Given(renamed, wanted, "category",
                             SetLiquidityCategory(renamed.frames, new))
          IN Request(d, Given(filed, wanted, "currency", SetLiquidityCurrency(filed.frames, new)))
    BY <1>2 DEF UpdateLiquidity
  <2> DEFINE renamed == RenameLiquidity(f, old, new)
             filed == Given(renamed, wanted, "category",
                            SetLiquidityCategory(renamed.frames, new))
             work == Given(filed, wanted, "currency", SetLiquidityCurrency(filed.frames, new))
  <2>2. Request(d, work) /\ steps[d] = <<>>
    BY <1>2, <2>1 DEF UpdateLiquidity, Ready
  <2> HIDE DEF f, renamed, filed, work
  <2>3. ASSUME NEW L, NEW U, Told(f, L, U, requests)
        PROVE  GoodWork(work, f, L, U, d, requests)
    <3>1. GoodWork(renamed, f, L, U, d, requests)
      BY <2>3, RenamingIsGood DEF renamed
    <3>2. \A g, K, W : Told(g, K, W, requests) =>
            /\ GoodWork(SetLiquidityCategory(g, new), g, K, W, d, requests)
            /\ GoodWork(SetLiquidityCurrency(g, new), g, K, W, d, requests)
      BY PartsAreGood
    <3>3. GoodWork(filed, f, L, U, d, requests)
      BY <2>3, <3>1, <3>2, GivenIsGood DEF filed
    <3> QED
      BY <2>3, <3>2, <3>3, GivenIsGood DEF work
  <2>4. Sound(d, work)
    BY <2>3, SoundWithoutIds DEF f
  <2> QED
    BY <2>2, <2>4
<1>3. CASE DeleteLiquidity(d)
  <2>1. PICK n \in Name : Request(d, RemoveLiquidityAsset(f, n)) /\ steps[d] = <<>>
    BY <1>3 DEF DeleteLiquidity, Ready
  <2>2. Sound(d, RemoveLiquidityAsset(f, n))
    BY PagesHaveTables, RemovingIsGood, SoundWithoutIds DEF RemoveLiquidityAsset
  <2> QED
    BY <2>1, <2>2
<1>4. CASE SetLiquidity(d)
  <2>1. PICK n \in Name : Request(d, SetLiquidityValue(f, n)) /\ steps[d] = <<>>
    BY <1>4 DEF SetLiquidity, Ready
  <2>2. "month" \in Column
    BY DEF Column
  <2>3. Sound(d, SetLiquidityValue(f, n))
    BY <2>2, PagesHaveTables, SettingIsGood, SoundWithoutIds DEF SetLiquidityValue
  <2> QED
    BY <2>1, <2>3
<1> QED
  BY <1>1, <1>2, <1>3, <1>4

(* The requests about credits and debts. *)
LEMMA CreditRequests ==
  ASSUME requests \in Nat, NEW d
  PROVE  AddCredit(d) \/ UpdateCredit(d) \/ DeleteCredit(d) \/ SetCredit(d) =>
           steps[d] = <<>> /\ \E work : Sound(d, work) /\ Request(d, work)
<1> DEFINE f == disk[d]
<1>1. CASE AddCredit(d)
  <2>1. PICK n \in Name : Request(d, AddEntry(f, n)) /\ steps[d] = <<>>
    BY <1>1 DEF AddCredit, Ready
  <2>2. Sound(d, AddEntry(f, n))
    BY PagesHaveTables, AddingIsGood DEF Sound, AddEntry
  <2> QED
    BY <2>1, <2>2
<1>2. CASE UpdateCredit(d)
  <2>1. PICK old \in Name, new \in Name, wanted \in Parts({"currency"}) :
          LET renamed == RenameCredit(f, old, new)
          IN Request(d, Given(renamed, wanted, "currency",
                              SetCreditCurrency(renamed.frames, new)))
    BY <1>2 DEF UpdateCredit
  <2> DEFINE renamed == RenameCredit(f, old, new)
             work == Given(renamed, wanted, "currency", SetCreditCurrency(renamed.frames, new))
  <2>2. Request(d, work) /\ steps[d] = <<>>
    BY <1>2, <2>1 DEF UpdateCredit, Ready
  <2> HIDE DEF f, renamed, work
  <2>3. ASSUME NEW L, NEW U, Told(f, L, U, requests)
        PROVE  GoodWork(work, f, L, U, d, requests)
    <3>1. GoodWork(renamed, f, L, U, d, requests)
      BY <2>3, RenamingIsGood DEF renamed
    <3>2. \A g, K, W : Told(g, K, W, requests) =>
            GoodWork(SetCreditCurrency(g, new), g, K, W, d, requests)
      BY PartsAreGood
    <3> QED
      BY <2>3, <3>1, <3>2, GivenIsGood DEF work
  <2>4. Sound(d, work)
    BY <2>3, SoundWithoutIds DEF f
  <2> QED
    BY <2>2, <2>4
<1>3. CASE DeleteCredit(d)
  <2>1. PICK n \in Name : Request(d, RemoveEntry(f, n)) /\ steps[d] = <<>>
    BY <1>3 DEF DeleteCredit, Ready
  <2>2. Sound(d, RemoveEntry(f, n))
    BY PagesHaveTables, RemovingIsGood, SoundWithoutIds DEF RemoveEntry
  <2> QED
    BY <2>1, <2>2
<1>4. CASE SetCredit(d)
  <2>1. PICK n \in Name, v \in {New, -New} : Request(d, SetCreditValue(f, n, v)) /\ steps[d] = <<>>
    BY <1>4 DEF SetCredit, Ready
  <2>2. "month" \in Column
    BY DEF Column
  <2>3. Sound(d, SetCreditValue(f, n, v))
    BY <2>2, PagesHaveTables, SettingIsGood, SoundWithoutIds DEF SetCreditValue
  <2> QED
    BY <2>1, <2>3
<1> QED
  BY <1>1, <1>2, <1>3, <1>4

-----------------------------------------------------------------------------
(* A step that makes a request                                             *)

(* Any good tables are told by a log that says nothing. *)
LEMMA NothingTold ==
  ASSUME NEW n, NEW f, GoodFrames(f, n)
  PROVE  Told(f, {}, [table : Table, id : 1..n, op : {"upsert"}], n)
<1> DEFINE U == [table : Table, id : 1..n, op : {"upsert"}]
<1>1. ASSUME NEW t \in Table, NEW i \in DOMAIN f[t]
      PROVE  \E e \in OfRow(U, t, f[t][i].id) : e.op # "cell"
  <2>1. f[t][i].id \in 1..n
    BY DEF GoodFrames, GoodSheet, GoodRow
  <2> DEFINE e == [table |-> t, id |-> f[t][i].id, op |-> "upsert"]
  <2>2. e \in U /\ e.table = t /\ e.id = f[t][i].id /\ e.op # "cell"
    BY <2>1
  <2> QED
    BY <2>2 DEF OfRow
<1> HIDE DEF U
<1>2. \A t \in Table : Tells({}, U, t, f[t])
  BY <1>1 DEF Tells
<1>3. IsFiniteSet({}) /\ Timed({})
  BY FS_EmptySet DEF Timed
<1>4. Told(f, {}, U, n)
  BY <1>2, <1>3 DEF Told
<1> QED
  BY <1>4 DEF U

(* While a device does nothing, its log tells its files. *)
LEMMA IdleTells ==
  ASSUME NEW f, NEW L, NEW U, NEW d, IsFiniteSet(L), Timed(L), Coherent(<<>>, f, L, U, d)
  PROVE  \A t \in Table : Tells(L, U, t, f[t])
<1> DEFINE todo == <<>>
<1>1. DOMAIN todo = {} /\ Len(todo) = 0 /\ 0 \in 0..0
  OBVIOUS
<1>2. GoodSteps(todo, 0)
  <2>1. <<>> \in Seq(Range(<<>>))
    OBVIOUS
  <2> QED
    BY <1>1, <2>1 DEF GoodSteps
<1> HIDE DEF todo
<1>3. PICK s : s \in Stamps(todo, L)
  BY <1>2, SomeStamps
<1>4. Written(todo, s, 0, d) = {}
  BY <1>1 DEF Written
<1>5. \A t : ~OpenAfter(todo, 0, t) /\ SheetAfter(todo, f, 0, t, f[t])
  BY <1>1 DEF OpenAfter, SheetAfter
<1>6. Coherent(todo, f, L, U, d) /\ 0 \in 0..Len(todo)
  BY <1>1 DEF todo
<1>7. \A t \in Table : Tells(L \cup {}, U \cup {}, t, f[t])
  BY <1>3, <1>4, <1>5, <1>6 DEF Coherent
<1> QED
  BY <1>7

(* The largest time of a set of entries. *)
LEMMA LargestTimeIs ==
  ASSUME NEW E, IsFiniteSet(E), Timed(E)
  PROVE  LargestTime(E) \in Nat /\ \A e \in E : e.key.time <= LargestTime(E)
<1> DEFINE times == {e.key.time : e \in E}
           time == [e \in E |-> e.key.time]
<1>1. times = {time[e] : e \in E}
  OBVIOUS
<1>2. IsFiniteSet(times)
  <2> HIDE DEF times, time
  <2> QED
    BY <1>1, ImageIsFinite
<1>3. times \in SUBSET Nat
  BY DEF Timed
<1>4. CASE E = {}
  BY <1>4 DEF LargestTime
<1>5. CASE E # {}
  <2>1. times # {} /\ \A e \in E : e.key.time \in times
    BY <1>5
  <2>2. \A x \in times : \E e \in E : x = e.key.time
    OBVIOUS
  <2>3. LargestTime(E) = CHOOSE t \in times : \A e \in E : e.key.time <= t
    BY <1>5 DEF LargestTime
  <2> HIDE DEF times, time
  <2>4. \E m \in times : \A x \in times : x <= m
    BY <1>2, <1>3, <2>1, FiniteGreatest
  <2>5. \E t \in times : \A e \in E : e.key.time <= t
    BY <2>1, <2>4
  <2> QED
    BY <1>3, <2>3, <2>5
<1> QED
  BY <1>4, <1>5

(* What the invariant says of a log. *)
LEMMA LogFacts ==
  ASSUME Typed, NEW d \in Device
  PROVE  /\ log[d] \subseteq Everything /\ log[d] \subseteq Heard(d) /\ Heard(d) \subseteq Everything
         /\ IsFiniteSet(log[d]) /\ Timed(log[d]) /\ Timed(Everything)
         /\ \A e \in Everything : e.id \in 1..requests
<1>1. log[d] \subseteq Everything
  BY DEF Everything
<1>2. IsFiniteSet(log[d])
  BY <1>1, FS_Subset DEF Typed
<1>3. \A e \in Everything : e.key.time \in Nat /\ e.id \in 1..requests
  BY DEF Typed, GoodEntry
<1> QED
  BY <1>1, <1>2, <1>3 DEF Heard, Timed

(* A request of a device sets out to do good work. *)
LEMMA RequestKeepsIInv ==
  ASSUME IInv, NEW d \in Device, NEW work, steps[d] = <<>>, Sound(d, work), Request(d, work)
  PROVE  IInv'
<1>1. /\ steps' = [steps EXCEPT ![d] = work.steps] /\ requests' = requests + 1
      /\ page' = page /\ disk' = disk /\ log' = log /\ marked' = marked
      /\ astray' = astray /\ failures' = failures /\ apart' = apart
      /\ \E t \in {clock[d], LargestTime(Everything)} \ 0..(clock[d] - 1) :
           clock' = [clock EXCEPT ![d] = t]
  BY DEF Request
<1>2. Typed /\ StampsTell /\ RequestsAreCoherent
  BY DEF IInv
<1>3. /\ requests \in Nat /\ requests + 1 \in Nat /\ requests <= requests + 1
      /\ clock \in [Device -> Nat] /\ DOMAIN steps = Device
      /\ \A e \in Device : GoodFrames(disk[e], requests) /\ GoodSteps(steps[e], requests)
      /\ IsFiniteSet(Everything) /\ \A e \in Everything : GoodEntry(e, requests)
  BY <1>2 DEF Typed
<1>4. Everything' = Everything /\ \A e \in Device : Heard(e)' = Heard(e)
  BY <1>1 DEF Everything, Heard
<1>5. /\ clock' \in [Device -> Nat] /\ \A e \in Device : clock[e] <= clock'[e]
  <2>1. Timed(Everything)
    BY <1>2, LogFacts
  <2>2. LargestTime(Everything) \in Nat
    BY <1>3, <2>1, LargestTimeIs
  <2>3. PICK t \in {clock[d], LargestTime(Everything)} \ 0..(clock[d] - 1) :
          clock' = [clock EXCEPT ![d] = t]
    BY <1>1
  <2>4. t \in Nat /\ clock[d] <= t
    BY <1>3, <2>2, <2>3
  <2> QED
    BY <1>3, <2>3, <2>4
<1>6. GoodSteps(work.steps, requests + 1)
  <2> DEFINE U == [table : Table, id : 1..requests, op : {"upsert"}]
  <2>1. Told(disk[d], {}, U, requests)
    BY <1>3, NothingTold
  <2>2. {} \subseteq U /\ \A e \in U : e.id \in 1..requests
    OBVIOUS
  <2> HIDE DEF U
  <2> QED
    BY <2>1, <2>2 DEF Sound, GoodWork
<1>7. Typed'
  <2>1. \A e \in Everything' : GoodEntry(e, requests')
    BY <1>1, <1>3, <1>4, GoodForMore
  <2>2. \A e \in Device : GoodFrames(disk'[e], requests')
    BY <1>1, <1>3, GoodForMore
  <2>3. \A e \in Device : GoodSteps(steps'[e], requests')
    <3>1. ASSUME NEW e \in Device, e # d
          PROVE  GoodSteps(steps'[e], requests')
      BY <1>1, <1>3, <3>1, GoodForMore
    <3>2. steps'[d] = work.steps
      BY <1>1, <1>3
    <3> QED
      BY <1>1, <1>6, <3>1, <3>2
  <2>4. /\ page' \in Page /\ requests' \in Nat /\ failures' \in Nat
        /\ DOMAIN disk' = Device /\ DOMAIN log' = Device /\ DOMAIN steps' = Device
        /\ IsFiniteSet(Everything')
    BY <1>1, <1>2, <1>3, <1>4 DEF Typed
  <2> QED
    BY <1>5, <2>1, <2>2, <2>3, <2>4 DEF Typed
<1>8. StampsTell'
  <2>1. \A e \in Device : \A x \in log[e] : x.key.time <= clock'[e]
    <3>1. ASSUME NEW e \in Device, NEW x \in log[e]
          PROVE  x.key.time <= clock'[e]
      <4>1. x.key.time \in Nat /\ x.key.time <= clock[e]
        BY <1>2, LogFacts DEF StampsTell, Timed
      <4> QED
        BY <1>3, <1>5, <4>1
    <3> QED
      BY <3>1
  <2>2. Distinct(Everything)'
    BY <1>2, <1>4 DEF StampsTell, Distinct
  <2> QED
    BY <1>1, <1>2, <1>4, <2>1, <2>2 DEF StampsTell
<1>9. RequestsAreCoherent'
  <2>1. ASSUME NEW e \in Device \ (marked \cup astray)
        PROVE  Coherent(steps'[e], disk[e], log[e], Heard(e), e)
    <3>1. Coherent(steps[e], disk[e], log[e], Heard(e), e)
      BY <1>2 DEF RequestsAreCoherent
    <3>2. CASE e # d
      BY <1>1, <3>1, <3>2
    <3>3. CASE e = d
      <4>1. /\ log[d] \subseteq Heard(d) /\ Heard(d) \subseteq Everything
            /\ IsFiniteSet(log[d]) /\ Timed(log[d])
            /\ \A x \in Everything : x.id \in 1..requests
        BY <1>2, LogFacts
      <4>2. \A t \in Table : Tells(log[d], Heard(d), t, disk[d][t])
        BY <3>1, <3>3, <4>1, IdleTells
      <4>3. Told(disk[d], log[d], Heard(d), requests)
        BY <1>3, <4>1, <4>2 DEF Told
      <4>4. GoodWork(work, disk[d], log[d], Heard(d), d, requests + 1)
        BY <4>1, <4>3 DEF Sound
      <4>5. steps'[d] = work.steps
        BY <1>1, <1>3
      <4> QED
        BY <3>3, <4>4, <4>5 DEF GoodWork
    <3> QED
      BY <3>2, <3>3
  <2> QED
    BY <1>1, <1>4, <2>1 DEF RequestsAreCoherent
<1> QED
  BY <1>7, <1>8, <1>9 DEF IInv

-----------------------------------------------------------------------------
(* A step of a request                                                     *)

(* The first step, and then the others. *)
LEMMA HeadAndTail ==
  ASSUME NEW todo, todo \in Seq(Range(todo)), todo # <<>>
  PROVE  /\ Joined(todo, <<Head(todo)>>, Tail(todo)) /\ Tail(todo) \in Seq(Range(Tail(todo)))
         /\ 1 \in DOMAIN todo /\ Head(todo) = todo[1]
         /\ \A i \in DOMAIN Tail(todo) : \E j \in DOMAIN todo : Tail(todo)[i] = todo[j]
<1> DEFINE n == Len(todo)
           one == <<Head(todo)>>
           rest == Tail(todo)
<1>1. n \in Nat /\ DOMAIN todo = 1..n /\ n > 0 /\ Head(todo) = todo[1]
  OBVIOUS
<1>2. DOMAIN one = 1..1 /\ Len(one) = 1 /\ one[1] = todo[1]
  BY <1>1
<1>3. /\ rest \in Seq(Range(todo)) /\ Len(rest) = n - 1 /\ DOMAIN rest = 1..(n - 1)
      /\ \A i \in 1..(n - 1) : rest[i] = todo[i + 1]
  OBVIOUS
<1> HIDE DEF n, one, rest
<1>4. Len(todo) = n
  BY DEF n
<1>5. Joined(todo, one, rest)
  <2>1. Len(rest) \in Nat /\ n = 1 + Len(rest)
    BY <1>1, <1>3
  <2>2. \A i \in 1..1 : todo[i] = one[i]
    BY <1>2
  <2>3. \A i \in 1..Len(rest) : todo[1 + i] = rest[i]
    BY <1>1, <1>3
  <2> QED
    BY <1>1, <1>2, <1>3, <1>4, <2>1, <2>2, <2>3 DEF Joined
<1>6. rest \in Seq(Range(rest))
  <2>1. PICK k \in Nat : rest \in [1..k -> Range(todo)]
    BY <1>3
  <2>2. rest = [i \in 1..k |-> rest[i]] /\ DOMAIN rest = 1..k
    BY <2>1
  <2> QED
    BY <2>2, SeqOfItsRange
<1>7. \A i \in DOMAIN rest : i + 1 \in DOMAIN todo /\ rest[i] = todo[i + 1]
  BY <1>1, <1>3
<1> QED
  BY <1>1, <1>5, <1>6, <1>7 DEF one, rest

(* The entry a step records at a time, if it records one. *)
Recorded(step, time, d) ==
  IF IsRecord(step) THEN {EntryOf(step, [time |-> time, device |-> d])} ELSE {}

(* A step taken at a time after the log leaves the rest of the steps       *)
(* coherent, with the file that it saves and the entry that it records.    *)
LEMMA StepIsCoherent ==
  ASSUME NEW todo, todo \in Seq(Range(todo)), todo # <<>>,
         NEW f, NEW L, NEW U, NEW d, Timed(L), Coherent(todo, f, L, U, d),
         NEW time \in Nat, \A e \in L : e.key.time < time,
         NEW h, \A t \in Table : SheetAfter(<<Head(todo)>>, f, 1, t, h[t])
  PROVE  Coherent(Tail(todo), h, L \cup Recorded(Head(todo), time, d),
                  U \cup Recorded(Head(todo), time, d), d)
<1> DEFINE step == Head(todo)
           one == <<step>>
           rest == Tail(todo)
           V == Recorded(step, time, d)
<1>1. /\ Joined(todo, one, rest) /\ rest \in Seq(Range(rest)) /\ 1 \in DOMAIN todo
      /\ step = todo[1]
  BY HeadAndTail
<1>2. DOMAIN one = 1..1 /\ Len(one) = 1 /\ one[1] = step
  OBVIOUS
<1> HIDE DEF one, rest, step, V
<1>3. /\ Len(rest) \in Nat /\ Len(todo) = 1 + Len(rest) /\ DOMAIN todo = 1..Len(todo)
      /\ DOMAIN rest = 1..Len(rest) /\ \A i \in DOMAIN rest : todo[1 + i] = rest[i]
  BY <1>1, <1>2 DEF Joined
<1>4. ASSUME NEW s \in Stamps(rest, L \cup V), NEW k \in 0..Len(rest), NEW t \in Table,
             ~OpenAfter(rest, k, t), NEW sheet, SheetAfter(rest, h, k, t, sheet)
      PROVE  Tells((L \cup V) \cup Written(rest, s, k, d), (U \cup V) \cup Written(rest, s, k, d),
                   t, sheet)
  <2> DEFINE all == [i \in DOMAIN todo |-> IF i = 1 THEN time ELSE s[i - 1]]
             first == [i \in DOMAIN one |-> all[i]]
             others == [i \in DOMAIN rest |-> all[Len(one) + i]]
             W == Written(rest, s, k, d)
  <2>1. /\ \A i \in DOMAIN rest : s[i] \in Nat /\ \A e \in L \cup V : e.key.time < s[i]
        /\ \A i, j \in DOMAIN rest : i < j /\ IsRecord(rest[i]) => s[i] < s[j]
        /\ DOMAIN s = DOMAIN rest /\ s = [i \in DOMAIN rest |-> s[i]]
    BY DEF Stamps
  <2>2. all[1] = time /\ \A i \in DOMAIN todo : i # 1 => i - 1 \in DOMAIN rest /\ all[i] = s[i - 1]
    BY <1>1, <1>3
  <2>3. all \in Stamps(todo, L)
    <3>1. all \in [DOMAIN todo -> Nat]
      <4>1. \A i \in DOMAIN todo : all[i] \in Nat
        BY <2>1, <2>2
      <4>2. all = [i \in DOMAIN todo |-> all[i]]
        OBVIOUS
      <4> HIDE DEF all
      <4> QED
        BY <4>1, <4>2
    <3> HIDE DEF all
    <3>2. \A i \in DOMAIN todo : \A e \in L : e.key.time < all[i]
      BY <2>1, <2>2
    <3>3. ASSUME NEW i \in DOMAIN todo, NEW j \in DOMAIN todo, i < j, IsRecord(todo[i])
          PROVE  all[i] < all[j]
      <4>1. j # 1 /\ j - 1 \in DOMAIN rest /\ all[j] = s[j - 1]
        BY <1>3, <2>2, <3>3
      <4>2. CASE i = 1
        <5> DEFINE e == EntryOf(step, [time |-> time, device |-> d])
        <5>1. e \in V
          BY <1>1, <3>3, <4>2 DEF Recorded, V
        <5>2. e.key.time = time
          <6>1. IsEntry(e, step, [time |-> time, device |-> d])
            BY EntryFields
          <6> HIDE DEF e
          <6> QED
            BY <6>1 DEF IsEntry
        <5>3. e.key.time < s[j - 1]
          BY <2>1, <4>1, <5>1
        <5> QED
          BY <2>2, <4>1, <4>2, <5>2, <5>3
      <4>3. CASE i # 1
        <5>1. i - 1 \in DOMAIN rest /\ all[i] = s[i - 1] /\ i - 1 < j - 1 /\ 1 + (i - 1) = i
          BY <1>3, <2>2, <3>3, <4>3
        <5>2. IsRecord(rest[i - 1])
          BY <1>3, <3>3, <5>1
        <5> QED
          BY <2>1, <4>1, <5>1, <5>2
      <4> QED
        BY <4>2, <4>3
    <3> QED
      BY <3>1, <3>2, <3>3 DEF Stamps
  <2>4. others = s
    <3>1. \A i \in DOMAIN rest : 1 + i \in DOMAIN todo /\ 1 + i # 1 /\ (1 + i) - 1 = i
      BY <1>3
    <3>2. \A i \in DOMAIN rest : others[i] = s[i]
      BY <1>2, <2>2, <3>1
    <3>3. others = [i \in DOMAIN rest |-> others[i]]
      OBVIOUS
    <3> HIDE DEF others
    <3> QED
      BY <2>1, <3>2, <3>3
  <2>5. Written(todo, all, 1 + k, d) = V \cup W
    <3>1. first = [i \in DOMAIN one |-> all[i]] /\ others = [i \in DOMAIN rest |-> all[Len(one) + i]]
      OBVIOUS
    <3>2. first[1] = time
      BY <1>2, <2>2
    <3> HIDE DEF all, first, others, W
    <3>3. StampedAfter(todo, all, one, first, rest, others, L, d)
      BY <1>1, <2>3, <3>1, StampsOfBoth
    <3>4. Written(todo, all, 1 + k, d)
            = Written(one, first, 1, d) \cup Written(rest, others, k, d)
      <4>1. k \in Nat
        BY <1>3
      <4> QED
        BY <1>2, <3>3, <4>1 DEF StampedAfter
    <3>5. Written(one, first, 1, d) = V
      <4>1. \A i \in DOMAIN one : i = 1 /\ i <= 1
        BY <1>2
      <4>2. 1 \in DOMAIN one
        BY <1>2
      <4> DEFINE Entry(i) == EntryOf(one[i], [time |-> first[i], device |-> d])
                 P == {i \in DOMAIN one : i <= 1 /\ IsRecord(one[i])}
      <4>3. Written(one, first, 1, d) = {Entry(i) : i \in P}
        BY DEF Written
      <4>4. CASE IsRecord(step)
        <5>1. P = {1}
          BY <1>2, <4>1, <4>2, <4>4
        <5>2. V = {Entry(1)}
          BY <1>2, <3>2, <4>4 DEF V, Recorded
        <5> HIDE DEF P, Entry
        <5> QED
          BY <4>3, <5>1, <5>2
      <4>5. CASE ~IsRecord(step)
        <5>1. P = {}
          BY <1>2, <4>1, <4>5
        <5>2. V = {}
          BY <4>5 DEF V, Recorded
        <5> HIDE DEF P, Entry
        <5> QED
          BY <4>3, <5>1, <5>2
      <4> QED
        BY <4>4, <4>5
    <3> QED
      BY <2>4, <3>4, <3>5 DEF W
  <2> HIDE DEF all, first, others
  <2>6. 1 + k \in 0..Len(todo) /\ k \in Nat
    BY <1>3
  <2>7. ~OpenAfter(todo, 1 + k, t)
    BY <1>1, <1>2, <1>4, <2>6, OpenAfterBoth
  <2>8. SheetAfter(todo, f, 1 + k, t, sheet)
    <3>1. SheetAfter(one, f, Len(one), t, h[t])
      BY <1>2 DEF one, step
    <3>2. Joined(todo, one, rest) /\ k \in Nat /\ SheetAfter(rest, h, k, t, sheet)
      BY <1>1, <1>4, <2>6
    <3> DEFINE g == h[t]
    <3>3. h[t] = g /\ SheetAfter(one, f, Len(one), t, g)
      BY <3>1
    <3> HIDE DEF g
    <3>4. SheetAfter(todo, f, Len(one) + k, t, sheet)
      BY <3>2, <3>3, SheetsOfBoth
    <3> QED
      BY <1>2, <3>4
  <2>9. Tells(L \cup Written(todo, all, 1 + k, d), U \cup Written(todo, all, 1 + k, d), t, sheet)
    BY <2>3, <2>6, <2>7, <2>8 DEF Coherent
  <2> HIDE DEF W
  <2>10. (L \cup V) \cup W = L \cup (V \cup W) /\ (U \cup V) \cup W = U \cup (V \cup W)
    OBVIOUS
  <2>11. Tells((L \cup V) \cup W, (U \cup V) \cup W, t, sheet)
    BY <2>5, <2>9, <2>10
  <2> QED
    BY <2>11 DEF W
<1>5. Coherent(rest, h, L \cup V, U \cup V, d)
  BY <1>4 DEF Coherent
<1> QED
  BY <1>5 DEF rest, V, step

(* What others write changes nothing. *)
LEMMA CoherentForMore ==
  ASSUME NEW todo, NEW f, NEW L, NEW U, NEW W, NEW d, L \subseteq U, U \subseteq W,
         Coherent(todo, f, L, U, d)
  PROVE  Coherent(todo, f, L, W, d)
<1>1. ASSUME NEW V, NEW t, NEW sheet, Tells(L \cup V, U \cup V, t, sheet)
      PROVE  Tells(L \cup V, W \cup V, t, sheet)
  <2>1. L \cup V \subseteq U \cup V /\ U \cup V \subseteq W \cup V
    OBVIOUS
  <2> QED
    BY <1>1, <2>1, TellsLess
<1> QED
  BY <1>1 DEF Coherent

(* Cut off with no save unrecorded, the log tells the files. *)
LEMMA CutOffTells ==
  ASSUME NEW todo, NEW n, GoodSteps(todo, n), ~Unrecorded(todo),
         NEW f, NEW L, NEW U, NEW d, IsFiniteSet(L), Timed(L), Coherent(todo, f, L, U, d)
  PROVE  Coherent(<<>>, f, L, U, d)
<1>1. Len(todo) \in Nat /\ DOMAIN todo = 1..Len(todo) /\ 0 \in 0..Len(todo)
  BY DEF GoodSteps
<1>2. PICK s : s \in Stamps(todo, L)
  BY SomeStamps
<1>3. \A i \in DOMAIN todo : ~(i <= 0)
  BY <1>1
<1>4. Written(todo, s, 0, d) = {}
  BY <1>3 DEF Written
<1>5. ASSUME NEW t \in Table
      PROVE  ~OpenAfter(todo, 0, t) /\ SheetAfter(todo, f, 0, t, f[t])
  <2>1. ASSUME NEW j \in DOMAIN todo, IsRecord(todo[j]), todo[j].table = t,
               \A i \in DOMAIN todo : 0 < i /\ i < j => ~IsSave(todo[i], t)
        PROVE  Unrecorded(todo)
    <3>1. \A i \in 1..j - 1 : i \in DOMAIN todo /\ 0 < i /\ i < j
      BY <1>1
    <3>2. \A i \in 1..j - 1 : todo[i].do = "save" => todo[i].table # todo[j].table
      BY <2>1, <3>1 DEF IsSave
    <3> QED
      BY <2>1, <3>2 DEF Unrecorded, IsRecord
  <2> QED
    BY <1>3, <2>1 DEF OpenAfter, SheetAfter
<1>6. \A t \in Table : Tells(L \cup {}, U \cup {}, t, f[t])
  BY <1>1, <1>2, <1>4, <1>5 DEF Coherent
<1>7. \A t \in Table : Tells(L, U, t, f[t])
  BY <1>6
<1> QED
  BY <1>7, NoStepsAreCoherent

(* Saving a file. *)
LEMMA SaveFileKeepsIInv ==
  ASSUME IInv, NEW d \in Device, SaveFile(d)
  PROVE  IInv'
<1> DEFINE todo == steps[d]
           t0 == Head(todo).table
           h == [disk[d] EXCEPT ![t0] = Head(todo).sheet]
<1>1. /\ todo # <<>> /\ Head(todo).do = "save"
      /\ disk' = [disk EXCEPT ![d][t0] = Head(todo).sheet]
      /\ steps' = [steps EXCEPT ![d] = Tail(todo)]
      /\ page' = page /\ log' = log /\ clock' = clock /\ marked' = marked /\ astray' = astray
      /\ requests' = requests /\ failures' = failures /\ apart' = apart
  BY DEF SaveFile, Doing
<1>2. Typed /\ StampsTell /\ RequestsAreCoherent
  BY DEF IInv
<1>3. /\ DOMAIN steps = Device /\ DOMAIN disk = Device /\ DOMAIN disk[d] = Table
      /\ \A e \in Device : GoodFrames(disk[e], requests) /\ GoodSteps(steps[e], requests)
  BY <1>2 DEF Typed, GoodFrames
<1>4. /\ disk'[d] = h /\ steps'[d] = Tail(todo) /\ DOMAIN disk' = Device /\ DOMAIN steps' = Device
      /\ \A e \in Device : e # d => disk'[e] = disk[e] /\ steps'[e] = steps[e]
  BY <1>1, <1>3
<1>5. Everything' = Everything /\ \A e \in Device : Heard(e)' = Heard(e)
  BY <1>1 DEF Everything, Heard
<1> HIDE DEF todo, h
<1>6. todo \in Seq(Range(todo)) /\ \A i \in DOMAIN todo : GoodStep(todo[i], requests)
  BY <1>3 DEF GoodSteps, todo
<1>7. /\ Joined(todo, <<Head(todo)>>, Tail(todo)) /\ Tail(todo) \in Seq(Range(Tail(todo)))
      /\ 1 \in DOMAIN todo /\ Head(todo) = todo[1]
      /\ \A i \in DOMAIN Tail(todo) : \E j \in DOMAIN todo : Tail(todo)[i] = todo[j]
  BY <1>1, <1>6, HeadAndTail
<1>8. t0 \in Table /\ GoodSheet(Head(todo).sheet, requests)
  BY <1>1, <1>6, <1>7 DEF GoodStep
<1>9. /\ DOMAIN h = Table /\ h[t0] = Head(todo).sheet
      /\ \A t \in Table : t # t0 => h[t] = disk[d][t]
  BY <1>3, <1>8 DEF h
<1>10. GoodSteps(Tail(todo), requests)
  BY <1>6, <1>7 DEF GoodSteps
<1>11. GoodFrames(h, requests)
  BY <1>3, <1>8, <1>9 DEF GoodFrames
<1>12. Typed'
  <2>1. \A e \in Device : GoodFrames(disk'[e], requests') /\ GoodSteps(steps'[e], requests')
    BY <1>1, <1>3, <1>4, <1>10, <1>11
  <2>2. /\ page' \in Page /\ requests' \in Nat /\ failures' \in Nat /\ DOMAIN log' = Device
        /\ clock' \in [Device -> Nat] /\ IsFiniteSet(Everything')
        /\ \A e \in Everything' : GoodEntry(e, requests')
    BY <1>1, <1>2, <1>5 DEF Typed
  <2> QED
    BY <1>4, <2>1, <2>2 DEF Typed
<1>13. StampsTell'
  <2>1. Distinct(Everything)'
    BY <1>2, <1>5 DEF StampsTell, Distinct
  <2> QED
    BY <1>1, <1>2, <1>5, <2>1 DEF StampsTell
<1>14. RequestsAreCoherent'
  <2>1. ASSUME NEW e \in Device \ (marked \cup astray)
        PROVE  Coherent(steps'[e], disk'[e], log[e], Heard(e), e)
    <3>1. Coherent(steps[e], disk[e], log[e], Heard(e), e)
      BY <1>2 DEF RequestsAreCoherent
    <3>2. CASE e # d
      BY <1>4, <3>1, <3>2
    <3>3. CASE e = d
      <4> DEFINE L == log[d]
                 time == clock[d] + 1
                 f == disk[d]
                 U == Heard(d)
      <4>1. Timed(L) /\ time \in Nat /\ \A x \in L : x.key.time < time
        <5>1. Timed(L)
          BY <1>2, LogFacts
        <5>2. clock[d] \in Nat
          BY <1>2 DEF Typed
        <5>3. \A x \in L : x.key.time <= clock[d] /\ x.key.time \in Nat
          BY <1>2, <5>1 DEF StampsTell, Timed
        <5> QED
          BY <5>1, <5>2, <5>3
      <4>2. \A t \in Table : SheetAfter(<<Head(todo)>>, f, 1, t, h[t])
        <5> DEFINE one == <<Head(todo)>>
        <5>1. DOMAIN one = 1..1 /\ one[1] = Head(todo)
          OBVIOUS
        <5> HIDE DEF one
        <5>2. \A i \in DOMAIN one : i = 1 /\ ~(1 < i) /\ i <= 1
          BY <5>1
        <5>3. 1 \in DOMAIN one
          BY <5>1
        <5>4. \A t : IsSave(one[1], t) <=> t = t0
          BY <1>1, <5>1 DEF IsSave
        <5>5. \A t \in Table : SheetAfter(one, f, 1, t, h[t])
          BY <1>9, <5>1, <5>2, <5>3, <5>4 DEF SheetAfter
        <5> QED
          BY <5>5 DEF one
      <4>3. Coherent(todo, f, L, U, d)
        BY <3>1, <3>3 DEF todo
      <4>4. Recorded(Head(todo), time, d) = {}
        BY <1>1 DEF Recorded, IsRecord
      <4> HIDE DEF L, time, f, U
      <4>5. Coherent(Tail(todo), h, L \cup Recorded(Head(todo), time, d),
                     U \cup Recorded(Head(todo), time, d), d)
        BY <1>1, <1>6, <4>1, <4>2, <4>3, StepIsCoherent
      <4>6. L \cup {} = L /\ U \cup {} = U
        OBVIOUS
      <4>7. Coherent(Tail(todo), h, L, U, d)
        BY <4>4, <4>5, <4>6
      <4> QED
        BY <1>4, <3>3, <4>7 DEF L, U
    <3> QED
      BY <3>2, <3>3
  <2> QED
    BY <1>1, <1>5, <2>1 DEF RequestsAreCoherent
<1> QED
  BY <1>12, <1>13, <1>14 DEF IInv

(* Recording an entry. *)
LEMMA RecordEntryKeepsIInv ==
  ASSUME IInv, NEW d \in Device, RecordEntry(d)
  PROVE  IInv'
<1> DEFINE todo == steps[d]
           time == clock[d] + 1
           new == EntryOf(Head(todo), [time |-> time, device |-> d])
<1>1. /\ todo # <<>> /\ Head(todo).do = "record"
      /\ steps' = [steps EXCEPT ![d] = Tail(todo)]
      /\ clock' = [clock EXCEPT ![d] = time]
      /\ log' = [log EXCEPT ![d] = @ \cup {EntryOf(Head(todo), [time |-> clock'[d], device |-> d])}]
      /\ page' = page /\ disk' = disk /\ marked' = marked /\ astray' = astray
      /\ requests' = requests /\ failures' = failures /\ apart' = apart
  BY DEF RecordEntry, Doing
<1>2. Typed /\ StampsTell /\ RequestsAreCoherent
  BY DEF IInv
<1>3. /\ DOMAIN steps = Device /\ DOMAIN log = Device /\ clock \in [Device -> Nat]
      /\ \A e \in Device : GoodFrames(disk[e], requests) /\ GoodSteps(steps[e], requests)
      /\ IsFiniteSet(Everything) /\ \A e \in Everything : GoodEntry(e, requests)
  BY <1>2 DEF Typed
<1>4. time \in Nat /\ clock'[d] = time /\ clock' \in [Device -> Nat]
      /\ \A e \in Device : e # d => clock'[e] = clock[e]
  BY <1>1, <1>3
<1>5. /\ steps'[d] = Tail(todo) /\ log'[d] = log[d] \cup {new}
      /\ DOMAIN log' = Device /\ DOMAIN steps' = Device
      /\ \A e \in Device : e # d => log'[e] = log[e] /\ steps'[e] = steps[e]
  BY <1>1, <1>3, <1>4
<1> HIDE DEF todo, new
<1>6. todo \in Seq(Range(todo)) /\ \A i \in DOMAIN todo : GoodStep(todo[i], requests)
  BY <1>3 DEF GoodSteps, todo
<1>7. /\ Tail(todo) \in Seq(Range(Tail(todo))) /\ 1 \in DOMAIN todo /\ Head(todo) = todo[1]
      /\ \A i \in DOMAIN Tail(todo) : \E j \in DOMAIN todo : Tail(todo)[i] = todo[j]
  BY <1>1, <1>6, HeadAndTail
<1>8. GoodSteps(Tail(todo), requests)
  BY <1>6, <1>7 DEF GoodSteps
<1>9. /\ Head(todo).table \in Table /\ Head(todo).id \in 1..requests
      /\ Head(todo).op \in {"upsert", "delete", "cell"}
  BY <1>1, <1>6, <1>7 DEF GoodStep
<1>10. /\ new.table = Head(todo).table /\ new.id = Head(todo).id /\ new.op = Head(todo).op
       /\ new.generated = FALSE /\ new.key = [time |-> time, device |-> d]
  <2> DEFINE key == [time |-> time, device |-> d]
  <2> HIDE DEF key
  <2>1. IsEntry(new, Head(todo), key)
    BY EntryFields DEF new, key
  <2> QED
    BY <2>1 DEF IsEntry, key
<1>11. new.key.time = time /\ new.key.device = d
  BY <1>10
<1>12. GoodEntry(new, requests)
  BY <1>4, <1>9, <1>10, <1>11 DEF GoodEntry
<1>13. Everything' = Everything \cup {new}
  <2>1. Everything' = UNION {log'[e] : e \in Device}
    BY DEF Everything
  <2>2. \A x : x \in Everything <=> \E e \in Device : x \in log[e]
    BY DEF Everything
  <2>3. \A x : x \in Everything' <=> \E e \in Device : x \in log'[e]
    BY <2>1
  <2>4. \A x : x \in Everything' <=> x \in Everything \cup {new}
    BY <1>5, <2>2, <2>3
  <2> QED
    BY <2>4
<1>14. Typed'
  <2>1. IsFiniteSet(Everything')
    BY <1>3, <1>13, FS_AddElement
  <2>2. \A e \in Everything' : GoodEntry(e, requests')
    BY <1>1, <1>3, <1>12, <1>13
  <2>3. \A e \in Device : GoodFrames(disk'[e], requests') /\ GoodSteps(steps'[e], requests')
    BY <1>1, <1>3, <1>5, <1>8
  <2>4. page' \in Page /\ requests' \in Nat /\ failures' \in Nat /\ DOMAIN disk' = Device
    BY <1>1, <1>2 DEF Typed
  <2> QED
    BY <1>4, <1>5, <2>1, <2>2, <2>3, <2>4 DEF Typed
<1>15. \A x \in log[d] : x.key.time \in Nat /\ x.key.time <= clock[d]
  BY <1>2, LogFacts DEF StampsTell, Timed
<1>16. \A x \in Everything : x.key.device = d => x.key.time # time
  <2>1. \A x \in Everything : x.key.device = d => x \in log[d]
    BY <1>2 DEF StampsTell
  <2> QED
    BY <1>3, <1>15, <2>1
<1>17. StampsTell'
  <2>1. Distinct(Everything)'
    <3>1. Distinct(Everything)
      BY <1>2 DEF StampsTell
    <3>2. \A x, y \in Everything' :
            x.key.time = y.key.time /\ x.key.device = y.key.device => x = y
      BY <1>11, <1>13, <1>16, <3>1 DEF Distinct
    <3> QED
      BY <3>2 DEF Distinct
  <2>2. \A e \in Device : \A x \in Everything' : x.key.device = e => x \in log'[e]
    BY <1>2, <1>5, <1>11, <1>13 DEF StampsTell
  <2>3. \A e \in Device : \A x \in log'[e] : x.key.time <= clock'[e]
    <3>1. \A x \in log'[d] : x.key.time <= time
      BY <1>3, <1>4, <1>5, <1>11, <1>15
    <3> QED
      BY <1>2, <1>4, <1>5, <3>1 DEF StampsTell
  <2> QED
    BY <2>1, <2>2, <2>3 DEF StampsTell
<1>18. RequestsAreCoherent'
  <2>1. \A e \in Device : log[e] \subseteq Heard(e) /\ Heard(e) \subseteq Everything
    BY <1>2, LogFacts
  <2>2. ASSUME NEW e \in Device \ (marked \cup astray)
        PROVE  Coherent(steps'[e], disk[e], log'[e], Heard(e)', e)
    <3>1. Coherent(steps[e], disk[e], log[e], Heard(e), e)
      BY <1>2 DEF RequestsAreCoherent
    <3>2. CASE e # d
      <4>1. Heard(e) \subseteq Heard(e)'
        BY <1>1, <1>5, <1>13, <3>2 DEF Heard
      <4>2. Coherent(steps[e], disk[e], log[e], Heard(e)', e)
        BY <2>1, <3>1, <4>1, CoherentForMore
      <4> QED
        BY <1>5, <3>2, <4>2
    <3>3. CASE e = d
      <4> DEFINE L == log[d]
                 f == disk[d]
                 U == Heard(d)
      <4>1. Timed(L) /\ \A x \in L : x.key.time < time
        <5>1. \A x \in L : x.key.time \in Nat /\ x.key.time <= clock[d]
          BY <1>15
        <5> QED
          BY <1>3, <5>1 DEF Timed
      <4>2. \A t \in Table : SheetAfter(<<Head(todo)>>, f, 1, t, f[t])
        <5> DEFINE one == <<Head(todo)>>
        <5>1. DOMAIN one = 1..1 /\ one[1] = Head(todo)
          OBVIOUS
        <5> HIDE DEF one
        <5>2. \A i \in DOMAIN one : i = 1
          BY <5>1
        <5>3. \A t : ~IsSave(one[1], t)
          BY <1>1, <5>1 DEF IsSave
        <5>4. \A t \in Table : SheetAfter(one, f, 1, t, f[t])
          BY <5>2, <5>3 DEF SheetAfter
        <5> QED
          BY <5>4 DEF one
      <4>3. Coherent(todo, f, L, U, d)
        BY <3>1, <3>3 DEF todo
      <4>4. Recorded(Head(todo), time, d) = {new}
        BY <1>1 DEF Recorded, IsRecord, new
      <4> HIDE DEF L, f, U, time
      <4>5. Coherent(Tail(todo), f, L \cup Recorded(Head(todo), time, d),
                     U \cup Recorded(Head(todo), time, d), d)
        BY <1>1, <1>4, <1>6, <4>1, <4>2, <4>3, StepIsCoherent
      <4>6. Coherent(Tail(todo), f, L \cup {new}, U \cup {new}, d)
        BY <4>4, <4>5
      <4>7. Heard(d)' = U \cup {new}
        BY <1>1, <1>5, <1>13 DEF Heard, U, L
      <4> QED
        BY <1>5, <3>3, <4>6, <4>7 DEF L, f
    <3> QED
      BY <3>2, <3>3
  <2> QED
    BY <1>1, <2>2 DEF RequestsAreCoherent
<1> QED
  BY <1>14, <1>17, <1>18 DEF IInv

(* A step that fails moves nothing but the request it belongs to, and what *)
(* others have written may count from then on.                             *)
LEMMA FailureKeepsIInv ==
  ASSUME IInv, NEW d \in Device,
         page' = page /\ disk' = disk /\ log' = log /\ requests' = requests,
         failures' = failures + 1, apart' = apart,
         DOMAIN steps' = Device, \A e \in Device : e # d => steps'[e] = steps[e],
         GoodSteps(steps'[d], requests),
         clock' \in [Device -> Nat],
         \A e \in Device : \A x \in log[e] : x.key.time <= clock'[e],
         marked \cup astray \subseteq marked' \cup astray',
         d \in marked' \cup astray' \/ Coherent(steps'[d], disk[d], log[d], Heard(d), d)
  PROVE  IInv'
<1>1. Typed /\ StampsTell /\ RequestsAreCoherent
  BY DEF IInv
<1>2. Everything' = Everything
  BY DEF Everything
<1>3. failures \in Nat /\ failures' \in Nat /\ failures' # 0
  BY <1>1 DEF Typed
<1>4. \A e \in Device : Heard(e)' = Heard(e) \/ Heard(e)' = Everything
  BY <1>2, <1>3 DEF Heard
<1>5. Typed'
  <2>1. \A e \in Device : GoodFrames(disk'[e], requests') /\ GoodSteps(steps'[e], requests')
    BY <1>1 DEF Typed
  <2>2. /\ page' \in Page /\ requests' \in Nat /\ DOMAIN disk' = Device /\ DOMAIN log' = Device
        /\ IsFiniteSet(Everything') /\ \A e \in Everything' : GoodEntry(e, requests')
    BY <1>1, <1>2 DEF Typed
  <2> QED
    BY <1>3, <2>1, <2>2 DEF Typed
<1>6. StampsTell'
  <2>1. Distinct(Everything)'
    BY <1>1, <1>2 DEF StampsTell, Distinct
  <2> QED
    BY <1>1, <1>2, <2>1 DEF StampsTell
<1>7. RequestsAreCoherent'
  <2>1. ASSUME NEW e \in Device \ (marked' \cup astray')
        PROVE  Coherent(steps'[e], disk[e], log[e], Heard(e)', e)
    <3>1. log[e] \subseteq Heard(e) /\ Heard(e) \subseteq Everything
      BY <1>1, LogFacts
    <3>2. Coherent(steps'[e], disk[e], log[e], Heard(e), e)
      BY <1>1 DEF RequestsAreCoherent
    <3>3. Coherent(steps'[e], disk[e], log[e], Everything, e)
      BY <3>1, <3>2, CoherentForMore
    <3> QED
      BY <1>4, <3>2, <3>3
  <2> QED
    BY <2>1 DEF RequestsAreCoherent
<1> QED
  BY <1>5, <1>6, <1>7 DEF IInv

(* A device whose request is cut off has its clock not behind its log.     *)
LEMMA CutOffKeepsIInv ==
  ASSUME IInv, NEW d \in Device, CutOff(d),
         page' = page /\ disk' = disk /\ log' = log /\ requests' = requests /\ marked' = marked,
         apart' = apart,
         clock' = clock \/ clock' = [clock EXCEPT ![d] = LargestTime(log[d])]
  PROVE  IInv'
<1>1. Typed /\ StampsTell /\ RequestsAreCoherent
  BY DEF IInv
<1>2. /\ failures' = failures + 1 /\ steps' = [steps EXCEPT ![d] = <<>>]
      /\ astray' = IF Unrecorded(steps[d]) THEN astray \cup {d} ELSE astray
  BY DEF CutOff, Fails
<1>3. DOMAIN steps = Device /\ clock \in [Device -> Nat] /\ GoodSteps(steps[d], requests)
  BY <1>1 DEF Typed
<1>4. IsFiniteSet(log[d]) /\ Timed(log[d])
  BY <1>1, LogFacts
<1>5. LargestTime(log[d]) \in Nat /\ \A x \in log[d] : x.key.time <= LargestTime(log[d])
  BY <1>4, LargestTimeIs
<1>6. /\ clock' \in [Device -> Nat]
      /\ \A e \in Device : \A x \in log[e] : x.key.time <= clock'[e]
  BY <1>1, <1>3, <1>5 DEF StampsTell
<1>7. GoodSteps(steps'[d], requests) /\ steps'[d] = <<>>
  <2>1. <<>> \in Seq(Range(<<>>)) /\ DOMAIN <<>> = {}
    OBVIOUS
  <2> QED
    BY <1>2, <1>3, <2>1 DEF GoodSteps
<1>8. d \in marked' \cup astray' \/ Coherent(steps'[d], disk[d], log[d], Heard(d), d)
  <2>1. CASE d \in marked \cup astray
    BY <1>2, <2>1
  <2>2. CASE Unrecorded(steps[d])
    BY <1>2, <2>2
  <2>3. CASE d \notin marked \cup astray /\ ~Unrecorded(steps[d])
    <3>1. Coherent(steps[d], disk[d], log[d], Heard(d), d)
      BY <1>1, <2>3 DEF RequestsAreCoherent
    <3>2. Coherent(<<>>, disk[d], log[d], Heard(d), d)
      BY <1>3, <1>4, <2>3, <3>1, CutOffTells
    <3> QED
      BY <1>7, <3>2
  <2> QED
    BY <2>1, <2>2, <2>3
<1>9. /\ DOMAIN steps' = Device /\ \A e \in Device : e # d => steps'[e] = steps[e]
      /\ marked \cup astray \subseteq marked' \cup astray'
  BY <1>2, <1>3
<1> QED
  BY <1>2, <1>6, <1>7, <1>8, <1>9, FailureKeepsIInv

(* A save that fails. *)
LEMMA SaveFailsKeepsIInv ==
  ASSUME IInv, NEW d \in Device, SaveFails(d)
  PROVE  IInv'
BY CutOffKeepsIInv DEF SaveFails

(* A crash. *)
LEMMA CrashKeepsIInv ==
  ASSUME IInv, NEW d \in Device, Crash(d)
  PROVE  IInv'
BY CutOffKeepsIInv DEF Crash

(* An entry that cannot be appended marks the log. *)
LEMMA RecordFailsKeepsIInv ==
  ASSUME IInv, NEW d \in Device, RecordFails(d)
  PROVE  IInv'
<1>1. Typed /\ StampsTell /\ RequestsAreCoherent
  BY DEF IInv
<1>2. /\ failures' = failures + 1 /\ steps' = [steps EXCEPT ![d] = Tail(steps[d])]
      /\ page' = page /\ disk' = disk /\ log' = log /\ clock' = clock /\ requests' = requests
      /\ marked' = marked \cup {d} /\ astray' = astray /\ steps[d] # <<>> /\ apart' = apart
  BY DEF RecordFails, Fails, Doing
<1>3. DOMAIN steps = Device /\ clock \in [Device -> Nat] /\ GoodSteps(steps[d], requests)
  BY <1>1 DEF Typed
<1>4. steps'[d] = Tail(steps[d])
  BY <1>2, <1>3
<1>5. GoodSteps(Tail(steps[d]), requests)
  <2> DEFINE todo == steps[d]
  <2>1. todo # <<>> /\ GoodSteps(todo, requests)
    BY <1>2, <1>3
  <2> HIDE DEF todo
  <2>2. /\ Tail(todo) \in Seq(Range(Tail(todo)))
        /\ \A i \in DOMAIN Tail(todo) : \E j \in DOMAIN todo : Tail(todo)[i] = todo[j]
    BY <2>1, HeadAndTail DEF GoodSteps
  <2>3. GoodSteps(Tail(todo), requests)
    BY <2>1, <2>2 DEF GoodSteps
  <2> QED
    BY <2>3 DEF todo
<1>6. /\ DOMAIN steps' = Device /\ \A e \in Device : e # d => steps'[e] = steps[e]
      /\ marked \cup astray \subseteq marked' \cup astray' /\ d \in marked' \cup astray'
  BY <1>2, <1>3
<1>7. \A e \in Device : \A x \in log[e] : x.key.time <= clock'[e]
  BY <1>1, <1>2 DEF StampsTell
<1> QED
  BY <1>2, <1>3, <1>4, <1>5, <1>6, <1>7, FailureKeepsIInv

-----------------------------------------------------------------------------
(* What a merge decides of a row                                           *)

(* Entries of the kinds there are, each with a stamp. *)
Plain(S) ==
  \A e \in S :
    /\ e.op \in {"upsert", "delete", "cell"} /\ e.generated = FALSE
    /\ e.key.time \in Nat /\ e.key.device \in Nat

(* The order of stamps. *)
LEMMA StampsAreOrdered ==
  ASSUME NEW S, Plain(S)
  PROVE  /\ \A e, f \in S : ~(M!Precedes(e, f) /\ M!Precedes(f, e))
         /\ \A e \in S : ~M!Precedes(e, e)
         /\ \A e, f, g \in S : M!Precedes(e, f) /\ M!Precedes(f, g) => M!Precedes(e, g)
         /\ Distinct(S) => \A e, f \in S : e = f \/ M!Precedes(e, f) \/ M!Precedes(f, e)
<1>1. \A e \in S : e.key.time \in Nat /\ e.key.device \in Nat
  BY DEF Plain
<1> QED
  BY <1>1 DEF M!Precedes, M!KeyBefore, Distinct

(* An entry that decides a row is the winner of the merge. *)
LEMMA WinnerIs ==
  ASSUME NEW S, Plain(S), NEW w, Decides(S, w)
  PROVE  /\ M!RowWinner(S) = {w}
         /\ w.op = "delete" => M!Deleted(S) = {w} /\ M!BaseUpsert(S) = {}
         /\ w.op = "upsert" => M!Deleted(S) = {} /\ M!BaseUpsert(S) = {w}
<1> DEFINE R == {e \in M!Deletes(S) \cup M!Upserts(S) : ~M!HeldBack(e, S)}
<1>1. \A e : e \in R <=> e \in S /\ e.op # "cell"
  <2>1. \A e \in S : ~M!HeldBack(e, S)
    BY DEF Plain, M!HeldBack
  <2>2. \A e \in S : e.op \in {"upsert", "delete", "cell"}
    BY DEF Plain
  <2> QED
    BY <2>1, <2>2 DEF M!Deletes, M!Upserts
<1>2. w \in R /\ \A e \in R : e = w \/ M!Precedes(e, w)
  BY <1>1 DEF Decides
<1>3. /\ \A e, f \in S : ~(M!Precedes(e, f) /\ M!Precedes(f, e))
      /\ \A e \in S : ~M!Precedes(e, e)
  BY StampsAreOrdered
<1>4. M!Newest(R) = {w}
  <2> HIDE DEF R
  <2>1. \A f \in R : ~M!Precedes(w, f)
    BY <1>1, <1>2, <1>3
  <2>2. \A e \in R : e # w => M!Precedes(e, w)
    BY <1>2
  <2> QED
    BY <1>2, <2>1, <2>2 DEF M!Newest
<1>5. M!RowWinner(S) = {w}
  BY <1>4 DEF M!RowWinner
<1> QED
  BY <1>5 DEF M!Deleted, M!BaseUpsert, M!Deletes, M!Upserts

(* And one that gives the value of a column is what the merge shows there. *)
LEMMA ShownIs ==
  ASSUME NEW S, Plain(S), NEW w, Decides(S, w), w.op = "upsert",
         NEW c, NEW v, Shows(S, w, c, v)
  PROVE  /\ ShownCell(S, c) = v.cells[c]
         /\ v = w => M!CellWinner(S, c) = {}
         /\ v # w => M!CellWinner(S, c) = {v}
<1> DEFINE C == {e \in M!Cells(S, c) : \A u \in M!BaseUpsert(S) : M!Precedes(u, e)}
<1>1. M!Deleted(S) = {} /\ M!BaseUpsert(S) = {w}
  BY WinnerIs
<1>2. \A e : e \in C <=> e \in S /\ e.op = "cell" /\ e.column = c /\ M!Precedes(w, e)
  BY <1>1 DEF M!Cells
<1>3. M!CellWinner(S, c) = M!Newest(C)
  BY <1>1 DEF M!CellWinner
<1> HIDE DEF C
<1>4. /\ v \in S /\ w \in S
      /\ v = w \/ (v.op = "cell" /\ v.column = c /\ M!Precedes(w, v))
      /\ \A e \in S :
           e.op = "cell" /\ e.column = c /\ M!Precedes(w, e) => e = v \/ M!Precedes(e, v)
  BY DEF Shows, Decides
<1>5. /\ \A e, f \in S : ~(M!Precedes(e, f) /\ M!Precedes(f, e))
      /\ \A e \in S : ~M!Precedes(e, e)
  BY StampsAreOrdered
<1>6. ASSUME v = w
      PROVE  M!CellWinner(S, c) = {} /\ M!Shown(S, c) = {v}
  <2>1. C = {}
    BY <1>2, <1>4, <1>5, <1>6
  <2>2. M!CellWinner(S, c) = {}
    BY <1>3, <2>1 DEF M!Newest
  <2> QED
    BY <1>1, <1>6, <2>2 DEF M!Shown
<1>7. ASSUME v # w
      PROVE  M!CellWinner(S, c) = {v} /\ M!Shown(S, c) = {v}
  <2>1. v \in C /\ \A e \in C : e = v \/ M!Precedes(e, v)
    BY <1>2, <1>4, <1>7
  <2>2. \A e \in C : e \in S
    BY <1>2
  <2>3. M!Newest(C) = {v}
    BY <1>5, <2>1, <2>2 DEF M!Newest
  <2> QED
    BY <1>3, <2>3 DEF M!Shown
<1>8. M!Shown(S, c) = {v}
  BY <1>6, <1>7
<1>9. ShownCell(S, c) = v.cells[c]
  BY <1>8 DEF ShownCell
<1> QED
  BY <1>6, <1>7, <1>9

(* A finite set of entries has a newest one. *)
LEMMA NewestExists ==
  ASSUME NEW S, IsFiniteSet(S), S # {}, Plain(S)
  PROVE  \E e \in S : e \in M!Newest(S)
<1> DEFINE above(x) == {y \in S : M!Precedes(x, y)}
           T == {Cardinality(above(x)) : x \in S}
<1>1. ASSUME NEW x \in S
      PROVE  IsFiniteSet(above(x)) /\ Cardinality(above(x)) \in Nat
  <2>1. above(x) \subseteq S
    OBVIOUS
  <2> HIDE DEF above
  <2>2. IsFiniteSet(above(x))
    BY <2>1, FS_Subset
  <2> QED
    BY <2>2, FS_CardinalityType
<1>2. ASSUME NEW x \in S, NEW y \in S, M!Precedes(x, y)
      PROVE  Cardinality(above(y)) < Cardinality(above(x))
  <2>1. above(y) \subseteq above(x) /\ y \in above(x) /\ y \notin above(y)
    BY <1>2, StampsAreOrdered
  <2> HIDE DEF above
  <2>2. IsFiniteSet(above(x)) /\ above(y) # above(x)
    BY <1>1, <2>1
  <2>3. Cardinality(above(y)) <= Cardinality(above(x))
        /\ (Cardinality(above(y)) = Cardinality(above(x)) => above(y) = above(x))
    BY <2>1, <2>2, FS_Subset
  <2> QED
    BY <1>1, <2>2, <2>3
<1>3. T \in SUBSET Nat /\ T # {}
  BY <1>1
<1>4. PICK n \in T : \A m \in T : n <= m
  BY <1>3, NatLeast
<1>5. PICK x \in S : n = Cardinality(above(x))
  OBVIOUS
<1>6. \A y \in S : ~M!Precedes(x, y)
  <2>1. \A y \in S : n <= Cardinality(above(y))
    BY <1>4
  <2> HIDE DEF above, T
  <2> QED
    BY <1>1, <1>2, <1>5, <2>1
<1> QED
  BY <1>6 DEF M!Newest

(* A sequence that has each element of P once. *)
Enumerates(order, P) ==
  /\ \E N \in Nat : DOMAIN order = 1..N
  /\ \A n \in DOMAIN order : order[n] \in P
  /\ \A x \in P : \E n \in DOMAIN order : order[n] = x
  /\ \A n, m \in DOMAIN order : order[n] = order[m] => n = m

(* What is in a line can be put in its order. *)
LEMMA LineIsEnumerated ==
  ASSUME NEW P, NEW before, Lined(P, before)
  PROVE  Enumerates([i \in 1..Cardinality(P) |->
                       CHOOSE x \in P : Cardinality(before[x]) = i - 1], P)
<1> DEFINE N == Cardinality(P)
           At(i) == CHOOSE x \in P : Cardinality(before[x]) = i - 1
           order == [i \in 1..N |-> At(i)]
<1>1. /\ N \in Nat
      /\ \A x \in P : Cardinality(before[x]) \in 0..N - 1
      /\ \A x, y \in P : Cardinality(before[x]) = Cardinality(before[y]) => x = y
      /\ \A n \in 0..N - 1 : \E x \in P : Cardinality(before[x]) = n
  BY RanksAreNumbers DEF Numbered
<1>2. ASSUME NEW i \in 1..N
      PROVE  At(i) \in P /\ Cardinality(before[At(i)]) = i - 1
  <2>1. i - 1 \in 0..N - 1
    BY <1>1
  <2>2. \E x \in P : Cardinality(before[x]) = i - 1
    BY <1>1, <2>1
  <2> QED
    BY <2>2
<1>3. DOMAIN order = 1..N /\ \A i \in 1..N : order[i] = At(i)
  OBVIOUS
<1> HIDE DEF N, At, order
<1>4. \A i \in 1..N : order[i] \in P /\ Cardinality(before[order[i]]) = i - 1
  BY <1>2, <1>3
<1>5. ASSUME NEW x \in P
      PROVE  \E n \in 1..N : order[n] = x
  <2> DEFINE k == Cardinality(before[x])
  <2>1. k \in 0..N - 1
    BY <1>1
  <2> HIDE DEF k
  <2>2. k + 1 \in 1..N /\ (k + 1) - 1 = k
    BY <1>1, <2>1
  <2>3. order[k + 1] \in P /\ Cardinality(before[order[k + 1]]) = k
    BY <1>4, <2>2
  <2> QED
    BY <1>1, <2>2, <2>3 DEF k
<1>6. \A n, m \in 1..N : order[n] = order[m] => n = m
  <2>1. ASSUME NEW n \in 1..N, NEW m \in 1..N, order[n] = order[m]
        PROVE  n = m
    <3>1. n - 1 = m - 1
      BY <1>4, <2>1
    <3> QED
      BY <1>1, <3>1
  <2> QED
    BY <2>1
<1>7. Enumerates(order, P)
  BY <1>1, <1>3, <1>4, <1>5, <1>6 DEF Enumerates
<1> QED
  BY <1>7 DEF N, At, order

(* The rows a batch does something to. *)
Acting(d, batch) == {g \in Grouped(d, batch) : HasAction(g)}

(* What a merge knows of each of them. *)
IsGroup(g, d, batch) ==
  /\ g = GroupOf(d, batch, RowId(g.row.table, g.row.id))
  /\ g.known = OfRow(log[d] \cup batch, g.row.table, g.row.id)
  /\ g.remote = OfRow(batch \ log[d], g.row.table, g.row.id)
  /\ \E e \in batch : g.row.table = e.table /\ g.row.id = e.id

(* The groups of a batch are such. *)
LEMMA GroupFacts ==
  ASSUME NEW d, NEW batch, NEW g \in Grouped(d, batch)
  PROVE  IsGroup(g, d, batch)
<1>1. PICK e \in batch \ log[d] : g = GroupOf(d, batch, RowId(e.table, e.id))
  BY DEF Grouped, Touched
<1>2. /\ g.row = RowId(e.table, e.id) /\ g.row.table = e.table /\ g.row.id = e.id
      /\ g.known = About(log[d] \cup batch, RowId(e.table, e.id))
      /\ g.remote = About(batch \ log[d], RowId(e.table, e.id))
  BY <1>1 DEF GroupOf, RowId
<1>3. \A E : About(E, RowId(e.table, e.id)) = OfRow(E, e.table, e.id)
  BY DEF About, OfRow, RowId
<1> QED
  BY <1>1, <1>2, <1>3 DEF IsGroup

(* The plan has one action for each of them. *)
LEMMA PlanHasEachAction ==
  ASSUME NEW d, NEW batch, IsFiniteSet(batch), Plain(batch), Distinct(batch)
  PROVE  Enumerates(Actions(d, batch), Acting(d, batch))
<1> DEFINE acting == {g \in Grouped(d, batch) : HasAction(g)}
           Earlier(g) == {h \in acting : M!KeyBefore(NewestApplied(h), NewestApplied(g))}
           before == [g \in acting |-> Earlier(g)]
<1>1. IsFiniteSet(acting)
  <2> DEFINE map == [e \in batch \ log[d] |-> GroupOf(d, batch, RowId(e.table, e.id))]
             all == {map[e] : e \in batch \ log[d]}
  <2>1. Grouped(d, batch) \subseteq all
    BY DEF Grouped, Touched
  <2>2. IsFiniteSet(batch \ log[d])
    BY FS_Subset
  <2> HIDE DEF map
  <2>3. IsFiniteSet(all)
    BY <2>2, ImageIsFinite
  <2> HIDE DEF all
  <2>4. acting \subseteq all
    BY <2>1
  <2> HIDE DEF acting
  <2> QED
    BY <2>3, <2>4, FS_Subset
<1>11. \A g \in acting :
        /\ g = GroupOf(d, batch, RowId(g.row.table, g.row.id))
        /\ g.remote = OfRow(batch \ log[d], g.row.table, g.row.id)
  <2>1. \A g \in Grouped(d, batch) : IsGroup(g, d, batch)
    BY GroupFacts
  <2>2. acting \subseteq Grouped(d, batch)
    OBVIOUS
  <2> HIDE DEF acting
  <2> QED
    BY <2>1, <2>2 DEF IsGroup
<1>2. ASSUME NEW g \in acting
      PROVE  \E e \in g.remote : e \in batch /\ NewestApplied(g) = e.key
                                 /\ e.table = g.row.table /\ e.id = g.row.id
  <2>1. AppliedTo(g) # {} /\ AppliedTo(g) \subseteq g.remote
    BY DEF HasAction, AppliedTo
  <2>2. g.remote = OfRow(batch \ log[d], g.row.table, g.row.id)
    BY <1>11
  <2>3. AppliedTo(g) \subseteq batch
    BY <2>1, <2>2 DEF OfRow
  <2> DEFINE A == AppliedTo(g)
             e == CHOOSE e \in M!Newest(A) : TRUE
  <2>4. IsFiniteSet(A) /\ A # {} /\ Plain(A)
    BY <2>1, <2>3, FS_Subset DEF Plain
  <2> HIDE DEF A
  <2>5. M!Newest(A) # {}
    BY <2>4, NewestExists
  <2>6. e \in M!Newest(A)
    BY <2>5
  <2>7. e \in A
    BY <2>6 DEF M!Newest
  <2>8. NewestApplied(g) = e.key
    BY DEF NewestApplied, A
  <2> HIDE DEF e
  <2>9. e \in g.remote /\ e \in batch /\ e.table = g.row.table /\ e.id = g.row.id
    BY <2>1, <2>2, <2>3, <2>7 DEF A, OfRow
  <2> QED
    BY <2>8, <2>9
<1>3. \A g \in acting : g = GroupOf(d, batch, RowId(g.row.table, g.row.id))
  BY <1>11
<1>4. \A e \in batch : e.key.time \in Nat /\ e.key.device \in Nat
  BY DEF Plain
<1> DEFINE stamp == [g \in acting |-> NewestApplied(g)]
<1>5. \A g \in acting : /\ stamp[g].time \in Nat /\ stamp[g].device \in Nat
                        /\ Earlier(g) = {h \in acting : M!KeyBefore(stamp[h], stamp[g])}
  BY <1>2, <1>4
<1>6. \A g, h \in acting :
        stamp[g].time = stamp[h].time /\ stamp[g].device = stamp[h].device => g = h
  <2>1. ASSUME NEW g \in acting, NEW h \in acting,
               stamp[g].time = stamp[h].time /\ stamp[g].device = stamp[h].device
        PROVE  g = h
    <3>1. PICK e \in batch : stamp[g] = e.key /\ e.table = g.row.table /\ e.id = g.row.id
      BY <1>2
    <3>2. PICK f \in batch : stamp[h] = f.key /\ f.table = h.row.table /\ f.id = h.row.id
      BY <1>2
    <3> HIDE DEF stamp, acting
    <3>3. e = f
      BY <2>1, <3>1, <3>2 DEF Distinct
    <3> QED
      BY <1>3, <3>1, <3>2, <3>3
  <2> QED
    BY <2>1
<1>7. \A g \in acting : before[g] = {h \in acting : M!KeyBefore(stamp[h], stamp[g])}
  BY <1>5
<1>8. Lined(acting, before)
  <2> HIDE DEF acting, stamp, before, Earlier
  <2>1. \A g \in acting : before[g] \subseteq acting /\ g \notin before[g]
    BY <1>5, <1>7 DEF M!KeyBefore
  <2>2. ASSUME NEW g \in acting, NEW h \in acting, M!KeyBefore(stamp[g], stamp[h])
        PROVE  before[g] \subseteq before[h] /\ g \in before[h]
    <3>1. \A x \in acting : M!KeyBefore(stamp[x], stamp[g]) => M!KeyBefore(stamp[x], stamp[h])
      BY <1>5, <2>2 DEF M!KeyBefore
    <3> QED
      BY <1>7, <2>2, <3>1
  <2>3. \A g, h \in acting :
          g = h \/ M!KeyBefore(stamp[g], stamp[h]) \/ M!KeyBefore(stamp[h], stamp[g])
    BY <1>5, <1>6 DEF M!KeyBefore
  <2>4. \A g, h \in acting : \/ g = h \/ (before[g] \subseteq before[h] /\ g \in before[h])
                                      \/ (before[h] \subseteq before[g] /\ h \in before[g])
    BY <2>2, <2>3
  <2> QED
    BY <1>1, <2>1, <2>4 DEF Lined
<1> DEFINE order == [i \in 1..Cardinality(acting) |->
                       CHOOSE g \in acting : Cardinality(before[g]) = i - 1]
<1>9. Enumerates(order, acting)
  <2> HIDE DEF acting, before
  <2> QED
    BY <1>8, LineIsEnumerated
<1>10. Actions(d, batch) = order
  <2>1. Actions(d, batch) = [i \in 1..Cardinality(acting) |->
                               CHOOSE g \in acting : Cardinality(Earlier(g)) = i - 1]
    BY DEF Actions
  <2>2. \A g \in acting : before[g] = Earlier(g)
    OBVIOUS
  <2> HIDE DEF acting, before, Earlier
  <2>3. \A i : (CHOOSE g \in acting : Cardinality(Earlier(g)) = i - 1)
                 = (CHOOSE g \in acting : Cardinality(before[g]) = i - 1)
    BY <2>2
  <2> QED
    BY <2>1, <2>3
<1> QED
  BY <1>9, <1>10 DEF Acting

(* The group of a row of table t. *)
GroupAt(d, batch, t, id) == GroupOf(d, batch, RowId(t, id))

IsAbout(g, d, batch, t, id) ==
  /\ g.row.table = t /\ g.row.id = id
  /\ g.known = OfRow(log[d] \cup batch, t, id)
  /\ g.remote = OfRow(batch \ log[d], t, id)

(* It is about that row. *)
LEMMA GroupAtFacts ==
  ASSUME NEW d, NEW batch, NEW t, NEW id
  PROVE  IsAbout(GroupAt(d, batch, t, id), d, batch, t, id)
BY DEF IsAbout, GroupAt, GroupOf, RowId, About, OfRow

(* An action leaves a row a row with its id. *)
LEMMA ActionKeepsRow ==
  ASSUME NEW n, NEW row, GoodRow(row, n), NEW g, g.row.id = row.id
  PROVE  ApplyRowAction(row, g).id = row.id /\ GoodRow(ApplyRowAction(row, g), n)
<1> DEFINE new == ApplyRowAction(row, g)
<1>1. DOMAIN row = Column \cup {"id"} /\ row.id \in 1..n
  BY RowFacts
<1>2. CASE Rewrites(g)
  <2> DEFINE cells == [c \in Column |-> ShownCell(g.known, c)]
  <2>1. new = RowOf(row.id, cells)
    BY <1>2 DEF ApplyRowAction, NewRow
  <2> HIDE DEF cells, new
  <2>2. new.id = row.id /\ new = RowOf(row.id, [c \in Column |-> new[c]])
    BY <2>1, RowOfGives
  <2>3. new.id \in 1..n /\ new = RowOf(new.id, [c \in Column |-> new[c]])
    BY <1>1, <2>2
  <2>4. GoodRow(new, n)
    BY <2>3, Zenon DEF GoodRow
  <2> QED
    BY <2>2, <2>4 DEF new
<1>3. CASE ~Rewrites(g) /\ SetsCells(g)
  <2> DEFINE cells == WonCells(g)
  <2>1. new = WithCells(row, cells)
    BY <1>3 DEF ApplyRowAction
  <2>2. "id" \notin DOMAIN cells
    BY DEF WonCells, Column
  <2> HIDE DEF cells, new
  <2>3. /\ new.id = row.id /\ new = [c \in Column \cup {"id"} |-> new[c]]
    BY <1>1, <2>1, <2>2 DEF WithCells
  <2>4. new = RowOf(new.id, [c \in Column |-> new[c]])
    BY <2>3 DEF RowOf
  <2>5. GoodRow(new, n)
    BY <1>1, <2>3, <2>4, Zenon DEF GoodRow
  <2> QED
    BY <2>3, <2>5 DEF new
<1>4. CASE ~Rewrites(g) /\ ~SetsCells(g)
  BY <1>4 DEF ApplyRowAction
<1> QED
  BY <1>2, <1>3, <1>4

(* The rows of the new table: those that stay, changed in place, and those *)
(* that an action brings.                                                  *)
Stays(d, batch, t, i) ==
  i \in DOMAIN disk[d][t] /\ ~Deletes(GroupAt(d, batch, t, disk[d][t][i].id))

RowThen(d, batch, t, i) == ApplyRowAction(disk[d][t][i], GroupAt(d, batch, t, disk[d][t][i].id))

Brings(d, batch, t, g) ==
  /\ g \in Acting(d, batch) /\ g.row.table = t /\ Rewrites(g)
  /\ \A i \in DOMAIN disk[d][t] : disk[d][t][i].id # g.row.id

Merged(d, batch, t, new) ==
  /\ \A k \in DOMAIN new : \/ \E i : Stays(d, batch, t, i) /\ new[k] = RowThen(d, batch, t, i)
                           \/ \E g : Brings(d, batch, t, g) /\ new[k] = NewRow(g)
  /\ \A i : Stays(d, batch, t, i) => \E k \in DOMAIN new : new[k] = RowThen(d, batch, t, i)
  /\ \A g : Brings(d, batch, t, g) => \E k \in DOMAIN new : new[k] = NewRow(g)

(* The actions applied in their order make such a table, and a good one. *)
LEMMA MergedSheet ==
  ASSUME NEW n, NEW d, NEW batch, NEW t, GoodSheet(disk[d][t], n),
         \A e \in batch : e.id \in 1..n,
         NEW order, Enumerates(order, Acting(d, batch))
  PROVE  /\ Merged(d, batch, t, WithActions(d, batch, t, order))
         /\ GoodSheet(WithActions(d, batch, t, order), n)
<1> DEFINE sheet == disk[d][t]
           changed == [i \in DOMAIN sheet |-> RowThen(d, batch, t, i)]
           stay == {i \in DOMAIN sheet : ~Deletes(GroupAt(d, batch, t, sheet[i].id))}
           brought == [k \in DOMAIN order |-> NewRow(order[k])]
           added == {k \in DOMAIN order : /\ order[k].row.table = t /\ Rewrites(order[k])
                                          /\ order[k].row.id \notin IdsIn(sheet)}
           A == RowsAt(changed, stay)
           B == RowsAt(brought, added)
           new == WithActions(d, batch, t, order)
<1>1. new = A \o B
  <2>1. changed = [i \in DOMAIN sheet |->
                     ApplyRowAction(sheet[i], GroupOf(d, batch, RowId(t, sheet[i].id)))]
    BY DEF RowThen, GroupAt
  <2>2. stay = {i \in DOMAIN sheet : ~Deletes(GroupOf(d, batch, RowId(t, sheet[i].id)))}
    BY DEF GroupAt
  <2> HIDE DEF changed, stay
  <2> QED
    BY <2>1, <2>2 DEF WithActions
<1>2. /\ Len(sheet) \in Nat /\ DOMAIN sheet = 1..Len(sheet) /\ IdsAreUnique(sheet)
      /\ \A i \in DOMAIN sheet : GoodRow(sheet[i], n)
  BY DEF GoodSheet
<1>3. PICK N \in Nat : DOMAIN order = 1..N
  BY DEF Enumerates
<1>4. /\ \A k \in DOMAIN order : order[k] \in Acting(d, batch)
      /\ \A g \in Acting(d, batch) : \E k \in DOMAIN order : order[k] = g
      /\ \A k, m \in DOMAIN order : order[k] = order[m] => k = m
  BY DEF Enumerates
<1>5. \A i \in DOMAIN sheet : changed[i] = RowThen(d, batch, t, i)
  OBVIOUS
<1>6. \A k \in DOMAIN order : brought[k] = NewRow(order[k])
  OBVIOUS
<1>7. \A i : i \in stay <=> Stays(d, batch, t, i)
  BY DEF Stays
<1>8. \A k \in DOMAIN order : k \in added <=> Brings(d, batch, t, order[k])
  BY <1>4 DEF Brings, IdsIn
<1>9. stay \in SUBSET (1..Len(sheet)) /\ added \in SUBSET (1..N)
  BY <1>2, <1>3
<1>10. \A i \in stay : i \in DOMAIN sheet
  OBVIOUS
<1>11. \A k \in added : k \in DOMAIN order
  OBVIOUS
<1> HIDE DEF new, A, B, changed, brought, stay, added
<1>12. \A i \in DOMAIN sheet : changed[i].id = sheet[i].id /\ GoodRow(changed[i], n)
  <2>1. ASSUME NEW i \in DOMAIN sheet
        PROVE  changed[i].id = sheet[i].id /\ GoodRow(changed[i], n)
    <3> DEFINE row == sheet[i]
               g == GroupAt(d, batch, t, row.id)
    <3>1. g.row.id = row.id
      <4>1. IsAbout(GroupAt(d, batch, t, row.id), d, batch, t, row.id)
        BY GroupAtFacts
      <4> QED
        BY <4>1 DEF IsAbout
    <3>2. GoodRow(row, n)
      BY <1>2
    <3>3. changed[i] = ApplyRowAction(row, g)
      BY <1>5 DEF RowThen
    <3> HIDE DEF row, g
    <3>4. ApplyRowAction(row, g).id = row.id /\ GoodRow(ApplyRowAction(row, g), n)
      BY <3>1, <3>2, ActionKeepsRow
    <3> QED
      BY <3>3, <3>4 DEF row
  <2> QED
    BY <2>1
<1>13. ASSUME NEW k \in added
       PROVE  /\ brought[k].id = order[k].row.id /\ GoodRow(brought[k], n)
              /\ \A i \in DOMAIN sheet : sheet[i].id # brought[k].id
  <2> DEFINE g == order[k]
             cells == [c \in Column |-> ShownCell(g.known, c)]
             row == brought[k]
  <2>1. Brings(d, batch, t, g) /\ g \in Grouped(d, batch)
    BY <1>4, <1>8, <1>11 DEF Acting
  <2>2. row = RowOf(g.row.id, cells)
    BY <1>6, <1>11 DEF NewRow
  <2> HIDE DEF g, cells, row
  <2>3. g.row.id \in 1..n
    <3>1. IsGroup(g, d, batch)
      BY <2>1, GroupFacts
    <3> QED
      BY <3>1 DEF IsGroup
  <2>4. row.id = g.row.id /\ row = RowOf(g.row.id, [c \in Column |-> row[c]])
    BY <2>2, RowOfGives
  <2>5. row.id \in 1..n /\ row = RowOf(row.id, [c \in Column |-> row[c]])
    BY <2>3, <2>4
  <2>6. GoodRow(row, n)
    BY <2>5, Zenon DEF GoodRow
  <2>7. \A i \in DOMAIN sheet : sheet[i].id # row.id
    BY <2>1, <2>4 DEF Brings
  <2> QED
    BY <2>4, <2>6, <2>7 DEF g, row
<1>14. \A i, k \in stay : changed[i].id = changed[k].id => i = k
  BY <1>2, <1>10, <1>12 DEF IdsAreUnique
<1>15. \A k, m \in added : brought[k].id = brought[m].id => k = m
  <2>1. ASSUME NEW k \in added, NEW m \in added, brought[k].id = brought[m].id
        PROVE  k = m
    <3>1. order[k].row.id = order[m].row.id /\ order[k].row.table = t /\ order[m].row.table = t
      BY <1>8, <1>11, <1>13, <2>1 DEF Brings
    <3>2. order[k] \in Grouped(d, batch) /\ order[m] \in Grouped(d, batch)
      BY <1>4, <1>11 DEF Acting
    <3>3. IsGroup(order[k], d, batch) /\ IsGroup(order[m], d, batch)
      BY <3>2, GroupFacts
    <3>4. order[k] = order[m]
      BY <3>1, <3>3 DEF IsGroup
    <3> QED
      BY <1>4, <1>11, <3>4
  <2> QED
    BY <2>1
<1>16. /\ A \in Seq(Range(A)) /\ IdsAreUnique(A)
       /\ \A k \in DOMAIN A : \E i \in stay : A[k] = changed[i]
       /\ \A i \in stay : \E k \in DOMAIN A : A[k] = changed[i]
  BY <1>2, <1>9, <1>14, RowsAtPicks DEF A
<1>17. /\ B \in Seq(Range(B)) /\ IdsAreUnique(B)
       /\ \A k \in DOMAIN B : \E i \in added : B[k] = brought[i]
       /\ \A i \in added : \E k \in DOMAIN B : B[k] = brought[i]
  BY <1>9, <1>15, RowsAtPicks DEF B
<1>18. Joined(new, A, B)
  BY <1>1, <1>16, <1>17, JoiningThem
<1>19. /\ \A k \in DOMAIN new : \/ k \in DOMAIN A /\ new[k] = A[k]
                                \/ k - Len(A) \in DOMAIN B /\ new[k] = B[k - Len(A)]
       /\ \A k \in DOMAIN A : k \in DOMAIN new /\ new[k] = A[k]
       /\ \A k \in DOMAIN B : Len(A) + k \in DOMAIN new /\ new[Len(A) + k] = B[k]
  <2>1. /\ Len(A) \in Nat /\ Len(B) \in Nat /\ Len(new) = Len(A) + Len(B)
        /\ DOMAIN new = 1..Len(new) /\ DOMAIN A = 1..Len(A) /\ DOMAIN B = 1..Len(B)
        /\ \A i \in 1..Len(A) : new[i] = A[i]
        /\ \A i \in 1..Len(B) : new[Len(A) + i] = B[i]
    BY <1>18 DEF Joined
  <2>2. ASSUME NEW k \in DOMAIN new, k \notin DOMAIN A
        PROVE  k - Len(A) \in DOMAIN B /\ new[k] = B[k - Len(A)]
    <3>1. k - Len(A) \in 1..Len(B) /\ Len(A) + (k - Len(A)) = k
      BY <2>1, <2>2
    <3> QED
      BY <2>1, <3>1
  <2>3. \A k \in DOMAIN A : k \in DOMAIN new
    BY <2>1
  <2>4. \A k \in DOMAIN B : Len(A) + k \in DOMAIN new
    BY <2>1
  <2> QED
    BY <2>1, <2>2, <2>3, <2>4
<1>20. \A k \in DOMAIN A : /\ GoodRow(A[k], n)
                           /\ \E i \in DOMAIN sheet : i \in stay /\ A[k].id = sheet[i].id
  BY <1>10, <1>12, <1>16
<1>21. \A k \in DOMAIN B : GoodRow(B[k], n) /\ \A i \in DOMAIN sheet : sheet[i].id # B[k].id
  BY <1>13, <1>17
<1>22. IdsAreUnique(new)
  <2>1. ASSUME NEW i \in DOMAIN new, NEW k \in DOMAIN new, new[i].id = new[k].id
        PROVE  i = k
    <3>1. CASE i \in DOMAIN A /\ k \in DOMAIN A
      BY <1>16, <1>19, <2>1, <3>1 DEF IdsAreUnique
    <3>2. CASE i \in DOMAIN A /\ k \notin DOMAIN A
      BY <1>19, <1>20, <1>21, <2>1, <3>2
    <3>3. CASE i \notin DOMAIN A /\ k \in DOMAIN A
      BY <1>19, <1>20, <1>21, <2>1, <3>3
    <3>4. CASE i \notin DOMAIN A /\ k \notin DOMAIN A
      <4>1. i - Len(A) = k - Len(A)
        BY <1>17, <1>19, <2>1, <3>4 DEF IdsAreUnique
      <4>2. i \in Int /\ k \in Int /\ Len(A) \in Int
        BY <1>18 DEF Joined
      <4> QED
        BY <4>1, <4>2
    <3> QED
      BY <3>1, <3>2, <3>3, <3>4
  <2> QED
    BY <2>1 DEF IdsAreUnique
<1>23. GoodSheet(new, n)
  <2>1. new \in Seq(Range(new))
    BY <1>18 DEF Joined
  <2>2. \A k \in DOMAIN new : GoodRow(new[k], n)
    BY <1>19, <1>20, <1>21
  <2> QED
    BY <1>22, <2>1, <2>2 DEF GoodSheet
<1>24. Merged(d, batch, t, new)
  <2>1. ASSUME NEW k \in DOMAIN new
        PROVE  \/ \E i : Stays(d, batch, t, i) /\ new[k] = RowThen(d, batch, t, i)
               \/ \E g : Brings(d, batch, t, g) /\ new[k] = NewRow(g)
    <3>1. CASE k \in DOMAIN A /\ new[k] = A[k]
      BY <1>5, <1>7, <1>10, <1>16, <3>1
    <3>2. CASE k - Len(A) \in DOMAIN B /\ new[k] = B[k - Len(A)]
      BY <1>6, <1>8, <1>11, <1>17, <3>2
    <3> QED
      BY <1>19, <3>1, <3>2
  <2>2. ASSUME NEW i, Stays(d, batch, t, i)
        PROVE  \E k \in DOMAIN new : new[k] = RowThen(d, batch, t, i)
    BY <1>5, <1>7, <1>10, <1>16, <1>19, <2>2
  <2>3. ASSUME NEW g, Brings(d, batch, t, g)
        PROVE  \E k \in DOMAIN new : new[k] = NewRow(g)
    <3>1. PICK k \in DOMAIN order : order[k] = g
      BY <1>4, <2>3 DEF Brings
    <3>2. k \in added /\ brought[k] = NewRow(g)
      BY <1>6, <1>8, <2>3, <3>1
    <3>3. PICK m \in DOMAIN B : B[m] = brought[k]
      BY <1>17, <3>2
    <3>4. Len(A) + m \in DOMAIN new /\ new[Len(A) + m] = B[m]
      BY <1>19
    <3> QED
      BY <3>2, <3>3, <3>4
  <2> QED
    BY <2>1, <2>2, <2>3 DEF Merged
<1> QED
  BY <1>23, <1>24 DEF new

(* What w decides of a row, and whether the batch brought it. *)
DecidedBy(g, w, d) ==
  /\ Plain(g.known) /\ Decides(g.known, w)
  /\ w.op = "delete" => M!Deleted(g.known) = {w} /\ M!BaseUpsert(g.known) = {}
  /\ w.op = "upsert" => M!Deleted(g.known) = {} /\ M!BaseUpsert(g.known) = {w}
  /\ M!RowWinner(g.known) = {w}
  /\ w \in g.remote <=> w \notin log[d]

(* What decides a row among all entries decides it among those the merge   *)
(* knows of.                                                               *)
LEMMA KnownDecides ==
  ASSUME NEW d, NEW batch, NEW t, NEW W, Plain(W), log[d] \cup batch \subseteq W,
         NEW w \in log[d] \cup batch, w.table = t, Decides(OfRow(W, t, w.id), w),
         NEW g, IsAbout(g, d, batch, t, w.id)
  PROVE  DecidedBy(g, w, d)
<1>1. g.known = OfRow(log[d] \cup batch, t, w.id) /\ g.remote = OfRow(batch \ log[d], t, w.id)
  BY DEF IsAbout
<1>2. g.known \subseteq OfRow(W, t, w.id) /\ w \in g.known
  BY <1>1 DEF OfRow
<1>3. Plain(g.known)
  BY <1>2 DEF Plain, OfRow
<1>4. Decides(g.known, w)
  BY <1>2 DEF Decides
<1>5. w \in g.remote <=> w \notin log[d]
  BY <1>1 DEF OfRow
<1> QED
  BY <1>3, <1>4, <1>5, WinnerIs DEF DecidedBy

(* A row that is deleted goes, and no action brings it. *)
LEMMA DeletedRowGoes ==
  ASSUME NEW d, NEW batch, NEW t, NEW W, Plain(W), log[d] \cup batch \subseteq W,
         NEW w \in log[d] \cup batch, w.table = t, Decides(OfRow(W, t, w.id), w),
         NEW g, IsAbout(g, d, batch, t, w.id), w.op = "delete"
  PROVE  ~Rewrites(g) /\ (w \notin log[d] => Deletes(g))
<1>1. /\ M!Deleted(g.known) = {w} /\ M!BaseUpsert(g.known) = {}
      /\ w \in g.remote <=> w \notin log[d]
  <2>1. DecidedBy(g, w, d)
    BY KnownDecides
  <2> QED
    BY <2>1 DEF DecidedBy
<1> QED
  BY <1>1 DEF Rewrites, Deletes

(* A row that is there stays, and is rewritten if the batch brought it. *)
LEMMA UpsertedRowStays ==
  ASSUME NEW d, NEW batch, NEW t, NEW W, Plain(W), log[d] \cup batch \subseteq W,
         NEW w \in log[d] \cup batch, w.table = t, Decides(OfRow(W, t, w.id), w),
         NEW g, IsAbout(g, d, batch, t, w.id), w.op = "upsert"
  PROVE  /\ ~Deletes(g)
         /\ w \in log[d] => ~Rewrites(g)
         /\ w \notin log[d] => Rewrites(g) /\ HasAction(g)
<1>1. /\ M!Deleted(g.known) = {} /\ M!BaseUpsert(g.known) = {w} /\ M!RowWinner(g.known) = {w}
      /\ w \in g.remote <=> w \notin log[d]
  <2>1. DecidedBy(g, w, d)
    BY KnownDecides
  <2> QED
    BY <2>1 DEF DecidedBy
<1>2. ASSUME w \notin log[d]
      PROVE  w \in AppliedTo(g)
  BY <1>1, <1>2 DEF AppliedTo, M!Applied
<1> QED
  BY <1>1, <1>2 DEF Rewrites, Deletes, HasAction

(* v is what the merge shows in column c, and writes if the batch brought  *)
(* it to a row of the device.                                              *)
GivenBy(g, w, c, v, d) ==
  /\ ShownCell(g.known, c) = v.cells[c]
  /\ w \in log[d] /\ v \in log[d] => M!CellWinner(g.known, c) \cap g.remote = {}
  /\ w \in log[d] /\ v \notin log[d] =>
       SetsCells(g) /\ M!CellWinner(g.known, c) \cap g.remote # {}

(* Each column shows the value that counts. *)
LEMMA ColumnsOfAction ==
  ASSUME NEW d, NEW batch, NEW t, NEW W, Plain(W), log[d] \cup batch \subseteq W,
         NEW w \in log[d] \cup batch, w.table = t, Decides(OfRow(W, t, w.id), w),
         NEW g, IsAbout(g, d, batch, t, w.id), w.op = "upsert",
         NEW c \in Column, NEW v \in log[d] \cup batch, Shows(OfRow(W, t, w.id), w, c, v)
  PROVE  GivenBy(g, w, c, v, d)
<1>1. /\ Plain(g.known) /\ Decides(g.known, w)
      /\ M!Deleted(g.known) = {} /\ M!BaseUpsert(g.known) = {w} /\ M!RowWinner(g.known) = {w}
      /\ w \in g.remote <=> w \notin log[d]
  <2>1. DecidedBy(g, w, d)
    BY KnownDecides
  <2> QED
    BY <2>1 DEF DecidedBy
<1>2. g.known = OfRow(log[d] \cup batch, t, w.id) /\ g.remote = OfRow(batch \ log[d], t, w.id)
  BY DEF IsAbout
<1>3. g.known \subseteq OfRow(W, t, w.id) /\ v \in g.known
  BY <1>2 DEF OfRow, Shows
<1>4. Shows(g.known, w, c, v)
  BY <1>3 DEF Shows
<1>5. /\ ShownCell(g.known, c) = v.cells[c]
      /\ v = w => M!CellWinner(g.known, c) = {}
      /\ v # w => M!CellWinner(g.known, c) = {v}
  BY <1>1, <1>4, ShownIs
<1>6. v \in g.remote <=> v \notin log[d]
  BY <1>2, <1>3 DEF OfRow
<1>7. ASSUME w \in log[d], v \notin log[d]
      PROVE  SetsCells(g) /\ M!CellWinner(g.known, c) \cap g.remote # {}
  <2>1. M!CellWinner(g.known, c) = {v} /\ v \in g.remote
    BY <1>5, <1>6, <1>7
  <2>2. M!BaseUpsert(g.known) \cap g.remote = {} /\ ~M!Unplaceable(g.known, FALSE)
    BY <1>1, <1>7 DEF M!Unplaceable
  <2> QED
    BY <1>1, <2>1, <2>2 DEF SetsCells, M!SetsCells
<1>8. w \in log[d] /\ v \in log[d] => M!CellWinner(g.known, c) \cap g.remote = {}
  BY <1>5, <1>6
<1> QED
  BY <1>5, <1>7, <1>8 DEF GivenBy

(* So the merged table is as the two logs together say. *)
LEMMA MergedTells ==
  ASSUME NEW n, NEW d, NEW batch, NEW t, NEW W, NEW new, Plain(W), log[d] \cup batch \subseteq W,
         GoodSheet(disk[d][t], n), Tells(log[d], W, t, disk[d][t]), Merged(d, batch, t, new)
  PROVE  Tells(log[d] \cup batch, W, t, new)
<1> DEFINE sheet == disk[d][t]
           At(id) == GroupAt(d, batch, t, id)
<1>1. /\ \A k \in DOMAIN new : \/ \E i : Stays(d, batch, t, i) /\ new[k] = RowThen(d, batch, t, i)
                               \/ \E g : Brings(d, batch, t, g) /\ new[k] = NewRow(g)
      /\ \A i : Stays(d, batch, t, i) => \E k \in DOMAIN new : new[k] = RowThen(d, batch, t, i)
      /\ \A g : Brings(d, batch, t, g) => \E k \in DOMAIN new : new[k] = NewRow(g)
  BY DEF Merged
<1>2. \A id : IsAbout(At(id), d, batch, t, id)
  BY GroupAtFacts
<1>3. ASSUME NEW i, Stays(d, batch, t, i)
      PROVE  /\ i \in DOMAIN sheet /\ ~Deletes(At(sheet[i].id))
             /\ RowThen(d, batch, t, i) = ApplyRowAction(sheet[i], At(sheet[i].id))
             /\ RowThen(d, batch, t, i).id = sheet[i].id
  <2> DEFINE row == sheet[i]
             g == At(row.id)
  <2>1. i \in DOMAIN sheet /\ ~Deletes(g) /\ RowThen(d, batch, t, i) = ApplyRowAction(row, g)
    BY <1>3 DEF Stays, RowThen
  <2>2. g.row.id = row.id /\ GoodRow(row, n)
    BY <1>2, <2>1 DEF IsAbout, GoodSheet
  <2> HIDE DEF g, row
  <2>3. ApplyRowAction(row, g).id = row.id
    BY <2>2, ActionKeepsRow
  <2> QED
    BY <2>1, <2>3 DEF g, row
<1>4. ASSUME NEW g, Brings(d, batch, t, g)
      PROVE  /\ g = At(g.row.id) /\ NewRow(g).id = g.row.id /\ Rewrites(g)
             /\ \A i \in DOMAIN sheet : sheet[i].id # g.row.id
             /\ NewRow(g) = RowOf(g.row.id, [c \in Column |-> ShownCell(g.known, c)])
  <2>1. g \in Grouped(d, batch) /\ g.row.table = t /\ Rewrites(g)
        /\ \A i \in DOMAIN sheet : sheet[i].id # g.row.id
    BY <1>4 DEF Brings, Acting
  <2>2. IsGroup(g, d, batch)
    BY <2>1, GroupFacts
  <2>3. g = At(g.row.id)
    BY <2>1, <2>2 DEF IsGroup, GroupAt
  <2>4. NewRow(g) = RowOf(g.row.id, [c \in Column |-> ShownCell(g.known, c)])
    BY DEF NewRow
  <2>5. NewRow(g).id = g.row.id
    <3> DEFINE cells == [c \in Column |-> ShownCell(g.known, c)]
               id == g.row.id
    <3>1. NewRow(g) = RowOf(id, cells)
      BY <2>4
    <3> HIDE DEF cells, id
    <3>2. NewRow(g).id = id
      BY <3>1, RowOfGives
    <3> QED
      BY <3>2 DEF id
  <2> QED
    BY <2>1, <2>3, <2>4, <2>5
<1>5. ASSUME NEW g, Rewrites(g), IsAbout(g, d, batch, t, g.row.id)
      PROVE  \E e \in OfRow(W, t, g.row.id) : e.op # "cell"
  <2>1. PICK e \in M!BaseUpsert(g.known) : e \in g.remote
    BY <1>5 DEF Rewrites
  <2>2. e.op = "upsert"
    BY <2>1 DEF M!BaseUpsert, M!Upserts
  <2>3. e \in OfRow(W, t, g.row.id)
    BY <1>5, <2>1 DEF IsAbout, OfRow
  <2> QED
    BY <2>2, <2>3
<1> HIDE DEF At
<1>6. ASSUME NEW k \in DOMAIN new
      PROVE  \E e \in OfRow(W, t, new[k].id) : e.op # "cell"
  <2>1. ASSUME NEW i, Stays(d, batch, t, i), new[k] = RowThen(d, batch, t, i)
        PROVE  \E e \in OfRow(W, t, new[k].id) : e.op # "cell"
    <3>1. i \in DOMAIN sheet /\ new[k].id = sheet[i].id
      BY <1>3, <2>1
    <3>2. \E e \in OfRow(W, t, sheet[i].id) : e.op # "cell"
      BY <3>1 DEF Tells
    <3> QED
      BY <3>1, <3>2
  <2>2. ASSUME NEW g, Brings(d, batch, t, g), new[k] = NewRow(g)
        PROVE  \E e \in OfRow(W, t, new[k].id) : e.op # "cell"
    <3>1. g = At(g.row.id) /\ new[k].id = g.row.id /\ Rewrites(g)
      BY <1>4, <2>2
    <3>2. IsAbout(g, d, batch, t, g.row.id)
      BY <1>2, <3>1
    <3> QED
      BY <1>5, <3>1, <3>2
  <2> QED
    BY <1>1, <2>1, <2>2
<1>7. ASSUME NEW w \in log[d] \cup batch, w.table = t, Decides(OfRow(W, t, w.id), w),
             w.op = "delete", NEW k \in DOMAIN new
      PROVE  new[k].id # w.id
  <2>1. IsAbout(At(w.id), d, batch, t, w.id)
    BY <1>2
  <2>2. ~Rewrites(At(w.id)) /\ (w \notin log[d] => Deletes(At(w.id)))
    BY <1>7, <2>1, DeletedRowGoes
  <2>3. ASSUME NEW i, Stays(d, batch, t, i), new[k] = RowThen(d, batch, t, i), new[k].id = w.id
        PROVE  FALSE
    <3>1. i \in DOMAIN sheet /\ sheet[i].id = w.id /\ ~Deletes(At(w.id))
      BY <1>3, <2>3
    <3>2. w \in log[d]
      BY <2>2, <3>1
    <3> QED
      BY <1>7, <3>1, <3>2 DEF Tells
  <2>4. ASSUME NEW g, Brings(d, batch, t, g), new[k] = NewRow(g), new[k].id = w.id
        PROVE  FALSE
    BY <1>4, <2>2, <2>4
  <2> QED
    BY <1>1, <2>3, <2>4
<1>8. ASSUME NEW w \in log[d] \cup batch, w.table = t, Decides(OfRow(W, t, w.id), w),
             w.op = "upsert"
      PROVE  /\ \E k \in DOMAIN new : new[k].id = w.id
             /\ \A k \in DOMAIN new : new[k].id = w.id =>
                  \A c \in Column : \A v \in log[d] \cup batch :
                    Shows(OfRow(W, t, w.id), w, c, v) => new[k][c] = v.cells[c]
  <2> DEFINE g == At(w.id)
  <2>1. IsAbout(g, d, batch, t, w.id)
    BY <1>2
  <2>2. g = GroupAt(d, batch, t, w.id)
    BY DEF At
  <2> HIDE DEF g
  <2>3. /\ ~Deletes(g)
        /\ w \in log[d] => ~Rewrites(g)
        /\ w \notin log[d] => Rewrites(g) /\ HasAction(g)
    BY <1>8, <2>1, UpsertedRowStays
  <2>4. g.row.id = w.id /\ g.row.table = t
    BY <2>1 DEF IsAbout
  <2>5. w \in log[d] => \E i \in DOMAIN sheet : sheet[i].id = w.id
    BY <1>8 DEF Tells
  <2>6. \A i \in DOMAIN sheet : sheet[i].id = w.id => Stays(d, batch, t, i)
    BY <2>2, <2>3 DEF Stays
  <2>7. ASSUME \A i \in DOMAIN sheet : sheet[i].id # w.id
        PROVE  Brings(d, batch, t, g)
    <3>1. w \in batch \ log[d] /\ Rewrites(g) /\ HasAction(g)
      BY <2>3, <2>5, <2>7
    <3>2. g \in Grouped(d, batch)
      BY <1>8, <2>2, <3>1 DEF Grouped, Touched, GroupAt
    <3> QED
      BY <2>4, <2>7, <3>1, <3>2 DEF Brings, Acting
  <2>8. \E k \in DOMAIN new : new[k].id = w.id
    <3>1. CASE \E i \in DOMAIN sheet : sheet[i].id = w.id
      <4>1. PICK i \in DOMAIN sheet : sheet[i].id = w.id
        BY <3>1
      <4>2. PICK k \in DOMAIN new : new[k] = RowThen(d, batch, t, i)
        BY <1>1, <2>6, <4>1
      <4> QED
        BY <1>3, <2>6, <4>1, <4>2
    <3>2. CASE \A i \in DOMAIN sheet : sheet[i].id # w.id
      <4>1. PICK k \in DOMAIN new : new[k] = NewRow(g)
        BY <1>1, <2>7, <3>2
      <4> QED
        BY <1>4, <2>4, <2>7, <3>2, <4>1
    <3> QED
      BY <3>1, <3>2
  <2>9. ASSUME NEW k \in DOMAIN new, new[k].id = w.id, NEW c \in Column,
               NEW v \in log[d] \cup batch, Shows(OfRow(W, t, w.id), w, c, v)
        PROVE  new[k][c] = v.cells[c]
    <3>1. /\ ShownCell(g.known, c) = v.cells[c]
          /\ w \in log[d] /\ v \in log[d] => M!CellWinner(g.known, c) \cap g.remote = {}
          /\ w \in log[d] /\ v \notin log[d] =>
               SetsCells(g) /\ M!CellWinner(g.known, c) \cap g.remote # {}
      <4>1. GivenBy(g, w, c, v, d)
        BY <1>8, <2>1, <2>9, ColumnsOfAction
      <4> QED
        BY <4>1 DEF GivenBy
    <3> DEFINE cells == [x \in Column |-> ShownCell(g.known, x)]
    <3>2. NewRow(g)[c] = v.cells[c]
      <4> DEFINE id == w.id
      <4>1. NewRow(g) = RowOf(id, cells) /\ cells[c] = ShownCell(g.known, c)
        BY <2>4 DEF NewRow
      <4> HIDE DEF cells, id
      <4>2. RowOf(id, cells)[c] = cells[c]
        BY <2>9 DEF RowOf, Column
      <4> QED
        BY <3>1, <4>1, <4>2
    <3>3. ASSUME NEW i, Stays(d, batch, t, i), new[k] = RowThen(d, batch, t, i)
          PROVE  new[k][c] = v.cells[c]
      <4>1. /\ i \in DOMAIN sheet /\ sheet[i].id = w.id
            /\ new[k] = ApplyRowAction(sheet[i], At(sheet[i].id))
        BY <1>3, <2>9, <3>3
      <4>2. new[k] = ApplyRowAction(sheet[i], g)
        BY <4>1 DEF g
      <4>3. CASE w \notin log[d]
        <5>1. Rewrites(g)
          BY <2>3, <4>3
        <5> QED
          BY <3>2, <4>2, <5>1 DEF ApplyRowAction
      <4>4. CASE w \in log[d]
        <5>1. ~Rewrites(g)
          BY <2>3, <4>4
        <5>2. c \in DOMAIN sheet[i]
          <6>1. GoodRow(sheet[i], n)
            BY <4>1 DEF GoodSheet
          <6> QED
            BY <6>1, RowFacts
        <5>3. CASE v \in log[d]
          <6>1. sheet[i][c] = v.cells[c]
            BY <1>8, <2>9, <4>1, <4>4, <5>3 DEF Tells
          <6>2. c \notin DOMAIN WonCells(g)
            BY <3>1, <4>4, <5>3 DEF WonCells
          <6>3. WithCells(sheet[i], WonCells(g))[c] = sheet[i][c]
            BY <5>2, <6>2 DEF WithCells
          <6> QED
            BY <4>2, <5>1, <6>1, <6>3 DEF ApplyRowAction
        <5>4. CASE v \notin log[d]
          <6>1. SetsCells(g) /\ M!CellWinner(g.known, c) \cap g.remote # {}
            BY <3>1, <4>4, <5>4
          <6>2. c \in DOMAIN WonCells(g) /\ WonCells(g)[c] = ShownCell(g.known, c)
            BY <6>1 DEF WonCells
          <6>3. WithCells(sheet[i], WonCells(g))[c] = WonCells(g)[c]
            BY <5>2, <6>2 DEF WithCells
          <6> QED
            BY <3>1, <4>2, <5>1, <6>1, <6>2, <6>3 DEF ApplyRowAction
        <5> QED
          BY <5>3, <5>4
      <4> QED
        BY <4>3, <4>4
    <3>4. ASSUME NEW h, Brings(d, batch, t, h), new[k] = NewRow(h)
          PROVE  new[k][c] = v.cells[c]
      <4>1. h = At(h.row.id) /\ h.row.id = w.id
        BY <1>4, <2>9, <3>4
      <4>2. h = g
        BY <4>1 DEF g
      <4> QED
        BY <3>2, <3>4, <4>2
    <3> QED
      BY <1>1, <3>3, <3>4
  <2> QED
    BY <2>8, <2>9
<1> QED
  BY <1>6, <1>7, <1>8, Zenon DEF Tells

-----------------------------------------------------------------------------
(* A merge                                                                 *)

(* The file a merge writes is a good one, and it tells the logs of both,   *)
(* where no request of the device is under way and its log told the file.  *)
LEMMA MergedFile ==
  ASSUME IInv, NEW from \in Device, NEW to \in Device, steps[to] = <<>>, NEW t \in Table
  PROVE  /\ GoodSheet(Prepared(to, log[from])[t], requests)
         /\ to \notin marked \cup astray =>
              Tells(log[to] \cup log[from], Heard(to) \cup log[from], t,
                    Prepared(to, log[from])[t])
<1> DEFINE batch == log[from]
           order == Actions(to, batch)
           W == Heard(to) \cup batch
           new == WithActions(to, batch, t, order)
<1>1. Typed /\ StampsTell /\ RequestsAreCoherent
  BY DEF IInv
<1>2. /\ log[to] \subseteq Heard(to) /\ Heard(to) \subseteq Everything /\ batch \subseteq Everything
      /\ IsFiniteSet(batch) /\ IsFiniteSet(log[to]) /\ Timed(log[to])
      /\ \A e \in Everything : e.id \in 1..requests
  BY <1>1, LogFacts
<1>3. Plain(Everything)
  <2>1. Device \subseteq Nat
    BY NetWorthAssumption
  <2> QED
    BY <1>1, <2>1 DEF Typed, GoodEntry, Plain
<1>4. Plain(batch) /\ Distinct(batch)
  BY <1>1, <1>2, <1>3 DEF Plain, StampsTell, Distinct
<1>5. Plain(W) /\ log[to] \cup batch \subseteq W /\ Heard(to) \subseteq W
  BY <1>2, <1>3 DEF Plain
<1>6. GoodSheet(disk[to][t], requests) /\ \A e \in batch : e.id \in 1..requests
  BY <1>1, <1>2 DEF Typed, GoodFrames
<1>7. Prepared(to, batch)[t] = new
  BY DEF Prepared
<1> HIDE DEF batch, order, W, new
<1>8. Enumerates(order, Acting(to, batch))
  BY <1>2, <1>4, PlanHasEachAction DEF order
<1>9. Merged(to, batch, t, new) /\ GoodSheet(new, requests)
  BY <1>6, <1>8, MergedSheet DEF new
<1>10. ASSUME to \notin marked \cup astray
       PROVE  Tells(log[to] \cup batch, W, t, new)
  <2>1. Coherent(<<>>, disk[to], log[to], Heard(to), to)
    BY <1>1, <1>10 DEF RequestsAreCoherent
  <2>2. Tells(log[to], Heard(to), t, disk[to][t])
    BY <1>2, <2>1, IdleTells
  <2>3. Tells(log[to], W, t, disk[to][t])
    BY <1>2, <1>5, <2>2, TellsLess
  <2> QED
    BY <1>5, <1>6, <1>9, <2>3, MergedTells
<1>11. /\ GoodSheet(Prepared(to, batch)[t], requests)
       /\ to \notin marked \cup astray =>
            Tells(log[to] \cup batch, Heard(to) \cup batch, t, Prepared(to, batch)[t])
  BY <1>7, <1>9, <1>10 DEF W
<1> QED
  BY <1>11 DEF batch

(* The clock is then not behind what the batch brought. *)
LEMMA ObservedIs ==
  ASSUME NEW d \in Device, clock \in [Device -> Nat], NEW batch, IsFiniteSet(batch), Timed(batch)
  PROVE  /\ Observed(d, batch) \in Nat /\ clock[d] <= Observed(d, batch)
         /\ \A e \in batch : e.key.time <= Observed(d, batch)
<1>1. LargestTime(batch) \in Nat /\ \A e \in batch : e.key.time <= LargestTime(batch)
  BY LargestTimeIs
<1>2. /\ Observed(d, batch) \in Nat /\ clock[d] <= Observed(d, batch)
      /\ LargestTime(batch) <= Observed(d, batch)
  BY <1>1 DEF Observed
<1>3. \A e \in batch : e.key.time \in Nat
  BY DEF Timed
<1> QED
  BY <1>1, <1>2, <1>3

(* A merge. *)
LEMMA MergeKeepsIInv ==
  ASSUME IInv, NEW from \in Device, NEW to \in Device, Merge(from, to)
  PROVE  IInv'
<1> DEFINE new == Prepared(to, log[from])
           time == Observed(to, log[from])
<1>1. /\ disk' = [disk EXCEPT ![to] = new]
      /\ log' = [log EXCEPT ![to] = log[to] \cup log[from]]
      /\ clock' = [clock EXCEPT ![to] = time]
      /\ page' = page /\ steps' = steps /\ marked' = marked /\ astray' = astray
      /\ requests' = requests /\ failures' = failures /\ steps[to] = <<>>
      /\ apart' = (apart \/ steps[from] # <<>>)
  BY DEF Merge, CanMerge
<1>2. Typed /\ StampsTell /\ RequestsAreCoherent
  BY DEF IInv
<1>3. DOMAIN disk = Device /\ DOMAIN log = Device /\ clock \in [Device -> Nat]
  BY <1>2 DEF Typed
<1>4. /\ disk'[to] = new /\ log'[to] = log[to] \cup log[from] /\ clock'[to] = time
      /\ DOMAIN disk' = Device /\ DOMAIN log' = Device
      /\ \A d \in Device : d # to => disk'[d] = disk[d] /\ log'[d] = log[d] /\ clock'[d] = clock[d]
  BY <1>1, <1>3
<1>5. /\ time \in Nat /\ clock[to] <= time /\ \A e \in log[from] : e.key.time <= time
  <2>1. IsFiniteSet(log[from]) /\ Timed(log[from])
    BY <1>2, LogFacts
  <2> QED
    BY <1>3, <2>1, ObservedIs
<1>6. clock' \in [Device -> Nat]
  BY <1>1, <1>3, <1>5
<1>7. \A t \in Table :
        /\ GoodSheet(new[t], requests)
        /\ to \notin marked \cup astray =>
             Tells(log[to] \cup log[from], Heard(to) \cup log[from], t, new[t])
  BY <1>1, MergedFile
<1>8. DOMAIN new = Table
  BY DEF Prepared
<1> HIDE DEF new, time
<1>9. Everything' = Everything
  <2>1. Everything' = UNION {log'[d] : d \in Device}
    BY DEF Everything
  <2>2. \A x : x \in Everything <=> \E d \in Device : x \in log[d]
    BY DEF Everything
  <2>3. \A x : x \in Everything' <=> \E d \in Device : x \in log'[d]
    BY <2>1
  <2>4. \A x : x \in Everything' <=> x \in Everything
    BY <1>4, <2>2, <2>3
  <2> QED
    BY <2>4
<1>10. Typed'
  <2>1. \A d \in Device : GoodFrames(disk'[d], requests')
    BY <1>1, <1>2, <1>4, <1>7, <1>8 DEF Typed, GoodFrames
  <2>2. \A d \in Device : GoodSteps(steps'[d], requests')
    BY <1>1, <1>2 DEF Typed
  <2>3. /\ page' \in Page /\ requests' \in Nat /\ failures' \in Nat /\ DOMAIN steps' = Device
        /\ IsFiniteSet(Everything') /\ \A e \in Everything' : GoodEntry(e, requests')
    BY <1>1, <1>2, <1>9 DEF Typed
  <2> QED
    BY <1>4, <1>6, <2>1, <2>2, <2>3 DEF Typed
<1>11. StampsTell'
  <2>1. Distinct(Everything)'
    BY <1>2, <1>9 DEF StampsTell, Distinct
  <2>2. \A d \in Device : \A e \in Everything' : e.key.device = d => e \in log'[d]
    BY <1>2, <1>4, <1>9 DEF StampsTell
  <2>3. \A d \in Device : \A e \in log'[d] : e.key.time <= clock'[d]
    <3>1. ASSUME NEW e \in log[to]
          PROVE  e.key.time <= time
      <4>1. e.key.time \in Nat /\ e.key.time <= clock[to] /\ clock[to] \in Nat
        BY <1>2, <1>3, LogFacts DEF StampsTell, Timed
      <4> QED
        BY <1>5, <4>1
    <3> QED
      BY <1>2, <1>4, <1>5, <3>1 DEF StampsTell
  <2> QED
    BY <2>1, <2>2, <2>3 DEF StampsTell
<1>12. RequestsAreCoherent'
  <2>1. ASSUME NEW d \in Device \ (marked \cup astray)
        PROVE  Coherent(steps[d], disk'[d], log'[d], Heard(d)', d)
    <3>1. Coherent(steps[d], disk[d], log[d], Heard(d), d)
      BY <1>2 DEF RequestsAreCoherent
    <3>2. CASE d # to
      <4>1. Heard(d)' = Heard(d) \/ Heard(d)' = Everything
        BY <1>1, <1>4, <1>9, <3>2 DEF Heard
      <4>2. log[d] \subseteq Heard(d) /\ Heard(d) \subseteq Everything
        BY <1>2, LogFacts
      <4>3. Coherent(steps[d], disk[d], log[d], Heard(d)', d)
        BY <3>1, <4>1, <4>2, CoherentForMore
      <4> QED
        BY <1>4, <3>2, <4>3
    <3>3. CASE d = to
      <4>1. Heard(to) \cup log[from] \subseteq Heard(to)' /\ log[to] \subseteq Heard(to)
        <5>1. /\ log[from] \subseteq Everything /\ log[to] \subseteq Heard(to)
              /\ Heard(to) \subseteq Everything
          BY <1>2, LogFacts
        <5>2. CASE failures = 0 \/ ~apart'
          BY <1>1, <1>4, <5>1, <5>2 DEF Heard
        <5>3. CASE ~(failures = 0 \/ ~apart')
          <6>1. Heard(to)' = Everything
            BY <1>1, <1>9, <5>3 DEF Heard
          <6> QED
            BY <5>1, <6>1
        <5> QED
          BY <5>2, <5>3
      <4> DEFINE L == log[to] \cup log[from]
                 U == Heard(to) \cup log[from]
      <4>2. \A t \in Table : Tells(L, U, t, new[t])
        BY <1>7, <3>3
      <4>3. L \subseteq U /\ U \subseteq Heard(to)'
        BY <4>1
      <4> HIDE DEF L, U
      <4>4. Coherent(<<>>, new, L, U, to)
        BY <4>2, NoStepsAreCoherent
      <4>5. Coherent(<<>>, new, L, Heard(to)', to)
        BY <4>3, <4>4, CoherentForMore
      <4> QED
        BY <1>1, <1>4, <3>3, <4>5 DEF L
    <3> QED
      BY <3>2, <3>3
  <2> QED
    BY <1>1, <2>1 DEF RequestsAreCoherent
<1> QED
  BY <1>10, <1>11, <1>12 DEF IInv

(* A merge that fails after its first file: the log of the device does not *)
(* tell less than it did.                                                  *)
LEMMA MergeFailsKeepsIInv ==
  ASSUME IInv, NEW from \in Device, NEW to \in Device, MergeFails(from, to)
  PROVE  IInv'
<1> DEFINE first == Files(page)[1]
           new == Prepared(to, log[from])[first]
           f == [disk[to] EXCEPT ![first] = new]
           time == Observed(to, log[from])
<1>1. /\ disk' = [disk EXCEPT ![to][first] = new]
      /\ clock' = [clock EXCEPT ![to] = time] /\ failures' = failures + 1
      /\ page' = page /\ steps' = steps /\ marked' = marked /\ astray' = astray
      /\ requests' = requests /\ log' = log /\ steps[to] = <<>> /\ apart' = TRUE
  BY DEF MergeFails, CanMerge, Fails
<1>2. Typed /\ StampsTell /\ RequestsAreCoherent
  BY DEF IInv
<1>3. /\ DOMAIN disk = Device /\ clock \in [Device -> Nat] /\ DOMAIN disk[to] = Table
      /\ \A d \in Device : GoodFrames(disk[d], requests) /\ GoodSteps(steps[d], requests)
      /\ failures + 1 \in Nat /\ failures + 1 # 0 /\ page \in Page
  BY <1>2 DEF Typed, GoodFrames
<1>4. first \in Table
  BY <1>3, PagesHaveTables, NetWorthAssumption DEF Files, Table
<1>5. /\ GoodSheet(new, requests)
      /\ to \notin marked \cup astray =>
           Tells(log[to] \cup log[from], Heard(to) \cup log[from], first, new)
  BY <1>1, <1>4, MergedFile
<1>6. /\ time \in Nat /\ clock[to] <= time
  <2>1. IsFiniteSet(log[from]) /\ Timed(log[from])
    BY <1>2, LogFacts
  <2> QED
    BY <1>3, <2>1, ObservedIs
<1>7. /\ disk'[to] = f /\ clock'[to] = time /\ DOMAIN disk' = Device /\ clock' \in [Device -> Nat]
      /\ \A d \in Device : d # to => disk'[d] = disk[d] /\ clock'[d] = clock[d]
  BY <1>1, <1>3, <1>6
<1>8. /\ DOMAIN f = Table /\ f[first] = new
      /\ \A t \in Table : t # first => f[t] = disk[to][t]
  BY <1>3, <1>4
<1> HIDE DEF first, new, f, time
<1>9. Everything' = Everything /\ \A d \in Device : Heard(d)' = Everything
  BY <1>1, <1>3 DEF Everything, Heard
<1>10. Typed'
  <2>1. GoodFrames(f, requests)
    BY <1>3, <1>5, <1>8 DEF GoodFrames
  <2>2. \A d \in Device : GoodFrames(disk'[d], requests') /\ GoodSteps(steps'[d], requests')
    BY <1>1, <1>3, <1>7, <2>1
  <2>3. /\ page' \in Page /\ requests' \in Nat /\ failures' \in Nat /\ DOMAIN log' = Device
        /\ DOMAIN steps' = Device /\ IsFiniteSet(Everything')
        /\ \A e \in Everything' : GoodEntry(e, requests')
    BY <1>1, <1>2, <1>3, <1>9 DEF Typed
  <2> QED
    BY <1>7, <2>2, <2>3 DEF Typed
<1>11. StampsTell'
  <2>1. Distinct(Everything)'
    BY <1>2, <1>9 DEF StampsTell, Distinct
  <2>2. \A d \in Device : \A e \in log[d] : e.key.time <= clock'[d]
    <3>1. ASSUME NEW e \in log[to]
          PROVE  e.key.time <= time
      <4>1. e.key.time \in Nat /\ e.key.time <= clock[to] /\ clock[to] \in Nat
        BY <1>2, <1>3, LogFacts DEF StampsTell, Timed
      <4> QED
        BY <1>6, <4>1
    <3> QED
      BY <1>2, <1>7, <3>1 DEF StampsTell
  <2> QED
    BY <1>1, <1>2, <1>9, <2>1, <2>2 DEF StampsTell
<1>12. RequestsAreCoherent'
  <2>1. ASSUME NEW d \in Device \ (marked \cup astray)
        PROVE  Coherent(steps[d], disk'[d], log[d], Everything, d)
    <3>1. log[d] \subseteq Heard(d) /\ Heard(d) \subseteq Everything /\ log[d] \subseteq Everything
      BY <1>2, LogFacts
    <3>2. Coherent(steps[d], disk[d], log[d], Everything, d)
      <4>1. Coherent(steps[d], disk[d], log[d], Heard(d), d)
        BY <1>2 DEF RequestsAreCoherent
      <4> QED
        BY <3>1, <4>1, CoherentForMore
    <3>3. CASE d # to
      BY <1>7, <3>2, <3>3
    <3>4. CASE d = to
      <4> DEFINE L == log[to]
                 both == log[to] \cup log[from]
                 U == Heard(to) \cup log[from]
      <4>1. Tells(both, U, first, new)
        BY <1>5, <3>4
      <4>2. L \subseteq both /\ L \subseteq U /\ U \subseteq Everything
        BY <3>1, <3>4 DEF Everything
      <4>3. IsFiniteSet(L) /\ Timed(L)
        BY <1>2, LogFacts
      <4>4. Coherent(<<>>, disk[to], L, Everything, to)
        BY <1>1, <3>2, <3>4
      <4> HIDE DEF L, both, U
      <4>5. Tells(L, Everything, first, new)
        BY <4>1, <4>2, TellsLess
      <4>6. \A t \in Table : Tells(L, Everything, t, disk[to][t])
        BY <4>3, <4>4, IdleTells
      <4>7. \A t \in Table : Tells(L, Everything, t, f[t])
        BY <1>8, <4>5, <4>6
      <4>8. Coherent(<<>>, f, L, Everything, to)
        BY <4>7, NoStepsAreCoherent
      <4> QED
        BY <1>1, <1>7, <3>4, <4>8 DEF L
    <3> QED
      BY <3>3, <3>4
  <2> QED
    BY <1>1, <1>9, <2>1 DEF RequestsAreCoherent
<1> QED
  BY <1>10, <1>11, <1>12 DEF IInv

-----------------------------------------------------------------------------
(* What the invariant says                                                 *)

(* If a row is spoken of as a whole, an entry decides it. *)
LEMMA DeciderExists ==
  ASSUME NEW S, IsFiniteSet(S), Plain(S), Distinct(S), NEW e \in S, e.op # "cell"
  PROVE  \E w : Decides(S, w)
<1> DEFINE R == {x \in S : x.op # "cell"}
<1>1. R \subseteq S /\ e \in R
  OBVIOUS
<1>2. \A x : x \in R <=> x \in S /\ x.op # "cell"
  OBVIOUS
<1> HIDE DEF R
<1>3. IsFiniteSet(R) /\ R # {} /\ Plain(R)
  BY <1>1, FS_Subset DEF Plain
<1>4. PICK w \in R : w \in M!Newest(R)
  BY <1>3, NewestExists
<1>5. \A x \in R : ~M!Precedes(w, x)
  BY <1>4 DEF M!Newest
<1>6. \A x, y \in S : x = y \/ M!Precedes(x, y) \/ M!Precedes(y, x)
  BY StampsAreOrdered
<1>7. Decides(S, w)
  BY <1>1, <1>2, <1>5, <1>6 DEF Decides
<1> QED
  BY <1>7

(* And over an upsert that does, one gives the value of each column. *)
LEMMA ValueExists ==
  ASSUME NEW S, IsFiniteSet(S), Plain(S), Distinct(S), NEW w, Decides(S, w), NEW c
  PROVE  \E v : Shows(S, w, c, v)
<1> DEFINE R == {x \in S : x.op = "cell" /\ x.column = c /\ M!Precedes(w, x)}
<1>1. R \subseteq S /\ w \in S
  BY DEF Decides
<1>2. \A x : x \in R <=> x \in S /\ x.op = "cell" /\ x.column = c /\ M!Precedes(w, x)
  OBVIOUS
<1> HIDE DEF R
<1>3. CASE R = {}
  <2>1. Shows(S, w, c, w)
    BY <1>1, <1>2, <1>3 DEF Shows
  <2> QED
    BY <2>1
<1>4. CASE R # {}
  <2>1. IsFiniteSet(R) /\ Plain(R)
    BY <1>1, FS_Subset DEF Plain
  <2>2. PICK v \in R : v \in M!Newest(R)
    BY <1>4, <2>1, NewestExists
  <2>3. \A x \in R : ~M!Precedes(v, x)
    BY <2>2 DEF M!Newest
  <2>4. \A x, y \in S : x = y \/ M!Precedes(x, y) \/ M!Precedes(y, x)
    BY StampsAreOrdered
  <2>5. \A x \in R : x = v \/ M!Precedes(x, v)
    BY <1>1, <2>3, <2>4
  <2>6. Shows(S, w, c, v)
    BY <1>2, <2>2, <2>5 DEF Shows
  <2> QED
    BY <2>6
<1> QED
  BY <1>3, <1>4

(* The row that the entries L describe. *)
RowTold(L, t, id) == RowOf(id, [c \in Column |-> ShownCell(OfRow(L, t, id), c)])

(* The rows of a table that a log tells are those that the log describes.  *)
LEMMA ToldRows ==
  ASSUME NEW n, NEW L, NEW t, NEW sheet, GoodSheet(sheet, n), Tells(L, L, t, sheet),
         IsFiniteSet(L), Plain(L), Distinct(L)
  PROVE  /\ \A i \in DOMAIN sheet : /\ M!BaseUpsert(OfRow(L, t, sheet[i].id)) # {}
                                    /\ sheet[i] = RowTold(L, t, sheet[i].id)
         /\ \A id : M!BaseUpsert(OfRow(L, t, id)) # {} =>
              \E i \in DOMAIN sheet : sheet[i].id = id
<1>1. ASSUME NEW id
      PROVE  /\ IsFiniteSet(OfRow(L, t, id)) /\ Plain(OfRow(L, t, id))
             /\ Distinct(OfRow(L, t, id)) /\ OfRow(L, t, id) \subseteq L
             /\ \A e \in OfRow(L, t, id) : e.table = t /\ e.id = id
  <2> DEFINE S == OfRow(L, t, id)
  <2>1. S \subseteq L /\ \A e \in S : e.table = t /\ e.id = id
    BY DEF OfRow
  <2> HIDE DEF S
  <2>2. IsFiniteSet(S) /\ Plain(S) /\ Distinct(S)
    BY <2>1, FS_Subset DEF Plain, Distinct
  <2> QED
    BY <2>1, <2>2 DEF S
<1>2. ASSUME NEW i \in DOMAIN sheet
      PROVE  /\ M!BaseUpsert(OfRow(L, t, sheet[i].id)) # {}
             /\ sheet[i] = RowTold(L, t, sheet[i].id)
  <2> DEFINE id == sheet[i].id
             S == OfRow(L, t, id)
             cells == [c \in Column |-> ShownCell(S, c)]
  <2>1. PICK e \in S : e.op # "cell"
    BY DEF Tells
  <2>2. /\ IsFiniteSet(S) /\ Plain(S) /\ Distinct(S) /\ S \subseteq L
        /\ \A x \in S : x.table = t /\ x.id = id
    BY <1>1
  <2>3. \A w : Decides(S, w) => w \in S
    BY DEF Decides
  <2>4. \A w \in L : w.table = t /\ w.id = id /\ Decides(S, w) =>
          /\ w.op # "delete"
          /\ w.op = "upsert" =>
               \A c \in Column : \A v \in L : Shows(S, w, c, v) => sheet[i][c] = v.cells[c]
    BY DEF Tells
  <2>5. GoodRow(sheet[i], n)
    BY DEF GoodSheet
  <2>6. RowTold(L, t, id) = RowOf(id, cells)
    BY DEF RowTold
  <2> HIDE DEF S
  <2>7. PICK w : Decides(S, w)
    BY <2>1, <2>2, DeciderExists
  <2>8. w \in S /\ w \in L /\ w.table = t /\ w.id = id
    BY <2>2, <2>3, <2>7
  <2>9. w.op = "upsert"
    <3>1. w.op \in {"upsert", "delete", "cell"} /\ w.op # "cell"
      BY <2>2, <2>7, <2>8 DEF Plain, Decides
    <3> QED
      BY <2>4, <2>7, <2>8, <3>1
  <2>10. M!BaseUpsert(S) = {w}
    BY <2>2, <2>7, <2>9, WinnerIs
  <2>11. \A c \in Column : sheet[i][c] = ShownCell(S, c)
    <3>1. ASSUME NEW c \in Column
          PROVE  sheet[i][c] = ShownCell(S, c)
      <4>1. PICK v : Shows(S, w, c, v)
        BY <2>2, <2>7, ValueExists
      <4>2. v \in L
        BY <2>2, <4>1 DEF Shows
      <4>3. ShownCell(S, c) = v.cells[c]
        BY <2>2, <2>7, <2>9, <4>1, ShownIs
      <4> QED
        BY <2>4, <2>7, <2>8, <2>9, <4>1, <4>2, <4>3
    <3> QED
      BY <3>1
  <2>12. [c \in Column |-> sheet[i][c]] = cells
    BY <2>11
  <2>13. sheet[i] = RowOf(id, [c \in Column |-> sheet[i][c]])
    BY <2>5 DEF GoodRow
  <2> HIDE DEF cells
  <2>14. sheet[i] = RowOf(id, cells)
    BY <2>12, <2>13
  <2> QED
    BY <2>6, <2>10, <2>14 DEF S
<1>3. ASSUME NEW id, M!BaseUpsert(OfRow(L, t, id)) # {}
      PROVE  \E i \in DOMAIN sheet : sheet[i].id = id
  <2> DEFINE S == OfRow(L, t, id)
  <2>1. /\ IsFiniteSet(S) /\ Plain(S) /\ Distinct(S) /\ S \subseteq L
        /\ \A x \in S : x.table = t /\ x.id = id
    BY <1>1
  <2>2. \A w \in L : w.table = t /\ w.id = id /\ Decides(S, w) /\ w.op = "upsert" =>
          \E i \in DOMAIN sheet : sheet[i].id = w.id
    BY DEF Tells
  <2>3. M!BaseUpsert(S) # {}
    BY <1>3
  <2> HIDE DEF S
  <2>4. PICK e : e \in S /\ e.op = "upsert"
    BY <2>3 DEF M!BaseUpsert, M!RowWinner, M!Newest, M!Upserts, M!Deletes
  <2>5. PICK w : Decides(S, w)
    BY <2>1, <2>4, DeciderExists
  <2>6. w \in S /\ w.op # "cell"
    BY <2>5 DEF Decides
  <2>7. w.op \in {"upsert", "delete"}
    BY <2>1, <2>6 DEF Plain
  <2>8. w.op = "upsert"
    <3>1. w.op = "delete" => M!BaseUpsert(S) = {}
      BY <2>1, <2>5, WinnerIs
    <3> QED
      BY <2>3, <2>7, <3>1
  <2> QED
    BY <2>1, <2>2, <2>5, <2>6, <2>8
<1> QED
  BY <1>2, <1>3

(* Where that is so, the rows are what the log describes. *)
LEMMA IdleShowsItsLog ==
  ASSUME IInv, NEW d \in Device \ (marked \cup astray), Idle(d),
         failures = 0 \/ ~apart \/ log[d] = Everything, NEW t \in Table
  PROVE  Range(disk[d][t]) = DescribedRows(d, t)
<1> DEFINE L == log[d]
           sheet == disk[d][t]
           E == {e \in L : e.table = t}
           Of(id) == {e \in E : e.id = id}
           there == {id \in {e.id : e \in E} : M!BaseUpsert(Of(id)) # {}}
<1>1. Typed /\ StampsTell /\ RequestsAreCoherent
  BY DEF IInv
<1>2. Heard(d) = L
  BY DEF Heard
<1>3. L \subseteq Everything /\ IsFiniteSet(L) /\ Timed(L)
  BY <1>1, LogFacts
<1>4. Plain(L) /\ Distinct(L)
  <2>1. Device \subseteq Nat
    BY NetWorthAssumption
  <2>2. \A e \in L : GoodEntry(e, requests)
    BY <1>1, <1>3 DEF Typed
  <2>3. Plain(L)
    BY <2>1, <2>2 DEF GoodEntry, Plain
  <2>4. Distinct(L)
    BY <1>1, <1>3 DEF StampsTell, Distinct
  <2> QED
    BY <2>3, <2>4
<1>5. GoodSheet(sheet, requests)
  BY <1>1 DEF Typed, GoodFrames
<1>6. Tells(L, L, t, sheet)
  <2>1. Coherent(<<>>, disk[d], log[d], Heard(d), d)
    BY <1>1 DEF RequestsAreCoherent, Idle
  <2>2. Tells(log[d], Heard(d), t, disk[d][t])
    BY <1>3, <2>1, IdleTells
  <2> QED
    BY <1>2, <2>2
<1>7. \A id : Of(id) = OfRow(L, t, id)
  BY DEF OfRow
<1>8. DescribedRows(d, t) = {RowOf(id, [c \in Column |-> ShownCell(Of(id), c)]) : id \in there}
  BY DEF DescribedRows
<1>9. \A id : RowTold(L, t, id) = RowOf(id, [c \in Column |-> ShownCell(Of(id), c)])
  BY <1>7 DEF RowTold
<1>10. \A id : M!BaseUpsert(OfRow(L, t, id)) # {} <=> id \in there
  <2>1. \A id : id \in there => M!BaseUpsert(OfRow(L, t, id)) # {}
    BY <1>7
  <2>2. ASSUME NEW id, M!BaseUpsert(OfRow(L, t, id)) # {}
        PROVE  id \in there
    <3>1. \E e \in OfRow(L, t, id) : TRUE
      BY <2>2 DEF M!BaseUpsert, M!RowWinner, M!Newest, M!Upserts, M!Deletes
    <3>2. id \in {e.id : e \in E}
      BY <3>1 DEF OfRow
    <3> QED
      BY <1>7, <2>2, <3>2
  <2> QED
    BY <2>1, <2>2
<1> HIDE DEF L, sheet, E, Of, there
<1>11. DescribedRows(d, t) = {RowTold(L, t, id) : id \in there}
  BY <1>8, <1>9
<1>12. /\ \A i \in DOMAIN sheet : /\ M!BaseUpsert(OfRow(L, t, sheet[i].id)) # {}
                                  /\ sheet[i] = RowTold(L, t, sheet[i].id)
       /\ \A id : M!BaseUpsert(OfRow(L, t, id)) # {} =>
            \E i \in DOMAIN sheet : sheet[i].id = id
  BY <1>3, <1>4, <1>5, <1>6, ToldRows
<1>13. Range(sheet) = {RowTold(L, t, id) : id \in there}
  <2>1. Range(sheet) = {sheet[i] : i \in DOMAIN sheet}
    BY DEF Range
  <2>2. \A i \in DOMAIN sheet : sheet[i].id \in there /\ sheet[i] = RowTold(L, t, sheet[i].id)
    BY <1>10, <1>12
  <2>3. \A id \in there : \E i \in DOMAIN sheet : sheet[i].id = id
    BY <1>10, <1>12
  <2> QED
    BY <2>1, <2>2, <2>3
<1> QED
  BY <1>11, <1>13 DEF sheet

-----------------------------------------------------------------------------
(* The theorems                                                            *)

(* Nothing is there at first. *)
LEMMA InitIsTold ==
  ASSUME Init
  PROVE  IInv
<1> DEFINE f == [t \in Table |-> <<>>]
<1>1. /\ page \in Page /\ disk = [d \in Device |-> f]
      /\ log = [d \in Device |-> {}] /\ clock = [d \in Device |-> 0]
      /\ steps = [d \in Device |-> <<>>] /\ requests = 0 /\ failures = 0
  BY DEF Init
<1>2. Everything = {} /\ \A d \in Device : Heard(d) = {}
  BY <1>1 DEF Everything, Heard
<1>3. <<>> \in Seq(Range(<<>>)) /\ DOMAIN <<>> = {}
  OBVIOUS
<1>4. GoodSheet(<<>>, 0) /\ GoodSteps(<<>>, 0)
  BY <1>3 DEF GoodSheet, GoodSteps, IdsAreUnique
<1>5. DOMAIN f = Table /\ \A t \in Table : f[t] = <<>>
  OBVIOUS
<1> HIDE DEF f
<1>6. GoodFrames(f, 0)
  BY <1>4, <1>5 DEF GoodFrames
<1>7. Typed
  <2>1. IsFiniteSet(Everything) /\ \A e \in Everything : GoodEntry(e, requests)
    BY <1>2, FS_EmptySet
  <2>2. \A d \in Device : GoodFrames(disk[d], requests) /\ GoodSteps(steps[d], requests)
    BY <1>1, <1>4, <1>6
  <2>3. /\ requests \in Nat /\ failures \in Nat /\ clock \in [Device -> Nat]
        /\ DOMAIN disk = Device /\ DOMAIN log = Device /\ DOMAIN steps = Device
    BY <1>1
  <2> QED
    BY <1>1, <2>1, <2>2, <2>3 DEF Typed
<1>8. StampsTell
  BY <1>1, <1>2 DEF StampsTell, Distinct
<1>9. RequestsAreCoherent
  <2>1. ASSUME NEW d \in Device
        PROVE  Coherent(steps[d], disk[d], log[d], Heard(d), d)
    <3>1. \A t \in Table : Tells({}, {}, t, f[t])
      BY <1>3, <1>5 DEF Tells
    <3>2. Coherent(<<>>, f, {}, {}, d)
      BY <3>1, NoStepsAreCoherent
    <3>3. disk[d] = f /\ log[d] = {} /\ Heard(d) = {} /\ steps[d] = <<>>
      BY <1>1, <1>2
    <3> QED
      BY <3>2, <3>3
  <2> QED
    BY <2>1 DEF RequestsAreCoherent
<1> QED
  BY <1>7, <1>8, <1>9 DEF IInv

(* A step that changes nothing. *)
LEMMA StutterKeepsIInv ==
  ASSUME IInv, UNCHANGED vars
  PROVE  IInv'
<1>1. /\ page' = page /\ disk' = disk /\ log' = log /\ clock' = clock /\ steps' = steps
      /\ marked' = marked /\ astray' = astray /\ requests' = requests /\ failures' = failures
      /\ apart' = apart
  BY DEF vars
<1>2. Everything' = Everything /\ \A d \in Device : Heard(d)' = Heard(d)
  BY <1>1 DEF Everything, Heard
<1>3. Typed /\ StampsTell /\ RequestsAreCoherent
  BY DEF IInv
<1>4. Typed'
  BY <1>1, <1>2, <1>3 DEF Typed
<1>5. StampsTell'
  <2>1. Distinct(Everything)'
    BY <1>2, <1>3 DEF StampsTell, Distinct
  <2> QED
    BY <1>1, <1>2, <1>3, <2>1 DEF StampsTell
<1>6. RequestsAreCoherent'
  BY <1>1, <1>2, <1>3 DEF RequestsAreCoherent
<1> QED
  BY <1>4, <1>5, <1>6 DEF IInv

(* Every handler, every step of a request, every failure and every merge   *)
(* keeps the invariant.                                                    *)
LEMMA NextKeepsIInv ==
  ASSUME IInv, [Next]_vars
  PROVE  IInv'
<1>1. CASE UNCHANGED vars
  BY <1>1, StutterKeepsIInv
<1>2. ASSUME NEW d \in Device, steps[d] = <<>> /\ \E work : Sound(d, work) /\ Request(d, work)
      PROVE  IInv'
  BY <1>2, RequestKeepsIInv
<1>3. requests \in Nat
  BY DEF IInv, Typed
<1>4. CASE Next
  <2>1. PICK d \in Device :
          \/ AddInvestment(d) \/ UpdateInvestment(d) \/ DeleteInvestment(d)
          \/ SetQuantity(d) \/ SetPrice(d)
          \/ AddLiquidity(d) \/ UpdateLiquidity(d) \/ DeleteLiquidity(d) \/ SetLiquidity(d)
          \/ AddCredit(d) \/ UpdateCredit(d) \/ DeleteCredit(d) \/ SetCredit(d)
          \/ SaveFile(d) \/ SaveFails(d) \/ RecordEntry(d) \/ RecordFails(d) \/ Crash(d)
          \/ \E e \in Device : Merge(d, e) \/ MergeFails(d, e)
    BY <1>4 DEF Next
  <2>2. CASE AddInvestment(d) \/ UpdateInvestment(d) \/ DeleteInvestment(d) \/ SetQuantity(d)
               \/ SetPrice(d)
    BY <1>2, <1>3, <2>2, InvestmentRequests
  <2>3. CASE AddLiquidity(d) \/ UpdateLiquidity(d) \/ DeleteLiquidity(d) \/ SetLiquidity(d)
    BY <1>2, <1>3, <2>3, LiquidityRequests
  <2>4. CASE AddCredit(d) \/ UpdateCredit(d) \/ DeleteCredit(d) \/ SetCredit(d)
    BY <1>2, <1>3, <2>4, CreditRequests
  <2>5. CASE SaveFile(d)
    BY <2>5, SaveFileKeepsIInv
  <2>6. CASE SaveFails(d)
    BY <2>6, SaveFailsKeepsIInv
  <2>7. CASE RecordEntry(d)
    BY <2>7, RecordEntryKeepsIInv
  <2>8. CASE RecordFails(d)
    BY <2>8, RecordFailsKeepsIInv
  <2>9. CASE Crash(d)
    BY <2>9, CrashKeepsIInv
  <2>10. ASSUME NEW e \in Device, Merge(d, e)
         PROVE  IInv'
    BY <2>10, MergeKeepsIInv
  <2>11. ASSUME NEW e \in Device, MergeFails(d, e)
         PROVE  IInv'
    BY <2>11, MergeFailsKeepsIInv
  <2> QED
    BY <2>1, <2>2, <2>3, <2>4, <2>5, <2>6, <2>7, <2>8, <2>9, <2>10, <2>11
<1> QED
  BY <1>1, <1>4

(* At every step of every request, and after every failure and merge, what *)
(* a device has recorded and still will record tells its files.            *)
THEOREM NetWorthIsTold == Spec => []IInv
<1>1. Init => IInv
  BY InitIsTold
<1>2. IInv /\ [Next]_vars => IInv'
  BY NextKeepsIInv
<1> QED
  BY <1>1, <1>2, PTL DEF Spec

(* Whoever replays a log that is not marked finds the rows of the files:   *)
(* of every page, for every method of df_operations.rs that persists a     *)
(* change, whichever requests were cut off and whatever was merged.        *)
THEOREM NetWorthLogTellsTables == Spec => []LogTellsTables
<1>1. IInv => LogTellsTables
  <2>1. ASSUME IInv, NEW d \in Device \ (marked \cup astray),
               Idle(d), failures = 0 \/ ~apart \/ log[d] = Everything,
               NEW t \in Range(Files(page)) \ torn[d]
        PROVE  Range(disk[d][t]) = DescribedRows(d, t)
    <3>1. page \in {"investments", "liquidity", "credits"}
      BY <2>1, NetWorthAssumption DEF IInv, Typed
    <3>2. Range(Files(page)) \subseteq Table
      BY <3>1 DEF Files, Table, Range
    <3>3. t \in Table
      BY <2>1, <3>2
    <3> QED
      BY <2>1, <3>3, IdleShowsItsLog
  <2> QED
    BY <2>1 DEF LogTellsTables
<1>2. Spec => []IInv
  BY NetWorthIsTold
<1> QED
  BY <1>1, <1>2, PTL

(* Devices that have heard everything hold the same rows in every table,   *)
(* and the charts of the net worth, which look at nothing else, show the   *)
(* same on each of them.                                                   *)
SettledShowTheSame ==
  \A d, e \in Device : Settled(d) /\ Settled(e) =>
    /\ \A t \in Table : Range(disk[d][t]) = Range(disk[e][t])
    /\ \A unavailable : NetworthEvolution(disk[d], unavailable)
                          = NetworthEvolution(disk[e], unavailable)

(* So merging makes devices agree, in whatever order the entries came. *)
THEOREM NetWorthSettledShowTheSame == Spec => []SettledShowTheSame
<1>1. ASSUME NEW f, NEW g, \A t \in Table : Range(f[t]) = Range(g[t])
      PROVE  \A unavailable :
               NetworthEvolution(f, unavailable) = NetworthEvolution(g, unavailable)
  <2>1. /\ Range(f["holdings"]) = Range(g["holdings"]) /\ Range(f["prices"]) = Range(g["prices"])
        /\ Range(f["liquidity"]) = Range(g["liquidity"])
        /\ Range(f["credits"]) = Range(g["credits"])
    BY <1>1 DEF Table
  <2>2. ValueRows(f) = ValueRows(g)
    BY <2>1 DEF ValueRows
  <2>3. \A c : WorthIn(f, c) = WorthIn(g, c)
    BY <2>2 DEF WorthIn
  <2> QED
    BY <2>1, <2>3 DEF NetworthEvolution
<1>2. IInv => SettledShowTheSame
  <2>1. ASSUME IInv, NEW d \in Device, NEW e \in Device, Settled(d), Settled(e)
        PROVE  \A t \in Table : Range(disk[d][t]) = Range(disk[e][t])
    <3>1. /\ d \in Device \ (marked \cup astray) /\ Idle(d) /\ log[d] = Everything
          /\ e \in Device \ (marked \cup astray) /\ Idle(e) /\ log[e] = Everything
      BY <2>1 DEF Settled
    <3>2. \A t : DescribedRows(d, t) = DescribedRows(e, t)
      BY <3>1 DEF DescribedRows
    <3>3. \A t \in Table : /\ Range(disk[d][t]) = DescribedRows(d, t)
                           /\ Range(disk[e][t]) = DescribedRows(e, t)
      BY <2>1, <3>1, IdleShowsItsLog
    <3> QED
      BY <3>2, <3>3
  <2> QED
    BY <1>1, <2>1 DEF SettledShowTheSame
<1>3. Spec => []IInv
  BY NetWorthIsTold
<1> QED
  BY <1>2, <1>3, PTL

-----------------------------------------------------------------------------
(* The two rows of an asset                                                *)

(* A record, or an entry, that makes, removes or renames a row of an asset. *)
NameStep(step) ==
  /\ IsRecord(step) /\ step.table \in {"holdings", "prices"}
  /\ step.op # "cell" \/ ColumnOf(step.cells) = "name"

SaysName(e) == e.table \in {"holdings", "prices"} /\ (e.op # "cell" \/ e.column = "name")

(* An entry of a holding, and the next one, of its price. *)
AreTwins(e, f) ==
  /\ e.table = "holdings" /\ f.table = "prices"
  /\ f.id = e.id /\ f.op = e.op /\ f.cells = e.cells
  /\ f.key.time = e.key.time + 1 /\ f.key.device = e.key.device

(* Both or neither are in a log. *)
Paired(L) ==
  \A e \in L : SaysName(e) =>
    \E f \in L : SaysName(f) /\ IF e.table = "holdings" THEN AreTwins(e, f) ELSE AreTwins(f, e)

(* R takes the entries of L that name the rows of table a to those that    *)
(* name the rows of table b, in the same order.                            *)
Mates(R, L, a, b) ==
  /\ \A e \in L : e.table = a /\ (e.op # "cell" \/ e.column = "name") =>
       \E f \in L : <<e, f>> \in R
  /\ \A f \in L : f.table = b /\ (f.op # "cell" \/ f.column = "name") =>
       \E e \in L : <<e, f>> \in R
  /\ \A e, f \in L : <<e, f>> \in R =>
       /\ e.table = a /\ f.table = b /\ f.id = e.id /\ f.op = e.op /\ f.cells = e.cells
       /\ e.op = "cell" => e.column = "name" /\ f.column = "name"
  /\ \A e, f, g, h \in L : <<e, f>> \in R /\ <<g, h>> \in R =>
       /\ e = g <=> f = h
       /\ M!Precedes(e, g) <=> M!Precedes(f, h)

(* Every row of h has a row of p with its id and its name. *)
HasMates(h, p) ==
  \A i \in DOMAIN h : \E j \in DOMAIN p : p[j].id = h[i].id /\ p[j].name = h[i].name

(* Then the rows of a have mates in b, if the log tells both tables. *)
LEMMA MatesGiveRows ==
  ASSUME NEW L, IsFiniteSet(L), Plain(L), Distinct(L), NEW R, NEW a, NEW b, Mates(R, L, a, b),
         NEW h, NEW p, Tells(L, L, a, h), Tells(L, L, b, p)
  PROVE  HasMates(h, p)
<1>1. ASSUME NEW i \in DOMAIN h
      PROVE  \E j \in DOMAIN p : p[j].id = h[i].id /\ p[j].name = h[i].name
  <2> DEFINE x == h[i].id
             S == OfRow(L, a, x)
             T == OfRow(L, b, x)
  <2>1. /\ \A e : e \in S <=> e \in L /\ e.table = a /\ e.id = x
        /\ \A e : e \in T <=> e \in L /\ e.table = b /\ e.id = x
    BY DEF OfRow
  <2>2. \E e \in S : e.op # "cell"
    BY DEF Tells
  <2>3. \A w \in L : w.table = a /\ w.id = x /\ Decides(S, w) =>
          /\ w.op # "delete"
          /\ w.op = "upsert" =>
               \A v \in L : Shows(S, w, "name", v) => h[i].name = v.cells["name"]
    BY DEF Tells, Column
  <2>4. \A w \in L : w.table = b /\ w.id = x /\ Decides(T, w) /\ w.op = "upsert" =>
          /\ \E j \in DOMAIN p : p[j].id = x
          /\ \A j \in DOMAIN p : p[j].id = x =>
               \A v \in L : Shows(T, w, "name", v) => p[j].name = v.cells["name"]
    BY DEF Tells, Column
  <2> HIDE DEF S, T, x
  <2>5. IsFiniteSet(S) /\ Plain(S) /\ Distinct(S)
    <3>1. S \subseteq L
      BY <2>1
    <3> QED
      BY <3>1, FS_Subset DEF Plain, Distinct
  <2>6. PICK w : Decides(S, w)
    BY <2>2, <2>5, DeciderExists
  <2>7. PICK v : Shows(S, w, "name", v)
    BY <2>5, <2>6, ValueExists
  <2>8. /\ w \in S /\ w.op # "cell" /\ \A e \in S : e.op # "cell" => e = w \/ M!Precedes(e, w)
        /\ v \in S /\ (v = w \/ (v.op = "cell" /\ v.column = "name" /\ M!Precedes(w, v)))
        /\ \A e \in S : e.op = "cell" /\ e.column = "name" /\ M!Precedes(w, e) =>
             e = v \/ M!Precedes(e, v)
    BY <2>6, <2>7 DEF Decides, Shows
  <2>9. /\ \A e \in S : e.op # "cell" \/ e.column = "name" =>
             \E f \in T : <<e, f>> \in R
        /\ \A f \in T : f.op # "cell" \/ f.column = "name" =>
             \E e \in S : <<e, f>> \in R
    BY <2>1 DEF Mates
  <2>10. /\ \A e \in S, f \in T : <<e, f>> \in R =>
              /\ f.op = e.op /\ f.cells = e.cells
              /\ e.op = "cell" => e.column = "name" /\ f.column = "name"
         /\ \A e, g \in S, f, y \in T : <<e, f>> \in R /\ <<g, y>> \in R =>
              /\ e = g <=> f = y
              /\ M!Precedes(e, g) <=> M!Precedes(f, y)
    BY <2>1 DEF Mates
  <2>11. PICK u \in T : <<w, u>> \in R
    BY <2>8, <2>9
  <2>12. PICK z \in T : <<v, z>> \in R
    BY <2>8, <2>9
  <2>13. Decides(T, u)
    <3>1. u.op # "cell"
      BY <2>8, <2>10, <2>11
    <3>2. ASSUME NEW f \in T, f.op # "cell"
          PROVE  f = u \/ M!Precedes(f, u)
      <4>1. PICK e \in S : <<e, f>> \in R
        BY <2>9, <3>2
      <4>2. e = w \/ M!Precedes(e, w)
        BY <2>8, <2>10, <3>2, <4>1
      <4> QED
        BY <2>8, <2>10, <2>11, <4>1, <4>2
    <3> QED
      BY <3>1, <3>2 DEF Decides
  <2>14. Shows(T, u, "name", z)
    <3>1. z = u \/ (z.op = "cell" /\ z.column = "name" /\ M!Precedes(u, z))
      <4>1. CASE v = w
        BY <2>8, <2>10, <2>11, <2>12, <4>1
      <4>2. CASE v.op = "cell" /\ v.column = "name" /\ M!Precedes(w, v)
        BY <2>8, <2>10, <2>11, <2>12, <4>2
      <4> QED
        BY <2>8, <4>1, <4>2
    <3>2. ASSUME NEW f \in T, f.op = "cell", f.column = "name", M!Precedes(u, f)
          PROVE  f = z \/ M!Precedes(f, z)
      <4>1. PICK e \in S : <<e, f>> \in R
        BY <2>9, <3>2
      <4>2. e.op = "cell" /\ e.column = "name" /\ M!Precedes(w, e)
        BY <2>8, <2>10, <2>11, <3>2, <4>1
      <4>3. e = v \/ M!Precedes(e, v)
        BY <2>8, <4>2
      <4> QED
        BY <2>8, <2>10, <2>12, <4>1, <4>3
    <3> QED
      BY <3>1, <3>2 DEF Shows
  <2>15. /\ w \in L /\ w.table = a /\ w.id = x /\ u \in L /\ u.table = b /\ u.id = x
         /\ v \in L /\ z \in L
    BY <2>1, <2>8
  <2>16. w.op = "upsert" /\ u.op = "upsert"
    <3>1. w.op # "delete"
      BY <2>3, <2>6, <2>15
    <3>2. w.op \in {"upsert", "delete", "cell"}
      BY <2>15 DEF Plain
    <3> QED
      BY <2>8, <2>10, <2>11, <3>1, <3>2
  <2>17. h[i].name = v.cells["name"]
    BY <2>3, <2>6, <2>7, <2>15, <2>16
  <2>18. PICK j \in DOMAIN p : p[j].id = x
    BY <2>4, <2>13, <2>15, <2>16
  <2>19. p[j].name = z.cells["name"]
    BY <2>4, <2>13, <2>14, <2>15, <2>16, <2>18
  <2>20. z.cells = v.cells
    BY <2>8, <2>10, <2>12
  <2> QED
    BY <2>17, <2>18, <2>19, <2>20 DEF x
<1> QED
  BY <1>1 DEF HasMates

(* A log whose entries are paired, and that tells both tables of the       *)
(* assets, tells of the two rows of an asset or of none.                   *)
LEMMA PairedGivesRows ==
  ASSUME NEW L, IsFiniteSet(L), Plain(L), Distinct(L), Paired(L),
         NEW h, NEW p, Tells(L, L, "holdings", h), Tells(L, L, "prices", p)
  PROVE  HasMates(h, p) /\ HasMates(p, h)
<1> DEFINE R == {q \in L \X L : SaysName(q[1]) /\ SaysName(q[2]) /\ AreTwins(q[1], q[2])}
           Q == {q \in L \X L : <<q[2], q[1]>> \in R}
<1>1. /\ \A e, f : <<e, f>> \in R
           <=> e \in L /\ f \in L /\ SaysName(e) /\ SaysName(f) /\ AreTwins(e, f)
      /\ \A e, f : <<f, e>> \in Q <=> <<e, f>> \in R
  OBVIOUS
<1> HIDE DEF R, Q
<1>2. \A e \in L : /\ e.key.time \in Nat /\ e.key.device \in Nat
                   /\ e.op \in {"upsert", "delete", "cell"}
  BY DEF Plain
<1>3. /\ \A e \in L : e.table = "holdings" /\ (e.op # "cell" \/ e.column = "name") =>
           \E f \in L : <<e, f>> \in R
      /\ \A f \in L : f.table = "prices" /\ (f.op # "cell" \/ f.column = "name") =>
           \E e \in L : <<e, f>> \in R
  BY <1>1 DEF Paired, SaysName
<1>4. \A e, f \in L : <<e, f>> \in R =>
        /\ e.table = "holdings" /\ f.table = "prices"
        /\ f.id = e.id /\ f.op = e.op /\ f.cells = e.cells
        /\ e.op = "cell" => e.column = "name" /\ f.column = "name"
        /\ f.key.time = e.key.time + 1 /\ f.key.device = e.key.device
  BY <1>1 DEF AreTwins, SaysName
<1>5. \A e, f, g, y \in L : <<e, f>> \in R /\ <<g, y>> \in R =>
        /\ e = g <=> f = y
        /\ M!Precedes(e, g) <=> M!Precedes(f, y)
  <2>1. ASSUME NEW e \in L, NEW f \in L, NEW g \in L, NEW y \in L,
               <<e, f>> \in R, <<g, y>> \in R
        PROVE  /\ e = g <=> f = y
               /\ M!Precedes(e, g) <=> M!Precedes(f, y)
    <3>1. /\ f.key.time = e.key.time + 1 /\ f.key.device = e.key.device
          /\ y.key.time = g.key.time + 1 /\ y.key.device = g.key.device
      BY <1>4, <2>1
    <3>2. /\ e.key.time \in Nat /\ g.key.time \in Nat
          /\ f.key.time \in Nat /\ y.key.time \in Nat
      BY <1>2
    <3>3. /\ e.key.time = g.key.time <=> f.key.time = y.key.time
          /\ e.key.time < g.key.time <=> f.key.time < y.key.time
      BY <3>1, <3>2
    <3>4. e = g <=> f = y
      BY <3>1, <3>3 DEF Distinct
    <3> QED
      BY <3>1, <3>3, <3>4 DEF M!Precedes, M!KeyBefore
  <2> QED
    BY <2>1
<1>6. Mates(R, L, "holdings", "prices")
  <2>1. \A e, f \in L : <<e, f>> \in R =>
          /\ e.table = "holdings" /\ f.table = "prices"
          /\ f.id = e.id /\ f.op = e.op /\ f.cells = e.cells
          /\ e.op = "cell" => e.column = "name" /\ f.column = "name"
    BY <1>4, Zenon
  <2> QED
    BY <1>3, <2>1, <1>5, Zenon DEF Mates
<1>7. Mates(Q, L, "prices", "holdings")
  <2>1. /\ \A e \in L : e.table = "prices" /\ (e.op # "cell" \/ e.column = "name") =>
             \E f \in L : <<e, f>> \in Q
        /\ \A f \in L : f.table = "holdings" /\ (f.op # "cell" \/ f.column = "name") =>
             \E e \in L : <<e, f>> \in Q
    BY <1>1, <1>3
  <2>2. \A e, f \in L : <<e, f>> \in Q =>
          /\ e.table = "prices" /\ f.table = "holdings"
          /\ f.id = e.id /\ f.op = e.op /\ f.cells = e.cells
          /\ e.op = "cell" => e.column = "name" /\ f.column = "name"
    <3>1. ASSUME NEW e \in L, NEW f \in L, <<e, f>> \in Q
          PROVE  /\ e.table = "prices" /\ f.table = "holdings"
                 /\ f.id = e.id /\ f.op = e.op /\ f.cells = e.cells
                 /\ e.op = "cell" => e.column = "name" /\ f.column = "name"
      <4>1. <<f, e>> \in R
        BY <1>1, <3>1
      <4> QED
        BY <1>4, <4>1
    <3> QED
      BY <3>1
  <2>3. \A e, f, g, y \in L : <<e, f>> \in Q /\ <<g, y>> \in Q =>
          /\ e = g <=> f = y
          /\ M!Precedes(e, g) <=> M!Precedes(f, y)
    <3>1. ASSUME NEW e \in L, NEW f \in L, NEW g \in L, NEW y \in L,
                 <<e, f>> \in Q, <<g, y>> \in Q
          PROVE  /\ e = g <=> f = y
                 /\ M!Precedes(e, g) <=> M!Precedes(f, y)
      <4>1. <<f, e>> \in R /\ <<y, g>> \in R
        BY <1>1, <3>1
      <4> QED
        BY <1>5, <4>1
    <3> QED
      BY <3>1
  <2> QED
    BY <2>1, <2>2, <2>3, Zenon DEF Mates
<1> QED
  BY <1>6, <1>7, MatesGiveRows

(* Rows with mates, of assets with a name each, are whole. *)
LEMMA MatesAreWhole ==
  ASSUME NEW f, IdsAreUnique(f["holdings"]), IdsAreUnique(f["prices"]),
         NamesAreUnique(f["holdings"]),
         HasMates(f["holdings"], f["prices"]), HasMates(f["prices"], f["holdings"])
  PROVE  AssetsAreWhole(f)
<1> DEFINE h == f["holdings"]
           p == f["prices"]
<1>1. /\ \A i, j \in DOMAIN h : h[i].id = h[j].id => i = j
      /\ \A i, j \in DOMAIN p : p[i].id = p[j].id => i = j
      /\ \A i, j \in DOMAIN h : h[i].name = h[j].name => i = j
      /\ \A i \in DOMAIN h : \E j \in DOMAIN p : p[j].id = h[i].id /\ p[j].name = h[i].name
      /\ \A j \in DOMAIN p : \E i \in DOMAIN h : h[i].id = p[j].id /\ h[i].name = p[j].name
  BY DEF IdsAreUnique, NamesAreUnique, HasMates
<1>2. /\ IdsIn(h) = {h[i].id : i \in DOMAIN h} /\ IdsIn(p) = {p[i].id : i \in DOMAIN p}
      /\ Range(h) = {h[i] : i \in DOMAIN h} /\ Range(p) = {p[i] : i \in DOMAIN p}
  BY DEF IdsIn, Range
<1>3. /\ ValueRows(f) = {pair \in Range(h) \X Range(p) : pair[1].name = pair[2].name}
      /\ OwnRows(f) = {pair \in Range(h) \X Range(p) : pair[1].id = pair[2].id}
      /\ AssetsAreWhole(f) <=> IdsIn(h) = IdsIn(p) /\ ValueRows(f) = OwnRows(f)
  BY DEF ValueRows, OwnRows, AssetsAreWhole
<1> HIDE DEF h, p
<1>4. IdsIn(h) = IdsIn(p)
  BY <1>1, <1>2
<1>5. ASSUME NEW x \in Range(h), NEW y \in Range(p)
      PROVE  x.name = y.name <=> x.id = y.id
  <2>1. PICK i \in DOMAIN h : x = h[i]
    BY <1>2
  <2>2. PICK j \in DOMAIN p : y = p[j]
    BY <1>2
  <2>3. ASSUME x.id = y.id
        PROVE  x.name = y.name
    BY <1>1, <2>1, <2>2, <2>3
  <2>4. ASSUME x.name = y.name
        PROVE  x.id = y.id
    BY <1>1, <2>1, <2>2, <2>4
  <2> QED
    BY <2>3, <2>4
<1>6. ValueRows(f) = OwnRows(f)
  BY <1>3, <1>5
<1> QED
  BY <1>3, <1>4, <1>6

-----------------------------------------------------------------------------
(* A request names the two rows of an asset one after the other            *)

(* No step names a row of an asset. *)
Quiet(todo) == \A i \in DOMAIN todo : ~NameStep(todo[i])

(* Two records that will make twins. *)
TwinSteps(a, b) ==
  /\ NameStep(a) /\ NameStep(b) /\ a.table = "holdings" /\ b.table = "prices"
  /\ a.id = b.id /\ a.op = b.op /\ a.cells = b.cells

(* Steps k and k + 1 are such records, the first after the saves, and no   *)
(* other step names a row of an asset.                                     *)
PairAt(todo, k) ==
  /\ k \in DOMAIN todo /\ k + 1 \in DOMAIN todo /\ TwinSteps(todo[k], todo[k + 1])
  /\ \A i \in DOMAIN todo : i < k => todo[i].do = "save"
  /\ \A i \in DOMAIN todo : i # k /\ i # k + 1 => ~NameStep(todo[i])

InOnePair(todo) == Quiet(todo) \/ \E k \in DOMAIN todo : PairAt(todo, k)

(* The log is paired, and the request will leave it so; or the next record *)
(* completes the pair the request is half way through.                     *)
InPairs(todo, L, key) ==
  \/ Paired(L) /\ InOnePair(todo)
  \/ /\ todo # <<>> /\ NameStep(Head(todo)) /\ Quiet(Tail(todo))
     /\ Paired(L \cup {EntryOf(Head(todo), key)})

(* The rest of the steps. *)
LEMMA TailSteps ==
  ASSUME NEW todo, todo \in Seq(Range(todo)), todo # <<>>
  PROVE  /\ Len(todo) \in Nat /\ Len(todo) > 0 /\ DOMAIN todo = 1..Len(todo)
         /\ Head(todo) = todo[1] /\ DOMAIN Tail(todo) = 1..(Len(todo) - 1)
         /\ \A i \in 1..(Len(todo) - 1) : Tail(todo)[i] = todo[i + 1]
OBVIOUS

(* A save says no name. *)
LEMMA SaveKeepsPairs ==
  ASSUME NEW todo, todo \in Seq(Range(todo)), todo # <<>>, Head(todo).do = "save",
         NEW L, NEW key, InPairs(todo, L, key)
  PROVE  InPairs(Tail(todo), L, key)
<1> DEFINE n == Len(todo)
           rest == Tail(todo)
<1>1. /\ n \in Nat /\ n > 0 /\ DOMAIN todo = 1..n /\ Head(todo) = todo[1]
      /\ DOMAIN rest = 1..(n - 1) /\ \A i \in 1..(n - 1) : rest[i] = todo[i + 1]
  BY TailSteps
<1> HIDE DEF n, rest
<1>2. ~NameStep(todo[1])
  BY <1>1 DEF NameStep, IsRecord
<1>3. Paired(L) /\ InOnePair(todo)
  BY <1>1, <1>2 DEF InPairs
<1>4. \A i \in DOMAIN rest : i \in Nat /\ i + 1 \in DOMAIN todo /\ rest[i] = todo[i + 1]
  BY <1>1
<1>5. CASE Quiet(todo)
  <2>1. Quiet(rest)
    BY <1>4, <1>5 DEF Quiet
  <2> QED
    BY <1>3, <2>1 DEF InPairs, InOnePair, rest
<1>6. ASSUME NEW k \in DOMAIN todo, PairAt(todo, k)
      PROVE  InPairs(Tail(todo), L, key)
  <2>1. /\ k + 1 \in DOMAIN todo /\ TwinSteps(todo[k], todo[k + 1])
        /\ \A i \in DOMAIN todo : i < k => todo[i].do = "save"
        /\ \A i \in DOMAIN todo : i # k /\ i # k + 1 => ~NameStep(todo[i])
    BY <1>6 DEF PairAt
  <2>2. k # 1
    BY <1>2, <2>1 DEF TwinSteps
  <2>3. k - 1 \in DOMAIN rest /\ k \in DOMAIN rest /\ (k - 1) + 1 = k
    BY <1>1, <2>1, <2>2
  <2>4. rest[k - 1] = todo[k] /\ rest[k] = todo[k + 1]
    BY <1>4, <2>3
  <2>5. \A i \in DOMAIN rest : i < k - 1 => rest[i].do = "save"
    BY <1>1, <1>4, <2>1
  <2>6. ASSUME NEW i \in DOMAIN rest, i # k - 1, i # k
        PROVE  ~NameStep(rest[i])
    <3>1. i + 1 # k /\ i + 1 # k + 1
      BY <1>1, <2>6
    <3> QED
      BY <1>4, <2>1, <3>1
  <2>7. PairAt(rest, k - 1)
    BY <2>1, <2>3, <2>4, <2>5, <2>6 DEF PairAt
  <2> QED
    BY <1>3, <2>3, <2>7 DEF InPairs, InOnePair, rest
<1> QED
  BY <1>3, <1>5, <1>6 DEF InOnePair

(* A record says the name its step does. *)
LEMMA EntrySaysName ==
  ASSUME NEW step, IsRecord(step), NEW key
  PROVE  SaysName(EntryOf(step, key)) <=> NameStep(step)
<1>1. IsEntry(EntryOf(step, key), step, key)
  BY EntryFields
<1> QED
  BY <1>1 DEF IsEntry, SaysName, NameStep

(* Two such records make twins. *)
LEMMA StepsMakeTwins ==
  ASSUME NEW a, NEW b, TwinSteps(a, b), NEW s \in Nat, NEW d
  PROVE  AreTwins(EntryOf(a, [time |-> s, device |-> d]), EntryOf(b, [time |-> s + 1, device |-> d]))
<1> DEFINE j == [time |-> s, device |-> d]
           k == [time |-> s + 1, device |-> d]
<1>1. j.time = s /\ j.device = d /\ k.time = s + 1 /\ k.device = d
  OBVIOUS
<1> HIDE DEF j, k
<1>2. IsEntry(EntryOf(a, j), a, j) /\ IsEntry(EntryOf(b, k), b, k)
  BY EntryFields
<1>3. AreTwins(EntryOf(a, j), EntryOf(b, k))
  BY <1>1, <1>2 DEF IsEntry, AreTwins, TwinSteps
<1> QED
  BY <1>3 DEF j, k

(* One entry more, which says no name, or two, which are twins. *)
LEMMA MorePairs ==
  ASSUME NEW L, Paired(L)
  PROVE  /\ \A e : ~SaysName(e) => Paired(L \cup {e})
         /\ \A e, f : SaysName(e) /\ SaysName(f) /\ AreTwins(e, f) =>
              Paired((L \cup {e}) \cup {f})
<1>1. ASSUME NEW e, ~SaysName(e)
      PROVE  Paired(L \cup {e})
  BY <1>1 DEF Paired
<1>2. ASSUME NEW e, NEW f, SaysName(e), SaysName(f), AreTwins(e, f)
      PROVE  Paired((L \cup {e}) \cup {f})
  <2> DEFINE K == (L \cup {e}) \cup {f}
  <2>1. \A x : x \in K <=> x \in L \/ x = e \/ x = f
    OBVIOUS
  <2> HIDE DEF K
  <2>2. e.table = "holdings" /\ f.table # "holdings"
    BY <1>2 DEF AreTwins
  <2>3. Paired(K)
    BY <1>2, <2>1, <2>2 DEF Paired
  <2> QED
    BY <2>3 DEF K
<1> QED
  BY <1>1, <1>2

(* A record at the next time says no name, is the first of a pair, or the  *)
(* second one.                                                             *)
LEMMA RecordKeepsPairs ==
  ASSUME NEW todo, todo \in Seq(Range(todo)), todo # <<>>, Head(todo).do = "record",
         NEW L, NEW s \in Nat, NEW d, InPairs(todo, L, [time |-> s, device |-> d])
  PROVE  InPairs(Tail(todo), L \cup {EntryOf(Head(todo), [time |-> s, device |-> d])},
                 [time |-> s + 1, device |-> d])
<1> DEFINE n == Len(todo)
           rest == Tail(todo)
           one == Head(todo)
           key == [time |-> s, device |-> d]
           next == [time |-> s + 1, device |-> d]
           e == EntryOf(one, key)
<1>1. /\ n \in Nat /\ n > 0 /\ DOMAIN todo = 1..n /\ one = todo[1]
      /\ DOMAIN rest = 1..(n - 1) /\ \A i \in 1..(n - 1) : rest[i] = todo[i + 1]
  BY TailSteps
<1>2. IsRecord(one) /\ InPairs(todo, L, key)
  BY DEF IsRecord
<1> HIDE DEF n, rest, one, key
<1>3. SaysName(e) <=> NameStep(one)
  BY <1>2, EntrySaysName
<1>4. \A i \in DOMAIN rest : i \in Nat /\ i + 1 \in DOMAIN todo /\ rest[i] = todo[i + 1]
  BY <1>1
<1>5. 1 \in DOMAIN todo
  BY <1>1
<1> HIDE DEF e, next
<1>6. CASE Paired(L) /\ Quiet(todo)
  <2>1. Quiet(rest) /\ ~NameStep(one)
    BY <1>1, <1>4, <1>5, <1>6 DEF Quiet
  <2>2. Paired(L \cup {e})
    BY <1>3, <1>6, <2>1, MorePairs
  <2>3. InPairs(rest, L \cup {e}, next)
    BY <2>1, <2>2 DEF InPairs, InOnePair
  <2> QED
    BY <2>3 DEF rest, e, one, key, next
<1>7. ASSUME Paired(L), NEW k \in DOMAIN todo, PairAt(todo, k)
      PROVE  InPairs(rest, L \cup {e}, next)
  <2>1. /\ k + 1 \in DOMAIN todo /\ TwinSteps(todo[k], todo[k + 1])
        /\ \A i \in DOMAIN todo : i < k => todo[i].do = "save"
        /\ \A i \in DOMAIN todo : i # k /\ i # k + 1 => ~NameStep(todo[i])
    BY <1>7 DEF PairAt
  <2>2. k = 1
    <3>1. ~(1 < k)
      BY <1>1, <1>2, <1>5, <2>1 DEF IsRecord
    <3> QED
      BY <1>1, <3>1
  <2>3. TwinSteps(one, todo[2]) /\ 2 \in DOMAIN todo
    BY <1>1, <2>1, <2>2
  <2>4. rest # <<>> /\ rest[1] = todo[2] /\ Head(rest) = todo[2]
    <3>1. 1 \in DOMAIN rest
      BY <1>1, <2>3
    <3>2. rest # <<>>
      BY <3>1
    <3>3. Head(rest) = rest[1]
      BY <3>2
    <3> QED
      BY <1>4, <3>1, <3>2, <3>3
  <2>5. Quiet(Tail(rest))
    <3>1. rest \in Seq(Range(rest))
      BY HeadAndTail DEF rest
    <3>2. /\ Len(rest) \in Nat /\ DOMAIN rest = 1..Len(rest)
          /\ DOMAIN Tail(rest) = 1..(Len(rest) - 1)
          /\ \A i \in 1..(Len(rest) - 1) : Tail(rest)[i] = rest[i + 1]
      BY <2>4, <3>1, TailSteps
    <3>3. ASSUME NEW i \in DOMAIN Tail(rest)
          PROVE  ~NameStep(Tail(rest)[i])
      <4>1. i \in Nat /\ i > 0 /\ i + 1 \in DOMAIN rest /\ Tail(rest)[i] = rest[i + 1]
        BY <3>2
      <4>2. (i + 1) + 1 \in DOMAIN todo /\ Tail(rest)[i] = todo[(i + 1) + 1]
        BY <1>4, <4>1
      <4>3. (i + 1) + 1 # 1 /\ (i + 1) + 1 # 1 + 1
        BY <4>1
      <4> QED
        BY <2>1, <2>2, <4>2, <4>3
    <3> QED
      BY <3>3 DEF Quiet
  <2> DEFINE f == EntryOf(Head(rest), next)
  <2>6. SaysName(e) /\ SaysName(f) /\ AreTwins(e, f) /\ NameStep(Head(rest))
    <3>1. NameStep(one) /\ NameStep(Head(rest)) /\ IsRecord(Head(rest))
      BY <2>3, <2>4 DEF TwinSteps, NameStep
    <3>2. AreTwins(e, f)
      BY <2>3, <2>4, StepsMakeTwins DEF e, key, next
    <3> QED
      BY <1>3, <3>1, <3>2, EntrySaysName
  <2> HIDE DEF f
  <2>7. Paired((L \cup {e}) \cup {f})
    BY <1>7, <2>6, MorePairs
  <2> QED
    BY <2>4, <2>5, <2>6, <2>7 DEF InPairs, f
<1>8. CASE NameStep(one) /\ Quiet(rest) /\ Paired(L \cup {e})
  <2>1. InPairs(rest, L \cup {e}, next)
    BY <1>8 DEF InPairs, InOnePair
  <2> QED
    BY <2>1 DEF rest, e, one, key, next
<1>9. \/ Paired(L) /\ InOnePair(todo)
      \/ NameStep(one) /\ Quiet(rest) /\ Paired(L \cup {e})
  BY <1>2 DEF InPairs, one, rest, e
<1>10. InPairs(rest, L \cup {e}, next)
  BY <1>6, <1>7, <1>8, <1>9 DEF InOnePair, rest, e, one, key, next
<1> QED
  BY <1>10 DEF rest, e, one, key, next

-----------------------------------------------------------------------------
(* The requests keep the rows of an asset together                         *)

(* It leaves assets a name each, and saves no others. *)
NamesStay(work) ==
  /\ NamesAreUnique(work.frames["holdings"])
  /\ \A i \in DOMAIN work.steps :
       IsSave(work.steps[i], "holdings") => NamesAreUnique(work.steps[i].sheet)

(* Work that names no row of an asset, or one asset in both tables. *)
Calm(work, n) ==
  /\ GoodSteps(work.steps, n) /\ GoodFrames(work.frames, n)
  /\ NamesStay(work) /\ Quiet(work.steps)

Tidy(work, n) ==
  /\ GoodSteps(work.steps, n) /\ GoodFrames(work.frames, n)
  /\ NamesStay(work) /\ InOnePair(work.steps)

(* The records of the tables ts. *)
RecordsFor(records, ts, n) ==
  \A t \in Range(ts) :
    /\ GoodSteps(records[t], n)
    /\ \A j \in DOMAIN records[t] : IsRecord(records[t][j]) /\ records[t][j].table = t

(* New frames with a name for each asset. *)
NewFrames(f, ts, g, n) ==
  /\ GoodFrames(f, n) /\ NamesAreUnique(f["holdings"])
  /\ \A t \in Range(ts) : GoodSheet(g[t], n)
  /\ "holdings" \in Range(ts) => NamesAreUnique(g["holdings"])

(* Whether work is calm is up to its records. *)
LEMMA WorkIsCalm ==
  ASSUME NEW n, NEW f, NEW ts, SomeTables(ts), NEW g, NEW records,
         RecordsFor(records, ts, n), NewFrames(f, ts, g, n)
  PROVE  /\ InOnePair(Work(f, ts, g, records).steps) => Tidy(Work(f, ts, g, records), n)
         /\ (\A t \in Range(ts) : \A j \in DOMAIN records[t] : ~NameStep(records[t][j])) =>
              Calm(Work(f, ts, g, records), n)
<1> DEFINE work == Work(f, ts, g, records)
           todo == work.steps
<1>1. IsBlock(todo, Range(ts), g, records) /\ GoodSteps(todo, n)
  BY WorkIsBlock DEF RecordsFor, NewFrames
<1>2. /\ DOMAIN work.frames = Table
      /\ \A t \in Table : work.frames[t] = IF t \in Range(ts) THEN g[t] ELSE f[t]
  BY DEF Work
<1> HIDE DEF work
<1>3. /\ GoodFrames(f, n) /\ NamesAreUnique(f["holdings"])
      /\ \A t \in Range(ts) : GoodSheet(g[t], n)
      /\ "holdings" \in Range(ts) => NamesAreUnique(g["holdings"])
  BY DEF NewFrames
<1>4. GoodFrames(work.frames, n)
  BY <1>2, <1>3 DEF GoodFrames
<1>5. NamesAreUnique(work.frames["holdings"])
  BY <1>2, <1>3 DEF Table
<1>6. \A i \in DOMAIN todo :
        /\ todo[i].table \in Range(ts)
        /\ \/ todo[i].do = "save" /\ todo[i].sheet = g[todo[i].table]
           \/ /\ IsRecord(todo[i])
              /\ \E j \in DOMAIN records[todo[i].table] : todo[i] = records[todo[i].table][j]
  BY <1>1 DEF IsBlock
<1> HIDE DEF todo
<1>7. \A i \in DOMAIN todo : IsSave(todo[i], "holdings") => NamesAreUnique(todo[i].sheet)
  BY <1>3, <1>6 DEF IsSave, IsRecord
<1>8. NamesStay(work)
  BY <1>5, <1>7 DEF NamesStay, todo
<1>9. ASSUME \A t \in Range(ts) : \A j \in DOMAIN records[t] : ~NameStep(records[t][j])
      PROVE  Quiet(todo)
  <2>1. ASSUME NEW i \in DOMAIN todo
        PROVE  ~NameStep(todo[i])
    BY <1>6, <1>9 DEF NameStep, IsRecord
  <2> QED
    BY <2>1 DEF Quiet
<1> QED
  BY <1>1, <1>4, <1>8, <1>9 DEF Calm, Tidy, work, todo

(* They all are of this change. *)
OneChange(records, ts, op, cells) ==
  \A t \in Range(ts) : \A j \in DOMAIN records[t] :
    records[t][j].table = t /\ records[t][j].op = op /\ records[t][j].cells = cells

(* The records of a change of the rows of a name. *)
LEMMA RecordsOfName ==
  ASSUME NEW n, NEW f, GoodFrames(f, n), NEW ts, SomeTables(ts), NEW name,
         NEW op \in {"upsert", "delete", "cell"}, NEW cells,
         NEW records,
         \A t \in Table : records[t] = RecordAll(t, RowIdsWhere(f[t], name), op, cells)
  PROVE  RecordsFor(records, ts, n) /\ OneChange(records, ts, op, cells)
<1>1. Range(ts) \subseteq Table
  BY SomeTablesFacts
<1>2. ASSUME NEW t \in Range(ts)
      PROVE  /\ GoodSteps(records[t], n)
             /\ \A i \in DOMAIN records[t] :
                  /\ IsRecord(records[t][i]) /\ records[t][i].table = t
                  /\ records[t][i].op = op /\ records[t][i].cells = cells
  <2> DEFINE ids == RowIdsWhere(f[t], name)
  <2>1. t \in Table /\ GoodSheet(f[t], n)
    BY <1>1 DEF GoodFrames
  <2>2. ids \in Seq(Range(ids)) /\ Range(ids) \subseteq 1..n
    BY <2>1, IdsOfName
  <2>3. records[t] = RecordAll(t, ids, op, cells)
    BY <2>1
  <2> HIDE DEF ids
  <2>4. IsAll(RecordAll(t, ids, op, cells), t, Range(ids), op, cells, n)
    BY <2>1, <2>2, RecordAllGives
  <2> QED
    BY <2>3, <2>4 DEF IsAll
<1> QED
  BY <1>2 DEF RecordsFor, OneChange

(* A column other than the name is set, or tables of other pages change. *)
LEMMA SettingIsCalm ==
  ASSUME NEW n \in Nat, NEW f, GoodFrames(f, n), NamesAreUnique(f["holdings"]),
         NEW ts, SomeTables(ts), NEW name, NEW c \in Column, NEW value,
         c # "name" \/ ("holdings" \notin Range(ts) /\ "prices" \notin Range(ts))
  PROVE  Calm(SetNamed(f, ts, name, c, value), n)
<1> DEFINE g == [t \in Table |-> SetWhere(f[t], name, c, value)]
           records == [t \in Table |->
                         RecordAll(t, RowIdsWhere(f[t], name), "cell", Cell(c, value))]
<1>1. Range(ts) \subseteq Table /\ "holdings" \in Table
  BY SomeTablesFacts DEF Table
<1>2. RecordsFor(records, ts, n) /\ OneChange(records, ts, "cell", Cell(c, value))
  <2>1. \A t \in Table : records[t] = RecordAll(t, RowIdsWhere(f[t], name), "cell", Cell(c, value))
    OBVIOUS
  <2> HIDE DEF records
  <2> QED
    BY <2>1, RecordsOfName
<1>3. \A t \in Range(ts) : GoodSheet(g[t], n)
  BY <1>1, SetKeepsRows DEF GoodFrames
<1>4. "holdings" \in Range(ts) => NamesAreUnique(g["holdings"])
  <2>1. ASSUME "holdings" \in Range(ts)
        PROVE  NamesAreUnique(g["holdings"])
    <3> DEFINE h == f["holdings"]
               k == SetWhere(h, name, c, value)
    <3>1. c # "name"
      BY <2>1
    <3>2. DOMAIN k = DOMAIN h /\ \A i \in DOMAIN h : k[i].name = h[i].name
      BY <3>1 DEF SetWhere
    <3>3. \A i, j \in DOMAIN h : h[i].name = h[j].name => i = j
      BY DEF NamesAreUnique
    <3> HIDE DEF h, k
    <3>4. NamesAreUnique(k)
      BY <3>2, <3>3 DEF NamesAreUnique
    <3> QED
      BY <1>1, <3>4 DEF h, k
  <2> QED
    BY <2>1
<1>5. \A t \in Range(ts) : \A j \in DOMAIN records[t] : ~NameStep(records[t][j])
  BY <1>2, CellSets DEF NameStep, OneChange
<1>6. SetNamed(f, ts, name, c, value) = Work(f, ts, g, records)
  BY DEF SetNamed
<1> HIDE DEF g, records
<1>7. NewFrames(f, ts, g, n)
  BY <1>3, <1>4 DEF NewFrames
<1> QED
  BY <1>2, <1>5, <1>6, <1>7, WorkIsCalm

(* So does the work on the other pages. *)
LEMMA OthersAreCalm ==
  ASSUME NEW n \in Nat, NEW f, GoodFrames(f, n), NamesAreUnique(f["holdings"]),
         NEW ts, SomeTables(ts), "holdings" \notin Range(ts), "prices" \notin Range(ts), NEW name
  PROVE  /\ Calm(RemoveNamed(f, ts, name), n)
         /\ n = requests + 1 /\ requests \in Nat /\ GoodFrames(f, requests) =>
              Calm(AddRow(f, ts, name), n)
<1>1. Range(ts) \subseteq Table
  BY SomeTablesFacts
<1>2. Calm(RemoveNamed(f, ts, name), n)
  <2> DEFINE g == [t \in Table |-> Without(f[t], name)]
             records == [t \in Table |-> RecordAll(t, RowIdsWhere(f[t], name), "delete", <<>>)]
  <2>1. RecordsFor(records, ts, n) /\ OneChange(records, ts, "delete", <<>>)
    <3>1. \A t \in Table : records[t] = RecordAll(t, RowIdsWhere(f[t], name), "delete", <<>>)
      OBVIOUS
    <3> HIDE DEF records
    <3> QED
      BY <3>1, RecordsOfName
  <2>2. \A t \in Range(ts) : GoodSheet(g[t], n)
    BY <1>1, FilterKeepsRows DEF GoodFrames, Without
  <2>3. RemoveNamed(f, ts, name) = Work(f, ts, g, records)
    BY DEF RemoveNamed
  <2> HIDE DEF g, records
  <2>4. \A t \in Range(ts) : \A j \in DOMAIN records[t] : ~NameStep(records[t][j])
    BY <2>1 DEF NameStep, OneChange
  <2>5. NewFrames(f, ts, g, n)
    BY <2>2 DEF NewFrames
  <2> QED
    BY <2>1, <2>3, <2>4, <2>5, WorkIsCalm
<1>3. ASSUME n = requests + 1, requests \in Nat, GoodFrames(f, requests)
      PROVE  Calm(AddRow(f, ts, name), n)
  <2> DEFINE cells == [c \in Column |-> IF c = "name" THEN name ELSE 0]
             g == [t \in Table |-> Append(f[t], RowOf(requests + 1, cells))]
             r(t) == RecordStep(t, requests + 1, "upsert", cells)
             records == [t \in Table |-> <<r(t)>>]
  <2>1. AddRow(f, ts, name) = Work(f, ts, g, records)
    BY DEF AddRow
  <2>2. \A t : /\ IsRecord(r(t)) /\ r(t).do = "record" /\ r(t).table = t /\ r(t).op = "upsert"
               /\ r(t).id = requests + 1
    BY DEF RecordStep, IsRecord
  <2> HIDE DEF r
  <2>3. \A t \in Range(ts) : \A j \in DOMAIN records[t] : records[t][j] = r(t)
    BY <1>1
  <2>4. \A t \in Range(ts) : GoodSteps(records[t], n)
    <3>1. ASSUME NEW t \in Range(ts)
          PROVE  GoodSteps(<<r(t)>>, n)
      <4>1. GoodStep(r(t), n)
        <5>1. requests + 1 \in 1..n
          BY <1>3
        <5> QED
          BY <1>1, <2>2, <5>1 DEF GoodStep
      <4>2. <<r(t)>> \in Seq(Range(<<r(t)>>))
        <5>1. DOMAIN <<r(t)>> = 1..1 /\ <<r(t)>> = [i \in 1..1 |-> <<r(t)>>[i]] /\ 1 \in Nat
          OBVIOUS
        <5> QED
          BY <5>1, SeqOfItsRange
      <4>3. \A i \in DOMAIN <<r(t)>> : <<r(t)>>[i] = r(t)
        OBVIOUS
      <4> QED
        BY <4>1, <4>2, <4>3 DEF GoodSteps
    <3> QED
      BY <1>1, <3>1
  <2>5. \A t \in Range(ts) : GoodSheet(g[t], n)
    BY <1>1, <1>3, AddKeepsRows DEF GoodFrames
  <2> HIDE DEF g, records
  <2>6. RecordsFor(records, ts, n)
    BY <2>2, <2>3, <2>4 DEF RecordsFor
  <2>7. \A t \in Range(ts) : \A j \in DOMAIN records[t] : ~NameStep(records[t][j])
    BY <2>2, <2>3 DEF NameStep
  <2>8. NewFrames(f, ts, g, n)
    BY <2>5 DEF NewFrames
  <2> QED
    BY <2>1, <2>6, <2>7, <2>8, WorkIsCalm
<1> QED
  BY <1>2, <1>3

(* A price is set. *)
LEMMA PricingIsCalm ==
  ASSUME NEW n \in Nat, NEW f, GoodFrames(f, n), NamesAreUnique(f["holdings"]), NEW name,
         NEW withCurrency \in BOOLEAN
  PROVE  Calm(SetAssetPrice(f, name, withCurrency), n)
<1> DEFINE sheet == f["prices"]
           priced == SetWhere(sheet, name, "month", New)
           both == SetWhere(priced, name, "currency", New)
           ids == RowIdsWhere(sheet, name)
           a == RecordAll("prices", ids, "cell", Cell("month", New))
           b == RecordAll("prices", ids, "cell", Cell("currency", New))
           g == [t \in Table |-> both]
           records == [t \in Table |-> a \o b]
<1>1. /\ "prices" \in Table /\ "month" \in Column /\ "currency" \in Column
      /\ "month" # "name" /\ "currency" # "name" /\ "holdings" # "prices"
  BY DEF Table, Column
<1>2. SomeTables(Prices) /\ Range(Prices) = {"prices"}
  BY PagesHaveTables DEF Prices, Range
<1>3. CASE ~withCurrency
  <2>1. Calm(SetNamed(f, Prices, name, "month", New), n)
    BY <1>1, <1>2, SettingIsCalm
  <2> QED
    BY <1>3, <2>1 DEF SetAssetPrice
<1>4. CASE withCurrency
  <2>1. SetAssetPrice(f, name, withCurrency) = Work(f, Prices, g, records)
    BY <1>4 DEF SetAssetPrice
  <2>2. GoodSheet(sheet, n)
    BY <1>1 DEF GoodFrames
  <2>3. GoodSheet(both, n)
    BY <1>1, <2>2, SetKeepsRows
  <2>4. ids \in Seq(Range(ids)) /\ Range(ids) \subseteq 1..n
    BY <2>2, IdsOfName
  <2> HIDE DEF ids, both
  <2>5. /\ IsAll(a, "prices", Range(ids), "cell", Cell("month", New), n)
        /\ IsAll(b, "prices", Range(ids), "cell", Cell("currency", New), n)
    BY <1>1, <2>4, RecordAllGives
  <2>6. /\ g["prices"] = both /\ records["prices"] = a \o b
    BY <1>1
  <2> HIDE DEF g, records, a, b
  <2>7. /\ GoodSteps(a, n) /\ \A i \in DOMAIN a : IsRecord(a[i]) /\ a[i].table = "prices"
                                                /\ ~NameStep(a[i])
        /\ GoodSteps(b, n) /\ \A i \in DOMAIN b : IsRecord(b[i]) /\ b[i].table = "prices"
                                                /\ ~NameStep(b[i])
    BY <1>1, <2>5, CellSets DEF IsAll, NameStep
  <2>8. Joined(a \o b, a, b)
    BY <2>7, JoiningThem DEF GoodSteps
  <2> DEFINE R == a \o b
  <2> HIDE DEF R
  <2>9. /\ GoodSteps(R, n)
        /\ \A i \in DOMAIN R : IsRecord(R[i]) /\ R[i].table = "prices" /\ ~NameStep(R[i])
    <3>1. Joined(R, a, b)
      BY <2>8 DEF R
    <3>2. \A i \in DOMAIN R : \/ \E j \in DOMAIN a : R[i] = a[j]
                             \/ \E j \in DOMAIN b : R[i] = b[j]
      <4>1. ASSUME NEW i \in DOMAIN R
            PROVE  \/ \E j \in DOMAIN a : R[i] = a[j]
                   \/ \E j \in DOMAIN b : R[i] = b[j]
        <5>1. /\ Len(a) \in Nat /\ \A j \in DOMAIN a : R[j] = a[j]
              /\ \A j \in DOMAIN b : R[Len(a) + j] = b[j]
              /\ i \in Nat /\ (i \in DOMAIN a \/ i - Len(a) \in DOMAIN b)
          BY <3>1, JoinedSteps
        <5>2. Len(a) + (i - Len(a)) = i
          BY <5>1
        <5> QED
          BY <5>1, <5>2
      <4> QED
        BY <4>1
    <3>3. R \in Seq(Range(R))
      BY <3>1 DEF Joined
    <3> QED
      BY <2>7, <3>2, <3>3 DEF GoodSteps
  <2>10. RecordsFor(records, Prices, n)
    BY <1>2, <2>6, <2>9 DEF RecordsFor, R
  <2>11. NewFrames(f, Prices, g, n)
    BY <1>1, <1>2, <2>3, <2>6 DEF NewFrames
  <2>12. \A t \in Range(Prices) : \A j \in DOMAIN records[t] : ~NameStep(records[t][j])
    BY <1>2, <2>6, <2>9 DEF R
  <2> QED
    BY <1>2, <2>1, <2>10, <2>11, <2>12, WorkIsCalm
<1> QED
  BY <1>3, <1>4

-----------------------------------------------------------------------------
(* The requests that name an asset                                         *)

(* The assets have a name each, and their two rows. *)
AssetsHaveRows(f) ==
  /\ NamesAreUnique(f["holdings"])
  /\ HasMates(f["holdings"], f["prices"]) /\ HasMates(f["prices"], f["holdings"])

(* The tables of an asset, saved and recorded in this order. *)
LEMMA PairedWork ==
  ASSUME NEW f, NEW g, NEW records, NEW a, NEW b, TwinSteps(a, b),
         records["holdings"] = <<a>>, records["prices"] = <<b>>
  PROVE  InOnePair(Work(f, Investments, g, records).steps)
<1> DEFINE s1 == Save("holdings", g["holdings"])
           s2 == Save("prices", g["prices"])
           todo == Work(f, Investments, g, records).steps
<1>1. todo = [i \in DOMAIN Investments |-> Save(Investments[i], g[Investments[i]])]
             \o (records[Investments[1]] \o IF Len(Investments) = 1 THEN <<>> ELSE records[Investments[2]])
  BY DEF Work
<1>2. /\ DOMAIN Investments = 1..2 /\ Len(Investments) = 2
      /\ Investments[1] = "holdings" /\ Investments[2] = "prices"
  BY DEF Investments, Files
<1> HIDE DEF todo
<1>3. [i \in DOMAIN Investments |-> Save(Investments[i], g[Investments[i]])] = <<s1, s2>>
  BY <1>2
<1>4. todo = <<s1, s2>> \o (<<a>> \o <<b>>)
  BY <1>1, <1>2, <1>3
<1>5. s1.do = "save" /\ s2.do = "save"
  BY DEF Save
<1> HIDE DEF s1, s2
<1>6. /\ DOMAIN todo = 1..4 /\ todo[1] = s1 /\ todo[2] = s2 /\ todo[3] = a /\ todo[4] = b
  BY <1>4
<1>7. \A i \in DOMAIN todo : i = 1 \/ i = 2 \/ i = 3 \/ i = 4
  BY <1>6
<1>8. 3 \in DOMAIN todo /\ 3 + 1 \in DOMAIN todo /\ 3 + 1 = 4
  BY <1>6
<1>9. PairAt(todo, 3)
  BY <1>5, <1>6, <1>7, <1>8 DEF PairAt, NameStep, IsRecord
<1> QED
  BY <1>8, <1>9 DEF InOnePair, todo

(* An asset of a name, if there is one, has the same id in both tables. *)
LEMMA OneAssetOfName ==
  ASSUME NEW n, NEW f, GoodFrames(f, n), AssetsHaveRows(f), NEW name
  PROVE  \/ /\ RowIdsWhere(f["holdings"], name) = <<>> /\ RowIdsWhere(f["prices"], name) = <<>>
         \/ \E x \in 1..n : /\ RowIdsWhere(f["holdings"], name) = <<x>>
                            /\ RowIdsWhere(f["prices"], name) = <<x>>
<1> DEFINE h == f["holdings"]
           p == f["prices"]
           P(s) == {i \in DOMAIN s : s[i].name = name}
           Ids(s) == RowIdsWhere(s, name)
<1>1. /\ GoodSheet(h, n) /\ GoodSheet(p, n)
      /\ \A i, j \in DOMAIN h : h[i].name = h[j].name => i = j
      /\ \A i \in DOMAIN h : \E j \in DOMAIN p : p[j].id = h[i].id /\ p[j].name = h[i].name
      /\ \A j \in DOMAIN p : \E i \in DOMAIN h : h[i].id = p[j].id /\ h[i].name = p[j].name
  BY DEF GoodFrames, Table, AssetsHaveRows, NamesAreUnique, HasMates
<1>2. ASSUME NEW s, GoodSheet(s, n)
      PROVE  /\ P(s) = {} => Ids(s) = <<>>
             /\ \A x : P(s) # {} /\ (\A i \in P(s) : s[i].id = x) => Ids(s) = <<x>>
  <2> DEFINE hits == RowsAt(s, P(s))
  <2>1. P(s) \in SUBSET DOMAIN s
    OBVIOUS
  <2>2. Ids(s) = [i \in DOMAIN hits |-> hits[i].id]
    BY DEF RowIdsWhere, Named
  <2> HIDE DEF hits, P, Ids
  <2>3. /\ GoodSheet(hits, n)
        /\ \A k \in DOMAIN hits : \E i \in P(s) : hits[k] = s[i]
        /\ \A i \in P(s) : \E k \in DOMAIN hits : hits[k] = s[i]
    BY <1>2, <2>1, FilterKeepsRows DEF hits
  <2>4. /\ Len(hits) \in Nat /\ DOMAIN hits = 1..Len(hits)
        /\ \A k, l \in DOMAIN hits : hits[k].id = hits[l].id => k = l
    BY <2>3 DEF GoodSheet, IdsAreUnique
  <2>5. ASSUME P(s) = {}
        PROVE  Ids(s) = <<>>
    <3>1. DOMAIN hits = {} /\ Len(hits) = 0
      BY <2>3, <2>4, <2>5
    <3> QED
      BY <2>2, <3>1
  <2>6. ASSUME NEW x, P(s) # {}, \A i \in P(s) : s[i].id = x
        PROVE  Ids(s) = <<x>>
    <3>1. \A k \in DOMAIN hits : hits[k].id = x
      BY <2>3, <2>6
    <3>2. \E k : k \in DOMAIN hits
      BY <2>3, <2>6
    <3>3. Len(hits) = 1
      <4>1. 1 \in DOMAIN hits
        BY <2>4, <3>2
      <4>2. \A k \in DOMAIN hits : k = 1
        BY <2>4, <3>1, <4>1
      <4>3. Len(hits) \in DOMAIN hits
        BY <2>4, <4>1
      <4> QED
        BY <4>2, <4>3
    <3>4. DOMAIN hits = {1} /\ hits[1].id = x
      BY <2>4, <3>1, <3>3
    <3>5. Ids(s) = [i \in 1..1 |-> x]
      BY <2>2, <2>4, <3>1, <3>3
    <3> QED
      BY <3>5
  <2> QED
    BY <2>5, <2>6
<1> HIDE DEF h, p, Ids
<1>3. CASE P(h) = {}
  <2>1. P(p) = {}
    BY <1>1, <1>3
  <2> QED
    BY <1>1, <1>2, <1>3, <2>1 DEF h, p, Ids
<1>4. ASSUME NEW i \in P(h)
      PROVE  \E x \in 1..n : Ids(h) = <<x>> /\ Ids(p) = <<x>>
  <2> DEFINE x == h[i].id
  <2>1. x \in 1..n
    BY <1>1 DEF GoodSheet, GoodRow
  <2>2. \A j \in P(h) : h[j].id = x
    BY <1>1
  <2>3. P(p) # {} /\ \A j \in P(p) : p[j].id = x
    BY <1>1
  <2>4. P(h) # {}
    BY <1>4
  <2> HIDE DEF x, P
  <2>5. GoodSheet(h, n) /\ GoodSheet(p, n)
    BY <1>1
  <2>6. Ids(h) = <<x>>
    BY <1>2, <2>2, <2>4, <2>5, Zenon
  <2>7. Ids(p) = <<x>>
    BY <1>2, <2>3, <2>5, Zenon
  <2> QED
    BY <2>1, <2>6, <2>7
<1> QED
  BY <1>3, <1>4 DEF h, p, Ids

(* The rows of a name are removed or renamed, in every table. *)
NamesRows(records, f, name, op, cells) ==
  /\ op \in {"delete", "cell"} /\ (op = "cell" => ColumnOf(cells) = "name")
  /\ \A t \in Table : records[t] = RecordAll(t, RowIdsWhere(f[t], name), op, cells)

(* That names the two rows of an asset, one after the other. *)
LEMMA NamingIsTidy ==
  ASSUME NEW n, NEW f, GoodFrames(f, n), AssetsHaveRows(f), NEW name, NEW g,
         GoodSheet(g["holdings"], n), GoodSheet(g["prices"], n), NamesAreUnique(g["holdings"]),
         NEW op, NEW cells, NEW records, NamesRows(records, f, name, op, cells)
  PROVE  Tidy(Work(f, Investments, g, records), n)
<1> USE DEF NamesRows
<1>1. SomeTables(Investments) /\ \A t : t \in Range(Investments) <=> t = "holdings" \/ t = "prices"
  <2>1. DOMAIN Investments = 1..2 /\ Investments[1] = "holdings" /\ Investments[2] = "prices"
    BY DEF Investments, Files
  <2>2. \A i \in 1..2 : i = 1 \/ i = 2
    OBVIOUS
  <2>3. \A t : t \in Range(Investments) <=> \E i \in 1..2 : t = Investments[i]
    BY <2>1 DEF Range
  <2>4. 1 \in 1..2 /\ 2 \in 1..2
    OBVIOUS
  <2> QED
    BY <2>1, <2>2, <2>3, <2>4, PagesHaveTables
<1>2. RecordsFor(records, Investments, n) /\ OneChange(records, Investments, op, cells)
  BY <1>1, RecordsOfName
<1>3. NewFrames(f, Investments, g, n)
  BY <1>1 DEF NewFrames, AssetsHaveRows
<1>4. "holdings" \in Table /\ "prices" \in Table
  BY DEF Table
<1>5. InOnePair(Work(f, Investments, g, records).steps)
  <2>1. CASE RowIdsWhere(f["holdings"], name) = <<>> /\ RowIdsWhere(f["prices"], name) = <<>>
    <3>1. \A t \in Range(Investments) : records[t] = [i \in DOMAIN <<>> |-> RecordStep(t, <<>>[i], op, cells)]
      BY <1>1, <1>4, <2>1 DEF RecordAll
    <3>2. \A t \in Range(Investments) : DOMAIN records[t] = {}
      BY <3>1
    <3>3. Calm(Work(f, Investments, g, records), n)
      BY <1>1, <1>2, <1>3, <3>2, WorkIsCalm
    <3> QED
      BY <3>3 DEF Calm, InOnePair
  <2>2. ASSUME NEW x \in 1..n, RowIdsWhere(f["holdings"], name) = <<x>>,
               RowIdsWhere(f["prices"], name) = <<x>>
        PROVE  InOnePair(Work(f, Investments, g, records).steps)
    <3> DEFINE a == RecordStep("holdings", x, op, cells)
               b == RecordStep("prices", x, op, cells)
    <3>1. records["holdings"] = <<a>> /\ records["prices"] = <<b>>
      <4>1. ASSUME NEW t
            PROVE  RecordAll(t, <<x>>, op, cells) = <<RecordStep(t, x, op, cells)>>
        <5> DEFINE r == RecordStep(t, x, op, cells)
        <5>1. DOMAIN <<x>> = 1..1 /\ \A i \in 1..1 : <<x>>[i] = x
          OBVIOUS
        <5>2. RecordAll(t, <<x>>, op, cells) = [i \in 1..1 |-> r]
          BY <5>1 DEF RecordAll
        <5> HIDE DEF r
        <5>3. [i \in 1..1 |-> r] = <<r>>
          OBVIOUS
        <5> QED
          BY <5>2, <5>3 DEF r
      <4> QED
        BY <1>4, <2>2, <4>1
    <3>2. TwinSteps(a, b)
      BY DEF RecordStep, TwinSteps, NameStep, IsRecord
    <3> HIDE DEF a, b
    <3> QED
      BY <3>1, <3>2, PairedWork
  <2> QED
    BY <2>1, <2>2, OneAssetOfName
<1> QED
  BY <1>1, <1>2, <1>3, <1>5, WorkIsCalm

(* An asset is added under a name that is free. *)
LEMMA AddingIsTidy ==
  ASSUME requests \in Nat, NEW f, GoodFrames(f, requests), NamesAreUnique(f["holdings"]),
         NEW name, ~Has(f, "holdings", name)
  PROVE  Tidy(AddAsset(f, name), requests + 1)
<1> DEFINE n == requests + 1
           cells == [c \in Column |-> IF c = "name" THEN name ELSE 0]
           row == RowOf(n, cells)
           g == [t \in Table |-> Append(f[t], row)]
           r(t) == RecordStep(t, n, "upsert", cells)
           records == [t \in Table |-> <<r(t)>>]
<1>1. /\ SomeTables(Investments) /\ Range(Investments) \subseteq Table
      /\ "holdings" \in Table /\ "prices" \in Table
  BY PagesHaveTables, SomeTablesFacts DEF Table
<1>2. AddAsset(f, name) = Work(f, Investments, g, records)
  BY DEF AddAsset, AddRow
<1>3. \A t : /\ IsRecord(r(t)) /\ r(t).do = "record" /\ r(t).table = t /\ r(t).op = "upsert"
             /\ r(t).id = n /\ r(t).cells = cells
  BY DEF RecordStep, IsRecord
<1>4. row.name = name
  <2>1. "name" \in Column /\ cells["name"] = name /\ "name" # "id"
    BY DEF Column
  <2> HIDE DEF n, cells
  <2> QED
    BY <2>1 DEF RowOf
<1> HIDE DEF r
<1>5. /\ \A t \in Table : records[t] = <<r(t)>>
      /\ \A t \in Range(Investments) : \A j \in DOMAIN records[t] : records[t][j] = r(t)
  BY <1>1
<1>6. \A t \in Range(Investments) : GoodSteps(records[t], n)
  <2>1. ASSUME NEW t \in Range(Investments)
        PROVE  GoodSteps(<<r(t)>>, n)
    <3>1. GoodStep(r(t), n)
      <4>1. n \in 1..n
        OBVIOUS
      <4> QED
        BY <1>1, <1>3, <4>1 DEF GoodStep
    <3>2. <<r(t)>> \in Seq(Range(<<r(t)>>))
      <4>1. DOMAIN <<r(t)>> = 1..1 /\ <<r(t)>> = [i \in 1..1 |-> <<r(t)>>[i]] /\ 1 \in Nat
        OBVIOUS
      <4> QED
        BY <4>1, SeqOfItsRange
    <3>3. \A i \in DOMAIN <<r(t)>> : <<r(t)>>[i] = r(t)
      OBVIOUS
    <3> QED
      BY <3>1, <3>2, <3>3 DEF GoodSteps
  <2> QED
    BY <1>1, <2>1
<1>7. \A t \in Range(Investments) : GoodSheet(g[t], n)
  BY <1>1, AddKeepsRows DEF GoodFrames
<1>8. NamesAreUnique(g["holdings"])
  <2> DEFINE h == f["holdings"]
             N == Len(h)
             k == Append(h, row)
  <2>1. h \in Seq(Range(h))
    BY <1>1 DEF GoodFrames, GoodSheet
  <2>2. \A i, j \in DOMAIN h : h[i].name = h[j].name => i = j
    BY DEF NamesAreUnique
  <2>3. \A i \in DOMAIN h : h[i].name # name
    BY DEF Has, NamesIn
  <2> HIDE DEF h, row
  <2>4. /\ N \in Nat /\ DOMAIN h = 1..N /\ DOMAIN k = 1..N + 1
        /\ k[N + 1] = row /\ \A i \in 1..N : k[i] = h[i]
    BY <2>1
  <2> HIDE DEF N, k
  <2>5. \A i \in DOMAIN k : i = N + 1 \/ i \in DOMAIN h
    BY <2>4
  <2>6. NamesAreUnique(k)
    BY <1>4, <2>2, <2>3, <2>4, <2>5 DEF NamesAreUnique
  <2> QED
    BY <1>1, <2>6 DEF h, k
<1>9. GoodFrames(f, n)
  <2>1. n \in Nat /\ requests <= n
    OBVIOUS
  <2> QED
    BY <2>1, GoodForMore
<1>10. TwinSteps(r("holdings"), r("prices"))
  BY <1>3 DEF TwinSteps, NameStep
<1> HIDE DEF n, g, records
<1>11. RecordsFor(records, Investments, n)
  BY <1>3, <1>5, <1>6 DEF RecordsFor
<1>12. NewFrames(f, Investments, g, n)
  BY <1>7, <1>8, <1>9 DEF NewFrames
<1>13. InOnePair(Work(f, Investments, g, records).steps)
  BY <1>1, <1>5, <1>10, PairedWork
<1>14. Tidy(Work(f, Investments, g, records), n)
  BY <1>1, <1>11, <1>12, <1>13, WorkIsCalm
<1> QED
  BY <1>2, <1>14 DEF n

(* An asset is removed, or gets a name that is free. *)
LEMMA RemovingIsTidy ==
  ASSUME NEW n, NEW f, GoodFrames(f, n), AssetsHaveRows(f), NEW name
  PROVE  Tidy(RemoveAsset(f, name), n)
<1> DEFINE g == [t \in Table |-> Without(f[t], name)]
           records == [t \in Table |-> RecordAll(t, RowIdsWhere(f[t], name), "delete", <<>>)]
<1>1. "holdings" \in Table /\ "prices" \in Table
  BY DEF Table
<1>2. RemoveAsset(f, name) = Work(f, Investments, g, records)
  BY DEF RemoveAsset, RemoveNamed
<1>3. GoodSheet(g["holdings"], n) /\ GoodSheet(g["prices"], n)
  BY <1>1, FilterKeepsRows DEF GoodFrames, Without
<1>4. NamesAreUnique(g["holdings"])
  <2> DEFINE h == f["holdings"]
             P == {i \in DOMAIN h : h[i].name # name}
             k == RowsAt(h, P)
  <2>1. /\ GoodSheet(h, n) /\ P \in SUBSET DOMAIN h
        /\ \A i, j \in DOMAIN h : h[i].name = h[j].name => i = j
    BY <1>1 DEF GoodFrames, AssetsHaveRows, NamesAreUnique
  <2>2. g["holdings"] = k
    BY <1>1 DEF Without
  <2> HIDE DEF h, P, k
  <2>3. /\ GoodSheet(k, n) /\ \A i \in DOMAIN k : \E j \in P : k[i] = h[j]
    BY <2>1, FilterKeepsRows DEF k
  <2>4. \A i, j \in DOMAIN k : k[i].name = k[j].name => k[i].id = k[j].id
    BY <2>1, <2>3
  <2>5. NamesAreUnique(k)
    BY <2>3, <2>4 DEF NamesAreUnique, GoodSheet, IdsAreUnique
  <2> QED
    BY <2>2, <2>5
<1>5. NamesRows(records, f, name, "delete", <<>>)
  BY DEF NamesRows
<1> HIDE DEF g, records
<1> QED
  BY <1>2, <1>3, <1>4, <1>5, NamingIsTidy

(* So it is when an asset gets a name that is free. *)
LEMMA RenamingIsTidy ==
  ASSUME NEW n \in Nat, NEW f, GoodFrames(f, n), AssetsHaveRows(f), NEW old, NEW new,
         CanRename(f, "holdings", old, new)
  PROVE  Tidy(RenameAsset(f, old, new), n)
<1>1. CASE new = old
  <2>1. RenameAsset(f, old, new).frames = f /\ RenameAsset(f, old, new).steps = <<>>
    BY <1>1 DEF RenameAsset, Nothing
  <2>2. DOMAIN <<>> = {} /\ <<>> \in Seq(Range(<<>>))
    OBVIOUS
  <2> QED
    BY <2>1, <2>2 DEF Tidy, NamesStay, InOnePair, Quiet, GoodSteps, AssetsHaveRows
<1>2. CASE new # old
  <2> DEFINE g == [t \in Table |-> SetWhere(f[t], old, "name", new)]
             records == [t \in Table |->
                           RecordAll(t, RowIdsWhere(f[t], old), "cell", Cell("name", new))]
  <2>1. "holdings" \in Table /\ "prices" \in Table /\ "name" \in Column
    BY DEF Table, Column
  <2>2. RenameAsset(f, old, new) = Work(f, Investments, g, records)
    BY <1>2 DEF RenameAsset, SetNamed
  <2>3. GoodSheet(g["holdings"], n) /\ GoodSheet(g["prices"], n)
    BY <2>1, SetKeepsRows DEF GoodFrames
  <2>4. NamesAreUnique(g["holdings"])
    <3> DEFINE h == f["holdings"]
               k == SetWhere(h, old, "name", new)
    <3>1. \A i, j \in DOMAIN h : h[i].name = h[j].name => i = j
      BY DEF AssetsHaveRows, NamesAreUnique
    <3>2. \A i \in DOMAIN h : h[i].name # new
      BY <1>2 DEF CanRename, Has, NamesIn
    <3>3. \A i \in DOMAIN h : DOMAIN h[i] = Column \cup {"id"}
      BY <2>1, RowFacts DEF GoodFrames, GoodSheet
    <3>4. g["holdings"] = k
      BY <2>1
    <3> HIDE DEF h
    <3>5. /\ DOMAIN k = DOMAIN h
          /\ \A i \in DOMAIN h : k[i].name = IF h[i].name = old THEN new ELSE h[i].name
      BY <2>1, <3>3 DEF SetWhere
    <3> HIDE DEF k
    <3>6. NamesAreUnique(k)
      BY <3>1, <3>2, <3>5 DEF NamesAreUnique
    <3> QED
      BY <3>4, <3>6
  <2>5. NamesRows(records, f, old, "cell", Cell("name", new))
    BY CellSets DEF NamesRows
  <2> HIDE DEF g, records
  <2> QED
    BY <2>2, <2>3, <2>4, <2>5, NamingIsTidy
<1> QED
  BY <1>1, <1>2

(* Calm work may follow. *)
LEMMA GivenIsTidy ==
  ASSUME NEW n, NEW work, NEW more, Tidy(work, n), Calm(more, n), NEW wanted, NEW part
  PROVE  Tidy(Given(work, wanted, part, more), n)
<1>1. CASE part \notin wanted
  BY <1>1 DEF Given
<1>2. CASE part \in wanted
  <2> DEFINE both == Given(work, wanted, part, more)
             a == work.steps
             b == more.steps
             todo == a \o b
  <2>1. both.frames = more.frames /\ both.steps = todo
    BY <1>2 DEF Given
  <2>2. /\ GoodSteps(a, n) /\ GoodSteps(b, n) /\ NamesStay(work) /\ NamesStay(more)
        /\ GoodFrames(more.frames, n) /\ InOnePair(a) /\ Quiet(b)
    BY DEF Tidy, Calm
  <2> HIDE DEF both, a, b
  <2>3. Joined(todo, a, b)
    BY <2>2, JoiningThem DEF GoodSteps
  <2> HIDE DEF todo
  <2>4. /\ Len(a) \in Nat /\ \A i \in DOMAIN a : i \in DOMAIN todo /\ todo[i] = a[i] /\ i \in Nat
        /\ \A i \in DOMAIN b : todo[Len(a) + i] = b[i]
        /\ \A i \in DOMAIN todo :
             i \in Nat /\ (i \in DOMAIN a \/ (i - Len(a) \in DOMAIN b /\ Len(a) < i))
        /\ \A i \in DOMAIN todo : i \in DOMAIN a <=> i <= Len(a)
    BY <2>3, JoinedSteps
  <2>5. \A i \in DOMAIN todo :
          \/ i \in DOMAIN a /\ todo[i] = a[i]
          \/ Len(a) < i /\ \E j \in DOMAIN b : todo[i] = b[j]
    <3>1. ASSUME NEW i \in DOMAIN todo, i \notin DOMAIN a
          PROVE  Len(a) < i /\ \E j \in DOMAIN b : todo[i] = b[j]
      <4>1. i \in Nat /\ Len(a) \in Nat /\ i - Len(a) \in DOMAIN b /\ Len(a) < i
        BY <2>3, <3>1, JoinedSteps
      <4>2. Len(a) + (i - Len(a)) = i
        BY <4>1
      <4>3. todo[i] = b[i - Len(a)]
        BY <2>4, <4>1, <4>2
      <4> QED
        BY <4>1, <4>3
    <3> QED
      BY <2>4, <3>1
  <2>6. GoodSteps(todo, n)
    <3>1. todo \in Seq(Range(todo))
      BY <2>3 DEF Joined
    <3> QED
      BY <2>2, <2>5, <3>1 DEF GoodSteps
  <2>7. NamesStay(both)
    BY <2>1, <2>2, <2>5 DEF NamesStay, a, b
  <2>8. InOnePair(todo)
    <3>1. CASE Quiet(a)
      <4>1. Quiet(todo)
        BY <2>2, <2>5, <3>1 DEF Quiet
      <4> QED
        BY <4>1 DEF InOnePair
    <3>2. ASSUME NEW k \in DOMAIN a, PairAt(a, k)
          PROVE  InOnePair(todo)
      <4>1. /\ k + 1 \in DOMAIN a /\ TwinSteps(a[k], a[k + 1])
            /\ \A i \in DOMAIN a : i < k => a[i].do = "save"
            /\ \A i \in DOMAIN a : i # k /\ i # k + 1 => ~NameStep(a[i])
        BY <3>2 DEF PairAt
      <4>2. /\ k \in DOMAIN todo /\ k + 1 \in DOMAIN todo
            /\ todo[k] = a[k] /\ todo[k + 1] = a[k + 1] /\ k <= Len(a) /\ k \in Nat
        BY <2>4, <4>1
      <4>3. \A i \in DOMAIN todo : i < k => i \in DOMAIN a
        BY <2>4, <4>2
      <4>4. \A i \in DOMAIN todo : i < k => todo[i].do = "save"
        BY <2>4, <4>1, <4>3
      <4>5. \A i \in DOMAIN todo : i # k /\ i # k + 1 => ~NameStep(todo[i])
        BY <2>2, <2>5, <4>1 DEF Quiet
      <4>6. PairAt(todo, k)
        BY <4>1, <4>2, <4>4, <4>5 DEF PairAt
      <4> QED
        BY <4>2, <4>6 DEF InOnePair
    <3> QED
      BY <2>2, <3>1, <3>2 DEF InOnePair
  <2>9. Tidy(both, n)
    BY <2>1, <2>2, <2>6, <2>7, <2>8 DEF Tidy
  <2> QED
    BY <2>9 DEF both
<1> QED
  BY <1>1, <1>2

(* Calm work is tidy. *)
LEMMA CalmIsTidy ==
  ASSUME NEW work, NEW n, Calm(work, n)
  PROVE  Tidy(work, n)
BY DEF Calm, Tidy, InOnePair

(* The tables of the pages other than the investments. *)
LEMMA OtherPages ==
  /\ SomeTables(Liquidity) /\ "holdings" \notin Range(Liquidity) /\ "prices" \notin Range(Liquidity)
  /\ SomeTables(Credits) /\ "holdings" \notin Range(Credits) /\ "prices" \notin Range(Credits)
  /\ SomeTables(Holdings) /\ SomeTables(Investments)
BY PagesHaveTables DEF Liquidity, Credits, Files, Range

(* A part of an update that sets no name. *)
LEMMA PartsAreCalm ==
  ASSUME NEW n \in Nat, NEW f, GoodFrames(f, n), NamesAreUnique(f["holdings"]), NEW name
  PROVE  /\ Calm(SetAssetCategory(f, name), n) /\ Calm(SetAssetLink(f, name), n)
         /\ Calm(SetAssetCurrency(f, name), n)
         /\ Calm(SetLiquidityCategory(f, name), n) /\ Calm(SetLiquidityCurrency(f, name), n)
         /\ Calm(SetCreditCurrency(f, name), n)
<1>1. "meta" \in Column /\ "currency" \in Column /\ "meta" # "name" /\ "currency" # "name"
  BY DEF Column
<1>2. Calm(SetNamed(f, Investments, name, "meta", New), n)
  BY <1>1, OtherPages, SettingIsCalm
<1>3. Calm(SetNamed(f, Holdings, name, "currency", New), n)
  BY <1>1, OtherPages, SettingIsCalm
<1>4. Calm(SetNamed(f, Liquidity, name, "meta", New), n)
  BY <1>1, OtherPages, SettingIsCalm
<1>5. Calm(SetNamed(f, Liquidity, name, "currency", New), n)
  BY <1>1, OtherPages, SettingIsCalm
<1>6. Calm(SetNamed(f, Credits, name, "currency", New), n)
  BY <1>1, OtherPages, SettingIsCalm
<1> QED
  BY <1>2, <1>3, <1>4, <1>5, <1>6
  DEF SetAssetCategory, SetAssetLink, SetAssetCurrency, SetLiquidityCategory,
      SetLiquidityCurrency, SetCreditCurrency

(* A request keeps the rows of the assets together. *)
TidyRequest(d) == \E work : Request(d, work) /\ Tidy(work, requests + 1)

(* So do the requests about the investments. *)
LEMMA InvestmentsAreTidy ==
  ASSUME requests \in Nat, NEW d, GoodFrames(disk[d], requests), AssetsHaveRows(disk[d])
  PROVE  AddInvestment(d) \/ UpdateInvestment(d) \/ DeleteInvestment(d) \/ SetQuantity(d)
           \/ SetPrice(d) => TidyRequest(d)
<1> DEFINE f == disk[d]
           n == requests + 1
<1>1. /\ n \in Nat /\ GoodFrames(f, requests) /\ GoodFrames(f, n)
      /\ AssetsHaveRows(f) /\ NamesAreUnique(f["holdings"])
  <2>1. n \in Nat /\ requests <= n
    OBVIOUS
  <2> QED
    BY <2>1, GoodForMore DEF AssetsHaveRows
<1>2. CASE AddInvestment(d)
  <2>1. PICK name \in Name : ~Has(f, "holdings", name) /\ Request(d, AddAsset(f, name))
    BY <1>2 DEF AddInvestment
  <2>2. Tidy(AddAsset(f, name), n)
    BY <1>1, <2>1, AddingIsTidy
  <2> QED
    BY <2>1, <2>2 DEF TidyRequest
<1>3. CASE UpdateInvestment(d)
  <2>1. PICK old \in Name, new \in Name, wanted \in Parts({"category", "currency", "link"}) :
          /\ CanRename(f, "holdings", old, new)
          /\ LET renamed == RenameAsset(f, old, new)
                 filed == Given(renamed, wanted, "category", SetAssetCategory(renamed.frames, new))
                 priced == Given(filed, wanted, "currency", SetAssetCurrency(filed.frames, new))
             IN Request(d, Given(priced, wanted, "link", SetAssetLink(priced.frames, new)))
    BY <1>3 DEF UpdateInvestment
  <2> DEFINE renamed == RenameAsset(f, old, new)
             filed == Given(renamed, wanted, "category", SetAssetCategory(renamed.frames, new))
             priced == Given(filed, wanted, "currency", SetAssetCurrency(filed.frames, new))
             work == Given(priced, wanted, "link", SetAssetLink(priced.frames, new))
  <2>2. Request(d, work) /\ CanRename(f, "holdings", old, new)
    BY <2>1
  <2> HIDE DEF f, n, renamed, filed, priced, work
  <2>3. \A w : Tidy(w, n) => /\ Calm(SetAssetCategory(w.frames, new), n)
                             /\ Calm(SetAssetCurrency(w.frames, new), n)
                             /\ Calm(SetAssetLink(w.frames, new), n)
    BY <1>1, PartsAreCalm DEF Tidy, NamesStay
  <2>4. Tidy(renamed, n)
    BY <1>1, <2>2, RenamingIsTidy DEF renamed
  <2>5. Tidy(filed, n)
    BY <2>3, <2>4, GivenIsTidy DEF filed
  <2>6. Tidy(priced, n)
    BY <2>3, <2>5, GivenIsTidy DEF priced
  <2>7. Tidy(work, n)
    BY <2>3, <2>6, GivenIsTidy DEF work
  <2> QED
    BY <2>2, <2>7 DEF TidyRequest, n
<1>4. CASE DeleteInvestment(d)
  <2>1. PICK name \in Name : Request(d, RemoveAsset(f, name))
    BY <1>4 DEF DeleteInvestment
  <2>2. Tidy(RemoveAsset(f, name), n)
    BY <1>1, RemovingIsTidy
  <2> QED
    BY <2>1, <2>2 DEF TidyRequest
<1>5. CASE SetQuantity(d)
  <2>1. PICK name \in Name : Request(d, SetNamed(f, Holdings, name, "month", New))
    BY <1>5 DEF SetQuantity
  <2>2. "month" \in Column /\ "month" # "name"
    BY DEF Column
  <2>3. Tidy(SetNamed(f, Holdings, name, "month", New), n)
    BY <1>1, <2>2, OtherPages, SettingIsCalm, CalmIsTidy
  <2> QED
    BY <2>1, <2>3 DEF TidyRequest
<1>6. CASE SetPrice(d)
  <2>1. PICK name \in Name, withCurrency \in BOOLEAN :
          Request(d, SetAssetPrice(f, name, withCurrency))
    BY <1>6 DEF SetPrice
  <2>2. Tidy(SetAssetPrice(f, name, withCurrency), n)
    BY <1>1, PricingIsCalm, CalmIsTidy
  <2> QED
    BY <2>1, <2>2 DEF TidyRequest
<1> QED
  BY <1>2, <1>3, <1>4, <1>5, <1>6

(* And those about the other pages. *)
LEMMA OthersAreTidy ==
  ASSUME requests \in Nat, NEW d, GoodFrames(disk[d], requests),
         NamesAreUnique(disk[d]["holdings"])
  PROVE  \/ AddLiquidity(d) \/ UpdateLiquidity(d) \/ DeleteLiquidity(d) \/ SetLiquidity(d)
         \/ AddCredit(d) \/ UpdateCredit(d) \/ DeleteCredit(d) \/ SetCredit(d)
         => TidyRequest(d)
<1> DEFINE f == disk[d]
           n == requests + 1
<1>1. /\ n \in Nat /\ GoodFrames(f, requests) /\ GoodFrames(f, n)
      /\ NamesAreUnique(f["holdings"]) /\ n = requests + 1
  <2>1. n \in Nat /\ requests <= n
    OBVIOUS
  <2> QED
    BY <2>1, GoodForMore
<1>2. "month" \in Column /\ "name" \in Column
  BY DEF Column
<1>3. ASSUME NEW ts, SomeTables(ts), "holdings" \notin Range(ts), "prices" \notin Range(ts), NEW name
      PROVE  /\ Tidy(AddRow(f, ts, name), n) /\ Tidy(RemoveNamed(f, ts, name), n)
             /\ \A v : Tidy(SetNamed(f, ts, name, "month", v), n)
             /\ \A v : Tidy(SetNamed(f, ts, name, "name", v), n)
  <2> HIDE DEF f, n
  <2>1. Calm(RemoveNamed(f, ts, name), n) /\ Calm(AddRow(f, ts, name), n)
    BY <1>1, <1>3, OthersAreCalm
  <2>2. \A c \in Column : \A v : Calm(SetNamed(f, ts, name, c, v), n)
    BY <1>1, <1>3, SettingIsCalm
  <2> QED
    BY <1>2, <2>1, <2>2, CalmIsTidy
<1>4. \A w, name : Tidy(w, n) => /\ Calm(SetLiquidityCategory(w.frames, name), n)
                                 /\ Calm(SetLiquidityCurrency(w.frames, name), n)
                                 /\ Calm(SetCreditCurrency(w.frames, name), n)
  BY <1>1, PartsAreCalm DEF Tidy, NamesStay
<1>5. Tidy(Nothing(f), n)
  <2>1. DOMAIN <<>> = {} /\ <<>> \in Seq(Range(<<>>))
    OBVIOUS
  <2> QED
    BY <1>1, <2>1 DEF Nothing, Tidy, NamesStay, InOnePair, Quiet, GoodSteps
<1>6. CASE AddLiquidity(d) \/ AddCredit(d)
  <2>1. \E name \in Name : Request(d, AddRow(f, Liquidity, name)) \/ Request(d, AddRow(f, Credits, name))
    BY <1>6 DEF AddLiquidity, AddCredit, AddLiquidityAsset, AddEntry
  <2> QED
    BY <1>3, <2>1, OtherPages DEF TidyRequest
<1>7. CASE DeleteLiquidity(d) \/ DeleteCredit(d)
  <2>1. \E name \in Name :
          Request(d, RemoveNamed(f, Liquidity, name)) \/ Request(d, RemoveNamed(f, Credits, name))
    BY <1>7 DEF DeleteLiquidity, DeleteCredit, RemoveLiquidityAsset, RemoveEntry
  <2> QED
    BY <1>3, <2>1, OtherPages DEF TidyRequest
<1>8. CASE SetLiquidity(d) \/ SetCredit(d)
  <2>1. \E name \in Name : \E v : \/ Request(d, SetNamed(f, Liquidity, name, "month", v))
                                 \/ Request(d, SetNamed(f, Credits, name, "month", v))
    BY <1>8 DEF SetLiquidity, SetCredit, SetLiquidityValue, SetCreditValue
  <2> QED
    BY <1>3, <2>1, OtherPages DEF TidyRequest
<1>9. CASE UpdateLiquidity(d)
  <2>1. PICK old \in Name, new \in Name, wanted \in Parts({"category", "currency"}) :
          LET renamed == RenameLiquidity(f, old, new)
              filed == Given(renamed, wanted, "category",
                             SetLiquidityCategory(renamed.frames, new))
          IN Request(d, Given(filed, wanted, "currency", SetLiquidityCurrency(filed.frames, new)))
    BY <1>9 DEF UpdateLiquidity
  <2> DEFINE renamed == RenameLiquidity(f, old, new)
             filed == Given(renamed, wanted, "category", SetLiquidityCategory(renamed.frames, new))
             work == Given(filed, wanted, "currency", SetLiquidityCurrency(filed.frames, new))
  <2>2. Request(d, work)
    BY <2>1
  <2>3. Tidy(renamed, n)
    BY <1>3, <1>5, OtherPages DEF RenameLiquidity
  <2> HIDE DEF f, n, renamed, filed, work
  <2>4. Tidy(filed, n)
    BY <1>4, <2>3, GivenIsTidy DEF filed
  <2>5. Tidy(work, n)
    BY <1>4, <2>4, GivenIsTidy DEF work
  <2> QED
    BY <2>2, <2>5 DEF TidyRequest, n
<1>10. CASE UpdateCredit(d)
  <2>1. PICK old \in Name, new \in Name, wanted \in Parts({"currency"}) :
          LET renamed == RenameCredit(f, old, new)
          IN Request(d, Given(renamed, wanted, "currency", SetCreditCurrency(renamed.frames, new)))
    BY <1>10 DEF UpdateCredit
  <2> DEFINE renamed == RenameCredit(f, old, new)
             work == Given(renamed, wanted, "currency", SetCreditCurrency(renamed.frames, new))
  <2>2. Request(d, work)
    BY <2>1
  <2>3. Tidy(renamed, n)
    BY <1>3, <1>5, OtherPages DEF RenameCredit
  <2> HIDE DEF f, n, renamed, work
  <2>4. Tidy(work, n)
    BY <1>4, <2>3, GivenIsTidy DEF work
  <2> QED
    BY <2>2, <2>4 DEF TidyRequest, n
<1> QED
  BY <1>6, <1>7, <1>8, <1>9, <1>10

-----------------------------------------------------------------------------
(* The rows of the assets, from step to step                               *)

(* Nothing is known to have come between the rows of an asset, and no two  *)
(* devices gave an asset one name.                                         *)
Sure == marked = {} /\ astray = {} /\ ~apart /\ ~namesakes

(* The key of the next entry of a device. *)
NextKey(d) == [time |-> clock[d] + 1, device |-> d]

(* The assets have a name each, and will have after each step. *)
NamesKept(f, todo) ==
  /\ NamesAreUnique(f["holdings"])
  /\ \A i \in DOMAIN todo : IsSave(todo[i], "holdings") => NamesAreUnique(todo[i].sheet)

Together(d) == InPairs(steps[d], log[d], NextKey(d)) /\ NamesKept(disk[d], steps[d])

AssetsInv == Sure => \A d \in Device : Together(d)

(* A device that no step moves. *)
LEMMA RestIsTogether ==
  ASSUME NEW d, Together(d), steps'[d] = steps[d], log'[d] = log[d], disk'[d] = disk[d],
         clock'[d] = clock[d]
  PROVE  Together(d)'
BY DEF Together, NextKey

(* A device with nothing to do has a paired log. *)
LEMMA IdleIsPaired ==
  ASSUME NEW L, NEW key
  PROVE  InPairs(<<>>, L, key) <=> Paired(L)
<1>1. Quiet(<<>>)
  BY DEF Quiet
<1> QED
  BY <1>1 DEF InPairs, InOnePair

(* A device that has nothing more to do. *)
LEMMA IdleIsTogether ==
  ASSUME NEW d, steps'[d] = <<>>, Paired(log'[d]), NamesAreUnique(disk'[d]["holdings"])
  PROVE  Together(d)'
<1>1. InPairs(<<>>, log'[d], NextKey(d)')
  BY IdleIsPaired
<1>2. NamesKept(disk'[d], <<>>)
  BY DEF NamesKept
<1> QED
  BY <1>1, <1>2 DEF Together

(* The log of a device with nothing to do is paired, and so are its files. *)
LEMMA IdleHasRows ==
  ASSUME IInv, Sure, NEW d \in Device, Together(d), steps[d] = <<>>
  PROVE  AssetsHaveRows(disk[d])
<1> DEFINE L == log[d]
<1>1. Typed /\ StampsTell /\ RequestsAreCoherent
  BY DEF IInv
<1>2. Heard(d) = L
  BY DEF Heard, Sure
<1>3. L \subseteq Everything /\ IsFiniteSet(L) /\ Timed(L)
  BY <1>1, LogFacts
<1>4. Plain(L) /\ Distinct(L)
  <2>1. Device \subseteq Nat
    BY NetWorthAssumption
  <2>2. \A e \in L : GoodEntry(e, requests)
    BY <1>1, <1>3 DEF Typed
  <2>3. Plain(L)
    BY <2>1, <2>2 DEF GoodEntry, Plain
  <2>4. Distinct(L)
    BY <1>1, <1>3 DEF StampsTell, Distinct
  <2> QED
    BY <2>3, <2>4
<1>5. \A t \in Table : Tells(L, L, t, disk[d][t])
  <2>1. Coherent(<<>>, disk[d], log[d], Heard(d), d)
    BY <1>1 DEF RequestsAreCoherent, Sure
  <2>2. \A t \in Table : Tells(log[d], Heard(d), t, disk[d][t])
    BY <1>3, <2>1, IdleTells
  <2> QED
    BY <1>2, <2>2
<1>6. Paired(L)
  BY IdleIsPaired DEF Together
<1>7. "holdings" \in Table /\ "prices" \in Table
  BY DEF Table
<1> HIDE DEF L
<1>8. /\ HasMates(disk[d]["holdings"], disk[d]["prices"])
      /\ HasMates(disk[d]["prices"], disk[d]["holdings"])
  BY <1>3, <1>4, <1>5, <1>6, <1>7, PairedGivesRows
<1> QED
  BY <1>8 DEF AssetsHaveRows, Together, NamesKept

(* A request. *)
LEMMA RequestKeepsAssets ==
  ASSUME IInv, AssetsInv, NEW d \in Device, steps[d] = <<>>,
         NEW work, Request(d, work), Sure => Tidy(work, requests + 1)
  PROVE  AssetsInv'
<1>1. /\ steps' = [steps EXCEPT ![d] = work.steps]
      /\ disk' = disk /\ log' = log /\ marked' = marked /\ astray' = astray
      /\ apart' = apart /\ namesakes' = namesakes
      /\ \E t : clock' = [clock EXCEPT ![d] = t]
  BY DEF Request
<1>2. DOMAIN steps = Device /\ clock \in [Device -> Nat]
  BY DEF IInv, Typed
<1>3. ASSUME Sure
      PROVE  \A e \in Device : Together(e)'
  <2>1. \A e \in Device : Together(e)
    BY <1>3 DEF AssetsInv
  <2>2. ASSUME NEW e \in Device, e # d
        PROVE  Together(e)'
    <3>1. steps'[e] = steps[e] /\ clock'[e] = clock[e]
      BY <1>1, <1>2, <2>2
    <3> QED
      BY <1>1, <2>1, <3>1, RestIsTogether
  <2>3. Together(d)'
    <3>1. steps'[d] = work.steps
      BY <1>1, <1>2
    <3>2. InOnePair(work.steps) /\ NamesStay(work)
      BY <1>3 DEF Tidy
    <3>3. Paired(log[d]) /\ NamesAreUnique(disk[d]["holdings"])
      BY <2>1, IdleIsPaired DEF Together, NamesKept
    <3>4. InPairs(steps'[d], log'[d], NextKey(d)')
      BY <1>1, <3>1, <3>2, <3>3 DEF InPairs
    <3>5. NamesKept(disk'[d], steps'[d])
      BY <1>1, <3>1, <3>2, <3>3 DEF NamesKept, NamesStay
    <3> QED
      BY <3>4, <3>5 DEF Together
  <2> QED
    BY <2>2, <2>3
<1> QED
  BY <1>1, <1>3 DEF AssetsInv, Sure

(* Of the steps of a request, one is left out. *)
LEMMA TailKeepsNames ==
  ASSUME NEW todo, todo \in Seq(Range(todo)), todo # <<>>, NEW f, NEW h, NamesKept(f, todo),
         NamesAreUnique(h["holdings"])
  PROVE  NamesKept(h, Tail(todo))
<1>1. \A i \in DOMAIN Tail(todo) : \E j \in DOMAIN todo : Tail(todo)[i] = todo[j]
  BY HeadAndTail
<1> HIDE DEF NamesAreUnique
<1> QED
  BY <1>1 DEF NamesKept

(* A step of a request. *)
LEMMA DoingKeepsAssets ==
  ASSUME IInv, AssetsInv, NEW d \in Device, SaveFile(d) \/ RecordEntry(d)
  PROVE  AssetsInv'
<1> DEFINE todo == steps[d]
<1>1. /\ todo # <<>> /\ steps' = [steps EXCEPT ![d] = Tail(todo)]
      /\ marked' = marked /\ astray' = astray /\ apart' = apart /\ namesakes' = namesakes
  BY DEF SaveFile, RecordEntry, Doing
<1>2. /\ DOMAIN steps = Device /\ DOMAIN disk = Device /\ DOMAIN log = Device
      /\ clock \in [Device -> Nat] /\ DOMAIN disk[d] = Table
      /\ todo \in Seq(Range(todo))
  BY DEF IInv, Typed, GoodFrames, GoodSteps
<1>3. steps'[d] = Tail(todo)
  BY <1>1, <1>2
<1>4. Head(todo) = todo[1] /\ 1 \in DOMAIN todo
  BY <1>1, <1>2, HeadAndTail
<1>5. \A e \in Device : e # d =>
        /\ steps'[e] = steps[e] /\ log'[e] = log[e] /\ disk'[e] = disk[e] /\ clock'[e] = clock[e]
  BY <1>2 DEF SaveFile, RecordEntry
<1>6. ASSUME Sure
      PROVE  \A e \in Device : Together(e)'
  <2>1. \A e \in Device : Together(e)
    BY <1>6 DEF AssetsInv
  <2>2. \A e \in Device : e # d => Together(e)'
    BY <1>5, <2>1, RestIsTogether
  <2>3. InPairs(todo, log[d], NextKey(d)) /\ NamesKept(disk[d], todo)
    BY <2>1 DEF Together
  <2>4. CASE SaveFile(d)
    <3>1. /\ Head(todo).do = "save" /\ log' = log /\ clock' = clock
          /\ disk' = [disk EXCEPT ![d][Head(todo).table] = Head(todo).sheet]
      BY <2>4 DEF SaveFile, Doing
    <3>2. NextKey(d)' = NextKey(d)
      BY <3>1 DEF NextKey
    <3> HIDE DEF todo
    <3>3. InPairs(Tail(todo), log[d], NextKey(d))
      BY <1>1, <1>2, <2>3, <3>1, SaveKeepsPairs
    <3>4. disk'[d]["holdings"] = IF Head(todo).table = "holdings" THEN Head(todo).sheet
                                 ELSE disk[d]["holdings"]
      BY <1>2, <3>1 DEF Table
    <3>5. Head(todo).table = "holdings" => NamesAreUnique(Head(todo).sheet)
      BY <1>4, <2>3, <3>1 DEF NamesKept, IsSave
    <3>6. NamesAreUnique(disk'[d]["holdings"])
      BY <2>3, <3>4, <3>5 DEF NamesKept
    <3>7. NamesKept(disk'[d], Tail(todo))
      BY <1>1, <1>2, <2>3, <3>6, TailKeepsNames
    <3>8. Together(d)'
      BY <1>3, <3>1, <3>2, <3>3, <3>7 DEF Together
    <3> QED
      BY <2>2, <3>8
  <2>5. CASE RecordEntry(d)
    <3> DEFINE s == clock[d] + 1
               key == [time |-> s, device |-> d]
               new == EntryOf(Head(todo), key)
    <3>1. /\ Head(todo).do = "record" /\ disk' = disk /\ clock' = [clock EXCEPT ![d] = s]
          /\ log' = [log EXCEPT ![d] =
                       @ \cup {EntryOf(Head(todo), [time |-> clock'[d], device |-> d])}]
      BY <2>5 DEF RecordEntry, Doing
    <3>2. s \in Nat /\ clock'[d] = s
      BY <1>2, <3>1
    <3>3. log'[d] = log[d] \cup {new}
      BY <1>2, <3>1, <3>2
    <3>4. NextKey(d) = key /\ NextKey(d)' = [time |-> s + 1, device |-> d]
      BY <3>2 DEF NextKey
    <3> HIDE DEF todo, s
    <3>5. InPairs(Tail(todo), log[d] \cup {new}, [time |-> s + 1, device |-> d])
      BY <1>1, <1>2, <2>3, <3>1, <3>2, <3>4, RecordKeepsPairs
    <3>6. NamesKept(disk[d], Tail(todo))
      <4>1. NamesAreUnique(disk[d]["holdings"])
        BY <2>3 DEF NamesKept
      <4> QED
        BY <1>1, <1>2, <2>3, <4>1, TailKeepsNames
    <3>7. Together(d)'
      BY <1>3, <3>1, <3>3, <3>4, <3>5, <3>6 DEF Together
    <3> QED
      BY <2>2, <3>7
  <2> QED
    BY <2>4, <2>5
<1> QED
  BY <1>1, <1>6 DEF AssetsInv, Sure

(* A request cut off between the two records of an asset has lost one of   *)
(* them for good; at any other step the log is paired.                     *)
LEMMA CutOffKeepsAssets ==
  ASSUME IInv, AssetsInv, NEW d \in Device, SaveFails(d) \/ Crash(d)
  PROVE  AssetsInv'
<1> DEFINE todo == steps[d]
<1>1. /\ astray' = IF Unrecorded(todo) THEN astray \cup {d} ELSE astray
      /\ steps' = [steps EXCEPT ![d] = <<>>]
      /\ disk' = disk /\ log' = log /\ marked' = marked /\ apart' = apart
      /\ namesakes' = namesakes
      /\ clock' = clock \/ clock' = [clock EXCEPT ![d] = LargestTime(log[d])]
  BY DEF SaveFails, Crash, CutOff
<1>2. /\ DOMAIN steps = Device /\ clock \in [Device -> Nat] /\ todo \in Seq(Range(todo))
  BY DEF IInv, Typed, GoodSteps
<1>3. ASSUME Sure'
      PROVE  Sure /\ ~Unrecorded(todo)
  BY <1>1, <1>3 DEF Sure
<1>4. ASSUME Sure'
      PROVE  \A e \in Device : Together(e)'
  <2>1. \A e \in Device : Together(e)
    BY <1>3, <1>4 DEF AssetsInv
  <2>2. \A e \in Device : e # d => Together(e)'
    BY <1>1, <1>2, <2>1, RestIsTogether
  <2>3. InPairs(todo, log[d], NextKey(d)) /\ NamesAreUnique(disk[d]["holdings"])
    BY <2>1 DEF Together, NamesKept
  <2> HIDE DEF todo
  <2>4. ASSUME todo # <<>>, NameStep(Head(todo))
        PROVE  FALSE
    <3>1. 1 \in DOMAIN todo /\ Head(todo) = todo[1]
      BY <1>2, <2>4, HeadAndTail
    <3>2. todo[1].do = "record"
      BY <2>4, <3>1 DEF NameStep, IsRecord
    <3>3. 1..(1 - 1) = {}
      OBVIOUS
    <3>4. Unrecorded(todo)
      BY <3>1, <3>2, <3>3 DEF Unrecorded
    <3> QED
      BY <1>3, <1>4, <3>4
  <2>5. Paired(log[d])
    BY <2>3, <2>4 DEF InPairs
  <2>6. steps'[d] = <<>>
    BY <1>1, <1>2
  <2>7. Together(d)'
    BY <1>1, <2>3, <2>5, <2>6, IdleIsTogether
  <2> QED
    BY <2>2, <2>7
<1> QED
  BY <1>4 DEF AssetsInv

(* What is merged from a device with nothing to do is paired. *)
LEMMA MergeKeepsAssets ==
  ASSUME IInv, AssetsInv, NEW from \in Device, NEW to \in Device, Merge(from, to)
  PROVE  AssetsInv'
<1>1. /\ disk' = [disk EXCEPT ![to] = Prepared(to, log[from])]
      /\ log' = [log EXCEPT ![to] = log[to] \cup log[from]]
      /\ clock' = [clock EXCEPT ![to] = Observed(to, log[from])]
      /\ steps' = steps /\ marked' = marked /\ astray' = astray /\ steps[to] = <<>>
      /\ apart' = (apart \/ steps[from] # <<>>)
      /\ namesakes' = (namesakes \/ ~NamesAreUnique(disk'[to]["holdings"]))
  BY DEF Merge, CanMerge
<1>2. DOMAIN disk = Device /\ DOMAIN log = Device /\ clock \in [Device -> Nat]
  BY DEF IInv, Typed
<1>3. ASSUME Sure'
      PROVE  /\ Sure /\ steps[from] = <<>> /\ NamesAreUnique(disk'[to]["holdings"])
  BY <1>1, <1>3 DEF Sure
<1>4. ASSUME Sure'
      PROVE  \A e \in Device : Together(e)'
  <2>1. \A e \in Device : Together(e)
    BY <1>3, <1>4 DEF AssetsInv
  <2>2. \A e \in Device : e # to => Together(e)'
    <3>1. \A e \in Device : e # to =>
            disk'[e] = disk[e] /\ log'[e] = log[e] /\ clock'[e] = clock[e]
      BY <1>1, <1>2
    <3> QED
      BY <1>1, <2>1, <3>1, RestIsTogether
  <2>3. Paired(log[to]) /\ Paired(log[from])
    BY <1>1, <1>3, <1>4, <2>1, IdleIsPaired DEF Together
  <2>4. Paired(log[to] \cup log[from])
    BY <2>3 DEF Paired
  <2>5. log'[to] = log[to] \cup log[from] /\ steps'[to] = <<>>
    BY <1>1, <1>2
  <2>6. Together(to)'
    BY <1>3, <1>4, <2>4, <2>5, IdleIsTogether
  <2> QED
    BY <2>2, <2>6
<1> QED
  BY <1>4 DEF AssetsInv

(* A failure that leaves a mark leaves nothing to show. *)
LEMMA MarkKeepsAssets ==
  ASSUME NEW d, NEW e, RecordFails(d) \/ MergeFails(d, e)
  PROVE  AssetsInv'
<1>1. marked' # {} \/ apart'
  BY DEF RecordFails, MergeFails
<1> QED
  BY <1>1 DEF AssetsInv, Sure

(* Nothing is there at first. *)
LEMMA InitHasAssets ==
  ASSUME Init
  PROVE  AssetsInv
<1>1. ASSUME NEW d \in Device
      PROVE  Together(d)
  <2>1. steps[d] = <<>> /\ log[d] = {} /\ disk[d]["holdings"] = <<>>
    BY DEF Init, Table
  <2>2. Paired({}) /\ NamesAreUnique(<<>>) /\ DOMAIN <<>> = {}
    BY DEF Paired, NamesAreUnique
  <2>3. InPairs(<<>>, {}, NextKey(d))
    BY <2>2, IdleIsPaired
  <2>4. NamesKept(disk[d], <<>>)
    BY <2>1, <2>2 DEF NamesKept
  <2> QED
    BY <2>1, <2>3, <2>4 DEF Together
<1> QED
  BY <1>1 DEF AssetsInv

(* The steps of the specification keep the rows of the assets together. *)
LEMMA NextKeepsAssets ==
  ASSUME IInv, AssetsInv, [Next]_vars
  PROVE  AssetsInv'
<1>1. CASE UNCHANGED vars
  <2>1. /\ disk' = disk /\ log' = log /\ clock' = clock /\ steps' = steps
        /\ marked' = marked /\ astray' = astray /\ apart' = apart /\ namesakes' = namesakes
    BY <1>1 DEF vars
  <2>2. Sure' = Sure
    BY <2>1 DEF Sure
  <2>3. \A d \in Device : Together(d) => Together(d)'
    BY <2>1, RestIsTogether
  <2> QED
    BY <2>2, <2>3 DEF AssetsInv
<1>2. requests \in Nat /\ \A d \in Device : GoodFrames(disk[d], requests)
  BY DEF IInv, Typed
<1>3. ASSUME NEW d \in Device, steps[d] = <<>>, NEW work, Request(d, work),
             Sure => Tidy(work, requests + 1)
      PROVE  AssetsInv'
  BY <1>3, RequestKeepsAssets
<1>4. ASSUME NEW d \in Device, steps[d] = <<>>, Sure => TidyRequest(d), \E work : Request(d, work)
      PROVE  AssetsInv'
  <2>1. CASE Sure
    <3>1. PICK work : Request(d, work) /\ Tidy(work, requests + 1)
      BY <1>4, <2>1 DEF TidyRequest
    <3> QED
      BY <1>3, <1>4, <3>1
  <2>2. CASE ~Sure
    <3>1. PICK work : Request(d, work)
      BY <1>4
    <3> QED
      BY <1>3, <1>4, <2>2, <3>1
  <2> QED
    BY <2>1, <2>2
<1>5. CASE Next
  <2>1. PICK d \in Device :
          \/ AddInvestment(d) \/ UpdateInvestment(d) \/ DeleteInvestment(d)
          \/ SetQuantity(d) \/ SetPrice(d)
          \/ AddLiquidity(d) \/ UpdateLiquidity(d) \/ DeleteLiquidity(d) \/ SetLiquidity(d)
          \/ AddCredit(d) \/ UpdateCredit(d) \/ DeleteCredit(d) \/ SetCredit(d)
          \/ SaveFile(d) \/ SaveFails(d) \/ RecordEntry(d) \/ RecordFails(d) \/ Crash(d)
          \/ \E e \in Device : Merge(d, e) \/ MergeFails(d, e)
    BY <1>5 DEF Next
  <2>2. Sure => Together(d)
    BY DEF AssetsInv
  <2>3. CASE AddInvestment(d) \/ UpdateInvestment(d) \/ DeleteInvestment(d) \/ SetQuantity(d)
               \/ SetPrice(d)
    <3>1. steps[d] = <<>> /\ \E work : Sound(d, work) /\ Request(d, work)
      BY <1>2, <2>3, InvestmentRequests
    <3>2. ASSUME Sure
          PROVE  TidyRequest(d)
      <4>1. AssetsHaveRows(disk[d])
        BY <2>2, <3>1, <3>2, IdleHasRows
      <4> QED
        BY <1>2, <2>3, <4>1, InvestmentsAreTidy
    <3> QED
      BY <1>4, <3>1, <3>2
  <2>4. CASE \/ AddLiquidity(d) \/ UpdateLiquidity(d) \/ DeleteLiquidity(d) \/ SetLiquidity(d)
             \/ AddCredit(d) \/ UpdateCredit(d) \/ DeleteCredit(d) \/ SetCredit(d)
    <3>1. steps[d] = <<>> /\ \E work : Sound(d, work) /\ Request(d, work)
      BY <1>2, <2>4, LiquidityRequests, CreditRequests
    <3>2. ASSUME Sure
          PROVE  TidyRequest(d)
      <4>1. NamesAreUnique(disk[d]["holdings"])
        BY <2>2, <3>2 DEF Together, NamesKept
      <4> QED
        BY <1>2, <2>4, <4>1, OthersAreTidy
    <3> QED
      BY <1>4, <3>1, <3>2
  <2>5. CASE SaveFile(d) \/ RecordEntry(d)
    BY <2>5, DoingKeepsAssets
  <2>6. CASE SaveFails(d) \/ Crash(d)
    BY <2>6, CutOffKeepsAssets
  <2>7. CASE RecordFails(d)
    BY <2>7, MarkKeepsAssets
  <2>8. ASSUME NEW e \in Device, Merge(d, e) \/ MergeFails(d, e)
        PROVE  AssetsInv'
    BY <2>8, MergeKeepsAssets, MarkKeepsAssets
  <2> QED
    BY <2>1, <2>3, <2>4, <2>5, <2>6, <2>7, <2>8
<1> QED
  BY <1>1, <1>5

(* On a device where nothing is under way or lost, an asset has its two    *)
(* rows or none, and the charts count it once, at its own prices, unless   *)
(* two devices gave an asset one name.                                     *)
AssetsKeepTogether ==
  \A d \in Device : Settled(d) /\ ~namesakes => AssetsAreWhole(disk[d])

(* So whatever was added, renamed, removed and merged, and cut off.        *)
THEOREM NetWorthAssetsAreWhole == Spec => []AssetsKeepTogether
<1>1. Init => IInv /\ AssetsInv
  BY InitIsTold, InitHasAssets
<1>2. (IInv /\ AssetsInv) /\ [Next]_vars => (IInv /\ AssetsInv)'
  BY NextKeepsIInv, NextKeepsAssets
<1>3. IInv /\ AssetsInv => AssetsKeepTogether
  <2>1. ASSUME IInv, AssetsInv, NEW d \in Device, Settled(d), ~namesakes
        PROVE  AssetsAreWhole(disk[d])
    <3>1. Sure /\ steps[d] = <<>>
      BY <2>1 DEF Settled, Sure, Idle
    <3>2. AssetsHaveRows(disk[d])
      BY <2>1, <3>1, IdleHasRows DEF AssetsInv
    <3>3. IdsAreUnique(disk[d]["holdings"]) /\ IdsAreUnique(disk[d]["prices"])
      BY <2>1 DEF IInv, Typed, GoodFrames, GoodSheet, Table
    <3> QED
      BY <3>2, <3>3, MatesAreWhole DEF AssetsHaveRows
  <2> QED
    BY <2>1 DEF AssetsKeepTogether
<1> QED
  BY <1>1, <1>2, <1>3, PTL DEF Spec

-----------------------------------------------------------------------------
(* The values the rows hold                                                *)

(* The values of a month are numbers, and only a debt is below zero. *)
GoodMonth(t, v) == v \in Int /\ (t # "credits" => v >= 0)

(* A record, or an entry, that gives a month gives a good one. *)
GivesMonth(step) ==
  IsRecord(step) /\ (step.op = "upsert" \/ (step.op = "cell" /\ ColumnOf(step.cells) = "month"))
    => GoodMonth(step.table, step.cells["month"])

TellsMonth(e) ==
  e.op = "upsert" \/ (e.op = "cell" /\ e.column = "month") => GoodMonth(e.table, e.cells["month"])

(* Work that gives good months alone. *)
Valued(work, n) ==
  /\ GoodSteps(work.steps, n) /\ GoodFrames(work.frames, n)
  /\ \A i \in DOMAIN work.steps : GivesMonth(work.steps[i])

(* Whether work does is up to its records. *)
LEMMA WorkIsValued ==
  ASSUME NEW n, NEW f, GoodFrames(f, n), NEW ts, SomeTables(ts), NEW g, NEW records,
         RecordsFor(records, ts, n), \A t \in Range(ts) : GoodSheet(g[t], n),
         \A t \in Range(ts) : \A j \in DOMAIN records[t] : GivesMonth(records[t][j])
  PROVE  Valued(Work(f, ts, g, records), n)
<1> DEFINE work == Work(f, ts, g, records)
           todo == work.steps
<1>1. IsBlock(todo, Range(ts), g, records) /\ GoodSteps(todo, n)
  BY WorkIsBlock DEF RecordsFor
<1>2. /\ DOMAIN work.frames = Table
      /\ \A t \in Table : work.frames[t] = IF t \in Range(ts) THEN g[t] ELSE f[t]
  BY DEF Work
<1> HIDE DEF work
<1>3. GoodFrames(work.frames, n)
  BY <1>2 DEF GoodFrames
<1>4. \A i \in DOMAIN todo :
        /\ todo[i].table \in Range(ts)
        /\ \/ todo[i].do = "save"
           \/ \E j \in DOMAIN records[todo[i].table] : todo[i] = records[todo[i].table][j]
  BY <1>1 DEF IsBlock
<1> HIDE DEF todo
<1>5. ASSUME NEW i \in DOMAIN todo
      PROVE  GivesMonth(todo[i])
  <2>1. CASE todo[i].do = "save"
    BY <2>1 DEF GivesMonth, IsRecord
  <2>2. CASE todo[i].do # "save"
    BY <1>4, <2>2
  <2> QED
    BY <2>1, <2>2
<1> QED
  BY <1>1, <1>3, <1>5 DEF Valued, work, todo

(* A cell of the rows of a name is set. *)
LEMMA SettingIsValued ==
  ASSUME NEW n \in Nat, NEW f, GoodFrames(f, n), NEW ts, SomeTables(ts), NEW name,
         NEW c \in Column, NEW value, c = "month" => \A t \in Range(ts) : GoodMonth(t, value)
  PROVE  Valued(SetNamed(f, ts, name, c, value), n)
<1> DEFINE g == [t \in Table |-> SetWhere(f[t], name, c, value)]
           records == [t \in Table |->
                         RecordAll(t, RowIdsWhere(f[t], name), "cell", Cell(c, value))]
<1>1. Range(ts) \subseteq Table
  BY SomeTablesFacts
<1>2. RecordsFor(records, ts, n) /\ OneChange(records, ts, "cell", Cell(c, value))
  <2>1. \A t \in Table : records[t] = RecordAll(t, RowIdsWhere(f[t], name), "cell", Cell(c, value))
    OBVIOUS
  <2> HIDE DEF records
  <2> QED
    BY <2>1, RecordsOfName
<1>3. \A t \in Range(ts) : GoodSheet(g[t], n)
  BY <1>1, SetKeepsRows DEF GoodFrames
<1>4. SetNamed(f, ts, name, c, value) = Work(f, ts, g, records)
  BY DEF SetNamed
<1> HIDE DEF g, records
<1>5. Cell(c, value)[c] = value /\ ColumnOf(Cell(c, value)) = c
  BY CellSets
<1>6. ASSUME NEW t \in Range(ts), NEW j \in DOMAIN records[t]
      PROVE  GivesMonth(records[t][j])
  BY <1>2, <1>5 DEF GivesMonth, OneChange
<1> QED
  BY <1>2, <1>3, <1>4, <1>6, WorkIsValued

(* The rows of a name are removed. *)
LEMMA RemovingIsValued ==
  ASSUME NEW n \in Nat, NEW f, GoodFrames(f, n), NEW ts, SomeTables(ts), NEW name
  PROVE  Valued(RemoveNamed(f, ts, name), n)
<1> DEFINE g == [t \in Table |-> Without(f[t], name)]
           records == [t \in Table |-> RecordAll(t, RowIdsWhere(f[t], name), "delete", <<>>)]
<1>1. Range(ts) \subseteq Table
  BY SomeTablesFacts
<1>2. RecordsFor(records, ts, n) /\ OneChange(records, ts, "delete", <<>>)
  <2>1. \A t \in Table : records[t] = RecordAll(t, RowIdsWhere(f[t], name), "delete", <<>>)
    OBVIOUS
  <2> HIDE DEF records
  <2> QED
    BY <2>1, RecordsOfName
<1>3. \A t \in Range(ts) : GoodSheet(g[t], n)
  BY <1>1, FilterKeepsRows DEF GoodFrames, Without
<1>4. RemoveNamed(f, ts, name) = Work(f, ts, g, records)
  BY DEF RemoveNamed
<1> HIDE DEF g, records
<1>5. ASSUME NEW t \in Range(ts), NEW j \in DOMAIN records[t]
      PROVE  GivesMonth(records[t][j])
  BY <1>2 DEF GivesMonth, OneChange
<1> QED
  BY <1>2, <1>3, <1>4, <1>5, WorkIsValued

(* A row is added. *)
LEMMA AddingIsValued ==
  ASSUME requests \in Nat, NEW f, GoodFrames(f, requests), NEW ts, SomeTables(ts), NEW name
  PROVE  Valued(AddRow(f, ts, name), requests + 1)
<1> DEFINE n == requests + 1
           cells == [c \in Column |-> IF c = "name" THEN name ELSE 0]
           g == [t \in Table |-> Append(f[t], RowOf(n, cells))]
           r(t) == RecordStep(t, n, "upsert", cells)
           records == [t \in Table |-> <<r(t)>>]
<1>1. Range(ts) \subseteq Table
  BY SomeTablesFacts
<1>2. AddRow(f, ts, name) = Work(f, ts, g, records)
  BY DEF AddRow
<1>3. \A t : /\ IsRecord(r(t)) /\ r(t).do = "record" /\ r(t).table = t /\ r(t).op = "upsert"
             /\ r(t).id = n /\ r(t).cells = cells
  BY DEF RecordStep, IsRecord
<1>4. cells["month"] = 0
  BY DEF Column
<1>5. n \in Nat /\ n \in 1..n /\ requests <= n
  OBVIOUS
<1> HIDE DEF r, cells
<1>6. \A t \in Range(ts) : records[t] = <<r(t)>> /\ \A j \in DOMAIN records[t] : records[t][j] = r(t)
  BY <1>1
<1>7. \A t \in Range(ts) : GoodSteps(records[t], n)
  <2>1. ASSUME NEW t \in Range(ts)
        PROVE  GoodSteps(<<r(t)>>, n)
    <3>1. GoodStep(r(t), n)
      BY <1>1, <1>3, <1>5 DEF GoodStep
    <3>2. <<r(t)>> \in Seq(Range(<<r(t)>>))
      <4>1. DOMAIN <<r(t)>> = 1..1 /\ <<r(t)>> = [i \in 1..1 |-> <<r(t)>>[i]] /\ 1 \in Nat
        OBVIOUS
      <4> QED
        BY <4>1, SeqOfItsRange
    <3>3. \A i \in DOMAIN <<r(t)>> : <<r(t)>>[i] = r(t)
      OBVIOUS
    <3> QED
      BY <3>1, <3>2, <3>3 DEF GoodSteps
  <2> QED
    BY <1>6, <2>1
<1>8. \A t \in Range(ts) : GoodSheet(g[t], n)
  BY <1>1, AddKeepsRows DEF GoodFrames
<1> HIDE DEF g, records
<1>9. GoodFrames(f, n)
  BY <1>5, GoodForMore
<1>10. RecordsFor(records, ts, n)
  BY <1>3, <1>6, <1>7 DEF RecordsFor
<1>11. \A t \in Range(ts) : \A j \in DOMAIN records[t] : GivesMonth(records[t][j])
  BY <1>3, <1>4, <1>6 DEF GivesMonth, GoodMonth
<1> HIDE DEF n
<1>12. Valued(Work(f, ts, g, records), n)
  BY <1>8, <1>9, <1>10, <1>11, WorkIsValued
<1> QED
  BY <1>2, <1>12 DEF n

(* The steps of both parts, and no others. *)
LEMMA EachOfBoth ==
  ASSUME NEW todo, NEW a, NEW b, Joined(todo, a, b)
  PROVE  \A i \in DOMAIN todo : \/ \E j \in DOMAIN a : todo[i] = a[j]
                                \/ \E j \in DOMAIN b : todo[i] = b[j]
<1>1. ASSUME NEW i \in DOMAIN todo
      PROVE  \/ \E j \in DOMAIN a : todo[i] = a[j]
             \/ \E j \in DOMAIN b : todo[i] = b[j]
  <2>1. /\ Len(a) \in Nat /\ \A j \in DOMAIN a : todo[j] = a[j]
        /\ \A j \in DOMAIN b : todo[Len(a) + j] = b[j]
        /\ i \in Nat /\ (i \in DOMAIN a \/ i - Len(a) \in DOMAIN b)
    BY JoinedSteps
  <2>2. Len(a) + (i - Len(a)) = i
    BY <2>1
  <2> QED
    BY <2>1, <2>2
<1> QED
  BY <1>1

(* One part of a request after another. *)
LEMMA GivenIsValued ==
  ASSUME NEW n, NEW work, NEW more, Valued(work, n), Valued(more, n), NEW wanted, NEW part
  PROVE  Valued(Given(work, wanted, part, more), n)
<1>1. CASE part \notin wanted
  BY <1>1 DEF Given
<1>2. CASE part \in wanted
  <2> DEFINE both == Given(work, wanted, part, more)
             a == work.steps
             b == more.steps
             todo == a \o b
  <2>1. both.frames = more.frames /\ both.steps = todo
    BY <1>2 DEF Given
  <2>2. /\ GoodSteps(a, n) /\ GoodSteps(b, n) /\ GoodFrames(more.frames, n)
        /\ (\A i \in DOMAIN a : GivesMonth(a[i])) /\ (\A i \in DOMAIN b : GivesMonth(b[i]))
    BY DEF Valued
  <2> HIDE DEF both, a, b
  <2>3. Joined(todo, a, b)
    BY <2>2, JoiningThem DEF GoodSteps
  <2> HIDE DEF todo
  <2>4. \A i \in DOMAIN todo : \/ \E j \in DOMAIN a : todo[i] = a[j]
                               \/ \E j \in DOMAIN b : todo[i] = b[j]
    BY <2>3, EachOfBoth
  <2>5. todo \in Seq(Range(todo))
    BY <2>3 DEF Joined
  <2>6. GoodSteps(todo, n) /\ \A i \in DOMAIN todo : GivesMonth(todo[i])
    BY <2>2, <2>4, <2>5 DEF GoodSteps
  <2>7. Valued(both, n)
    BY <2>1, <2>2, <2>6 DEF Valued
  <2> QED
    BY <2>7 DEF both
<1> QED
  BY <1>1, <1>2

(* A price is set, and its currency with it. *)
LEMMA PricingIsValued ==
  ASSUME NEW n \in Nat, NEW f, GoodFrames(f, n), requests \in Nat, NEW name,
         NEW withCurrency \in BOOLEAN
  PROVE  Valued(SetAssetPrice(f, name, withCurrency), n)
<1> DEFINE sheet == f["prices"]
           priced == SetWhere(sheet, name, "month", New)
           both == SetWhere(priced, name, "currency", New)
           ids == RowIdsWhere(sheet, name)
           a == RecordAll("prices", ids, "cell", Cell("month", New))
           b == RecordAll("prices", ids, "cell", Cell("currency", New))
           g == [t \in Table |-> both]
           records == [t \in Table |-> a \o b]
<1>1. /\ "prices" \in Table /\ "month" \in Column /\ "currency" \in Column
      /\ "month" # "currency"
  BY DEF Table, Column
<1>2. SomeTables(Prices) /\ Range(Prices) = {"prices"}
  BY PagesHaveTables DEF Prices, Range
<1>3. \A t : GoodMonth(t, New)
  BY DEF GoodMonth, New
<1>4. CASE ~withCurrency
  <2>1. Valued(SetNamed(f, Prices, name, "month", New), n)
    BY <1>1, <1>2, <1>3, SettingIsValued
  <2> QED
    BY <1>4, <2>1 DEF SetAssetPrice
<1>5. CASE withCurrency
  <2>1. SetAssetPrice(f, name, withCurrency) = Work(f, Prices, g, records)
    BY <1>5 DEF SetAssetPrice
  <2>2. GoodSheet(sheet, n)
    BY <1>1 DEF GoodFrames
  <2>3. GoodSheet(both, n)
    BY <1>1, <2>2, SetKeepsRows
  <2>4. ids \in Seq(Range(ids)) /\ Range(ids) \subseteq 1..n
    BY <2>2, IdsOfName
  <2>5. /\ Cell("month", New)["month"] = New
        /\ ColumnOf(Cell("month", New)) = "month" /\ ColumnOf(Cell("currency", New)) = "currency"
    BY CellSets
  <2> HIDE DEF ids, both
  <2>6. /\ IsAll(a, "prices", Range(ids), "cell", Cell("month", New), n)
        /\ IsAll(b, "prices", Range(ids), "cell", Cell("currency", New), n)
    BY <1>1, <2>4, RecordAllGives
  <2>7. /\ g["prices"] = both /\ records["prices"] = a \o b
    BY <1>1
  <2> HIDE DEF g, records, a, b
  <2>8. /\ GoodSteps(a, n) /\ \A i \in DOMAIN a : IsRecord(a[i]) /\ a[i].table = "prices"
                                                /\ GivesMonth(a[i])
        /\ GoodSteps(b, n) /\ \A i \in DOMAIN b : IsRecord(b[i]) /\ b[i].table = "prices"
                                                /\ GivesMonth(b[i])
    BY <1>1, <1>3, <2>5, <2>6 DEF IsAll, GivesMonth
  <2> DEFINE R == a \o b
  <2>9. Joined(R, a, b)
    BY <2>8, JoiningThem DEF GoodSteps
  <2> HIDE DEF R
  <2>10. /\ GoodSteps(R, n)
         /\ \A i \in DOMAIN R : IsRecord(R[i]) /\ R[i].table = "prices" /\ GivesMonth(R[i])
    <3>1. \A i \in DOMAIN R : \/ \E j \in DOMAIN a : R[i] = a[j]
                             \/ \E j \in DOMAIN b : R[i] = b[j]
      BY <2>9, EachOfBoth
    <3>2. R \in Seq(Range(R))
      BY <2>9 DEF Joined
    <3> QED
      BY <2>8, <3>1, <3>2 DEF GoodSteps
  <2>11. RecordsFor(records, Prices, n)
    BY <1>2, <2>7, <2>10 DEF RecordsFor, R
  <2>12. \A t \in Range(Prices) : GoodSheet(g[t], n)
    BY <1>2, <2>3, <2>7
  <2>13. \A t \in Range(Prices) : \A j \in DOMAIN records[t] : GivesMonth(records[t][j])
    BY <1>2, <2>7, <2>10 DEF R
  <2> QED
    BY <1>2, <2>1, <2>11, <2>12, <2>13, WorkIsValued
<1> QED
  BY <1>4, <1>5

(* Nothing is done. *)
LEMMA NothingIsValued ==
  ASSUME NEW n, NEW f, GoodFrames(f, n)
  PROVE  Valued(Nothing(f), n)
<1>1. DOMAIN <<>> = {} /\ <<>> \in Seq(Range(<<>>))
  OBVIOUS
<1> QED
  BY <1>1 DEF Nothing, Valued, GoodSteps

(* A request gives good months. *)
ValuedRequest(d) == \E work : Request(d, work) /\ Valued(work, requests + 1)

(* So does every request. *)
LEMMA RequestsAreValued ==
  ASSUME requests \in Nat, NEW d, GoodFrames(disk[d], requests)
  PROVE  \/ AddInvestment(d) \/ UpdateInvestment(d) \/ DeleteInvestment(d)
         \/ SetQuantity(d) \/ SetPrice(d)
         \/ AddLiquidity(d) \/ UpdateLiquidity(d) \/ DeleteLiquidity(d) \/ SetLiquidity(d)
         \/ AddCredit(d) \/ UpdateCredit(d) \/ DeleteCredit(d) \/ SetCredit(d)
         => ValuedRequest(d)
<1> DEFINE f == disk[d]
           n == requests + 1
<1>1. n \in Nat /\ GoodFrames(f, requests) /\ GoodFrames(f, n) /\ n = requests + 1
  <2>1. n \in Nat /\ requests <= n
    OBVIOUS
  <2> QED
    BY <2>1, GoodForMore
<1>2. /\ "month" \in Column /\ "name" \in Column /\ "meta" \in Column /\ "currency" \in Column
      /\ "month" # "name" /\ "month" # "meta" /\ "month" # "currency"
  BY DEF Column
<1>3. \A t : GoodMonth(t, New)
  BY DEF GoodMonth, New
<1>4. \A t \in Range(Credits) : GoodMonth(t, -New)
  <2>1. Range(Credits) = {"credits"} /\ -New \in Int
    BY DEF Credits, Files, Range, New
  <2> QED
    BY <2>1 DEF GoodMonth
<1> HIDE DEF f, n
<1>5. ASSUME NEW h, GoodFrames(h, n), NEW ts, SomeTables(ts), NEW name
      PROVE  /\ Valued(Nothing(h), n) /\ Valued(RemoveNamed(h, ts, name), n)
             /\ \A v : /\ Valued(SetNamed(h, ts, name, "name", v), n)
                       /\ Valued(SetNamed(h, ts, name, "meta", v), n)
                       /\ Valued(SetNamed(h, ts, name, "currency", v), n)
             /\ \A v : (\A t \in Range(ts) : GoodMonth(t, v)) =>
                         Valued(SetNamed(h, ts, name, "month", v), n)
  BY <1>1, <1>2, <1>5, NothingIsValued, RemovingIsValued, SettingIsValued
<1>6. ASSUME NEW ts, SomeTables(ts), NEW name
      PROVE  Valued(AddRow(f, ts, name), n)
  BY <1>1, <1>6, AddingIsValued
<1>7. /\ SomeTables(Liquidity) /\ SomeTables(Credits) /\ SomeTables(Holdings)
      /\ SomeTables(Investments)
  BY OtherPages
<1>8. CASE AddInvestment(d) \/ AddLiquidity(d) \/ AddCredit(d)
  <2>1. \E name \in Name : \E ts \in {Investments, Liquidity, Credits} : Request(d, AddRow(f, ts, name))
    BY <1>8 DEF AddInvestment, AddLiquidity, AddCredit, AddAsset, AddLiquidityAsset, AddEntry, f
  <2> QED
    BY <1>6, <1>7, <2>1 DEF ValuedRequest, n
<1>9. CASE DeleteInvestment(d) \/ DeleteLiquidity(d) \/ DeleteCredit(d)
  <2>1. \E name \in Name : \E ts \in {Investments, Liquidity, Credits} :
          Request(d, RemoveNamed(f, ts, name))
    BY <1>9 DEF DeleteInvestment, DeleteLiquidity, DeleteCredit, RemoveAsset, RemoveLiquidityAsset,
                RemoveEntry, f
  <2> QED
    BY <1>1, <1>5, <1>7, <2>1 DEF ValuedRequest, n
<1>10. CASE SetQuantity(d) \/ SetLiquidity(d) \/ SetCredit(d)
  <2>1. \E name \in Name : \/ Request(d, SetNamed(f, Holdings, name, "month", New))
                           \/ Request(d, SetNamed(f, Liquidity, name, "month", New))
                           \/ Request(d, SetNamed(f, Credits, name, "month", New))
                           \/ Request(d, SetNamed(f, Credits, name, "month", -New))
    BY <1>10 DEF SetQuantity, SetLiquidity, SetCredit, SetLiquidityValue, SetCreditValue, f
  <2>2. ASSUME NEW name
        PROVE  /\ Valued(SetNamed(f, Holdings, name, "month", New), n)
               /\ Valued(SetNamed(f, Liquidity, name, "month", New), n)
               /\ Valued(SetNamed(f, Credits, name, "month", New), n)
               /\ Valued(SetNamed(f, Credits, name, "month", -New), n)
    BY <1>1, <1>3, <1>4, <1>5, <1>7
  <2> QED
    BY <2>1, <2>2 DEF ValuedRequest, n
<1>11. CASE SetPrice(d)
  <2>1. PICK name \in Name, withCurrency \in BOOLEAN :
          Request(d, SetAssetPrice(f, name, withCurrency))
    BY <1>11 DEF SetPrice, f
  <2>2. Valued(SetAssetPrice(f, name, withCurrency), n)
    BY <1>1, PricingIsValued
  <2> QED
    BY <2>1, <2>2 DEF ValuedRequest, n
<1>12. \A w, name : Valued(w, n) =>
         /\ Valued(SetAssetCategory(w.frames, name), n) /\ Valued(SetAssetCurrency(w.frames, name), n)
         /\ Valued(SetAssetLink(w.frames, name), n)
         /\ Valued(SetLiquidityCategory(w.frames, name), n)
         /\ Valued(SetLiquidityCurrency(w.frames, name), n)
         /\ Valued(SetCreditCurrency(w.frames, name), n)
  <2>1. \A w : Valued(w, n) => GoodFrames(w.frames, n)
    BY DEF Valued
  <2> QED
    BY <1>5, <1>7, <2>1 DEF SetAssetCategory, SetAssetCurrency, SetAssetLink,
       SetLiquidityCategory, SetLiquidityCurrency, SetCreditCurrency
<1>13. \A old, new : /\ Valued(RenameAsset(f, old, new), n) /\ Valued(RenameLiquidity(f, old, new), n)
                     /\ Valued(RenameCredit(f, old, new), n)
  BY <1>1, <1>5, <1>7 DEF RenameAsset, RenameLiquidity, RenameCredit
<1>14. CASE UpdateInvestment(d)
  <2>1. PICK old \in Name, new \in Name, wanted \in Parts({"category", "currency", "link"}) :
          LET renamed == RenameAsset(f, old, new)
              filed == Given(renamed, wanted, "category", SetAssetCategory(renamed.frames, new))
              priced == Given(filed, wanted, "currency", SetAssetCurrency(filed.frames, new))
          IN Request(d, Given(priced, wanted, "link", SetAssetLink(priced.frames, new)))
    BY <1>14 DEF UpdateInvestment, f
  <2> DEFINE renamed == RenameAsset(f, old, new)
             filed == Given(renamed, wanted, "category", SetAssetCategory(renamed.frames, new))
             priced == Given(filed, wanted, "currency", SetAssetCurrency(filed.frames, new))
             work == Given(priced, wanted, "link", SetAssetLink(priced.frames, new))
  <2>2. Request(d, work) /\ Valued(renamed, n)
    BY <1>13, <2>1
  <2> HIDE DEF renamed, filed, priced, work
  <2>3. Valued(filed, n)
    BY <1>12, <2>2, GivenIsValued DEF filed
  <2>4. Valued(priced, n)
    BY <1>12, <2>3, GivenIsValued DEF priced
  <2>5. Valued(work, n)
    BY <1>12, <2>4, GivenIsValued DEF work
  <2> QED
    BY <2>2, <2>5 DEF ValuedRequest, n
<1>15. CASE UpdateLiquidity(d)
  <2>1. PICK old \in Name, new \in Name, wanted \in Parts({"category", "currency"}) :
          LET renamed == RenameLiquidity(f, old, new)
              filed == Given(renamed, wanted, "category",
                             SetLiquidityCategory(renamed.frames, new))
          IN Request(d, Given(filed, wanted, "currency", SetLiquidityCurrency(filed.frames, new)))
    BY <1>15 DEF UpdateLiquidity, f
  <2> DEFINE renamed == RenameLiquidity(f, old, new)
             filed == Given(renamed, wanted, "category", SetLiquidityCategory(renamed.frames, new))
             work == Given(filed, wanted, "currency", SetLiquidityCurrency(filed.frames, new))
  <2>2. Request(d, work) /\ Valued(renamed, n)
    BY <1>13, <2>1
  <2> HIDE DEF renamed, filed, work
  <2>3. Valued(filed, n)
    BY <1>12, <2>2, GivenIsValued DEF filed
  <2>4. Valued(work, n)
    BY <1>12, <2>3, GivenIsValued DEF work
  <2> QED
    BY <2>2, <2>4 DEF ValuedRequest, n
<1>16. CASE UpdateCredit(d)
  <2>1. PICK old \in Name, new \in Name, wanted \in Parts({"currency"}) :
          LET renamed == RenameCredit(f, old, new)
          IN Request(d, Given(renamed, wanted, "currency", SetCreditCurrency(renamed.frames, new)))
    BY <1>16 DEF UpdateCredit, f
  <2> DEFINE renamed == RenameCredit(f, old, new)
             work == Given(renamed, wanted, "currency", SetCreditCurrency(renamed.frames, new))
  <2>2. Request(d, work) /\ Valued(renamed, n)
    BY <1>13, <2>1
  <2> HIDE DEF renamed, work
  <2>3. Valued(work, n)
    BY <1>12, <2>2, GivenIsValued DEF work
  <2> QED
    BY <2>2, <2>3 DEF ValuedRequest, n
<1> QED
  BY <1>8, <1>9, <1>10, <1>11, <1>14, <1>15, <1>16

-----------------------------------------------------------------------------
(* The values of the months, from step to step                             *)

(* The entries there are, and those that are still to be recorded, give    *)
(* good months.                                                            *)
MonthsInv ==
  /\ \A e \in Everything : TellsMonth(e)
  /\ \A d \in Device : \A i \in DOMAIN steps[d] : GivesMonth(steps[d][i])

(* A request. *)
LEMMA RequestKeepsMonths ==
  ASSUME IInv, MonthsInv, NEW d \in Device, NEW work, Request(d, work),
         Valued(work, requests + 1)
  PROVE  MonthsInv'
<1>1. steps' = [steps EXCEPT ![d] = work.steps] /\ log' = log
  BY DEF Request
<1>2. DOMAIN steps = Device
  BY DEF IInv, Typed
<1>3. Everything' = Everything
  BY <1>1 DEF Everything
<1> QED
  BY <1>1, <1>2, <1>3 DEF MonthsInv, Valued

(* What is left of the steps of a request. *)
LEMMA LessKeepsMonths ==
  ASSUME IInv, MonthsInv, NEW d \in Device, log' = log,
         \/ steps' = [steps EXCEPT ![d] = <<>>]
         \/ steps[d] # <<>> /\ steps' = [steps EXCEPT ![d] = Tail(@)]
         \/ steps' = steps
  PROVE  MonthsInv'
<1> DEFINE todo == steps[d]
<1>1. DOMAIN steps = Device /\ todo \in Seq(Range(todo))
  BY DEF IInv, Typed, GoodSteps
<1>2. Everything' = Everything
  BY DEF Everything
<1>3. todo # <<>> => \A i \in DOMAIN Tail(todo) : \E j \in DOMAIN todo : Tail(todo)[i] = todo[j]
  BY <1>1, HeadAndTail
<1>4. \A i \in DOMAIN todo : GivesMonth(todo[i])
  BY DEF MonthsInv
<1>5. DOMAIN <<>> = {}
  OBVIOUS
<1>6. \A i \in DOMAIN steps'[d] : GivesMonth(steps'[d][i])
  <2>1. steps'[d] = <<>> \/ (todo # <<>> /\ steps'[d] = Tail(todo)) \/ steps'[d] = todo
    BY <1>1
  <2> HIDE DEF todo
  <2> QED
    BY <1>3, <1>4, <1>5, <2>1
<1>7. \A e \in Device : e # d => steps'[e] = steps[e]
  BY <1>1
<1> QED
  BY <1>2, <1>6, <1>7 DEF MonthsInv

(* An entry is recorded. *)
LEMMA RecordKeepsMonths ==
  ASSUME IInv, MonthsInv, NEW d \in Device, RecordEntry(d)
  PROVE  MonthsInv'
<1> DEFINE todo == steps[d]
           new == EntryOf(Head(todo), [time |-> clock'[d], device |-> d])
<1>1. /\ todo # <<>> /\ Head(todo).do = "record"
      /\ log' = [log EXCEPT ![d] = log[d] \cup {new}]
      /\ steps' = [steps EXCEPT ![d] = Tail(todo)]
  BY DEF RecordEntry, Doing
<1>2. DOMAIN steps = Device /\ DOMAIN log = Device /\ todo \in Seq(Range(todo))
  BY DEF IInv, Typed, GoodSteps
<1>3. /\ 1 \in DOMAIN todo /\ Head(todo) = todo[1]
      /\ \A i \in DOMAIN Tail(todo) : \E j \in DOMAIN todo : Tail(todo)[i] = todo[j]
  BY <1>1, <1>2, HeadAndTail
<1>4. \A i \in DOMAIN todo : GivesMonth(todo[i])
  BY DEF MonthsInv
<1>5. IsEntry(new, Head(todo), [time |-> clock'[d], device |-> d])
  BY EntryFields
<1> HIDE DEF new
<1>6. TellsMonth(new)
  BY <1>1, <1>3, <1>4, <1>5 DEF TellsMonth, GivesMonth, IsEntry, IsRecord
<1>7. \A e \in Everything' : e = new \/ e \in Everything
  BY <1>1, <1>2 DEF Everything
<1>8. \A e \in Device : e # d => steps'[e] = steps[e]
  BY <1>1, <1>2
<1>9. steps'[d] = Tail(todo)
  BY <1>1, <1>2
<1> HIDE DEF todo
<1>10. \A i \in DOMAIN steps'[d] : GivesMonth(steps'[d][i])
  BY <1>3, <1>4, <1>9
<1> QED
  BY <1>6, <1>7, <1>8, <1>10 DEF MonthsInv

(* The steps of the specification keep the months good. *)
LEMMA NextKeepsMonths ==
  ASSUME IInv, MonthsInv, [Next]_vars
  PROVE  MonthsInv'
<1>1. CASE UNCHANGED vars
  <2>1. log' = log /\ steps' = steps
    BY <1>1 DEF vars
  <2>2. Everything' = Everything
    BY <2>1 DEF Everything
  <2> QED
    BY <2>1, <2>2 DEF MonthsInv
<1>2. requests \in Nat /\ \A d \in Device : GoodFrames(disk[d], requests)
  BY DEF IInv, Typed
<1>3. CASE Next
  <2>1. PICK d \in Device :
          \/ AddInvestment(d) \/ UpdateInvestment(d) \/ DeleteInvestment(d)
          \/ SetQuantity(d) \/ SetPrice(d)
          \/ AddLiquidity(d) \/ UpdateLiquidity(d) \/ DeleteLiquidity(d) \/ SetLiquidity(d)
          \/ AddCredit(d) \/ UpdateCredit(d) \/ DeleteCredit(d) \/ SetCredit(d)
          \/ SaveFile(d) \/ SaveFails(d) \/ RecordEntry(d) \/ RecordFails(d) \/ Crash(d)
          \/ \E e \in Device : Merge(d, e) \/ MergeFails(d, e)
    BY <1>3 DEF Next
  <2>2. ASSUME ValuedRequest(d)
        PROVE  MonthsInv'
    BY <2>2, RequestKeepsMonths DEF ValuedRequest
  <2>3. CASE \/ AddInvestment(d) \/ UpdateInvestment(d) \/ DeleteInvestment(d)
             \/ SetQuantity(d) \/ SetPrice(d)
             \/ AddLiquidity(d) \/ UpdateLiquidity(d) \/ DeleteLiquidity(d) \/ SetLiquidity(d)
             \/ AddCredit(d) \/ UpdateCredit(d) \/ DeleteCredit(d) \/ SetCredit(d)
    <3>1. ValuedRequest(d)
      BY <1>2, <2>3, RequestsAreValued
    <3> QED
      BY <2>2, <3>1
  <2>4. CASE SaveFile(d) \/ SaveFails(d) \/ RecordFails(d) \/ Crash(d)
    <3>1. /\ log' = log
          /\ \/ steps' = [steps EXCEPT ![d] = <<>>]
             \/ steps[d] # <<>> /\ steps' = [steps EXCEPT ![d] = Tail(@)]
             \/ steps' = steps
      BY <2>4 DEF SaveFile, SaveFails, RecordFails, Crash, CutOff, Doing
    <3> QED
      BY <3>1, LessKeepsMonths
  <2>5. CASE RecordEntry(d)
    BY <2>5, RecordKeepsMonths
  <2>6. ASSUME NEW e \in Device, Merge(d, e)
        PROVE  MonthsInv'
    <3>1. steps' = steps /\ log' = [log EXCEPT ![e] = log[e] \cup log[d]]
      BY <2>6 DEF Merge
    <3>2. \A x \in Everything' : x \in Everything
      BY <3>1 DEF Everything, IInv, Typed
    <3> QED
      BY <3>1, <3>2 DEF MonthsInv
  <2>7. ASSUME NEW e \in Device, MergeFails(d, e)
        PROVE  MonthsInv'
    <3>1. steps' = steps /\ log' = log
      BY <2>7 DEF MergeFails
    <3> QED
      BY <2>1, <3>1, LessKeepsMonths
  <2> QED
    BY <2>1, <2>3, <2>4, <2>5, <2>6, <2>7
<1> QED
  BY <1>1, <1>3

(* Nothing is there at first. *)
LEMMA InitHasMonths ==
  ASSUME Init
  PROVE  MonthsInv
<1>1. Everything = {} /\ \A d \in Device : steps[d] = <<>>
  BY DEF Init, Everything
<1>2. DOMAIN <<>> = {}
  OBVIOUS
<1> QED
  BY <1>1, <1>2 DEF MonthsInv

(* The log of a device with nothing to do tells the months of its rows. *)
LEMMA MonthsOfRows ==
  ASSUME NEW L, IsFiniteSet(L), Plain(L), Distinct(L), \A e \in L : TellsMonth(e),
         NEW t, NEW sheet, Tells(L, L, t, sheet)
  PROVE  \A i \in DOMAIN sheet : GoodMonth(t, sheet[i]["month"])
<1>1. ASSUME NEW i \in DOMAIN sheet
      PROVE  GoodMonth(t, sheet[i]["month"])
  <2> DEFINE id == sheet[i].id
             S == OfRow(L, t, id)
  <2>1. PICK e \in S : e.op # "cell"
    BY DEF Tells
  <2>2. S \subseteq L /\ \A x \in S : x.table = t /\ x.id = id
    BY DEF OfRow
  <2> HIDE DEF S
  <2>3. IsFiniteSet(S) /\ Plain(S) /\ Distinct(S)
    BY <2>2, FS_Subset DEF Plain, Distinct
  <2>4. PICK w : Decides(S, w)
    BY <2>1, <2>3, DeciderExists
  <2>5. PICK v : Shows(S, w, "month", v)
    BY <2>3, <2>4, ValueExists
  <2>6. w \in L /\ w.table = t /\ w.id = id /\ w.op # "cell" /\ Decides(OfRow(L, t, w.id), w)
    BY <2>2, <2>4 DEF Decides, S
  <2>7. v \in L /\ v.table = t /\ (v = w \/ (v.op = "cell" /\ v.column = "month"))
    BY <2>2, <2>5 DEF Shows
  <2>8. Shows(OfRow(L, t, w.id), w, "month", v)
    BY <2>5, <2>6 DEF S
  <2>9. w.op = "upsert"
    <3>1. w.op \in {"upsert", "delete", "cell"}
      BY <2>6 DEF Plain
    <3>2. w.op # "delete"
      BY <2>6 DEF Tells
    <3> QED
      BY <2>6, <3>1, <3>2
  <2>10. "month" \in Column
    BY DEF Column
  <2>11. sheet[i]["month"] = v.cells["month"]
    BY <2>6, <2>7, <2>8, <2>9, <2>10 DEF Tells
  <2>12. TellsMonth(v)
    BY <2>7
  <2>13. GoodMonth(t, v.cells["month"])
    BY <2>7, <2>9, <2>12 DEF TellsMonth
  <2> QED
    BY <2>11, <2>13
<1> QED
  BY <1>1

(* So the rows of a settled device have good months. *)
LEMMA SettledHasMonths ==
  ASSUME IInv, MonthsInv, NEW d \in Device, Settled(d), NEW t \in Table
  PROVE  \A i \in DOMAIN disk[d][t] : GoodMonth(t, disk[d][t][i]["month"])
<1> DEFINE L == log[d]
<1>1. Typed /\ StampsTell /\ RequestsAreCoherent
  BY DEF IInv
<1>2. Heard(d) = L /\ marked = {} /\ astray = {} /\ steps[d] = <<>>
  BY DEF Heard, Settled, Idle
<1>3. L \subseteq Everything /\ IsFiniteSet(L) /\ Timed(L)
  BY <1>1, LogFacts
<1>4. Plain(L) /\ Distinct(L)
  <2>1. Device \subseteq Nat
    BY NetWorthAssumption
  <2>2. \A e \in L : GoodEntry(e, requests)
    BY <1>1, <1>3 DEF Typed
  <2>3. Plain(L)
    BY <2>1, <2>2 DEF GoodEntry, Plain
  <2>4. Distinct(L)
    BY <1>1, <1>3 DEF StampsTell, Distinct
  <2> QED
    BY <2>3, <2>4
<1>5. Tells(L, L, t, disk[d][t])
  <2>1. Coherent(<<>>, disk[d], log[d], Heard(d), d)
    BY <1>1, <1>2 DEF RequestsAreCoherent
  <2>2. Tells(log[d], Heard(d), t, disk[d][t])
    BY <1>3, <2>1, IdleTells
  <2> QED
    BY <1>2, <2>2
<1>6. \A e \in L : TellsMonth(e)
  BY <1>3 DEF MonthsInv
<1> HIDE DEF L
<1> QED
  BY <1>3, <1>4, <1>5, <1>6, MonthsOfRows

-----------------------------------------------------------------------------
(* Sums over finite sets                                                   *)

(* What the fold of a sum computes: of each subset, from a chosen element  *)
(* and the rest.                                                           *)
Sums(g, S, w) ==
  g = [s \in SUBSET S |-> IF s = {} THEN 0
                          ELSE w[CHOOSE x \in s : TRUE] + g[s \ {CHOOSE x \in s : TRUE}]]

(* What it means: any element can be taken out first. *)
Adds(g, S, w) ==
  /\ g \in [SUBSET S -> Int] /\ g[{}] = 0
  /\ \A s \in SUBSET S : \A x \in s : g[s] = w[x] + g[s \ {x}]

(* A finite set has no descending chain of subsets: what holds of the      *)
(* empty set, and of a set if it holds without one element, holds of all.  *)
LEMMA SmallestSubset ==
  ASSUME NEW S, IsFiniteSet(S), NEW B \in SUBSET (SUBSET S), B # {}
  PROVE  \E T \in B : \A x \in T : T \ {x} \notin B
<1> DEFINE N == {Cardinality(T) : T \in B}
<1>1. \A T \in SUBSET S : IsFiniteSet(T) /\ Cardinality(T) \in Nat
  BY FS_Subset, FS_CardinalityType
<1>2. N \in SUBSET Nat /\ N # {}
  BY <1>1
<1> HIDE DEF N
<1>3. PICK n \in N : \A m \in N : n <= m
  BY <1>2, NatLeast
<1>4. PICK T \in B : n = Cardinality(T)
  BY <1>3 DEF N
<1>5. ASSUME NEW x \in T, T \ {x} \in B
      PROVE  FALSE
  <2>1. IsFiniteSet(T) /\ Cardinality(T) \in Nat
    BY <1>1
  <2>2. Cardinality(T \ {x}) = Cardinality(T) - 1
    BY <1>5, <2>1, FS_RemoveElement
  <2>3. Cardinality(T \ {x}) \in N
    BY <1>5 DEF N
  <2> QED
    BY <1>3, <1>4, <2>1, <2>2, <2>3
<1> QED
  BY <1>5

(* One element more. *)
LEMMA AddsOneMore ==
  ASSUME NEW T, NEW x \in T, NEW w, \A y \in T : w[y] \in Int, NEW g, Adds(g, T \ {x}, w)
  PROVE  \E h : Adds(h, T, w)
<1> DEFINE h == [s \in SUBSET T |-> IF x \in s THEN w[x] + g[s \ {x}] ELSE g[s]]
<1>1. /\ g \in [SUBSET (T \ {x}) -> Int] /\ g[{}] = 0
      /\ \A s \in SUBSET (T \ {x}) : \A y \in s : g[s] = w[y] + g[s \ {y}]
  BY DEF Adds
<1>2. \A s \in SUBSET T : s \ {x} \in SUBSET (T \ {x}) /\ (x \notin s => s \in SUBSET (T \ {x}))
  OBVIOUS
<1>3. h \in [SUBSET T -> Int]
  BY <1>1, <1>2
<1>4. h[{}] = 0
  BY <1>1
<1>5. ASSUME NEW s \in SUBSET T, NEW y \in s
      PROVE  h[s] = w[y] + h[s \ {y}]
  <2>1. s \ {y} \in SUBSET T
    OBVIOUS
  <2>2. CASE x \notin s
    BY <1>1, <1>2, <2>1, <2>2
  <2>3. CASE y = x
    BY <2>1, <2>3
  <2>4. CASE x \in s /\ y # x
    <3>1. h[s] = w[x] + g[s \ {x}] /\ h[s \ {y}] = w[x] + g[(s \ {y}) \ {x}]
      BY <2>1, <2>4
    <3>2. (s \ {y}) \ {x} = (s \ {x}) \ {y}
      OBVIOUS
    <3>3. y \in s \ {x} /\ s \ {x} \in SUBSET (T \ {x}) /\ (s \ {x}) \ {y} \in SUBSET (T \ {x})
      BY <2>4
    <3>4. g[s \ {x}] = w[y] + g[(s \ {x}) \ {y}]
      BY <1>1, <3>3
    <3>5. w[x] \in Int /\ w[y] \in Int /\ g[(s \ {x}) \ {y}] \in Int
      BY <1>1, <3>3
    <3> HIDE DEF h
    <3>6. h[s] = w[x] + (w[y] + g[(s \ {x}) \ {y}])
      BY <3>1, <3>4
    <3>7. h[s \ {y}] = w[x] + g[(s \ {x}) \ {y}]
      BY <3>1, <3>2
    <3> QED
      BY <3>5, <3>6, <3>7
  <2> QED
    BY <2>2, <2>3, <2>4
<1> HIDE DEF h
<1>6. Adds(h, T, w)
  BY <1>3, <1>4, <1>5 DEF Adds
<1> QED
  BY <1>6

(* So every finite set has a sum. *)
LEMMA SumExists ==
  ASSUME NEW S, IsFiniteSet(S), NEW w, \A x \in S : w[x] \in Int
  PROVE  \E g : Adds(g, S, w)
<1> DEFINE B == {T \in SUBSET S : ~(\E g : Adds(g, T, w))}
<1> SUFFICES ASSUME B # {}
             PROVE  FALSE
  <2>1. S \in SUBSET S
    OBVIOUS
  <2> QED
    BY <2>1
<1>1. B # {}
  OBVIOUS
<1>2. B \in SUBSET (SUBSET S)
  OBVIOUS
<1>3. PICK T \in B : \A x \in T : T \ {x} \notin B
  <2> HIDE DEF B
  <2> QED
    BY <1>1, <1>2, SmallestSubset
<1>4. T \in SUBSET S /\ ~(\E g : Adds(g, T, w))
  OBVIOUS
<1>5. T # {}
  <2>1. Adds([s \in SUBSET {} |-> 0], {}, w)
    BY DEF Adds
  <2> QED
    BY <1>4, <2>1
<1>6. PICK x \in T : TRUE
  BY <1>5
<1>7. \E g : Adds(g, T \ {x}, w)
  BY <1>3, <1>4
<1>8. \A y \in T : w[y] \in Int
  BY <1>4
<1> QED
  BY <1>4, <1>6, <1>7, <1>8, AddsOneMore

(* What is added that way is what the fold computes, and nothing else.     *)
LEMMA AddsIsTheSum ==
  ASSUME NEW S, IsFiniteSet(S), NEW w, NEW g, Adds(g, S, w)
  PROVE  Sums(g, S, w) /\ \A h : Sums(h, S, w) => h = g
<1>1. /\ g \in [SUBSET S -> Int] /\ g[{}] = 0
      /\ \A s \in SUBSET S : \A x \in s : g[s] = w[x] + g[s \ {x}]
  BY DEF Adds
<1>2. \A s \in SUBSET S : s # {} => (CHOOSE x \in s : TRUE) \in s
  OBVIOUS
<1>3. Sums(g, S, w)
  BY <1>1, <1>2 DEF Sums
<1>4. ASSUME NEW h, Sums(h, S, w)
      PROVE  h = g
  <2>1. /\ h = [s \in SUBSET S |-> h[s]] /\ h[{}] = 0
        /\ \A s \in SUBSET S : s # {} => \E x \in s : h[s] = w[x] + h[s \ {x}]
    BY <1>2, <1>4 DEF Sums
  <2> DEFINE B == {s \in SUBSET S : h[s] # g[s]}
  <2>2. ASSUME B # {}
        PROVE  FALSE
    <3>1. B \in SUBSET (SUBSET S)
      OBVIOUS
    <3>2. PICK T \in B : \A x \in T : T \ {x} \notin B
      <4> HIDE DEF B
      <4> QED
        BY <2>2, <3>1, SmallestSubset
    <3>3. T \in SUBSET S /\ h[T] # g[T]
      OBVIOUS
    <3>4. T # {}
      BY <1>1, <2>1, <3>3
    <3>5. PICK x \in T : h[T] = w[x] + h[T \ {x}]
      BY <2>1, <3>3, <3>4
    <3>6. T \ {x} \in SUBSET S /\ h[T \ {x}] = g[T \ {x}]
      BY <3>2, <3>3
    <3> QED
      BY <1>1, <3>3, <3>5, <3>6
  <2>3. \A s \in SUBSET S : h[s] = g[s]
    BY <2>2
  <2> QED
    BY <1>1, <2>1, <2>3
<1> QED
  BY <1>3, <1>4

(* The sum of w over S. *)
Total(w, S) == MapThenSumSet(LAMBDA x : w[x], S)

(* It is what is added. *)
LEMMA TotalIs ==
  ASSUME NEW S, IsFiniteSet(S), NEW w, NEW g, Adds(g, S, w)
  PROVE  Total(w, S) = g[S]
<1>1. Total(w, S) = (CHOOSE h : Sums(h, S, w))[S]
  BY DEF Total, MapThenSumSet, MapThenFoldSet, Sums
<1>2. (CHOOSE h : Sums(h, S, w)) = g
  BY AddsIsTheSum
<1> QED
  BY <1>1, <1>2

(* The sum of the months of some rows. *)
LEMMA MonthsAdd ==
  ASSUME NEW S, IsFiniteSet(S), NEW w, \A x \in S : w[x] = x.month /\ w[x] \in Int
  PROVE  MapThenSumSet(LAMBDA row : row.month, S) = Total(w, S)
<1> DEFINE Is(h) == h = [s \in SUBSET S |->
                          IF s = {} THEN 0
                          ELSE (CHOOSE x \in s : TRUE).month + h[s \ {CHOOSE x \in s : TRUE}]]
<1>1. MapThenSumSet(LAMBDA row : row.month, S) = (CHOOSE h : Is(h))[S]
  BY DEF MapThenSumSet, MapThenFoldSet
<1>2. PICK g : Adds(g, S, w)
  BY SumExists
<1>3. \A s \in SUBSET S : s # {} => (CHOOSE x \in s : TRUE).month = w[CHOOSE x \in s : TRUE]
  OBVIOUS
<1>4. \A h : [s \in SUBSET S |->
               IF s = {} THEN 0
               ELSE (CHOOSE x \in s : TRUE).month + h[s \ {CHOOSE x \in s : TRUE}]]
             = [s \in SUBSET S |->
                 IF s = {} THEN 0 ELSE w[CHOOSE x \in s : TRUE] + h[s \ {CHOOSE x \in s : TRUE}]]
  BY <1>3
<1>5. \A h : Is(h) <=> Sums(h, S, w)
  BY <1>4 DEF Sums
<1> HIDE DEF Is
<1>6. \A h : Is(h) <=> h = g
  BY <1>2, <1>5, AddsIsTheSum
<1>7. (CHOOSE h : Is(h)) = g
  BY <1>6
<1> QED
  BY <1>1, <1>2, <1>7, TotalIs

(* Sums are integers, nothing sums to zero, and an element counts once. *)
LEMMA TotalFacts ==
  ASSUME NEW S, IsFiniteSet(S), NEW w, \A x \in S : w[x] \in Int
  PROVE  /\ Total(w, S) \in Int /\ Total(w, {}) = 0
         /\ \A x \in S : Total(w, S) = w[x] + Total(w, S \ {x})
<1>1. PICK g : Adds(g, S, w)
  BY SumExists
<1>2. /\ g \in [SUBSET S -> Int] /\ g[{}] = 0
      /\ \A s \in SUBSET S : \A x \in s : g[s] = w[x] + g[s \ {x}]
  BY <1>1 DEF Adds
<1>3. ASSUME NEW T \in SUBSET S
      PROVE  Total(w, T) = g[T]
  <2> DEFINE h == [s \in SUBSET T |-> g[s]]
  <2>1. \A s \in SUBSET T : s \in SUBSET S /\ \A x \in s : s \ {x} \in SUBSET T
    OBVIOUS
  <2>2. Adds(h, T, w)
    BY <1>2, <2>1 DEF Adds
  <2>3. IsFiniteSet(T) /\ h[T] = g[T]
    BY FS_Subset
  <2> HIDE DEF h
  <2> QED
    BY <2>2, <2>3, TotalIs
<1>4. S \in SUBSET S /\ {} \in SUBSET S /\ \A x \in S : S \ {x} \in SUBSET S
  OBVIOUS
<1> QED
  BY <1>2, <1>3, <1>4

(* So is the sum of what is not below zero. *)
LEMMA TotalOfNaturals ==
  ASSUME NEW S, IsFiniteSet(S), NEW w, \A x \in S : w[x] \in Nat
  PROVE  Total(w, S) \in Nat
<1> DEFINE B == {T \in SUBSET S : Total(w, T) \notin Nat}
<1>1. ASSUME B # {}
      PROVE  FALSE
  <2>1. B \in SUBSET (SUBSET S)
    OBVIOUS
  <2>2. PICK T \in B : \A x \in T : T \ {x} \notin B
    <3> HIDE DEF B
    <3> QED
      BY <1>1, <2>1, SmallestSubset
  <2>3. T \in SUBSET S /\ Total(w, T) \notin Nat
    OBVIOUS
  <2>4. /\ Total(w, T) \in Int /\ Total(w, {}) = 0
        /\ \A x \in T : Total(w, T) = w[x] + Total(w, T \ {x})
    <3>1. IsFiniteSet(T) /\ \A x \in T : w[x] \in Int
      BY <2>3, FS_Subset
    <3> QED
      BY <3>1, TotalFacts
  <2>5. PICK x \in T : TRUE
    BY <2>3, <2>4
  <2>6. Total(w, T \ {x}) \in Nat /\ w[x] \in Nat
    BY <2>2, <2>3
  <2> QED
    BY <2>3, <2>4, <2>6
<1>2. S \in SUBSET S
  OBVIOUS
<1> QED
  BY <1>1, <1>2

(* Two sets whose elements correspond one to one, and weigh the same.      *)
LEMMA TotalOfImage ==
  ASSUME NEW S, IsFiniteSet(S), NEW w, \A x \in S : w[x] \in Int,
         NEW m, \A x, y \in S : m[x] = m[y] => x = y, NEW v, \A x \in S : v[m[x]] = w[x]
  PROVE  Total(v, {m[x] : x \in S}) = Total(w, S)
<1> DEFINE Im(T) == {m[x] : x \in T}
           B == {T \in SUBSET S : Total(v, Im(T)) # Total(w, T)}
<1>1. ASSUME B # {}
      PROVE  FALSE
  <2>1. B \in SUBSET (SUBSET S)
    OBVIOUS
  <2>2. PICK T \in B : \A x \in T : T \ {x} \notin B
    <3> HIDE DEF B
    <3> QED
      BY <1>1, <2>1, SmallestSubset
  <2>3. T \in SUBSET S /\ Total(v, Im(T)) # Total(w, T)
    OBVIOUS
  <2>4. IsFiniteSet(T) /\ IsFiniteSet(Im(T))
    BY <2>3, FS_Subset, ImageIsFinite
  <2>5. (\A x \in T : w[x] \in Int) /\ (\A y \in Im(T) : v[y] \in Int)
    BY <2>3
  <2>6. /\ Total(w, {}) = 0 /\ \A x \in T : Total(w, T) = w[x] + Total(w, T \ {x})
    BY <2>4, <2>5, TotalFacts
  <2>7. /\ Total(v, {}) = 0 /\ \A y \in Im(T) : Total(v, Im(T)) = v[y] + Total(v, Im(T) \ {y})
    <3> HIDE DEF Im
    <3> QED
      BY <2>4, <2>5, TotalFacts
  <2>8. T = {} => Im(T) = {}
    OBVIOUS
  <2>9. PICK x \in T : TRUE
    BY <2>3, <2>6, <2>7, <2>8
  <2>10. Im(T) \ {m[x]} = Im(T \ {x}) /\ m[x] \in Im(T)
    BY <2>3
  <2>11. Total(v, Im(T \ {x})) = Total(w, T \ {x})
    BY <2>2, <2>3
  <2>12. v[m[x]] = w[x]
    BY <2>3
  <2> HIDE DEF Im, B
  <2>13. Total(v, Im(T)) = v[m[x]] + Total(v, Im(T) \ {m[x]})
    BY <2>7, <2>10
  <2>14. Total(v, Im(T)) = w[x] + Total(w, T \ {x})
    BY <2>10, <2>11, <2>12, <2>13
  <2> QED
    BY <2>3, <2>6, <2>9, <2>14
<1>2. S \in SUBSET S
  OBVIOUS
<1> QED
  BY <1>1, <1>2

-----------------------------------------------------------------------------
(* The sums of the charts                                                 *)

(* The rows that have a rate, and the sum of their months. *)
Rated(rows, unavailable) == {row \in rows : row.currency \notin unavailable}

MonthOf(rows) == [row \in rows |-> row.month]

(* The charts sum the months of these rows. *)
LEMMA ConvertedAdds ==
  ASSUME NEW rows, IsFiniteSet(rows), \A row \in rows : row.month \in Int, NEW unavailable
  PROVE  /\ SumConverted(rows, unavailable) = Total(MonthOf(rows), Rated(rows, unavailable))
         /\ SumConverted(rows, unavailable) \in Int
         /\ (\A row \in rows : row.month >= 0) => SumConverted(rows, unavailable) \in Nat
<1> DEFINE S == Rated(rows, unavailable)
           w == MonthOf(rows)
<1>1. S \subseteq rows /\ IsFiniteSet(S)
  BY FS_Subset DEF Rated
<1>2. \A x \in S : w[x] = x.month /\ w[x] \in Int
  BY <1>1 DEF MonthOf
<1>3. SumConverted(rows, unavailable) = MapThenSumSet(LAMBDA row : row.month, S)
  BY DEF SumConverted, Rated
<1> HIDE DEF S, w
<1>4. MapThenSumSet(LAMBDA row : row.month, S) = Total(w, S)
  BY <1>1, <1>2, MonthsAdd
<1>5. Total(w, S) \in Int
  BY <1>1, <1>2, TotalFacts
<1>6. ASSUME \A row \in rows : row.month >= 0
      PROVE  Total(w, S) \in Nat
  <2>1. \A x \in S : w[x] \in Nat
    BY <1>1, <1>2, <1>6
  <2> QED
    BY <1>1, <2>1, TotalOfNaturals
<1> QED
  BY <1>3, <1>4, <1>5, <1>6 DEF S, w

(* What a page lists adds up to the rows behind it, if no two of its lines *)
(* are the same.                                                           *)
LEMMA ListedAdds ==
  ASSUME NEW rows, IsFiniteSet(rows), \A row \in rows : row.month \in Int, NEW unavailable,
         NEW m, \A x, y \in rows : m[x] = m[y] => x = y,
         \A x \in rows : m[x].month = x.month /\ m[x].currency = x.currency
  PROVE  SumConverted({m[x] : x \in rows}, unavailable) = SumConverted(rows, unavailable)
<1> DEFINE listed == {m[x] : x \in rows}
           S == Rated(rows, unavailable)
           w == MonthOf(rows)
           v == MonthOf(listed)
<1>1. S \subseteq rows /\ IsFiniteSet(S) /\ IsFiniteSet(listed)
  BY FS_Subset, ImageIsFinite DEF Rated
<1>2. \A x \in listed : x.month \in Int
  OBVIOUS
<1>3. Rated(listed, unavailable) = {m[x] : x \in S}
  BY DEF Rated
<1>4. \A x \in S : w[x] \in Int /\ v[m[x]] = w[x]
  BY <1>1 DEF MonthOf
<1>5. \A x, y \in S : m[x] = m[y] => x = y
  BY <1>1
<1> HIDE DEF listed, S, w, v
<1>6. Total(v, {m[x] : x \in S}) = Total(w, S)
  BY <1>1, <1>4, <1>5, TotalOfImage
<1>7. SumConverted(listed, unavailable) = Total(v, Rated(listed, unavailable))
  BY <1>1, <1>2, ConvertedAdds DEF v
<1>8. SumConverted(rows, unavailable) = Total(w, S)
  BY ConvertedAdds DEF w, S
<1> QED
  BY <1>3, <1>6, <1>7, <1>8 DEF listed

(* The currencies a chart sums are among those it asked the rates of. *)
LEMMA RatesAreAsked ==
  ASSUME NEW f, NEW unavailable
  PROVE  CurrenciesSummed(f, unavailable) \subseteq NetworthCurrencies(f) \ unavailable
<1>1. /\ "holdings" \in Table /\ "prices" \in Table /\ "liquidity" \in Table
      /\ "credits" \in Table
  BY DEF Table
<1> DEFINE rows == {pair[2] : pair \in ValueRows(f)} \cup Unpriced(f)
                     \cup Range(f["liquidity"]) \cup Range(f["credits"])
           all == UNION {Range(f[t]) : t \in Table}
<1>2. \A pair \in ValueRows(f) : pair[2] \in Range(f["prices"])
  BY DEF ValueRows
<1>3. rows \subseteq all
  BY <1>1, <1>2 DEF Unpriced
<1>4. /\ CurrenciesSummed(f, unavailable) = {row.currency : row \in rows} \ unavailable
      /\ NetworthCurrencies(f) = {row.currency : row \in all}
  BY DEF CurrenciesSummed, NetworthCurrencies
<1> HIDE DEF rows, all
<1> QED
  BY <1>3, <1>4

-----------------------------------------------------------------------------
(* The slices of the pie                                                   *)

(* What a slice counts for. *)
SliceWorth(pie) == [s \in pie |-> IF s.name = <<"Debts">> THEN -s.value ELSE s.value]

(* The sum over the slices of a pie. *)
LEMMA SlicesAdd ==
  ASSUME NEW pie, IsFiniteSet(pie), \A s \in pie : s.value \in Int
  PROVE  MapThenSumSet(LAMBDA s : IF s.name = <<"Debts">> THEN -s.value ELSE s.value, pie)
           = Total(SliceWorth(pie), pie)
<1> DEFINE worth(x) == IF x.name = <<"Debts">> THEN -x.value ELSE x.value
           w == SliceWorth(pie)
           sums(h) == [s \in SUBSET pie |->
                        IF s = {} THEN 0
                        ELSE worth(CHOOSE x \in s : TRUE) + h[s \ {CHOOSE x \in s : TRUE}]]
           adds(h) == [s \in SUBSET pie |->
                        IF s = {} THEN 0
                        ELSE w[CHOOSE x \in s : TRUE] + h[s \ {CHOOSE x \in s : TRUE}]]
<1>1. MapThenSumSet(LAMBDA s : IF s.name = <<"Debts">> THEN -s.value ELSE s.value, pie)
        = (CHOOSE h : h = sums(h))[pie]
  BY DEF MapThenSumSet, MapThenFoldSet
<1>2. \A s \in pie : w[s] = worth(s) /\ w[s] \in Int
  BY DEF SliceWorth
<1> HIDE DEF worth, w
<1>3. PICK g : Adds(g, pie, w)
  BY <1>2, SumExists
<1>4. \A s \in SUBSET pie : s # {} => worth(CHOOSE x \in s : TRUE) = w[CHOOSE x \in s : TRUE]
  BY <1>2
<1>5. \A h : sums(h) = adds(h)
  BY <1>4
<1>6. \A h : Sums(h, pie, w) <=> h = adds(h)
  BY DEF Sums
<1> HIDE DEF sums, adds
<1>7. \A h : h = sums(h) <=> h = g
  BY <1>3, <1>5, <1>6, AddsIsTheSum
<1>8. (CHOOSE h : h = sums(h)) = g
  BY <1>7
<1> QED
  BY <1>1, <1>3, <1>8, TotalIs DEF w

(* Slices, each of which counts for a number. *)
Weighs(w, A) == IsFiniteSet(A) /\ \A s \in A : w[s] \in Int

Worth(name, value) == IF name = <<"Debts">> THEN -value ELSE value

Counts(w, name, value) ==
  \A s \in Slice(name, value) : w[s] = Worth(name, value)

(* A slice more. *)
SliceMore(w, A, name, value) ==
  /\ Weighs(w, A \cup Slice(name, value))
  /\ Total(w, A \cup Slice(name, value))
       = Total(w, A) + IF value <= 0 THEN 0 ELSE Worth(name, value)

(* It counts once. *)
LEMMA SliceAdds ==
  ASSUME NEW A, NEW w, Weighs(w, A), NEW name, NEW value \in Int, \A s \in A : s.name # name,
         Counts(w, name, value)
  PROVE  SliceMore(w, A, name, value)
<1>1. IsFiniteSet(A) /\ \A s \in A : w[s] \in Int
  BY DEF Weighs
<1>2. Total(w, A) \in Int
  BY <1>1, TotalFacts
<1>3. Worth(name, value) \in Int
  BY DEF Worth
<1>4. CASE value <= 0
  <2>1. Slice(name, value) = {}
    BY <1>4 DEF Slice
  <2>2. A \cup Slice(name, value) = A
    BY <2>1
  <2>3. (IF value <= 0 THEN 0 ELSE Worth(name, value)) = 0 /\ Total(w, A) + 0 = Total(w, A)
    BY <1>2, <1>4
  <2> QED
    BY <2>2, <2>3 DEF SliceMore
<1>5. CASE ~(value <= 0)
  <2> DEFINE new == [name |-> name, value |-> value]
             B == A \cup {new}
  <2>1. Slice(name, value) = {new}
    BY <1>5 DEF Slice
  <2>2. new.name = name
    OBVIOUS
  <2> HIDE DEF new
  <2>3. w[new] = Worth(name, value)
    BY <2>1 DEF Counts
  <2>4. new \notin A /\ B \ {new} = A /\ new \in B
    BY <2>2
  <2>5. IsFiniteSet(B) /\ \A s \in B : w[s] \in Int
    BY <1>1, <1>3, <2>3, FS_AddElement
  <2> HIDE DEF B
  <2>6. Total(w, B) = w[new] + Total(w, B \ {new})
    BY <2>4, <2>5, TotalFacts
  <2>7. Total(w, B) = Worth(name, value) + Total(w, A)
    BY <2>3, <2>4, <2>6
  <2>8. Total(w, B) = Total(w, A) + Worth(name, value)
    BY <1>2, <1>3, <2>7
  <2>9. A \cup Slice(name, value) = B
    BY <2>1 DEF B
  <2>10. (IF value <= 0 THEN 0 ELSE Worth(name, value)) = Worth(name, value)
    BY <1>5
  <2> QED
    BY <2>5, <2>8, <2>9, <2>10 DEF SliceMore, Weighs
<1> QED
  BY <1>4, <1>5

(* The parts of a net worth, of which only the credits may be below zero. *)
GoodParts(parts) ==
  /\ \A c \in InvestmentCategory : parts.investments[c] \in Nat
  /\ parts.liquidity \in Nat /\ parts.credits \in Int

(* The slices, debts taken off, add up to the net worth. *)
LEMMA PieAddsUp ==
  ASSUME NEW f, NEW unavailable, GoodParts(NetworthEvolution(f, unavailable))
  PROVE  MapThenSumSet(LAMBDA s : IF s.name = <<"Debts">> THEN -s.value ELSE s.value,
                       NetworthAllocation(f, unavailable))
           = NetWorthOf(NetworthEvolution(f, unavailable))
<1> DEFINE parts == NetworthEvolution(f, unavailable)
           pie == NetworthAllocation(f, unavailable)
           a == parts.investments[0]
           b == parts.investments[1]
           l == parts.liquidity
           c == parts.credits
           n0 == <<"Investments", 0>>
           n1 == <<"Investments", 1>>
           nl == <<"Liquidity">>
           nc == <<"Credits">>
           nd == <<"Debts">>
           A0 == {} \cup Slice(n0, a)
           A1 == A0 \cup Slice(n1, b)
           A2 == A1 \cup Slice(nl, l)
           A3 == A2 \cup Slice(nc, c)
           A4 == A3 \cup Slice(nd, -c)
           w == SliceWorth(pie)
<1>1. a \in Nat /\ b \in Nat /\ l \in Nat /\ c \in Int /\ -c \in Int
  BY DEF GoodParts, InvestmentCategory
<1>2. /\ n0 # n1 /\ n0 # nl /\ n0 # nc /\ n0 # nd /\ n1 # nl /\ n1 # nc /\ n1 # nd
      /\ nl # nc /\ nl # nd /\ nc # nd
  <2>1. n0[2] = 0 /\ n1[2] = 1 /\ nl[1] = "Liquidity" /\ nc[1] = "Credits" /\ nd[1] = "Debts"
    OBVIOUS
  <2>2. Len(n0) = 2 /\ Len(n1) = 2 /\ Len(nl) = 1 /\ Len(nc) = 1 /\ Len(nd) = 1
    OBVIOUS
  <2> QED
    BY <2>1, <2>2
<1>3. pie = A4
  <2> DEFINE S(k) == Slice(<<"Investments", k>>, parts.investments[k])
             rest == Slice(nl, l) \cup Slice(nc, c) \cup Slice(nd, -c)
  <2>1. pie = (UNION {S(k) : k \in {0, 1}}) \cup rest
    BY DEF NetworthAllocation, InvestmentCategory
  <2>2. S(0) = Slice(n0, a) /\ S(1) = Slice(n1, b)
    OBVIOUS
  <2> HIDE DEF S, a, b, l, c, n0, n1, nl, nc, nd, pie
  <2>3. UNION {S(k) : k \in {0, 1}} = S(0) \cup S(1)
    OBVIOUS
  <2>4. A4 = (Slice(n0, a) \cup Slice(n1, b)) \cup rest
    OBVIOUS
  <2> HIDE DEF A4, rest
  <2>5. pie = (S(0) \cup S(1)) \cup rest
    BY <2>1, <2>3
  <2> QED
    BY <2>2, <2>4, <2>5
<1>4. \A name, value : \A s \in Slice(name, value) : s.name = name /\ s.value = value
  BY DEF Slice
<1>5. NetWorthOf(parts) = Total(parts.investments, {0, 1}) + l + c
  BY DEF NetWorthOf, InvestmentCategory, Total
<1> HIDE DEF parts, pie, a, b, l, c, n0, n1, nl, nc
<1>6. Total(parts.investments, {0, 1}) = a + b
  <2> DEFINE u == parts.investments
  <2>1. u[0] \in Int /\ u[1] \in Int
    BY <1>1 DEF a, b
  <2>2. IsFiniteSet({0, 1}) /\ IsFiniteSet({1})
    BY FS_AddElement, FS_EmptySet, FS_Singleton
  <2> HIDE DEF u
  <2>3. Total(u, {0, 1}) = u[0] + Total(u, {0, 1} \ {0})
    BY <2>1, <2>2, TotalFacts
  <2>4. Total(u, {1}) = u[1] + Total(u, {1} \ {1}) /\ Total(u, {}) = 0
    BY <2>1, <2>2, TotalFacts
  <2>5. {0, 1} \ {0} = {1} /\ {1} \ {1} = {}
    OBVIOUS
  <2>6. Total(u, {0, 1}) = u[0] + (u[1] + 0)
    BY <2>3, <2>4, <2>5
  <2> QED
    BY <2>1, <2>6 DEF u, a, b
<1>7. \A s \in pie : w[s] = Worth(s.name, s.value)
  BY DEF SliceWorth, Worth
<1>8. Total(w, {}) = 0 /\ Weighs(w, {})
  BY FS_EmptySet, TotalFacts DEF Weighs
<1>9. \A v : Worth(n0, v) = v /\ Worth(n1, v) = v /\ Worth(nl, v) = v /\ Worth(nc, v) = v
             /\ Worth(nd, v) = -v
  BY <1>2 DEF Worth
<1> HIDE DEF w, nd
<1>10. \A name, value : Slice(name, value) \subseteq pie => Counts(w, name, value)
  BY <1>4, <1>7 DEF Counts
<1>11. /\ A0 = {} \cup Slice(n0, a) /\ A1 = A0 \cup Slice(n1, b) /\ A2 = A1 \cup Slice(nl, l)
       /\ A3 = A2 \cup Slice(nc, c) /\ A4 = A3 \cup Slice(nd, -c)
  OBVIOUS
<1>12. /\ Slice(n0, a) \subseteq pie /\ Slice(n1, b) \subseteq pie /\ Slice(nl, l) \subseteq pie
       /\ Slice(nc, c) \subseteq pie /\ Slice(nd, -c) \subseteq pie
  BY <1>3
<1>13. /\ \A s \in A0 : s.name # n1
       /\ \A s \in A1 : s.name # nl
       /\ \A s \in A2 : s.name # nc
       /\ \A s \in A3 : s.name # nd
  BY <1>2, <1>4
<1> HIDE DEF A0, A1, A2, A3, A4
<1>14. SliceMore(w, {}, n0, a)
  BY <1>1, <1>8, <1>10, <1>12, SliceAdds
<1>15. SliceMore(w, A0, n1, b)
  <2>1. Weighs(w, A0)
    BY <1>11, <1>14 DEF SliceMore
  <2> QED
    BY <1>1, <1>10, <1>12, <1>13, <2>1, SliceAdds
<1>16. SliceMore(w, A1, nl, l)
  <2>1. Weighs(w, A1)
    BY <1>11, <1>15 DEF SliceMore
  <2> QED
    BY <1>1, <1>10, <1>12, <1>13, <2>1, SliceAdds
<1>17. SliceMore(w, A2, nc, c)
  <2>1. Weighs(w, A2)
    BY <1>11, <1>16 DEF SliceMore
  <2> QED
    BY <1>1, <1>10, <1>12, <1>13, <2>1, SliceAdds
<1>18. SliceMore(w, A3, nd, -c)
  <2>1. Weighs(w, A3)
    BY <1>11, <1>17 DEF SliceMore
  <2> QED
    BY <1>1, <1>10, <1>12, <1>13, <2>1, SliceAdds
<1>19. Total(w, A4) = a + b + l + c
  <2>1. /\ Total(w, A0) = Total(w, {}) + IF a <= 0 THEN 0 ELSE a
        /\ Total(w, A1) = Total(w, A0) + IF b <= 0 THEN 0 ELSE b
        /\ Total(w, A2) = Total(w, A1) + IF l <= 0 THEN 0 ELSE l
        /\ Total(w, A3) = Total(w, A2) + IF c <= 0 THEN 0 ELSE c
        /\ Total(w, A4) = Total(w, A3) + IF -c <= 0 THEN 0 ELSE -(-c)
    BY <1>9, <1>11, <1>14, <1>15, <1>16, <1>17, <1>18 DEF SliceMore
  <2>2. /\ Total(w, A0) = a /\ Total(w, A1) = a + b /\ Total(w, A2) = a + b + l
    BY <1>1, <1>8, <2>1
  <2>3. CASE c <= 0
    BY <1>1, <2>1, <2>2, <2>3
  <2>4. CASE c > 0
    BY <1>1, <2>1, <2>2, <2>4
  <2> QED
    BY <1>1, <2>3, <2>4
<1>20. IsFiniteSet(pie) /\ \A s \in pie : s.value \in Int
  <2>1. \A s \in pie : s.value \in Int
    BY <1>1, <1>3, <1>4, <1>11
  <2> QED
    BY <1>3, <1>11, <1>18, <2>1 DEF SliceMore, Weighs
<1>21. MapThenSumSet(LAMBDA s : IF s.name = <<"Debts">> THEN -s.value ELSE s.value, pie) = Total(w, pie)
  BY <1>20, SlicesAdd DEF w
<1>22. Total(w, pie) = NetWorthOf(parts)
  BY <1>1, <1>3, <1>5, <1>6, <1>19
<1> QED
  BY <1>21, <1>22 DEF pie, parts

-----------------------------------------------------------------------------
(* The charts of tables with good months                                   *)

(* The months of a table's rows are good. *)
GoodMonths(f) == \A t \in Table : \A row \in Range(f[t]) : GoodMonth(t, row.month)

FiniteTables(f) == \A t \in Table : IsFiniteSet(Range(f[t]))

(* So are the parts of the net worth. *)
LEMMA MonthsGiveParts ==
  ASSUME NEW f, GoodMonths(f), FiniteTables(f), NEW unavailable
  PROVE  GoodParts(NetworthEvolution(f, unavailable))
<1> DEFINE H == Range(f["holdings"])
           P == Range(f["prices"])
<1>1. /\ "holdings" \in Table /\ "prices" \in Table /\ "liquidity" \in Table
      /\ "credits" \in Table
      /\ "holdings" # "credits" /\ "prices" # "credits" /\ "liquidity" # "credits"
  BY DEF Table
<1>2. /\ \A row \in H : row.month \in Int /\ row.month >= 0
      /\ \A row \in P : row.month \in Int /\ row.month >= 0
      /\ \A row \in Range(f["liquidity"]) : row.month \in Int /\ row.month >= 0
      /\ \A row \in Range(f["credits"]) : row.month \in Int
  BY <1>1 DEF GoodMonths, GoodMonth
<1>3. /\ IsFiniteSet(H) /\ IsFiniteSet(P)
      /\ IsFiniteSet(Range(f["liquidity"])) /\ IsFiniteSet(Range(f["credits"]))
  BY <1>1 DEF FiniteTables
<1>4. ValueRows(f) \subseteq H \X P
  BY DEF ValueRows
<1> HIDE DEF H, P
<1>5. IsFiniteSet(ValueRows(f))
  <2>1. IsFiniteSet(H \X P)
    BY <1>3, FS_Product
  <2> QED
    BY <1>4, <2>1, FS_Subset
<1>6. ASSUME NEW c
      PROVE  SumConverted(WorthIn(f, c), unavailable) \in Nat
  <2> DEFINE S == {p \in ValueRows(f) : p[1].meta = c}
             map == [pair \in S |-> [of |-> <<pair[1].id, pair[2].id>>,
                                     month |-> pair[1].month * pair[2].month,
                                     currency |-> pair[2].currency]]
  <2>1. IsFiniteSet(S)
    BY <1>5, FS_Subset
  <2>2. WorthIn(f, c) = {map[pair] : pair \in S}
    BY DEF WorthIn
  <2>3. \A pair \in S : map[pair].month = pair[1].month * pair[2].month
    OBVIOUS
  <2>4. \A pair \in S : pair[1] \in H /\ pair[2] \in P
    BY <1>4
  <2> HIDE DEF S, map
  <2>5. IsFiniteSet(WorthIn(f, c))
    BY <2>1, <2>2, ImageIsFinite
  <2>6. \A x, y \in Int : x >= 0 /\ y >= 0 => x * y \in Int /\ x * y >= 0
    OBVIOUS
  <2>7. \A row \in WorthIn(f, c) : row.month \in Int /\ row.month >= 0
    <3>1. ASSUME NEW pair \in S
          PROVE  map[pair].month \in Int /\ map[pair].month >= 0
      <4>1. /\ pair[1].month \in Int /\ pair[1].month >= 0
            /\ pair[2].month \in Int /\ pair[2].month >= 0
        BY <1>2, <2>4
      <4> QED
        BY <2>3, <2>6, <4>1
    <3> QED
      BY <2>2, <3>1
  <2> QED
    BY <2>5, <2>7, ConvertedAdds
<1>7. SumConverted(Range(f["liquidity"]), unavailable) \in Nat
  BY <1>2, <1>3, ConvertedAdds
<1>8. SumConverted(Range(f["credits"]), unavailable) \in Int
  BY <1>2, <1>3, ConvertedAdds
<1> QED
  BY <1>6, <1>7, <1>8 DEF GoodParts, NetworthEvolution

(* A page whose names are unique lists what the charts sum. *)
LEMMA PagesAddUp ==
  ASSUME NEW f, GoodMonths(f), FiniteTables(f), NEW unavailable
  PROVE  /\ NamesAreUnique(f["liquidity"]) =>
              SumConverted(Range(f["liquidity"]), unavailable)
                = SumConverted(ListedLiquidity(f), unavailable)
         /\ NamesAreUnique(f["credits"]) =>
              SumConverted(Range(f["credits"]), unavailable)
                = SumConverted(ListedCredits(f), unavailable)
<1>1. /\ "liquidity" \in Table /\ "credits" \in Table
  BY DEF Table
<1>2. ASSUME NEW t \in Table, NamesAreUnique(f[t])
      PROVE  \A x, y \in Range(f[t]) : x.name = y.name => x = y
  BY <1>2 DEF NamesAreUnique, Range
<1>3. \A t \in Table : IsFiniteSet(Range(f[t])) /\ \A row \in Range(f[t]) : row.month \in Int
  BY DEF FiniteTables, GoodMonths, GoodMonth
<1>4. ASSUME NamesAreUnique(f["liquidity"])
      PROVE  SumConverted(Range(f["liquidity"]), unavailable)
               = SumConverted(ListedLiquidity(f), unavailable)
  <2> DEFINE rows == Range(f["liquidity"])
             m == [row \in rows |-> [id |-> row.name, category |-> row.meta,
                                     currency |-> row.currency, month |-> row.month]]
  <2>1. ListedLiquidity(f) = {m[x] : x \in rows}
    BY DEF ListedLiquidity
  <2>2. \A x \in rows : m[x].id = x.name /\ m[x].month = x.month /\ m[x].currency = x.currency
    OBVIOUS
  <2>3. \A x, y \in rows : x.name = y.name => x = y
    BY <1>1, <1>2, <1>4
  <2>4. IsFiniteSet(rows) /\ \A row \in rows : row.month \in Int
    BY <1>1, <1>3
  <2> HIDE DEF rows, m
  <2>5. \A x, y \in rows : m[x] = m[y] => x = y
    BY <2>2, <2>3
  <2>6. SumConverted({m[x] : x \in rows}, unavailable) = SumConverted(rows, unavailable)
    BY <2>2, <2>4, <2>5, ListedAdds
  <2> QED
    BY <2>1, <2>6 DEF rows
<1>5. ASSUME NamesAreUnique(f["credits"])
      PROVE  SumConverted(Range(f["credits"]), unavailable)
               = SumConverted(ListedCredits(f), unavailable)
  <2> DEFINE rows == Range(f["credits"])
             m == [row \in rows |-> [id |-> row.name, currency |-> row.currency,
                                     month |-> row.month]]
  <2>1. ListedCredits(f) = {m[x] : x \in rows}
    BY DEF ListedCredits
  <2>2. \A x \in rows : m[x].id = x.name /\ m[x].month = x.month /\ m[x].currency = x.currency
    OBVIOUS
  <2>3. \A x, y \in rows : x.name = y.name => x = y
    BY <1>1, <1>2, <1>5
  <2>4. IsFiniteSet(rows) /\ \A row \in rows : row.month \in Int
    BY <1>1, <1>3
  <2> HIDE DEF rows, m
  <2>5. \A x, y \in rows : m[x] = m[y] => x = y
    BY <2>2, <2>3
  <2>6. SumConverted({m[x] : x \in rows}, unavailable) = SumConverted(rows, unavailable)
    BY <2>2, <2>4, <2>5, ListedAdds
  <2> QED
    BY <2>1, <2>6 DEF rows
<1> QED
  BY <1>4, <1>5

(* The charts agree with each other and with the pages. *)
LEMMA GoodMonthsAgree ==
  ASSUME NEW f, GoodMonths(f), FiniteTables(f), NEW unavailable
  PROVE  ChartsAgree(f, unavailable)
<1> DEFINE line == NetworthEvolution(f, unavailable)
           pie == NetworthAllocation(f, unavailable)
<1>1. CurrenciesSummed(f, unavailable) \subseteq NetworthCurrencies(f) \ unavailable
  BY RatesAreAsked
<1>2. GoodParts(line)
  BY MonthsGiveParts
<1>3. MapThenSumSet(LAMBDA s : IF s.name = <<"Debts">> THEN -s.value ELSE s.value, pie)
        = NetWorthOf(line)
  BY <1>2, PieAddsUp
<1>4. AllocationIsNull(f, unavailable) => EvolutionIsNull(f, unavailable)
  <2>1. ASSUME pie = {}
        PROVE  NetWorthOf(line) = 0
    <3>1. IsFiniteSet({}) /\ \A s \in {} : s.value \in Int
      BY FS_EmptySet
    <3> HIDE DEF line, pie
    <3>2. MapThenSumSet(LAMBDA s : IF s.name = <<"Debts">> THEN -s.value ELSE s.value, {})
            = Total(SliceWorth({}), {})
      BY <3>1, SlicesAdd
    <3>3. Total(SliceWorth({}), {}) = 0
      BY <3>1, TotalFacts
    <3> QED
      BY <1>3, <2>1, <3>2, <3>3
  <2> QED
    BY <2>1 DEF AllocationIsNull, EvolutionIsNull
<1>5. /\ line.liquidity = SumConverted(Range(f["liquidity"]), unavailable)
      /\ line.credits = SumConverted(Range(f["credits"]), unavailable)
  BY DEF NetworthEvolution
<1>6. /\ NamesAreUnique(f["liquidity"]) =>
           line.liquidity = SumConverted(ListedLiquidity(f), unavailable)
      /\ NamesAreUnique(f["credits"]) =>
           line.credits = SumConverted(ListedCredits(f), unavailable)
  BY <1>5, PagesAddUp
<1> QED
  BY <1>1, <1>3, <1>4, <1>6 DEF ChartsAgree

(* An asset keeps its two rows or none and is counted once, unless two     *)
(* devices gave one name to an asset; the charts agree with each other and *)
(* with the pages, and settled devices show the same.                      *)
THEOREM NetWorthAssetIsValuedOnce == Spec => []AssetIsValuedOnce
<1>1. Init => IInv /\ MonthsInv
  BY InitIsTold, InitHasMonths
<1>2. (IInv /\ MonthsInv) /\ [Next]_vars => (IInv /\ MonthsInv)'
  BY NextKeepsIInv, NextKeepsMonths
<1>3. Spec => [](IInv /\ MonthsInv)
  BY <1>1, <1>2, PTL DEF Spec
<1>4. IInv /\ MonthsInv /\ AssetsKeepTogether /\ SettledShowTheSame => AssetIsValuedOnce
  <2>1. ASSUME IInv, MonthsInv, NEW d \in Device, Settled(d), NEW unavailable
        PROVE  ChartsAgree(disk[d], unavailable)
    <3> DEFINE f == disk[d]
    <3>1. ASSUME NEW t \in Table
          PROVE  IsFiniteSet(Range(f[t])) /\ \A row \in Range(f[t]) : GoodMonth(t, row.month)
      <4> DEFINE s == f[t]
      <4>1. s \in Seq(Range(s))
        BY <2>1 DEF IInv, Typed, GoodFrames, GoodSheet
      <4>2. \A i \in DOMAIN s : GoodMonth(t, s[i]["month"])
        BY <2>1, SettledHasMonths
      <4> HIDE DEF s
      <4>3. Len(s) \in Nat /\ DOMAIN s = 1..Len(s) /\ Range(s) = {s[i] : i \in DOMAIN s}
        BY <4>1 DEF Range
      <4>4. IsFiniteSet(DOMAIN s)
        <5>1. 1 \in Int /\ Len(s) \in Int
          BY <4>3
        <5> QED
          BY <4>3, <5>1, FS_Interval
      <4>5. IsFiniteSet(Range(s))
        BY <4>3, <4>4, ImageIsFinite
      <4>6. \A row \in Range(s) : GoodMonth(t, row.month)
        BY <4>2, <4>3
      <4> QED
        BY <4>5, <4>6 DEF s
    <3> HIDE DEF f
    <3>2. GoodMonths(f) /\ FiniteTables(f)
      BY <3>1 DEF GoodMonths, FiniteTables
    <3> QED
      BY <3>2, GoodMonthsAgree DEF f
  <2>2. ASSUME SettledShowTheSame, NEW d \in Device, NEW e \in Device, Settled(d), Settled(e)
        PROVE  NetworthEvolution(disk[d], {}) = NetworthEvolution(disk[e], {})
    BY <2>2 DEF SettledShowTheSame
  <2> QED
    BY <2>1, <2>2 DEF AssetsKeepTogether, AssetIsValuedOnce
<1> QED
  BY <1>3, <1>4, NetWorthAssetsAreWhole, NetWorthSettledShowTheSame, PTL

=============================================================================

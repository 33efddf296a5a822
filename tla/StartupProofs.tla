--------------------------- MODULE StartupProofs ---------------------------
(***************************************************************************)
(* What holds of Startup and Ledger for every set of devices and labels    *)
(* and for every bound: no start outranks a peer, the income row is the    *)
(* sum, the copies keep the originals, an asset has one id, applying       *)
(* templates twice adds nothing, and no repaired date comes back.          *)
(***************************************************************************)
EXTENDS Startup, FiniteSetTheorems, WellFoundedInduction, TLAPS

(* A nonempty set of natural numbers has a least element. *)
LEMMA NatLeast ==
  ASSUME NEW T \in SUBSET Nat, T # {}
  PROVE  \E n \in T : \A m \in T : n <= m
<1>1. PICK n \in T : \A m \in T : ~(<<m, n>> \in OpToRel(<, Nat))
  BY WFMin, NatLessThanWellFounded
<1>2. \A m \in T : ~(m < n)
  BY <1>1 DEF OpToRel
<1> QED
  BY <1>2

(* A bounded one has a greatest element. *)
LEMMA GreatestUpTo ==
  ASSUME NEW N \in Nat, NEW T \in SUBSET (0..N), T # {}
  PROVE  \E n \in T : \A m \in T : m <= n
<1> DEFINE U == {N - t : t \in T}
<1>1. \A t \in T : t \in Nat /\ N - t \in Nat
  OBVIOUS
<1>2. U \in SUBSET Nat /\ U # {}
  BY <1>1
<1>3. PICK u \in U : \A v \in U : u <= v
  BY <1>2, NatLeast
<1>4. PICK t \in T : u = N - t
  OBVIOUS
<1>5. \A m \in T : N - t <= N - m
  BY <1>3, <1>4
<1> QED
  BY <1>1, <1>5

Typed ==
  /\ DOMAIN disk = Device /\ DOMAIN log = Device /\ DOMAIN boot = Device
  /\ DOMAIN backups = Device
  /\ serving \subseteq Device /\ paired \subseteq Device

(* A device that starts is the hub or has been paired, and serves only     *)
(* when its start is over; the hub has a peer as soon as anyone has one.   *)
StartsApart ==
  /\ \A d \in Device : boot[d] # "off" => d \in paired \cup {Hub} /\ d \notin serving
  /\ serving \subseteq paired \cup {Hub}
  /\ paired # {} => Hub \in paired

(* Until then there is one log, and the hub has written all of it. *)
AloneKnowsItself ==
  Hub \notin paired => \A d \in Device : \A e \in log[d] : d = Hub /\ e.key.device = Hub

(* A file that lacked ids is as it was, or a copy has it as it was. *)
FilesAsTheyWere ==
  \A d \in Device, t \in Keyed :
    NeedsRowIds(originals[d][t]) =>
      disk[d][t] = originals[d][t] \/ \E copy \in backups[d] : copy[t] = originals[d][t]

(* What a table holds, and what the entries about its rows say. *)
SheetTable == Keyed \cup {"mappings"}

SheetRow == [id : Int, label : Label, day : 0..4, set : Int]

MappingRow == [id : Label, set : Int]

RowsOf(t) == IF t = "mappings" THEN MappingRow ELSE SheetRow

TypedContent(t, content) ==
  /\ t \in SheetTable => content \in Seq(RowsOf(t))
  /\ t = "categories" => IsFiniteSet(content)

TypedRow(t, op, content) == t \in SheetTable /\ op # "delete" => content \in RowsOf(t)

TypedTables(f) == \A t \in Table : TypedContent(t, f[t])

TypedLog(E) == IsFiniteSet(E) /\ \A e \in E : TypedRow(e.table, e.op, e.content)

RowsAreTyped ==
  /\ requests \in Int
  /\ \A d \in Device : TypedTables(disk[d]) /\ TypedLog(log[d])

IInv ==
  Typed /\ RowsAreTyped /\ StartsApart /\ AloneKnowsItself /\ IncomeIsSum /\ FilesAsTheyWere

-----------------------------------------------------------------------------
(* The rows at some positions of a table                                   *)

(* The positions are numbered by how many come no later: each number up to *)
(* their count is the rank of one of them.                                 *)
LEMMA RanksAreNumbers ==
  ASSUME NEW L \in Nat, NEW P \in SUBSET (1..L)
  PROVE  /\ Cardinality(P) \in Nat
         /\ \A i \in P : Cardinality({j \in P : j <= i}) \in 1..Cardinality(P)
         /\ \A i, k \in P : Cardinality({j \in P : j <= i}) = Cardinality({j \in P : j <= k})
                              => i = k
         /\ \A n \in 1..Cardinality(P) : \E i \in P : Cardinality({j \in P : j <= i}) = n
<1> DEFINE Upto(i) == {j \in P : j <= i}
           rank == [i \in P |-> Cardinality(Upto(i))]
<1>1. IsFiniteSet(P) /\ Cardinality(P) \in Nat
  <2>1. IsFiniteSet(1..L)
    BY FS_Interval
  <2> QED
    BY <2>1, FS_Subset, FS_CardinalityType
<1>2. ASSUME NEW i \in P
      PROVE  /\ IsFiniteSet(Upto(i)) /\ Cardinality(Upto(i)) \in Nat
             /\ Cardinality(Upto(i)) <= Cardinality(P) /\ Cardinality(Upto(i)) # 0
  <2>1. Upto(i) \in SUBSET P /\ i \in Upto(i)
    OBVIOUS
  <2> HIDE DEF Upto
  <2>2. IsFiniteSet(Upto(i)) /\ Cardinality(Upto(i)) <= Cardinality(P)
    BY <1>1, <2>1, FS_Subset
  <2> QED
    BY <2>1, <2>2, FS_CardinalityType, FS_EmptySet
<1>3. ASSUME NEW i \in P, NEW k \in P, i < k
      PROVE  Cardinality(Upto(i)) # Cardinality(Upto(k))
  <2>1. Upto(i) \in SUBSET Upto(k) /\ k \in Upto(k) /\ k \notin Upto(i)
    <3>1. \A j \in P : j \in Int
      OBVIOUS
    <3>2. \A j \in P : j <= i => j <= k
      BY <1>3, <3>1
    <3>3. k <= k /\ ~(k <= i)
      BY <1>3, <3>1
    <3> QED
      BY <3>2, <3>3
  <2> HIDE DEF Upto
  <2> QED
    BY <1>2, <2>1, FS_Subset
<1> HIDE DEF Upto
<1>4. rank \in Injection(P, 1..Cardinality(P))
  <2>1. rank \in [P -> 1..Cardinality(P)]
    BY <1>1, <1>2
  <2>2. \A i, k \in P : rank[i] = rank[k] => i = k
    <3>1. \A i, k \in P : i < k \/ k < i \/ i = k
      OBVIOUS
    <3> QED
      BY <1>3, <3>1
  <2> QED
    BY <2>1, <2>2 DEF Injection, IsInjective
<1>5. rank \in Surjection(P, 1..Cardinality(P))
  <2>1. IsFiniteSet(1..Cardinality(P)) /\ Cardinality(1..Cardinality(P)) = Cardinality(P)
    BY <1>1, FS_Interval
  <2> HIDE DEF rank
  <2> QED
    BY <1>4, <2>1, FS_Injection
<1>6. \A n \in 1..Cardinality(P) : \E i \in P : rank[i] = n
  BY <1>5 DEF Surjection
<1>7. \A i \in P : rank[i] \in 1..Cardinality(P)
  BY <1>1, <1>2
<1>8. \A i, k \in P : rank[i] = rank[k] => i = k
  BY <1>4 DEF Injection, IsInjective
<1>9. \A i \in P : rank[i] = Cardinality({j \in P : j <= i})
  BY DEF Upto
<1> HIDE DEF rank
<1> QED
  BY <1>1, <1>6, <1>7, <1>8, <1>9

(* The rows picked are those at the positions, no more and no fewer. *)
LEMMA RowsAtPicks ==
  ASSUME NEW sheet, NEW L \in Nat, NEW P \in SUBSET (1..L)
  PROVE  /\ Cardinality(P) \in Nat
         /\ DOMAIN RowsAt(sheet, P) = 1..Cardinality(P)
         /\ RowsAt(sheet, P) = [n \in 1..Cardinality(P) |-> RowsAt(sheet, P)[n]]
         /\ \A n \in DOMAIN RowsAt(sheet, P) : \E i \in P : RowsAt(sheet, P)[n] = sheet[i]
         /\ \A i \in P : \E n \in DOMAIN RowsAt(sheet, P) : RowsAt(sheet, P)[n] = sheet[i]
<1> DEFINE Rank(i) == Cardinality({j \in P : j <= i})
           picked == RowsAt(sheet, P)
           At(n) == CHOOSE i \in P : Rank(i) = n
<1>1. /\ Cardinality(P) \in Nat
      /\ \A i \in P : Rank(i) \in 1..Cardinality(P)
      /\ \A i, k \in P : Rank(i) = Rank(k) => i = k
      /\ \A n \in 1..Cardinality(P) : \E i \in P : Rank(i) = n
  BY RanksAreNumbers
<1>2. /\ DOMAIN picked = 1..Cardinality(P)
      /\ \A n \in 1..Cardinality(P) : picked[n] = sheet[At(n)]
      /\ picked = [n \in 1..Cardinality(P) |-> picked[n]]
  BY DEF RowsAt
<1> HIDE DEF picked, Rank
<1>3. \A n \in 1..Cardinality(P) : At(n) \in P /\ Rank(At(n)) = n
  BY <1>1
<1>4. \A i \in P : At(Rank(i)) = i
  BY <1>1, <1>3
<1> HIDE DEF At
<1>5. \A n \in DOMAIN picked : \E i \in P : picked[n] = sheet[i]
  BY <1>2, <1>3
<1>6. \A i \in P : \E n \in DOMAIN picked : picked[n] = sheet[i]
  BY <1>1, <1>2, <1>4
<1> QED
  BY <1>1, <1>2, <1>5, <1>6 DEF picked

(* They make a table of the kind of rows they are. *)
LEMMA RowsAtOfKind ==
  ASSUME NEW S, NEW sheet, NEW L \in Nat, NEW P \in SUBSET (1..L), \A i \in P : sheet[i] \in S
  PROVE  RowsAt(sheet, P) \in Seq(S)
<1> DEFINE picked == RowsAt(sheet, P)
<1>1. /\ Cardinality(P) \in Nat
      /\ DOMAIN picked = 1..Cardinality(P)
      /\ picked = [n \in 1..Cardinality(P) |-> picked[n]]
      /\ \A n \in DOMAIN picked : \E i \in P : picked[n] = sheet[i]
  BY RowsAtPicks
<1> HIDE DEF picked
<1>2. \A n \in 1..Cardinality(P) : picked[n] \in S
  BY <1>1
<1>3. picked \in [1..Cardinality(P) -> S]
  BY <1>1, <1>2
<1>4. picked \in Seq(S)
  BY <1>1, <1>3 DEF Seq
<1> QED
  BY <1>4 DEF picked

(* What a filter keeps of a table is a table of that kind. *)
LEMMA FilterOfKind ==
  ASSUME NEW S, NEW sheet \in Seq(S), NEW P \in SUBSET DOMAIN sheet
  PROVE  RowsAt(sheet, P) \in Seq(S)
<1>1. /\ Len(sheet) \in Nat /\ P \in SUBSET (1..Len(sheet))
      /\ \A i \in P : sheet[i] \in S
  OBVIOUS
<1> QED
  BY <1>1, RowsAtOfKind

(* So is one with a row put in or removed. *)
LEMMA ChangedOfKind ==
  ASSUME NEW S, NEW sheet \in Seq(S)
  PROVE  /\ \A row \in S : PutRow(sheet, row) \in Seq(S) /\ Append(sheet, row) \in Seq(S)
         /\ \A id : RemoveRow(sheet, id) \in Seq(S)
<1>1. ASSUME NEW row \in S PROVE PutRow(sheet, row) \in Seq(S)
  <2>1. [i \in DOMAIN sheet |-> IF sheet[i].id = row.id THEN row ELSE sheet[i]] \in Seq(S)
    <3>1. \A i \in DOMAIN sheet : sheet[i] \in S
      OBVIOUS
    <3>2. DOMAIN sheet = 1..Len(sheet) /\ Len(sheet) \in Nat
      OBVIOUS
    <3> QED
      BY <3>1, <3>2
  <2> QED
    BY <2>1 DEF PutRow
<1>2. \A row \in S : Append(sheet, row) \in Seq(S)
  OBVIOUS
<1>3. ASSUME NEW id PROVE RemoveRow(sheet, id) \in Seq(S)
  BY FilterOfKind DEF RemoveRow
<1> QED
  BY <1>1, <1>2, <1>3

-----------------------------------------------------------------------------
(* Steps and the types of rows                                             *)

(* A step saves a table of the right kind, or records a row of it. *)
TypedStep(s) ==
  IF IsSave(s) THEN TypedContent(s.table, s.content) ELSE TypedRow(s.table, s.op, s.content)

TypedSteps(steps) ==
  /\ Len(steps) \in Nat /\ DOMAIN steps = 1..Len(steps)
  /\ \A i \in DOMAIN steps : TypedStep(steps[i])

(* Saves of the right kind, wherever they stop, leave tables of that kind. *)
LEMMA SavesKeepTypes ==
  ASSUME NEW f, TypedTables(f), NEW steps, TypedSteps(steps), NEW done \in SUBSET DOMAIN steps
  PROVE  TypedTables(AfterSaves(f, steps, done))
<1> SUFFICES ASSUME NEW t \in Table PROVE TypedContent(t, AfterSaves(f, steps, done)[t])
  BY DEF TypedTables
<1> DEFINE saves == SavesOf(t, steps, done)
<1>1. AfterSaves(f, steps, done)[t] = IF saves = {} THEN f[t] ELSE steps[Max(saves)].content
  BY DEF AfterSaves
<1>2. CASE saves = {}
  BY <1>1, <1>2 DEF TypedTables
<1>3. CASE saves # {}
  <2>1. saves \in SUBSET (0..Len(steps)) /\ Len(steps) \in Nat
    BY DEF SavesOf, TypedSteps
  <2>2. \A i \in saves : i \in DOMAIN steps /\ IsSave(steps[i]) /\ steps[i].table = t
    BY DEF SavesOf
  <2> HIDE DEF saves
  <2>3. PICK n \in saves : \A m \in saves : m <= n
    BY <1>3, <2>1, GreatestUpTo
  <2>4. \A m \in saves : n >= m
    BY <2>1, <2>3
  <2>5. Max(saves) \in saves
    BY <2>3, <2>4 DEF Max
  <2>6. TypedContent(t, steps[Max(saves)].content)
    BY <2>2, <2>5 DEF TypedSteps, TypedStep
  <2> QED
    BY <1>1, <1>3, <2>6
<1> QED
  BY <1>2, <1>3

(* What the records append is of that kind too, and finite. *)
LEMMA AppendsKeepTypes ==
  ASSUME Typed, RowsAreTyped, NEW d \in Device, NEW steps, TypedSteps(steps),
         NEW done \in SUBSET DOMAIN steps, Appends(d, steps, done)
  PROVE  \A e \in Device : TypedLog(log'[e])
<1>1. PICK t \in WallClocks(d) :
        log' = [log EXCEPT ![d] = @ \cup {EntryOf(steps[i], [time |-> t + i, device |-> d]) :
                                            i \in {j \in done : ~IsSave(steps[j])}}]
  BY DEF Appends
<1> DEFINE recorded == {j \in done : ~IsSave(steps[j])}
           entry == [i \in recorded |-> EntryOf(steps[i], [time |-> t + i, device |-> d])]
           entries == {entry[i] : i \in recorded}
<1>2. log' = [log EXCEPT ![d] = @ \cup entries]
  BY <1>1
<1>3. IsFiniteSet(entries)
  <2>1. IsFiniteSet(DOMAIN steps) /\ recorded \in SUBSET DOMAIN steps
    BY FS_Interval DEF TypedSteps
  <2>2. IsFiniteSet(recorded)
    BY <2>1, FS_Subset
  <2>3. entry \in Surjection(recorded, entries)
    BY DEF Surjection
  <2> HIDE DEF entry, recorded
  <2> QED
    BY <2>2, <2>3, FS_Surjection
<1>4. \A e \in entries : TypedRow(e.table, e.op, e.content)
  <2>1. ASSUME NEW i \in recorded PROVE TypedRow(entry[i].table, entry[i].op, entry[i].content)
    <3>1. TypedRow(steps[i].table, steps[i].op, steps[i].content)
      BY DEF TypedSteps, TypedStep
    <3>2. /\ entry[i].table = steps[i].table /\ entry[i].op = steps[i].op
          /\ entry[i].content = steps[i].content
      BY DEF EntryOf
    <3> QED
      BY <3>1, <3>2
  <2> QED
    BY <2>1
<1> HIDE DEF entries
<1>5. TypedLog(log[d] \cup entries)
  <2>1. TypedLog(log[d])
    BY DEF RowsAreTyped
  <2> QED
    BY <1>3, <1>4, <2>1, FS_Union DEF TypedLog
<1>6. log'[d] = log[d] \cup entries /\ \A e \in Device : e # d => log'[e] = log[e]
  BY <1>2 DEF Typed
<1> QED
  BY <1>5, <1>6 DEF RowsAreTyped

(* So typed steps, wherever they stop, keep the types of all tables. *)
LEMMA StepsKeepTypes ==
  ASSUME Typed, RowsAreTyped, NEW d \in Device, NEW steps, TypedSteps(steps),
         NEW done \in SUBSET DOMAIN steps, Appends(d, steps, done), requests' \in Int,
         disk' = [disk EXCEPT ![d] = AfterSaves(@, steps, done)]
  PROVE  RowsAreTyped'
<1>1. \A e \in Device : TypedLog(log'[e])
  BY AppendsKeepTypes
<1>2. TypedTables(AfterSaves(disk[d], steps, done))
  BY SavesKeepTypes DEF RowsAreTyped
<1>3. \A e \in Device : TypedTables(disk'[e])
  BY <1>2 DEF RowsAreTyped, Typed
<1> QED
  BY <1>1, <1>3 DEF RowsAreTyped, TypedTables, TypedContent, TypedLog, TypedRow

-----------------------------------------------------------------------------
(* Merges and the types of rows                                            *)

(* What decides a row that the batch brings is an entry about it. *)
LEMMA WinnerIsAnEntry ==
  ASSUME NEW d, NEW batch, NEW x \in Written(d, batch), x.table \in SheetTable,
         ~Deleted(Winner(Known(d, batch, x), x))
  PROVE  \E e \in log[d] \cup batch :
           /\ e.table = x.table /\ e.op # "delete"
           /\ e.content = Content(Winner(Known(d, batch, x), x))
<1> DEFINE S == Known(d, batch, x)
           winner == Winner(S, x)
<1>1. winner = Rows!RowWinner(S)
  BY DEF Winner, Fixed, SheetTable, Keyed
<1>2. winner \subseteq S /\ \A e \in winner : e.op # "delete"
  <2>1. winner \subseteq S
    BY <1>1 DEF Rows!RowWinner, Rows!Newest, Rows!Deletes, Rows!Upserts
  <2>2. {e \in winner : e.op = "delete"} = {}
    BY DEF Deleted, Rows!Deletes
  <2> QED
    BY <2>1, <2>2
<1>3. winner # {}
  BY DEF Written
<1>4. \A e \in S : e \in log[d] \cup batch /\ e.table = x.table
  BY DEF Known, About
<1> HIDE DEF S, winner
<1>5. PICK e \in winner : Content(winner) = e.content
  BY <1>3 DEF Content
<1> QED
  BY <1>2, <1>4, <1>5 DEF winner, S

(* So it is of the right kind. *)
LEMMA WinnersAreTyped ==
  ASSUME NEW d, NEW batch, TypedLog(log[d]), TypedLog(batch), NEW x \in Written(d, batch),
         x.table \in SheetTable, ~Deleted(Winner(Known(d, batch, x), x))
  PROVE  Content(Winner(Known(d, batch, x), x)) \in RowsOf(x.table)
<1>1. PICK e \in log[d] \cup batch :
        /\ e.table = x.table /\ e.op # "delete"
        /\ e.content = Content(Winner(Known(d, batch, x), x))
  BY WinnerIsAnEntry
<1>2. TypedRow(e.table, e.op, e.content)
  BY DEF TypedLog
<1> QED
  BY <1>1, <1>2 DEF TypedRow

(* A merge has as many actions as rows it writes. *)
LEMMA ActionsAreCounted ==
  ASSUME NEW d, NEW batch, IsFiniteSet(batch)
  PROVE  /\ IsFiniteSet(Written(d, batch))
         /\ \E n \in Nat : DOMAIN Actions(d, batch) = 1..n
<1> DEFINE rows == [e \in batch |-> RowId(e.table, e.id)]
           touched == {rows[e] : e \in batch}
           written == Written(d, batch)
           date == [x \in written |-> <<x, NewestOf(d, batch, x)>>]
           dated == {date[x] : x \in written}
<1>1. IsFiniteSet(touched)
  <2>1. rows \in Surjection(batch, touched)
    BY DEF Surjection
  <2> HIDE DEF rows, touched
  <2> QED
    BY <2>1, FS_Surjection
<1>2. written \in SUBSET touched
  BY DEF Written
<1> HIDE DEF rows, touched
<1>3. IsFiniteSet(written)
  BY <1>1, <1>2, FS_Subset
<1>4. DOMAIN Actions(d, batch) = 1..Cardinality(dated)
  BY DEF Actions
<1>5. date \in Surjection(written, dated)
  BY DEF Surjection
<1>6. IsFiniteSet(dated)
  <2> HIDE DEF written, date, dated
  <2> QED
    BY <1>3, <1>5, FS_Surjection
<1>7. Cardinality(dated) \in Nat
  <2> HIDE DEF dated
  <2> QED
    BY <1>6, FS_CardinalityType
<1> QED
  BY <1>3, <1>4, <1>7

(* Rows of a table change, go and follow by what entries of it hold. *)
LEMMA RowsWithWinnersAreTyped ==
  ASSUME NEW S, NEW sheet \in Seq(S), NEW t, NEW won, NEW order,
         \E n \in Nat : DOMAIN order = 1..n,
         \A x \in DOMAIN won : x.table = t /\ ~Deleted(won[x]) => Content(won[x]) \in S
  PROVE  RowsWithWinners(sheet, t, won, order) \in Seq(S)
<1> DEFINE Touches(id) == RowId(t, id) \in DOMAIN won
           Gone(id) == Touches(id) /\ Deleted(won[RowId(t, id)])
           changed == [i \in DOMAIN sheet |-> IF Touches(sheet[i].id)
                                              THEN Content(won[RowId(t, sheet[i].id)])
                                              ELSE sheet[i]]
           kept == {i \in DOMAIN sheet : ~Gone(sheet[i].id)}
           added == {x \in DOMAIN won :
                       x.table = t /\ ~Deleted(won[x]) /\ x.id \notin IdsIn(sheet)}
           brought == [n \in DOMAIN order |-> Content(won[order[n]])]
           new == {n \in DOMAIN order : order[n] \in added}
<1>1. PICK n \in Nat : DOMAIN order = 1..n
  OBVIOUS
<1>2. /\ Len(sheet) \in Nat /\ kept \in SUBSET (1..Len(sheet)) /\ new \in SUBSET (1..n)
      /\ \A i \in DOMAIN sheet : sheet[i] \in S
  BY <1>1
<1>3. \A i \in kept : changed[i] \in S
  BY <1>2 DEF RowId
<1>4. \A i \in new : brought[i] \in S
  BY DEF RowId
<1>5. RowsWithWinners(sheet, t, won, order) = RowsAt(changed, kept) \o RowsAt(brought, new)
  BY DEF RowsWithWinners
<1> HIDE DEF changed, kept, brought, new
<1>6. RowsAt(changed, kept) \in Seq(S) /\ RowsAt(brought, new) \in Seq(S)
  BY <1>2, <1>3, <1>4, RowsAtOfKind
<1> QED
  BY <1>5, <1>6

(* So a merge leaves each table of its kind. *)
LEMMA PreparedKeepsTypes ==
  ASSUME NEW f, TypedTables(f), NEW d, NEW batch, TypedLog(log[d]), TypedLog(batch)
  PROVE  TypedTables(Prepared(f, d, batch))
<1> DEFINE won == [x \in Written(d, batch) |-> Winner(Known(d, batch, x), x)]
           order == Actions(d, batch)
           loaded == {x.table : x \in DOMAIN won}
           all(t) == WithWinners(f[t], t, won, order)
           after == [t \in Table |-> IF t \in loaded THEN all(t) ELSE f[t]]
<1>1. Prepared(f, d, batch) = Finish(after, f)
  BY DEF Prepared
<1>2. \A x \in DOMAIN won : x.table \in SheetTable /\ ~Deleted(won[x])
                              => Content(won[x]) \in RowsOf(x.table)
  BY WinnersAreTyped
<1>3. /\ IsFiniteSet(DOMAIN won)
      /\ \E n \in Nat : DOMAIN order = 1..n
  BY ActionsAreCounted DEF TypedLog
<1> HIDE DEF won, order
<1>4. ASSUME NEW t \in SheetTable PROVE t \in Table /\ all(t) \in Seq(RowsOf(t))
  <2>1. t \in Table /\ f[t] \in Seq(RowsOf(t))
    BY DEF TypedTables, TypedContent, SheetTable, Table, Settings
  <2>2. RowsWithWinners(f[t], t, won, order) \in Seq(RowsOf(t))
    BY <1>2, <1>3, <2>1, RowsWithWinnersAreTyped
  <2>3. all(t) = RowsWithWinners(f[t], t, won, order)
    BY DEF WithWinners, MappingsWithWinners, SheetTable, Keyed
  <2> QED
    BY <2>1, <2>2, <2>3
<1>5. IsFiniteSet(all("categories"))
  <2> DEFINE Won(gone) == {x.id : x \in {y \in DOMAIN won : y.table = "categories"
                                                          /\ Deleted(won[y]) = gone}}
             id == [x \in DOMAIN won |-> x.id]
             ids == {id[x] : x \in DOMAIN won}
  <2>1. IsFiniteSet(f["categories"])
    BY DEF TypedTables, TypedContent, Table, Settings
  <2>2. id \in Surjection(DOMAIN won, ids)
    BY DEF Surjection
  <2>3. all("categories") = (f["categories"] \ Won(TRUE)) \cup Won(FALSE)
    <3>1. all("categories") = CategoriesWithWinners(f["categories"], won)
      BY DEF WithWinners, Keyed
    <3> QED
      BY <3>1 DEF CategoriesWithWinners
  <2>4. Won(FALSE) \in SUBSET ids
    OBVIOUS
  <2>7. f["categories"] \ Won(TRUE) \in SUBSET f["categories"]
    OBVIOUS
  <2> HIDE DEF id, ids, Won, all
  <2>5. IsFiniteSet(ids)
    BY <1>3, <2>2, FS_Surjection
  <2>6. IsFiniteSet(Won(FALSE)) /\ IsFiniteSet(f["categories"] \ Won(TRUE))
    BY <2>1, <2>4, <2>5, <2>7, FS_Subset
  <2> QED
    BY <2>3, <2>6, FS_Union
<1>6. \A t \in Table : t # "income" => Finish(after, f)[t] = after[t]
  BY DEF Finish
<1> HIDE DEF all
<1>7. ASSUME NEW t \in Table PROVE TypedContent(t, Finish(after, f)[t])
  <2>1. CASE t = "income"
    BY <2>1 DEF TypedContent, SheetTable, Keyed
  <2>2. CASE t # "income" /\ t \notin loaded
    BY <1>6, <2>2 DEF TypedTables
  <2>3. CASE t # "income" /\ t \in loaded
    <3>1. Finish(after, f)[t] = all(t)
      BY <1>6, <2>3
    <3> QED
      BY <1>4, <1>5, <3>1 DEF TypedContent
  <2> QED
    BY <2>1, <2>2, <2>3
<1> QED
  BY <1>1, <1>7 DEF TypedTables

-----------------------------------------------------------------------------
(* Steps that put no wrong date anywhere                                   *)

(* The ids of the rows whose date does not belong to the month. *)
Misdated(sheet) == {sheet[i].id : i \in {j \in DOMAIN sheet : NeedsRepair(sheet[j])}}

Wrong(d) == Misdated(disk[d]["expenses"])

(* The rows of content are right ones of ids, or rows of sheet that are    *)
(* none of the wrong ones of ids.                                          *)
Replaces(sheet, ids, content) ==
  \A i \in DOMAIN content :
    \/ content[i].id \in ids /\ ~NeedsRepair(content[i])
    \/ \E j \in DOMAIN sheet :
         content[i] = sheet[j] /\ (NeedsRepair(sheet[j]) => sheet[j].id \notin ids)

RightRecord(s) ==
  s.op \in {"upsert", "delete"} /\ (s.op = "upsert" => s.content.id = s.id /\ ~NeedsRepair(s.content))

(* The expenses are saved first, and only right rows of ids are written    *)
(* and recorded.                                                           *)
DatedFor(sheet, ids, steps) ==
  /\ 1 \in DOMAIN steps /\ IsSave(steps[1]) /\ steps[1].table = "expenses"
  /\ \A i \in DOMAIN steps : IF IsSave(steps[i]) THEN Replaces(sheet, ids, steps[i].content)
                             ELSE steps[i].id \in ids /\ RightRecord(steps[i])

DatedSteps(sheet, steps) ==
  \/ \A i \in DOMAIN steps : steps[i].table # "expenses"
  \/ \E ids : DatedFor(sheet, ids, steps)

-----------------------------------------------------------------------------
(* Steps of requests                                                       *)

(* Adding the income up once more changes nothing. *)
LEMMA SumIsStable ==
  ASSUME NEW income
  PROVE  RecomputeIncome(RecomputeIncome(income)) = RecomputeIncome(income)
<1> DEFINE once == RecomputeIncome(income)
<1>1. /\ Salary \in IncomeRow /\ Other \in IncomeRow /\ Salary # Income /\ Other # Income
  BY LedgerAssumption DEF IncomeRow, IncomeCategory
<1>2. once[Salary] = income[Salary] /\ once[Other] = income[Other]
  BY <1>1 DEF RecomputeIncome
<1>3. \A c \in IncomeRow :
        once[c] = IF c = Income THEN income[Salary] + income[Other] ELSE income[c]
  BY DEF RecomputeIncome
<1> HIDE DEF once
<1>4. RecomputeIncome(once)
        = [c \in IncomeRow |-> IF c = Income THEN income[Salary] + income[Other] ELSE income[c]]
  BY <1>2, <1>3 DEF RecomputeIncome
<1> QED
  BY <1>4 DEF once, RecomputeIncome

(* The files of the assets, which requests of Ledger leave alone. *)
Investments == {"holdings", "prices"}

(* The saves of a request go to files that can be loaded, and income is    *)
(* added up before it is saved.                                            *)
SafeSteps(d, steps) ==
  \A i \in DOMAIN steps :
    /\ steps[i].table \notin Investments
    /\ IsSave(steps[i]) =>
         /\ steps[i].table \in Keyed => CanLoad(d, steps[i].table)
         /\ steps[i].table = "income" =>
              i = 1 /\ steps[i].content = RecomputeIncome(steps[i].content)

(* What such steps leave of the files of the devices. *)
LeavesFiles ==
  /\ DOMAIN disk' = Device
  /\ IncomeIsSum'
  /\ \A d \in Device, t \in Keyed : disk'[d][t] = disk[d][t] \/ ~NeedsRowIds(disk[d][t])

(* Safe steps, wherever they stop, leave ids and sums alone. *)
LEMMA SafeStepsLeaveFiles ==
  ASSUME Typed, IncomeIsSum, NEW d \in Device, NEW steps, NEW done,
         SafeSteps(d, steps), disk' = [disk EXCEPT ![d] = AfterSaves(@, steps, done)]
  PROVE  LeavesFiles
<1> DEFINE after == AfterSaves(disk[d], steps, done)
<1>1. /\ DOMAIN disk' = Device /\ disk'[d] = after
      /\ \A e \in Device : e # d => disk'[e] = disk[e]
  BY DEF Typed
<1>2. \A t \in Table :
        after[t] = IF SavesOf(t, steps, done) = {} THEN disk[d][t]
                   ELSE steps[Max(SavesOf(t, steps, done))].content
  BY DEF AfterSaves
<1> HIDE DEF after
<1>3. "income" \in Table /\ Keyed \subseteq Table
  BY DEF Table, Keyed
<1>4. after["income"] = RecomputeIncome(after["income"])
  <2> DEFINE saves == SavesOf("income", steps, done)
  <2>1. CASE saves = {}
    BY <2>1, <1>2, <1>3 DEF IncomeIsSum
  <2>2. CASE saves # {}
    <3>1. \A i \in saves : i = 1 /\ steps[i].content = RecomputeIncome(steps[i].content)
      BY DEF SavesOf, SafeSteps
    <3>2. saves = {1}
      BY <2>2, <3>1
    <3>3. Max(saves) = 1
      BY <3>2 DEF Max
    <3> QED
      BY <1>2, <1>3, <2>2, <3>1, <3>2, <3>3
  <2> QED
    BY <2>1, <2>2
<1>5. ASSUME NEW t \in Keyed PROVE after[t] = disk[d][t] \/ ~NeedsRowIds(disk[d][t])
  <2>1. CASE SavesOf(t, steps, done) = {}
    BY <2>1, <1>2, <1>3
  <2>2. CASE SavesOf(t, steps, done) # {}
    <3>1. PICK i \in DOMAIN steps : IsSave(steps[i]) /\ steps[i].table = t
      BY <2>2 DEF SavesOf
    <3> QED
      BY <3>1 DEF SafeSteps, CanLoad
  <2> QED
    BY <2>1, <2>2
<1>6. IncomeIsSum'
  BY <1>1, <1>4 DEF IncomeIsSum
<1> QED
  BY <1>1, <1>5, <1>6 DEF LeavesFiles

(* A device appends entries of its own, to its own log. *)
LEMMA AppendsItsOwn ==
  ASSUME Typed, NEW d \in Device, NEW steps, NEW done, Appends(d, steps, done)
  PROVE  /\ DOMAIN log' = Device
         /\ \A e \in Device : e # d => log'[e] = log[e]
         /\ \A x \in log'[d] \ log[d] :
              x.key.device = d
<1>1. PICK t \in WallClocks(d) :
        log' = [log EXCEPT ![d] = @ \cup {EntryOf(steps[i], [time |-> t + i, device |-> d]) :
                                            i \in {j \in done : ~IsSave(steps[j])}}]
  BY DEF Appends
<1>2. \A i \in done : EntryOf(steps[i], [time |-> t + i, device |-> d]).key.device = d
  BY DEF EntryOf
<1> QED
  BY <1>1, <1>2 DEF Typed

(* Nothing is lost of what was there at first, when files change like that *)
(* and copies are only added.                                              *)
LEMMA FilesStay ==
  ASSUME FilesAsTheyWere, LeavesFiles, originals' = originals,
         \A d \in Device : backups[d] \subseteq backups'[d]
  PROVE  FilesAsTheyWere'
BY DEF FilesAsTheyWere, LeavesFiles

(* Nor when a copy of a device is taken and its files then change. *)
LEMMA FilesStayInCopy ==
  ASSUME Typed, FilesAsTheyWere, NEW d \in Device, Backs(d), originals' = originals,
         \A e \in Device : e # d => disk'[e] = disk[e]
  PROVE  /\ FilesAsTheyWere'
         /\ DOMAIN backups' = Device
         /\ \A e \in Device : backups[e] \subseteq backups'[e]
         /\ Copied(d) \in backups'[d]
<1>1. /\ DOMAIN backups' = Device
      /\ backups'[d] = backups[d] \cup {Copied(d)}
      /\ \A e \in Device : e # d => backups'[e] = backups[e]
  BY DEF Typed, Backs, BackupDbs
<1>2. \A t \in Keyed : Copied(d)[t] = disk[d][t]
  BY DEF Copied, Keyed, Table, Settings
<1>3. ASSUME NEW e \in Device, NEW t \in Keyed, NeedsRowIds(originals[e][t])
      PROVE  disk'[e][t] = originals[e][t] \/ \E copy \in backups'[e] : copy[t] = originals[e][t]
  <2>1. CASE e = d
    BY <1>1, <1>2, <1>3, <2>1 DEF FilesAsTheyWere
  <2>2. CASE e # d
    BY <1>1, <1>3, <2>2 DEF FilesAsTheyWere
  <2> QED
    BY <2>1, <2>2
<1> QED
  BY <1>1, <1>3 DEF FilesAsTheyWere

(* A save that comes first is done before anything else. *)
InOrder(steps, done) == 1 \in DOMAIN steps /\ IsSave(steps[1]) => done = {} \/ 1 \in done

(* Whether it goes through, loses a record or is cut off, a request saves  *)
(* and records some of its steps; it marks logs and may stop its device.   *)
LEMMA RequestPerforms ==
  ASSUME Typed, NEW d \in Device, NEW steps,
         Completes(d, steps) \/ LosesRecord(d, steps) \/ CutOff(d, steps)
  PROVE  /\ \E done : \E lost : /\ Performs(d, steps, done, lost)
                                /\ TypedSteps(steps) => done \subseteq DOMAIN steps /\ InOrder(steps, done)
                                /\ \A t \in lost : \E i \in DOMAIN steps : steps[i].table = t
         /\ serving' \subseteq serving
<1>1. CASE Completes(d, steps)
  <2>1. InOrder(steps, DOMAIN steps)
    BY DEF InOrder
  <2> QED
    BY <1>1, <2>1 DEF Completes
<1>2. CASE LosesRecord(d, steps)
  <2>1. PICK i \in DOMAIN steps : ~IsSave(steps[i]) /\ Performs(d, steps, DOMAIN steps \ {i}, {})
    BY <1>2 DEF LosesRecord
  <2>2. InOrder(steps, DOMAIN steps \ {i})
    BY <2>1 DEF InOrder
  <2> QED
    BY <1>2, <2>1, <2>2 DEF LosesRecord
<1>3. CASE CutOff(d, steps)
  <2>1. PICK n \in DOMAIN steps : \E lost : /\ Performs(d, steps, 1..n - 1, lost)
                                            /\ \A t \in lost : t = steps[n].table
    <3>1. PICK n \in DOMAIN steps : \E lost \in {{}, {steps[n].table}} :
                                     Performs(d, steps, 1..n - 1, lost)
      BY <1>3 DEF CutOff
    <3> QED
      BY <3>1
  <2>2. TypedSteps(steps) => 1..n - 1 \subseteq DOMAIN steps /\ InOrder(steps, 1..n - 1)
    BY DEF TypedSteps, InOrder
  <2>3. serving' \subseteq serving
    BY <1>3 DEF CutOff
  <2> QED
    BY <2>1, <2>2, <2>3
<1> QED
  BY <1>1, <1>2, <1>3

(* A request of safe steps keeps the invariant, done or cut off. *)
LEMMA RequestKeeps ==
  ASSUME IInv, NEW d \in Device, d \in serving, NEW steps, SafeSteps(d, steps),
         TypedSteps(steps), Request(d, steps), UNCHANGED startVars
  PROVE  IInv'
<1> USE DEF IInv
<1>1. /\ UNCHANGED <<boot, backups, originals, paired>>
      /\ Completes(d, steps) \/ LosesRecord(d, steps) \/ CutOff(d, steps)
  BY DEF Request, startVars
<1>2. PICK done, lost : /\ Performs(d, steps, done, lost) /\ serving' \subseteq serving
                        /\ done \in SUBSET DOMAIN steps
  <2>1. /\ \E done : \E lost : /\ Performs(d, steps, done, lost)
                               /\ TypedSteps(steps) => done \subseteq DOMAIN steps
        /\ serving' \subseteq serving
    BY <1>1, RequestPerforms
  <2> QED
    BY <2>1
<1>3. LeavesFiles
  BY <1>2, SafeStepsLeaveFiles DEF Performs
<1>4. /\ DOMAIN log' = Device
      /\ \A e \in Device : e # d => log'[e] = log[e]
      /\ \A x \in log'[d] \ log[d] : x.key.device = d
  BY <1>2, AppendsItsOwn DEF Performs
<1>5. Typed'
  BY <1>1, <1>2, <1>3, <1>4 DEF Typed, LeavesFiles
<1>6. StartsApart'
  BY <1>1, <1>2 DEF StartsApart
<1>7. AloneKnowsItself'
  <2>1. Hub \notin paired => d = Hub
    BY DEF StartsApart
  <2> QED
    BY <1>1, <1>4, <2>1 DEF AloneKnowsItself
<1>8. IncomeIsSum' /\ FilesAsTheyWere'
  BY <1>1, <1>3, FilesStay DEF LeavesFiles
<1>9. RowsAreTyped'
  <2>1. requests' \in Int
    BY DEF Request, RowsAreTyped
  <2> QED
    BY <1>2, <2>1, StepsKeepTypes DEF Performs
<1> QED
  BY <1>5, <1>6, <1>7, <1>8, <1>9

-----------------------------------------------------------------------------
(* The handlers                                                            *)

(* A save with its record is safe if the table was loaded and is none of   *)
(* the income and the assets.                                              *)
LEMMA TwoSafeSteps ==
  ASSUME NEW d, NEW t \in Table, NEW content, NEW record,
         t # "income", t \notin Investments, t \in Keyed => CanLoad(d, t),
         ~IsSave(record), record.table = t,
         TypedContent(t, content), TypedStep(record)
  PROVE  /\ SafeSteps(d, <<Save(t, content), record>>)
         /\ TypedSteps(<<Save(t, content), record>>)
<1> DEFINE steps == <<Save(t, content), record>>
<1>1. /\ DOMAIN steps = {1, 2} /\ steps[1].table = t /\ steps[2] = record
  BY DEF Save
<1>2. steps[1] = Save(t, content) /\ Len(steps) = 2 /\ DOMAIN steps = 1..2
  OBVIOUS
<1>3. TypedStep(Save(t, content))
  BY DEF TypedStep, Save, IsSave
<1> HIDE DEF steps
<1>4. SafeSteps(d, steps)
  BY <1>1 DEF SafeSteps
<1>5. TypedSteps(steps)
  BY <1>1, <1>2, <1>3 DEF TypedSteps
<1> QED
  BY <1>4, <1>5 DEF steps

(* And it keeps the dates right, if what it writes of expenses is right.   *)
LEMMA TwoDatedSteps ==
  ASSUME NEW sheet, NEW t, NEW content, NEW record, ~IsSave(record), record.table = t
  PROVE  /\ t # "expenses" => DatedSteps(sheet, <<Save(t, content), record>>)
         /\ t = "expenses" /\ RightRecord(record) /\ Replaces(sheet, {record.id}, content)
              => DatedSteps(sheet, <<Save(t, content), record>>)
<1> DEFINE steps == <<Save(t, content), record>>
<1>1. /\ DOMAIN steps = {1, 2} /\ steps[1] = Save(t, content) /\ steps[2] = record
      /\ Save(t, content).table = t /\ Save(t, content).content = content
      /\ IsSave(Save(t, content))
  BY DEF Save, IsSave
<1> HIDE DEF steps
<1>2. t # "expenses" => \A i \in DOMAIN steps : steps[i].table # "expenses"
  BY <1>1
<1>3. t = "expenses" /\ RightRecord(record) /\ Replaces(sheet, {record.id}, content)
        => DatedFor(sheet, {record.id}, steps)
  BY <1>1 DEF DatedFor
<1>4. /\ t # "expenses" => DatedSteps(sheet, steps)
      /\ t = "expenses" /\ RightRecord(record) /\ Replaces(sheet, {record.id}, content)
           => DatedSteps(sheet, steps)
  BY <1>2, <1>3 DEF DatedSteps
<1> QED
  BY <1>4 DEF steps

(* What handlers make of the expenses. *)
LEMMA ChangesAreDated ==
  ASSUME NEW sheet \in Seq(SheetRow)
  PROVE  /\ \A row : ~NeedsRepair(row) /\ row.id \notin Misdated(sheet)
                     => Replaces(sheet, {row.id}, Append(sheet, row))
         /\ \A row : ~NeedsRepair(row) => Replaces(sheet, {row.id}, PutRow(sheet, row))
         /\ \A id : Replaces(sheet, {id}, RemoveRow(sheet, id))
<1>1. Len(sheet) \in Nat /\ DOMAIN sheet = 1..Len(sheet)
  OBVIOUS
<1>2. ASSUME NEW row, ~NeedsRepair(row), row.id \notin Misdated(sheet)
      PROVE  Replaces(sheet, {row.id}, Append(sheet, row))
  <2>1. /\ DOMAIN Append(sheet, row) = 1..Len(sheet) + 1
        /\ \A i \in DOMAIN sheet : Append(sheet, row)[i] = sheet[i]
        /\ Append(sheet, row)[Len(sheet) + 1] = row
    BY <1>1
  <2>2. \A i \in 1..Len(sheet) + 1 : i \in DOMAIN sheet \/ i = Len(sheet) + 1
    BY <1>1
  <2>3. \A j \in DOMAIN sheet : NeedsRepair(sheet[j]) => sheet[j].id \notin {row.id}
    BY <1>2 DEF Misdated
  <2> QED
    BY <1>2, <2>1, <2>2, <2>3 DEF Replaces
<1>3. ASSUME NEW row, ~NeedsRepair(row)
      PROVE  Replaces(sheet, {row.id}, PutRow(sheet, row))
  <2>1. CASE row.id \in IdsIn(sheet)
    <3>1. PutRow(sheet, row) = [i \in DOMAIN sheet |-> IF sheet[i].id = row.id THEN row ELSE sheet[i]]
      BY <2>1 DEF PutRow
    <3> QED
      BY <1>3, <3>1 DEF Replaces
  <2>2. CASE row.id \notin IdsIn(sheet)
    <3>1. PutRow(sheet, row) = Append(sheet, row)
      BY <2>2 DEF PutRow
    <3>2. row.id \notin Misdated(sheet)
      BY <2>2 DEF IdsIn, Misdated
    <3> QED
      BY <1>2, <1>3, <3>1, <3>2
  <2> QED
    BY <2>1, <2>2
<1>4. ASSUME NEW id PROVE Replaces(sheet, {id}, RemoveRow(sheet, id))
  <2> DEFINE P == {i \in DOMAIN sheet : sheet[i].id # id}
  <2>1. P \in SUBSET (1..Len(sheet)) /\ \A i \in P : i \in DOMAIN sheet /\ sheet[i].id # id
    BY <1>1
  <2>2. RemoveRow(sheet, id) = RowsAt(sheet, P)
    BY DEF RemoveRow
  <2> HIDE DEF P
  <2>3. \A n \in DOMAIN RowsAt(sheet, P) : \E i \in P : RowsAt(sheet, P)[n] = sheet[i]
    BY <1>1, <2>1, RowsAtPicks
  <2> QED
    BY <2>1, <2>2, <2>3 DEF Replaces
<1> QED
  BY <1>2, <1>3, <1>4

(* A record of an upsert, or of a delete, is of the right kind.            *)
LEMMA TypedRecords ==
  ASSUME NEW t, NEW id
  PROVE  /\ \A row : \A generated : t \in SheetTable /\ row \in RowsOf(t) =>
                TypedStep(Record(t, row.id, "upsert", generated, row)) /\ TypedStep(Upsert(t, row))
         /\ TypedStep(Delete(t, id))
         /\ t \notin SheetTable => \A op, generated, content :
                TypedStep(Record(t, id, op, generated, content))
<1>1. \A op, generated, content : \A i :
        /\ ~IsSave(Record(t, i, op, generated, content))
        /\ Record(t, i, op, generated, content).table = t
        /\ Record(t, i, op, generated, content).op = op
        /\ Record(t, i, op, generated, content).content = content
  BY DEF Record, IsSave
<1>2. \A op, generated, content : \A i :
        TypedRow(t, op, content) => TypedStep(Record(t, i, op, generated, content))
  BY <1>1 DEF TypedStep
<1>3. ASSUME NEW row, NEW generated, t \in SheetTable, row \in RowsOf(t)
      PROVE  TypedStep(Record(t, row.id, "upsert", generated, row)) /\ TypedStep(Upsert(t, row))
  <2>1. TypedRow(t, "upsert", row)
    BY <1>3 DEF TypedRow
  <2> QED
    BY <1>2, <2>1 DEF Upsert
<1>4. TypedStep(Delete(t, id))
  <2>1. TypedRow(t, "delete", [value |-> 0])
    BY DEF TypedRow
  <2> QED
    BY <1>2, <2>1 DEF Delete
<1>5. t \notin SheetTable => \A op, generated, content :
                TypedStep(Record(t, id, op, generated, content))
  BY <1>2 DEF TypedRow
<1> QED
  BY <1>3, <1>4, <1>5

(* The rows the handlers make.                                             *)
LEMMA RowsAreMade ==
  /\ \A id \in Int, label \in Label, day \in Days, set \in Int :
       Row(id, label, day, set) \in SheetRow
  /\ \A template \in SheetRow : GeneratedRow(template) \in SheetRow
<1>1. \A id \in Int, label \in Label, day \in Days, set \in Int :
       Row(id, label, day, set) \in SheetRow
  BY DEF Row, SheetRow, Days
<1>2. ASSUME NEW template \in SheetRow PROVE GeneratedRow(template) \in SheetRow
  <2>1. Derived(template) \in Int /\ template.label \in Label /\ template.set \in Int
    BY DEF Derived, SheetRow
  <2>2. GeneratedRecurringDay \in Days
    BY DEF GeneratedRecurringDay, Days
  <2> QED
    BY <1>1, <2>1, <2>2 DEF GeneratedRow
<1> QED
  BY <1>1, <1>2

(* Applying templates saves and records rows generated from them.          *)
LEMMA InsertedAreTyped ==
  ASSUME NEW expenses \in Seq(SheetRow), NEW templates \in Seq(SheetRow)
  PROVE  TypedSteps(InsertResolved(expenses, templates))
<1> DEFINE steps == InsertResolved(expenses, templates)
           N == Len(templates)
           generated == [i \in 1..N |-> GeneratedRow(templates[i])]
<1>1. N \in Nat /\ \A i \in 1..N : generated[i] \in SheetRow
  BY RowsAreMade
<1>2. ASSUME NEW i \in 1..N
      PROVE  TypedStep(Save("expenses", expenses \o [j \in 1..i |-> GeneratedRow(templates[j])]))
  <2>1. [j \in 1..i |-> GeneratedRow(templates[j])] \in Seq(SheetRow)
    <3>1. \A j \in 1..i : GeneratedRow(templates[j]) \in SheetRow
      BY <1>1
    <3>2. i \in Nat
      BY <1>1
    <3> QED
      BY <3>1, <3>2
  <2> DEFINE rows == [j \in 1..i |-> GeneratedRow(templates[j])]
  <2> HIDE DEF rows
  <2>2. expenses \o rows \in Seq(SheetRow)
    BY <2>1 DEF rows
  <2>3. TypedContent("expenses", expenses \o rows)
    BY <2>2 DEF TypedContent, RowsOf
  <2>4. TypedStep(Save("expenses", expenses \o rows))
    BY <2>3 DEF TypedStep, Save, IsSave
  <2> QED
    BY <2>4 DEF rows
<1>3. ASSUME NEW i \in 1..N
      PROVE  TypedStep(Record("expenses", GeneratedRow(templates[i]).id, "upsert", TRUE,
                              GeneratedRow(templates[i])))
  <2>1. GeneratedRow(templates[i]) \in SheetRow /\ "expenses" \in SheetTable
    BY <1>1 DEF SheetTable, Keyed
  <2> QED
    BY <2>1, TypedRecords DEF RowsOf
<1>4. ASSUME NEW n \in 1..2 * N
      PROVE  /\ n % 2 = 1 => (n + 1) \div 2 \in 1..N
             /\ n % 2 # 1 => n \div 2 \in 1..N
  BY <1>1
<1>5. steps = [n \in 1..2 * N |->
        IF n % 2 = 1
        THEN Save("expenses", expenses \o [j \in 1..(n + 1) \div 2 |-> GeneratedRow(templates[j])])
        ELSE Record("expenses", GeneratedRow(templates[n \div 2]).id, "upsert", TRUE,
                    GeneratedRow(templates[n \div 2]))]
  BY DEF InsertResolved
<1> HIDE DEF steps
<1>6. DOMAIN steps = 1..2 * N /\ 2 * N \in Nat /\ Len(steps) = 2 * N
  BY <1>1, <1>5
<1>7. ASSUME NEW n \in 1..2 * N PROVE TypedStep(steps[n])
  <2>1. CASE n % 2 = 1
    <3>1. steps[n]
            = Save("expenses", expenses \o [j \in 1..(n + 1) \div 2 |-> GeneratedRow(templates[j])])
      BY <1>5, <2>1
    <3> QED
      BY <1>2, <1>4, <2>1, <3>1
  <2>2. CASE n % 2 # 1
    <3>1. steps[n] = Record("expenses", GeneratedRow(templates[n \div 2]).id, "upsert", TRUE,
                            GeneratedRow(templates[n \div 2]))
      BY <1>5, <2>2
    <3> QED
      BY <1>3, <1>4, <2>2, <3>1
  <2> QED
    BY <2>1, <2>2
<1>8. TypedSteps(steps)
  BY <1>6, <1>7 DEF TypedSteps
<1> QED
  BY <1>8 DEF steps

(* And they are right rows that are not there yet.                         *)
LEMMA InsertedAreDated ==
  ASSUME NEW expenses \in Seq(SheetRow), NEW templates \in Seq(SheetRow),
         InsertResolved(expenses, templates) # <<>>,
         \A n \in DOMAIN templates : GeneratedRow(templates[n]).id \notin IdsIn(expenses)
  PROVE  DatedSteps(expenses, InsertResolved(expenses, templates))
<1> DEFINE steps == InsertResolved(expenses, templates)
           N == Len(templates)
           ids == {GeneratedRow(templates[n]).id : n \in DOMAIN templates}
           Rows2(i) == [j \in 1..i |-> GeneratedRow(templates[j])]
<1>1. N \in Nat /\ DOMAIN templates = 1..N /\ Len(expenses) \in Nat /\ DOMAIN expenses = 1..Len(expenses)
  OBVIOUS
<1>2. \A template : ~NeedsRepair(GeneratedRow(template))
  BY DEF NeedsRepair, GeneratedRow, Row, GeneratedRecurringDay, Days
<1>3. \A j \in DOMAIN expenses : expenses[j].id \notin ids
  BY DEF IdsIn
<1>4. ASSUME NEW i \in 1..N PROVE Replaces(expenses, ids, expenses \o Rows2(i))
  <2> DEFINE rows == Rows2(i)
  <2>1. /\ DOMAIN rows = 1..i /\ i \in Nat
        /\ \A j \in 1..i : rows[j].id \in ids /\ ~NeedsRepair(rows[j])
    BY <1>1, <1>2
  <2>2. rows \in Seq(Range(rows)) /\ Len(rows) = i
    BY <2>1 DEF Range
  <2> HIDE DEF rows, ids
  <2>3. ASSUME NEW n \in DOMAIN (expenses \o rows)
        PROVE  \/ n \in DOMAIN expenses /\ (expenses \o rows)[n] = expenses[n]
               \/ \E j \in 1..i : (expenses \o rows)[n] = rows[j]
    <3>1. n \in 1..Len(expenses) + i
      BY <1>1, <2>1, <2>2
    <3>2. CASE n <= Len(expenses)
      BY <1>1, <2>1, <2>2, <3>1, <3>2
    <3>3. CASE n > Len(expenses)
      <4>1. n - Len(expenses) \in 1..i
        BY <1>1, <2>1, <3>1, <3>3
      <4>2. (expenses \o rows)[n] = rows[n - Len(expenses)]
        BY <1>1, <2>1, <2>2, <3>1, <3>3
      <4> QED
        BY <4>1, <4>2
    <3> QED
      BY <1>1, <3>1, <3>2, <3>3
  <2>4. Replaces(expenses, ids, expenses \o rows)
    BY <1>3, <2>1, <2>3 DEF Replaces
  <2> QED
    BY <2>4 DEF rows
<1>5. ASSUME NEW n \in 1..2 * N
      PROVE  /\ n % 2 = 1 => (n + 1) \div 2 \in 1..N
             /\ n % 2 # 1 => n \div 2 \in 1..N
  BY <1>1
<1>6. steps = [n \in 1..2 * N |->
        IF n % 2 = 1 THEN Save("expenses", expenses \o Rows2((n + 1) \div 2))
        ELSE Record("expenses", GeneratedRow(templates[n \div 2]).id, "upsert", TRUE,
                    GeneratedRow(templates[n \div 2]))]
  BY DEF InsertResolved
<1>7. /\ \A content : /\ IsSave(Save("expenses", content))
                       /\ Save("expenses", content).table = "expenses"
                       /\ Save("expenses", content).content = content
      /\ \A row : /\ ~IsSave(Record("expenses", row.id, "upsert", TRUE, row))
                   /\ Record("expenses", row.id, "upsert", TRUE, row).id = row.id
                   /\ RightRecord(Record("expenses", row.id, "upsert", TRUE, row)) <=> ~NeedsRepair(row)
  BY DEF Save, Record, IsSave, RightRecord
<1>8. \A i \in 1..N : GeneratedRow(templates[i]).id \in ids
  BY <1>1
<1>s. steps # <<>>
  OBVIOUS
<1> HIDE DEF steps, ids, Rows2, N
<1>9. N # 0
  <2>1. N = 0 => DOMAIN steps = {}
    BY <1>6
  <2>2. DOMAIN steps = {} => steps = <<>>
    <3> DEFINE S == {steps[n] : n \in DOMAIN steps}
    <3>1. N = 0 \/ DOMAIN steps # {}
      BY <1>1, <1>6 DEF N
    <3>2. steps = [n \in 1..2 * N |-> steps[n]] /\ \A n \in 1..2 * N : steps[n] \in S
      BY <1>6
    <3> HIDE DEF S
    <3>3. N = 0 => steps \in Seq(S) /\ Len(steps) = 0
      BY <3>2
    <3> QED
      BY <3>1, <3>3
  <2> QED
    BY <1>s, <2>1, <2>2
<1>10. DOMAIN steps = 1..2 * N /\ 1 \in 1..2 * N /\ 1 % 2 = 1
  BY <1>1, <1>6, <1>9
<1>11. ASSUME NEW n \in 1..2 * N
       PROVE  IF IsSave(steps[n]) THEN Replaces(expenses, ids, steps[n].content)
              ELSE steps[n].id \in ids /\ RightRecord(steps[n])
  <2>1. CASE n % 2 = 1
    <3>1. steps[n] = Save("expenses", expenses \o Rows2((n + 1) \div 2))
      BY <1>6, <2>1
    <3> QED
      BY <1>4, <1>5, <1>7, <2>1, <3>1
  <2>2. CASE n % 2 # 1
    <3>1. steps[n] = Record("expenses", GeneratedRow(templates[n \div 2]).id, "upsert", TRUE,
                            GeneratedRow(templates[n \div 2]))
      BY <1>6, <2>2
    <3> QED
      BY <1>2, <1>5, <1>7, <1>8, <2>2, <3>1
  <2> QED
    BY <2>1, <2>2
<1>12. IsSave(steps[1]) /\ steps[1].table = "expenses"
  BY <1>6, <1>7, <1>10
<1>13. DatedFor(expenses, ids, steps)
  BY <1>10, <1>11, <1>12 DEF DatedFor
<1>14. DatedSteps(expenses, steps)
  BY <1>13 DEF DatedSteps
<1> QED
  BY <1>14 DEF steps

(* A sequence of one element or none. *)
LEMMA OneOrNone ==
  ASSUME NEW S, NEW x \in S, NEW s \in {<<>>, <<x>>}
  PROVE  s \in Seq(S)
<1>1. <<>> \in Seq(S) /\ <<x>> \in Seq(S)
  OBVIOUS
<1> QED
  BY <1>1

(* A record writes no file. *)
LEMMA RecordsAreNoSaves ==
  ASSUME NEW t, NEW id, NEW op, NEW generated, NEW content
  PROVE  ~IsSave(Record(t, id, op, generated, content))
BY DEF IsSave, Record

(* What a merge makes of the tables f: the income stays the sum, and only  *)
(* tables of rows of the batch change.                                     *)
LEMMA PreparedIsSafe ==
  ASSUME NEW f, NEW d, NEW batch, f["income"] = RecomputeIncome(f["income"])
  PROVE  /\ Prepared(f, d, batch)["income"] = RecomputeIncome(Prepared(f, d, batch)["income"])
         /\ \A t \in Keyed : \/ Prepared(f, d, batch)[t] = f[t]
                             \/ \E x \in Written(d, batch) : x.table = t
<1> DEFINE won == [x \in Written(d, batch) |-> Winner(Known(d, batch, x), x)]
           loaded == {x.table : x \in DOMAIN won}
           all(t) == WithWinners(f[t], t, won, Actions(d, batch))
           after == [t \in Table |-> IF t \in loaded THEN all(t) ELSE f[t]]
<1>1. Prepared(f, d, batch) = Finish(after, f)
  BY DEF Prepared
<1>w. loaded = {x.table : x \in Written(d, batch)}
  OBVIOUS
<1> HIDE DEF all, won, loaded
<1>2. \A t \in Keyed : t \in Table /\ t # "income"
  BY DEF Keyed, Table
<1>3. "income" \in Table
  BY DEF Table
<1>4. Finish(after, f)["income"] = IF after["income"] # f["income"]
                                   THEN RecomputeIncome(after["income"]) ELSE f["income"]
  BY <1>3 DEF Finish
<1>5. \A t \in Keyed : Finish(after, f)[t] = after[t]
  BY <1>2 DEF Finish
<1>6. \A t \in Keyed : after[t] = f[t] \/ t \in loaded
  BY <1>2
<1> HIDE DEF after
<1>7. CASE after["income"] # f["income"]
  BY <1>w, <1>1, <1>4, <1>5, <1>6, <1>7, SumIsStable
<1>8. CASE after["income"] = f["income"]
  BY <1>w, <1>1, <1>4, <1>5, <1>6, <1>8
<1> QED
  BY <1>7, <1>8

(* So a merge changes no file that lacks ids: it could not load it. *)
LEMMA MergeLeavesFiles ==
  ASSUME Typed, IncomeIsSum, NEW from \in Device, NEW to \in Device, CanMerge(from, to),
         NEW written \in SUBSET Table,
         disk' = [disk EXCEPT ![to] = [t \in Table |->
                    IF t \in written THEN Prepared(disk[to], to, log[from])[t] ELSE @[t]]]
  PROVE  LeavesFiles
<1> DEFINE prepared == Prepared(disk[to], to, log[from])
           after == [t \in Table |-> IF t \in written THEN prepared[t] ELSE disk[to][t]]
<1>1. /\ DOMAIN disk' = Device /\ disk'[to] = after
      /\ \A e \in Device : e # to => disk'[e] = disk[e]
  BY DEF Typed
<1>2. /\ disk[to]["income"] = RecomputeIncome(disk[to]["income"])
      /\ "income" \in Table /\ Keyed \subseteq Table
  BY DEF IncomeIsSum, Table, Keyed
<1>3. /\ prepared["income"] = RecomputeIncome(prepared["income"])
      /\ \A t \in Keyed : \/ prepared[t] = disk[to][t]
                          \/ \E x \in Written(to, log[from]) : x.table = t
  BY <1>2, PreparedIsSafe
<1> HIDE DEF prepared
<1>4. after["income"] = RecomputeIncome(after["income"])
  BY <1>2, <1>3
<1>5. ASSUME NEW t \in Keyed, NEW x \in Written(to, log[from]), x.table = t
      PROVE  ~NeedsRowIds(disk[to][t])
  <2>1. t \in LoadedWith(x.table)
    BY <1>5 DEF LoadedWith, Keyed, Settings
  <2>2. CanLoad(to, t)
    BY <2>1 DEF CanMerge
  <2> QED
    BY <2>2 DEF CanLoad
<1>6. \A t \in Keyed : after[t] = disk[to][t] \/ ~NeedsRowIds(disk[to][t])
  BY <1>2, <1>3, <1>5
<1> HIDE DEF after
<1>7. IncomeIsSum'
  BY <1>1, <1>4 DEF IncomeIsSum
<1> QED
  BY <1>1, <1>6, <1>7 DEF LeavesFiles

(* A merge writes the tables it prepared, all of them or some. *)
LEMMA MergeWrites ==
  ASSUME NEW from \in Device, NEW to \in Device, Merge(from, to) \/ MergeFails(from, to)
  PROVE  \E written \in SUBSET Table :
           disk' = [disk EXCEPT ![to] = [t \in Table |->
                      IF t \in written THEN Prepared(disk[to], to, log[from])[t] ELSE @[t]]]
<1>1. CASE Merge(from, to)
  <2> DEFINE prepared == Prepared(disk[to], to, log[from])
  <2>1. prepared = [t \in Table |-> IF t \in Table THEN prepared[t] ELSE disk[to][t]]
    BY DEF Prepared, Finish
  <2> HIDE DEF prepared
  <2>2. disk' = [disk EXCEPT ![to] = prepared]
    BY <1>1 DEF Merge, prepared
  <2>3. disk' = [disk EXCEPT ![to] = [t \in Table |->
                    IF t \in Table THEN prepared[t] ELSE disk[to][t]]]
    BY <2>1, <2>2
  <2> QED
    BY <2>3 DEF prepared
<1>2. CASE MergeFails(from, to)
  <2>1. PICK written : disk' = [disk EXCEPT ![to] = [t \in Table |->
           IF t \in written THEN Prepared(disk[to], to, log[from])[t] ELSE @[t]]]
    BY <1>2 DEF MergeFails
  <2>2. disk' = [disk EXCEPT ![to] = [t \in Table |->
           IF t \in written \cap Table THEN Prepared(disk[to], to, log[from])[t] ELSE @[t]]]
    BY <2>1
  <2> QED
    BY <2>2
<1> QED
  BY <1>1, <1>2

(* A merge prepares every row it writes, whole or stopped part way. *)
LEMMA MergesKeep ==
  ASSUME IInv, NEW from \in Device, NEW to \in Device, Merge(from, to) \/ MergeFails(from, to),
         UNCHANGED startVars
  PROVE  IInv'
<1> USE DEF IInv
<1>1. /\ UNCHANGED <<boot, backups, originals>>
      /\ CanMerge(from, to) /\ {from, to} \subseteq paired
  BY DEF startVars, Merge, MergeFails, CanMerge
<1>2. \E written \in SUBSET Table :
        disk' = [disk EXCEPT ![to] = [t \in Table |->
                    IF t \in written THEN Prepared(disk[to], to, log[from])[t] ELSE @[t]]]
  BY MergeWrites
<1>3. LeavesFiles
  BY <1>1, <1>2, MergeLeavesFiles
<1>4. /\ UNCHANGED paired /\ serving' \subseteq serving
      /\ \/ log' = [log EXCEPT ![to] = @ \cup log[from]]
         \/ log' = log
  BY DEF Merge, MergeFails
<1>5. Typed'
  BY <1>1, <1>3, <1>4 DEF Typed, LeavesFiles
<1>6. StartsApart'
  BY <1>1, <1>4 DEF StartsApart
<1>7. AloneKnowsItself'
  BY <1>1, <1>4 DEF AloneKnowsItself, StartsApart
<1>8. IncomeIsSum' /\ FilesAsTheyWere'
  BY <1>1, <1>3, FilesStay DEF LeavesFiles
<1>9. RowsAreTyped'
  <2>1. PICK written \in SUBSET Table :
          disk' = [disk EXCEPT ![to] = [t \in Table |->
                    IF t \in written THEN Prepared(disk[to], to, log[from])[t] ELSE @[t]]]
    BY <1>2
  <2> DEFINE prepared == Prepared(disk[to], to, log[from])
             after == [t \in Table |-> IF t \in written THEN prepared[t] ELSE disk[to][t]]
  <2>2. TypedTables(disk[to]) /\ TypedLog(log[to]) /\ TypedLog(log[from])
    BY DEF RowsAreTyped
  <2>3. TypedTables(prepared)
    BY <2>2, PreparedKeepsTypes
  <2>4. disk'[to] = after /\ \A e \in Device : e # to => disk'[e] = disk[e]
    BY <2>1 DEF Typed
  <2> HIDE DEF prepared
  <2>5. TypedTables(after)
    BY <2>2, <2>3 DEF TypedTables
  <2> HIDE DEF after
  <2>6. \A e \in Device : TypedTables(disk'[e])
    BY <2>4, <2>5 DEF RowsAreTyped
  <2>7. TypedLog(log[to] \cup log[from])
    BY <2>2, FS_Union DEF TypedLog
  <2>8. \A e \in Device : TypedLog(log'[e])
    BY <1>4, <2>7 DEF RowsAreTyped, Typed
  <2>9. requests' = requests
    BY DEF Merge, MergeFails
  <2> QED
    BY <2>6, <2>8, <2>9 DEF RowsAreTyped, TypedTables, TypedContent, TypedLog, TypedRow
<1> QED
  BY <1>5, <1>6, <1>7, <1>8, <1>9

(* A handler comes down to a merge or to a request of safe steps. *)
LEMMA HandlersAreSafe ==
  ASSUME RowsAreTyped, NEW d \in Device, Handlers(d)
  PROVE  \/ d \in serving /\ \E steps :
              /\ SafeSteps(d, steps) /\ TypedSteps(steps) /\ Request(d, steps)
              /\ New \notin Wrong(d) => DatedSteps(disk[d]["expenses"], steps)
         \/ \E e \in Device : Merge(e, d) \/ MergeFails(e, d)
<1>a. /\ disk[d]["expenses"] \in Seq(SheetRow) /\ disk[d]["recurring"] \in Seq(SheetRow)
      /\ disk[d]["mappings"] \in Seq(MappingRow) /\ IsFiniteSet(disk[d]["categories"])
      /\ New \in Int
  BY DEF RowsAreTyped, TypedTables, TypedContent, SheetTable, RowsOf, Table, Keyed, Settings, New
<1>b. /\ \A content \in Seq(SheetRow) :
           TypedContent("expenses", content) /\ TypedContent("recurring", content)
      /\ \A content \in Seq(MappingRow) : TypedContent("mappings", content)
      /\ \A content : IsFiniteSet(content) => TypedContent("categories", content)
      /\ \A content : TypedContent("income", content) /\ TypedContent("currency", content)
  BY DEF TypedContent, SheetTable, RowsOf, Keyed
<1>c. /\ \A row \in SheetRow : /\ TypedStep(Upsert("expenses", row))
                               /\ TypedStep(Upsert("recurring", row))
                               /\ TypedStep(Record("expenses", row.id, "upsert", FALSE, row))
      /\ \A row \in MappingRow : TypedStep(Upsert("mappings", row))
  <2>1. {"expenses", "recurring", "mappings"} \subseteq SheetTable
    BY DEF SheetTable, Keyed
  <2>2. /\ RowsOf("expenses") = SheetRow /\ RowsOf("recurring") = SheetRow
        /\ RowsOf("mappings") = MappingRow
    BY DEF RowsOf
  <2> QED
    BY <2>1, <2>2, TypedRecords
<1>d. /\ \A t, id : TypedStep(Delete(t, id))
      /\ \A t \in {"categories", "income", "currency"} : \A id, op, generated, content :
           TypedStep(Record(t, id, op, generated, content))
  BY TypedRecords DEF SheetTable, Keyed
<1>e. /\ {"expenses", "recurring", "mappings", "categories", "income", "currency"} \subseteq Table
      /\ {"mappings", "categories", "income", "currency"} \cap Keyed = {}
      /\ "expenses" \notin Investments /\ "recurring" \notin Investments
      /\ "mappings" \notin Investments /\ "categories" \notin Investments
  BY DEF Table, Keyed, Settings, Investments
<1>f. /\ \A row \in SheetRow : /\ PutRow(disk[d]["expenses"], row) \in Seq(SheetRow)
                               /\ Append(disk[d]["expenses"], row) \in Seq(SheetRow)
                               /\ Append(disk[d]["recurring"], row) \in Seq(SheetRow)
      /\ \A id : /\ RemoveRow(disk[d]["expenses"], id) \in Seq(SheetRow)
                 /\ RemoveRow(disk[d]["recurring"], id) \in Seq(SheetRow)
                 /\ RemoveRow(disk[d]["mappings"], id) \in Seq(MappingRow)
      /\ \A row \in MappingRow : PutRow(disk[d]["mappings"], row) \in Seq(MappingRow)
  BY <1>a, ChangedOfKind
<1>g. /\ \A row : ~NeedsRepair(row) /\ row.id \notin Wrong(d)
                   => Replaces(disk[d]["expenses"], {row.id}, Append(disk[d]["expenses"], row))
      /\ \A row : ~NeedsRepair(row)
                   => Replaces(disk[d]["expenses"], {row.id}, PutRow(disk[d]["expenses"], row))
      /\ \A id : Replaces(disk[d]["expenses"], {id}, RemoveRow(disk[d]["expenses"], id))
  BY <1>a, ChangesAreDated DEF Wrong
<1>h. /\ \A id, label, set : \A day \in Days : ~NeedsRepair(Row(id, label, day, set))
      /\ \A template : ~NeedsRepair(GeneratedRow(template))
  BY DEF NeedsRepair, Row, GeneratedRow, GeneratedRecurringDay, Days
<1>i. /\ \A row : RightRecord(Record("expenses", row.id, "upsert", FALSE, row)) <=> ~NeedsRepair(row)
      /\ \A row : RightRecord(Upsert("expenses", row)) <=> ~NeedsRepair(row)
      /\ \A id : RightRecord(Delete("expenses", id)) /\ Delete("expenses", id).id = id
      /\ \A row : Record("expenses", row.id, "upsert", FALSE, row).id = row.id
      /\ \A row : Upsert("expenses", row).id = row.id
  BY DEF RightRecord, Record, Upsert, Delete
<1>1. CASE AddExpense(d)
  <2>1. PICK label \in Label, day \in Days :
          /\ Ready(d, {"expenses"})
          /\ Request(d, AddRowWithId(d, Row(New, label, day, New), FALSE))
    BY <1>1 DEF AddExpense
  <2> DEFINE row == Row(New, label, day, New)
             content == Append(disk[d]["expenses"], row)
             record == Record("expenses", row.id, "upsert", FALSE, row)
  <2>2. d \in serving /\ CanLoad(d, "expenses")
    BY <2>1 DEF Ready
  <2>3. row \in SheetRow
    BY <1>a, RowsAreMade
  <2>r. ~NeedsRepair(row) /\ row.id = New
    BY <1>h DEF Row
  <2> HIDE DEF row
  <2>4. ~IsSave(record) /\ TypedStep(record) /\ TypedContent("expenses", content)
    BY <1>b, <1>c, <1>f, <2>3, RecordsAreNoSaves
  <2>t. record.table = "expenses"
    BY DEF Record, Upsert, Delete
  <2>5. Request(d, <<Save("expenses", content), record>>)
    BY <2>1 DEF AddRowWithId, row
  <2>d. New \notin Wrong(d) => DatedSteps(disk[d]["expenses"], <<Save("expenses", content), record>>)
    BY <1>g, <1>i, <2>r, <2>4, <2>t, TwoDatedSteps
  <2> HIDE DEF content, record
  <2> QED
    BY <1>e, <2>2, <2>4, <2>5, <2>t, <2>d, TwoSafeSteps
<1>2. CASE EditExpense(d)
  <2>1. PICK id \in IdsIn(disk[d]["expenses"]), label \in Label, day \in Days :
          /\ Ready(d, {"expenses"})
          /\ LET row == Row(id, label, day, New)
             IN Request(d, <<Save("expenses", PutRow(disk[d]["expenses"], row)),
                             Upsert("expenses", row)>>)
    BY <1>2 DEF EditExpense
  <2> DEFINE row == Row(id, label, day, New)
             content == PutRow(disk[d]["expenses"], row)
             record == Upsert("expenses", row)
  <2>2. d \in serving /\ CanLoad(d, "expenses")
    BY <2>1 DEF Ready
  <2>3. row \in SheetRow
    <3>1. id \in Int
      <4>1. PICK i \in DOMAIN disk[d]["expenses"] : disk[d]["expenses"][i].id = id
        BY DEF IdsIn
      <4>2. disk[d]["expenses"][i] \in SheetRow
        BY <1>a
      <4> QED
        BY <4>1, <4>2 DEF SheetRow
    <3> QED
      BY <1>a, <3>1, RowsAreMade
  <2>5. Request(d, <<Save("expenses", content), record>>)
    BY <2>1
  <2>r. ~NeedsRepair(row) /\ row.id = id
    BY <1>h DEF Row
  <2> HIDE DEF row
  <2>4. ~IsSave(record) /\ TypedStep(record) /\ TypedContent("expenses", content)
    BY <1>b, <1>c, <1>f, <2>3, RecordsAreNoSaves DEF Upsert
  <2>t. record.table = "expenses"
    BY DEF Record, Upsert, Delete
  <2>d. New \notin Wrong(d) => DatedSteps(disk[d]["expenses"], <<Save("expenses", content), record>>)
    BY <1>g, <1>i, <2>r, <2>4, <2>t, TwoDatedSteps
  <2> HIDE DEF content, record
  <2> QED
    BY <1>e, <2>2, <2>4, <2>5, <2>t, <2>d, TwoSafeSteps
<1>3. CASE DeleteExpense(d)
  <2>1. PICK id \in IdsIn(disk[d]["expenses"]) :
          /\ Ready(d, {"expenses"})
          /\ Request(d, <<Save("expenses", RemoveRow(disk[d]["expenses"], id)),
                          Delete("expenses", id)>>)
    BY <1>3 DEF DeleteExpense
  <2> DEFINE content == RemoveRow(disk[d]["expenses"], id)
             record == Delete("expenses", id)
  <2>2. d \in serving /\ CanLoad(d, "expenses")
    BY <2>1 DEF Ready
  <2>4. ~IsSave(record) /\ TypedStep(record) /\ TypedContent("expenses", content)
    BY <1>b, <1>d, <1>f, RecordsAreNoSaves DEF Delete
  <2>t. record.table = "expenses"
    BY DEF Record, Upsert, Delete
  <2>d. DatedSteps(disk[d]["expenses"], <<Save("expenses", content), record>>)
    BY <1>g, <1>i, <2>4, <2>t, TwoDatedSteps
  <2> HIDE DEF content, record
  <2> QED
    BY <1>e, <2>1, <2>2, <2>4, <2>t, <2>d, TwoSafeSteps DEF content, record
<1>4. CASE AddRecurring(d)
  <2>1. PICK label \in Label :
          /\ Ready(d, {"recurring"})
          /\ Request(d, AddTemplate(disk[d]["recurring"],
                                    Row(New, label, GeneratedRecurringDay, New)))
    BY <1>4 DEF AddRecurring
  <2> DEFINE row == Row(New, label, GeneratedRecurringDay, New)
             content == Append(disk[d]["recurring"], row)
             record == Upsert("recurring", row)
  <2>2. d \in serving /\ CanLoad(d, "recurring")
    BY <2>1 DEF Ready
  <2>3. row \in SheetRow
    <3>1. GeneratedRecurringDay \in Days
      BY DEF GeneratedRecurringDay, Days
    <3> QED
      BY <1>a, <3>1, RowsAreMade
  <2> HIDE DEF row
  <2>4. ~IsSave(record) /\ TypedStep(record) /\ TypedContent("recurring", content)
    BY <1>b, <1>c, <1>f, <2>3, RecordsAreNoSaves DEF Upsert
  <2>t. record.table = "recurring"
    BY DEF Record, Upsert, Delete
  <2>d. DatedSteps(disk[d]["expenses"], <<Save("recurring", content), record>>)
    BY <2>4, <2>t, TwoDatedSteps
  <2>5. Request(d, <<Save("recurring", content), record>>)
    BY <2>1 DEF AddTemplate, row
  <2> HIDE DEF content, record
  <2> QED
    BY <1>e, <2>2, <2>4, <2>5, <2>t, <2>d, TwoSafeSteps
<1>5. CASE DeleteRecurring(d)
  <2>1. PICK id \in IdsIn(disk[d]["recurring"]) :
          /\ Ready(d, {"recurring"})
          /\ Request(d, RemoveTemplate(disk[d]["recurring"], id))
    BY <1>5 DEF DeleteRecurring
  <2> DEFINE content == RemoveRow(disk[d]["recurring"], id)
             record == Delete("recurring", id)
  <2>2. d \in serving /\ CanLoad(d, "recurring")
    BY <2>1 DEF Ready
  <2>4. ~IsSave(record) /\ TypedStep(record) /\ TypedContent("recurring", content)
    BY <1>b, <1>d, <1>f, RecordsAreNoSaves DEF Delete
  <2>t. record.table = "recurring"
    BY DEF Record, Upsert, Delete
  <2>d. DatedSteps(disk[d]["expenses"], <<Save("recurring", content), record>>)
    BY <2>4, <2>t, TwoDatedSteps
  <2>5. Request(d, <<Save("recurring", content), record>>)
    BY <2>1 DEF RemoveTemplate
  <2> HIDE DEF content, record
  <2> QED
    BY <1>e, <2>2, <2>4, <2>5, <2>t, <2>d, TwoSafeSteps
<1>6. CASE ApplyRecurring(d)
  <2> DEFINE pending == PlanOf(d).pending
             steps == InsertResolved(disk[d]["expenses"], pending)
  <2>1. /\ Ready(d, {"expenses", "recurring"})
        /\ Request(d, steps)
    BY <1>6 DEF ApplyRecurring
  <2>2. d \in serving /\ CanLoad(d, "expenses")
    BY <2>1 DEF Ready
  <2>p. PICK P \in SUBSET DOMAIN disk[d]["recurring"] :
          /\ pending = RowsAt(disk[d]["recurring"], P)
          /\ \A i \in P : Derived(disk[d]["recurring"][i]) \notin IdsIn(disk[d]["expenses"])
    <3> DEFINE templates == disk[d]["recurring"]
               due == {i \in DOMAIN templates : \A k \in DOMAIN disk[d]["expenses"] :
                         ~Matches(disk[d]["expenses"][k], templates[i], templates)}
               picked == due \ (due \cap StaysDeleted(templates, log[d]))
    <3>1. pending = RowsAt(templates, picked)
      BY DEF PlanOf, PlanForMonth
    <3>2. \A i \in due : Derived(templates[i]) \notin IdsIn(disk[d]["expenses"])
      BY DEF Matches, IdsIn
    <3> HIDE DEF pending
    <3>3. /\ picked \in SUBSET DOMAIN templates
          /\ \A i \in picked : Derived(templates[i]) \notin IdsIn(disk[d]["expenses"])
      BY <3>2
    <3> HIDE DEF picked
    <3> QED
      BY <3>1, <3>3
  <2>q. /\ pending \in Seq(SheetRow)
        /\ \A n \in DOMAIN pending : GeneratedRow(pending[n]).id \notin IdsIn(disk[d]["expenses"])
    <3> HIDE DEF pending
    <3>1. pending \in Seq(SheetRow)
      BY <1>a, <2>p, FilterOfKind
    <3>2. Len(disk[d]["recurring"]) \in Nat /\ P \in SUBSET (1..Len(disk[d]["recurring"]))
      BY <1>a
    <3> DEFINE templates == disk[d]["recurring"]
    <3> HIDE DEF templates
    <3>5. \A n \in DOMAIN RowsAt(templates, P) : \E i \in P : RowsAt(templates, P)[n] = templates[i]
      BY <3>2, RowsAtPicks
    <3>3. \A n \in DOMAIN pending : \E i \in P : pending[n] = disk[d]["recurring"][i]
      BY <2>p, <3>5 DEF templates
    <3>4. \A template : GeneratedRow(template).id = Derived(template)
      BY DEF GeneratedRow, Row
    <3> QED
      BY <2>p, <3>1, <3>3, <3>4
  <2>3. \A n \in DOMAIN steps : steps[n].table = "expenses"
    BY DEF InsertResolved, Save, Record
  <2>4. TypedSteps(steps)
    <3> HIDE DEF pending
    <3> QED
      BY <1>a, <2>q, InsertedAreTyped
  <2>d. DatedSteps(disk[d]["expenses"], steps)
    <3>1. steps # <<>>
      BY <2>1 DEF Request
    <3> HIDE DEF pending
    <3> QED
      BY <1>a, <2>q, <3>1, InsertedAreDated
  <2> HIDE DEF steps
  <2>5. SafeSteps(d, steps)
    BY <2>2, <2>3 DEF SafeSteps, Investments
  <2> QED
    BY <2>1, <2>2, <2>4, <2>5, <2>d
<1>7. CASE ReinstateRecurring(d)
  <2>1. PICK i \in DOMAIN disk[d]["recurring"] :
          /\ Ready(d, {"expenses", "recurring"})
          /\ GeneratedRow(disk[d]["recurring"][i]).id \notin IdsIn(disk[d]["expenses"])
          /\ Request(d, AddRowWithId(d, GeneratedRow(disk[d]["recurring"][i]), FALSE))
    BY <1>7 DEF ReinstateRecurring
  <2> DEFINE row == GeneratedRow(disk[d]["recurring"][i])
             content == Append(disk[d]["expenses"], row)
             record == Record("expenses", row.id, "upsert", FALSE, row)
  <2>2. d \in serving /\ CanLoad(d, "expenses")
    BY <2>1 DEF Ready
  <2>3. row \in SheetRow
    BY <1>a, RowsAreMade
  <2>r. ~NeedsRepair(row) /\ row.id \notin Wrong(d)
    BY <1>h, <2>1 DEF Wrong, Misdated, IdsIn
  <2> HIDE DEF row
  <2>4. ~IsSave(record) /\ TypedStep(record) /\ TypedContent("expenses", content)
    BY <1>b, <1>c, <1>f, <2>3, RecordsAreNoSaves
  <2>t. record.table = "expenses"
    BY DEF Record, Upsert, Delete
  <2>5. Request(d, <<Save("expenses", content), record>>)
    BY <2>1 DEF AddRowWithId, row
  <2>d. New \notin Wrong(d) => DatedSteps(disk[d]["expenses"], <<Save("expenses", content), record>>)
    BY <1>g, <1>i, <2>r, <2>4, <2>t, TwoDatedSteps
  <2> HIDE DEF content, record
  <2> QED
    BY <1>e, <2>2, <2>4, <2>5, <2>t, <2>d, TwoSafeSteps
<1>8. CASE SetIncomeCell(d)
  <2>1. PICK c \in IncomeCategory :
          /\ Ready(d, {"income"})
          /\ Request(d, SetIncome(disk[d]["income"], c, New))
    BY <1>8 DEF SetIncomeCell
  <2> DEFINE sum == RecomputeIncome(WithIncome(disk[d]["income"], c, New))
             steps == SetIncome(disk[d]["income"], c, New)
  <2>2. sum = RecomputeIncome(sum)
    BY SumIsStable
  <2>3. /\ DOMAIN steps = {1, 2} /\ ~IsSave(steps[2])
        /\ steps[1].table = "income" /\ steps[1].content = sum /\ steps[2].table = "income"
    BY DEF SetIncome, Save, SetCell, Record, IsSave
  <2> HIDE DEF sum, steps
  <2>4. SafeSteps(d, steps)
    BY <2>2, <2>3 DEF SafeSteps, Keyed, Investments
  <2>5. d \in serving
    BY <2>1 DEF Ready
  <2>6. TypedSteps(steps)
    <3>1. /\ DOMAIN steps = 1..2 /\ Len(steps) = 2
          /\ steps[1] = Save("income", sum)
          /\ steps[2] = Record("income", c, "cell", FALSE, [value |-> New])
      BY DEF steps, sum, SetIncome, SetCell
    <3>2. TypedStep(Save("income", sum))
      BY <1>b DEF TypedStep, Save, IsSave
    <3>3. TypedStep(Record("income", c, "cell", FALSE, [value |-> New]))
      BY <1>d
    <3>4. \A i \in 1..2 : i = 1 \/ i = 2
      OBVIOUS
    <3>5. \A i \in 1..2 : TypedStep(steps[i])
      BY <3>1, <3>2, <3>3, <3>4
    <3> QED
      BY <3>1, <3>5 DEF TypedSteps
  <2>7. DatedSteps(disk[d]["expenses"], steps)
    BY <2>3 DEF DatedSteps
  <2> QED
    BY <2>1, <2>4, <2>5, <2>6, <2>7 DEF steps
<1>9. CASE AddMapping(d)
  <2>1. PICK label \in Label :
          /\ Ready(d, {"mappings"})
          /\ LET row == [id |-> label, set |-> New]
             IN Request(d, <<Save("mappings", MappingSet(disk[d]["mappings"], row)),
                             Upsert("mappings", row)>>)
    BY <1>9 DEF AddMapping
  <2> DEFINE row == [id |-> label, set |-> New]
             content == PutRow(disk[d]["mappings"], row)
             record == Upsert("mappings", row)
  <2>2. d \in serving /\ Request(d, <<Save("mappings", content), record>>)
    BY <2>1 DEF Ready, MappingSet
  <2>3. row \in MappingRow
    BY <1>a DEF MappingRow
  <2> HIDE DEF row
  <2>4. ~IsSave(record) /\ TypedStep(record) /\ TypedContent("mappings", content)
    BY <1>b, <1>c, <1>f, <2>3, RecordsAreNoSaves DEF Upsert
  <2>t. record.table = "mappings"
    BY DEF Record, Upsert, Delete
  <2>d. DatedSteps(disk[d]["expenses"], <<Save("mappings", content), record>>)
    BY <2>4, <2>t, TwoDatedSteps
  <2> HIDE DEF content, record
  <2> QED
    BY <1>e, <2>2, <2>4, <2>t, <2>d, TwoSafeSteps
<1>10. CASE DeleteMapping(d)
  <2>1. PICK label \in IdsIn(disk[d]["mappings"]) :
          /\ Ready(d, {"mappings"})
          /\ Request(d, <<Save("mappings", MappingRemoved(disk[d]["mappings"], label)),
                          Delete("mappings", label)>>)
    BY <1>10 DEF DeleteMapping
  <2> DEFINE content == RemoveRow(disk[d]["mappings"], label)
             record == Delete("mappings", label)
  <2>2. d \in serving /\ Request(d, <<Save("mappings", content), record>>)
    BY <2>1 DEF Ready, MappingRemoved
  <2>4. ~IsSave(record) /\ TypedStep(record) /\ TypedContent("mappings", content)
    BY <1>b, <1>d, <1>f, RecordsAreNoSaves DEF Delete
  <2>t. record.table = "mappings"
    BY DEF Record, Upsert, Delete
  <2>d. DatedSteps(disk[d]["expenses"], <<Save("mappings", content), record>>)
    BY <2>4, <2>t, TwoDatedSteps
  <2> HIDE DEF content, record
  <2> QED
    BY <1>e, <2>2, <2>4, <2>t, <2>d, TwoSafeSteps
<1>11. CASE AddCategory(d)
  <2>1. PICK label \in Label :
          /\ Ready(d, {"categories"})
          /\ Request(d, <<Save("categories", CategoryAdded(disk[d]["categories"], label)),
                          Upsert("categories", [id |-> label])>>)
    BY <1>11 DEF AddCategory
  <2> DEFINE content == disk[d]["categories"] \cup {label}
             record == Upsert("categories", [id |-> label])
  <2>2. d \in serving /\ Request(d, <<Save("categories", content), record>>)
    BY <2>1 DEF Ready, CategoryAdded
  <2>3. IsFiniteSet(content)
    BY <1>a, FS_AddElement
  <2>4. ~IsSave(record) /\ TypedStep(record) /\ TypedContent("categories", content)
    BY <1>b, <1>d, <2>3, RecordsAreNoSaves DEF Upsert
  <2>t. record.table = "categories"
    BY DEF Record, Upsert, Delete
  <2>d. DatedSteps(disk[d]["expenses"], <<Save("categories", content), record>>)
    BY <2>4, <2>t, TwoDatedSteps
  <2> HIDE DEF content, record
  <2> QED
    BY <1>e, <2>2, <2>4, <2>t, <2>d, TwoSafeSteps
<1>12. CASE DeleteCategory(d)
  <2>1. PICK label \in disk[d]["categories"] :
          /\ Ready(d, {"categories"})
          /\ Request(d, <<Save("categories", CategoryRemoved(disk[d]["categories"], label)),
                          Delete("categories", label)>>)
    BY <1>12 DEF DeleteCategory
  <2> DEFINE content == disk[d]["categories"] \ {label}
             record == Delete("categories", label)
  <2>2. d \in serving /\ Request(d, <<Save("categories", content), record>>)
    BY <2>1 DEF Ready, CategoryRemoved
  <2>3. IsFiniteSet(content)
    BY <1>a, FS_RemoveElement
  <2>4. ~IsSave(record) /\ TypedStep(record) /\ TypedContent("categories", content)
    BY <1>b, <1>d, <2>3, RecordsAreNoSaves DEF Delete
  <2>t. record.table = "categories"
    BY DEF Record, Upsert, Delete
  <2>d. DatedSteps(disk[d]["expenses"], <<Save("categories", content), record>>)
    BY <2>4, <2>t, TwoDatedSteps
  <2> HIDE DEF content, record
  <2> QED
    BY <1>e, <2>2, <2>4, <2>t, <2>d, TwoSafeSteps
<1>13. CASE UpdateCurrencySettings(d)
  <2>1. PICK changed \in SUBSET Field :
          /\ Ready(d, {})
          /\ LET old == disk[d]["currency"]
                 new == [f \in Field |-> IF f \in changed THEN New ELSE old[f]]
                 told == IF CanLoad(d, "currency") THEN changed ELSE Field
                 Tell(f) == IF f \in told THEN <<SetCell("currency", f, new[f])>> ELSE <<>>
             IN Request(d, <<Save("currency", new)>>
                           \o Tell(ReferenceCurrency) \o Tell(RateMode))
    BY <1>13 DEF UpdateCurrencySettings
  <2> DEFINE old == disk[d]["currency"]
             new == [f \in Field |-> IF f \in changed THEN New ELSE old[f]]
             told == IF CanLoad(d, "currency") THEN changed ELSE Field
             save == Save("currency", new)
             cell1 == SetCell("currency", ReferenceCurrency, new[ReferenceCurrency])
             cell2 == SetCell("currency", RateMode, new[RateMode])
             one == <<save>>
             first == IF ReferenceCurrency \in told THEN <<cell1>> ELSE <<>>
             second == IF RateMode \in told THEN <<cell2>> ELSE <<>>
             steps == one \o first \o second
             All == {save, cell1, cell2}
  <2>3. \A s \in All : s.table = "currency" /\ TypedStep(s)
    <3>1. TypedStep(save)
      BY <1>b DEF TypedStep, Save, IsSave
    <3>2. TypedStep(cell1) /\ TypedStep(cell2)
      BY <1>d DEF SetCell
    <3>3. save.table = "currency" /\ cell1.table = "currency" /\ cell2.table = "currency"
      BY DEF Save, SetCell, Record
    <3> HIDE DEF save, cell1, cell2
    <3> QED
      BY <3>1, <3>2, <3>3
  <2> HIDE DEF new, told, save, cell1, cell2
  <2>2. one \in Seq(All) /\ first \in Seq(All) /\ second \in Seq(All)
    <3>1. save \in All /\ cell1 \in All /\ cell2 \in All
      OBVIOUS
    <3> HIDE DEF All
    <3>2. /\ one \in {<<>>, <<save>>} /\ first \in {<<>>, <<cell1>>}
          /\ second \in {<<>>, <<cell2>>}
      OBVIOUS
    <3> QED
      BY <3>1, <3>2, OneOrNone
  <2> HIDE DEF first, second, one
  <2>4. steps \in Seq(All)
    BY <2>2
  <2> HIDE DEF All, steps
  <2>5. /\ \A i \in DOMAIN steps : steps[i].table = "currency" /\ TypedStep(steps[i])
        /\ Len(steps) \in Nat /\ DOMAIN steps = 1..Len(steps)
    BY <2>3, <2>4
  <2>6. SafeSteps(d, steps) /\ TypedSteps(steps) /\ DatedSteps(disk[d]["expenses"], steps)
    BY <2>5 DEF SafeSteps, TypedSteps, DatedSteps, Keyed, Investments
  <2>7. Request(d, steps) /\ d \in serving
    BY <2>1 DEF steps, one, first, second, save, cell1, cell2, new, told, Ready
  <2> QED
    BY <2>6, <2>7
<1>14. CASE \E e \in Device : Merge(e, d) \/ MergeFails(e, d)
  BY <1>14
<1> QED
  BY <1>1, <1>2, <1>3, <1>4, <1>5, <1>6, <1>7, <1>8, <1>9, <1>10, <1>11, <1>12, <1>13, <1>14
     DEF Handlers

(* Every handler of the router keeps the invariant. *)
LEMMA HandlersKeep ==
  ASSUME IInv, NEW d \in Device, Handlers(d), UNCHANGED startVars
  PROVE  IInv'
BY HandlersAreSafe, RequestKeeps, MergesKeep DEF IInv

(* Handlers add to the log of a device that serves. *)
LEMMA HandlersOfServing ==
  ASSUME Typed, RowsAreTyped, NEW c \in Device, Handlers(c), NEW d \in Device, log'[d] # log[d]
  PROVE  d \in serving
<1>1. CASE c \in serving /\ \E steps : Request(c, steps)
  <2>1. PICK steps : Completes(c, steps) \/ LosesRecord(c, steps) \/ CutOff(c, steps)
    BY <1>1 DEF Request
  <2>2. PICK done, lost : Performs(c, steps, done, lost)
    BY <2>1, RequestPerforms
  <2> QED
    BY <1>1, <2>2, AppendsItsOwn DEF Performs
<1>2. CASE \E e \in Device : Merge(e, c) \/ MergeFails(e, c)
  BY <1>2 DEF Merge, MergeFails, CanMerge, Healthy, Typed
<1> QED
  BY <1>1, <1>2, HandlersAreSafe

-----------------------------------------------------------------------------
(* Starts, and what happens around them                                    *)

(* A table that is given ids stays a table of its kind.                    *)
LEMMA FilledIsTyped ==
  ASSUME NEW t \in Keyed, NEW sheet \in Seq(SheetRow), NEW other \in Seq(SheetRow)
  PROVE  FillRowIds(sheet, t, other) \in Seq(SheetRow)
<1> DEFINE Shared(i) == IdsByAsset(other, sheet[i].label)
           Takes(i) == /\ Shared(i) # <<>> /\ Shared(i)[1] \notin IdsIn(sheet)
                       /\ \A j \in 1..i - 1 : sheet[j].id = 0 /\ Shared(j) # <<>> =>
                                              Shared(j)[1] # Shared(i)[1]
           id == [i \in DOMAIN sheet |-> IF Takes(i) THEN Shared(i)[1] ELSE FreshId(t, i)]
           filled == FillRowIds(sheet, t, other)
<1>1. /\ DOMAIN sheet = 1..Len(sheet) /\ Len(sheet) \in Nat
      /\ \A i \in DOMAIN sheet : sheet[i] \in SheetRow
  OBVIOUS
<1>2. ASSUME NEW label PROVE IdsByAsset(other, label) \in Seq(Int)
  <2> DEFINE hits == RowsAt(other, {i \in DOMAIN other : other[i].label = label /\ other[i].id # 0})
  <2>1. hits \in Seq(SheetRow)
    BY FilterOfKind
  <2>2. IdsByAsset(other, label) = [i \in DOMAIN hits |-> hits[i].id]
    BY DEF IdsByAsset
  <2> HIDE DEF hits
  <2>a. /\ DOMAIN hits = 1..Len(hits) /\ Len(hits) \in Nat
        /\ \A i \in DOMAIN hits : hits[i] \in SheetRow
    BY <2>1
  <2>b. \A row \in SheetRow : row.id \in Int
    BY DEF SheetRow
  <2>3. DOMAIN hits = 1..Len(hits) /\ Len(hits) \in Nat /\ \A i \in DOMAIN hits : hits[i].id \in Int
    BY <2>a, <2>b
  <2>4. [i \in DOMAIN hits |-> hits[i].id] \in Seq(Int)
    BY <2>3
  <2> QED
    BY <2>2, <2>4
<1>3. \A i \in DOMAIN sheet : FreshId(t, i) \in Int
  <2>1. \E n \in 1..4 : <<"expenses", "recurring", "holdings", "prices">>[n] = t
    BY DEF Keyed
  <2> DEFINE number == CHOOSE n \in 1..4 :
                          <<"expenses", "recurring", "holdings", "prices">>[n] = t
  <2>2. number \in 1..4
    BY <2>1
  <2>3. \A i : FreshId(t, i) = 100 * number + i
    BY DEF FreshId
  <2> HIDE DEF number
  <2> QED
    BY <1>1, <2>2, <2>3
<1>4. ASSUME NEW i \in DOMAIN sheet PROVE id[i] \in Int
  <2>1. Shared(i) \in Seq(Int)
    BY <1>2
  <2>2. Shared(i) # <<>> => Shared(i)[1] \in Int
    BY <2>1
  <2> HIDE DEF Shared
  <2> QED
    BY <1>3, <2>2
<1>5. filled = [i \in DOMAIN sheet |-> IF sheet[i].id # 0 THEN sheet[i]
                                       ELSE [sheet[i] EXCEPT !.id = id[i]]]
  BY DEF FillRowIds
<1> HIDE DEF id, filled
<1>6. ASSUME NEW i \in DOMAIN sheet PROVE filled[i] \in SheetRow
  <2>1. sheet[i] \in SheetRow
    BY <1>1
  <2>2. [sheet[i] EXCEPT !.id = id[i]] \in SheetRow
    BY <1>4, <2>1 DEF SheetRow
  <2> QED
    BY <1>5, <2>1, <2>2
<1>7. filled \in Seq(SheetRow)
  BY <1>1, <1>5, <1>6
<1> QED
  BY <1>7 DEF filled

(* The files that carry ids hold rows, whether they can be read or not.    *)
LEMMA KeyedAreTyped ==
  ASSUME RowsAreTyped, NEW d \in Device, NEW t \in Keyed
  PROVE  disk[d][t] \in Seq(SheetRow) /\ ReadOrSkip(d, t) \in Seq(SheetRow)
<1>1. t \in Table /\ t \in SheetTable /\ RowsOf(t) = SheetRow
  BY DEF Table, SheetTable, RowsOf, Keyed
<1>2. disk[d][t] \in Seq(SheetRow)
  BY <1>1 DEF RowsAreTyped, TypedTables, TypedContent
<1>3. <<>> \in Seq(SheetRow)
  OBVIOUS
<1> QED
  BY <1>2, <1>3 DEF ReadOrSkip

(* A migration saves files that carry ids, and no others: the expenses get *)
(* ids of their own.                                                       *)
LEMMA PlanIsKeyed ==
  ASSUME RowsAreTyped, NEW d \in Device
  PROVE  /\ TypedSteps(PlanYear(d))
         /\ \A i \in DOMAIN PlanYear(d) :
              /\ PlanYear(d)[i].table \in Keyed /\ IsSave(PlanYear(d)[i])
              /\ PlanYear(d)[i].table = "expenses" =>
                   PlanYear(d)[i].content = FillRowIds(disk[d]["expenses"], "expenses", <<>>)
<1> DEFINE Sheet == Seq(SheetRow)
           c1 == FillRowIds(disk[d]["expenses"], "expenses", <<>>)
<1>1. ASSUME NEW t \in Keyed, NEW other \in Sheet
      PROVE  \E content \in Sheet : FillIfNeeded(d, t, other) \in {<<>>, <<Save(t, content)>>}
  <2>1. FillRowIds(disk[d][t], t, other) \in Sheet
    BY KeyedAreTyped, FilledIsTyped
  <2> QED
    BY <2>1 DEF FillIfNeeded
<1>a. {"expenses", "recurring", "holdings", "prices"} \subseteq Keyed
  BY DEF Keyed
<1>b. <<>> \in Sheet
  OBVIOUS
<1>2. c1 \in Sheet /\ FillIfNeeded(d, "expenses", <<>>) \in {<<>>, <<Save("expenses", c1)>>}
  <2>1. c1 \in Sheet
    BY <1>a, <1>b, KeyedAreTyped, FilledIsTyped
  <2> QED
    BY <2>1 DEF FillIfNeeded
<1> HIDE DEF c1
<1>3. PICK c2 \in Sheet : FillIfNeeded(d, "recurring", <<>>) \in {<<>>, <<Save("recurring", c2)>>}
  BY <1>1, <1>a, <1>b
<1> DEFINE holdings == PlanInvestmentFile(d, "holdings", ReadOrSkip(d, "prices"))
           prices == PlanInvestmentFile(d, "prices", holdings.sheet)
<1>4. PICK c3 \in Sheet : /\ holdings.writes \in {<<>>, <<Save("holdings", c3)>>}
                          /\ holdings.sheet \in Sheet
  <2>1. ReadOrSkip(d, "prices") \in Sheet /\ ReadOrSkip(d, "holdings") \in Sheet
    BY <1>a, KeyedAreTyped
  <2>2. PICK c \in Sheet : FillIfNeeded(d, "holdings", ReadOrSkip(d, "prices"))
                             \in {<<>>, <<Save("holdings", c)>>}
    BY <1>1, <1>a, <2>1
  <2>3. /\ holdings.writes = FillIfNeeded(d, "holdings", ReadOrSkip(d, "prices"))
        /\ holdings.sheet = IF holdings.writes = <<>> THEN ReadOrSkip(d, "holdings")
                            ELSE holdings.writes[1].content
    BY DEF PlanInvestmentFile
  <2>4. <<Save("holdings", c)>>[1].content = c
    BY DEF Save
  <2> HIDE DEF holdings
  <2>5. holdings.sheet \in Sheet
    <3>1. CASE holdings.writes = <<>>
      BY <2>1, <2>3, <3>1
    <3>2. CASE holdings.writes # <<>>
      <4>1. holdings.writes = <<Save("holdings", c)>>
        BY <2>2, <2>3, <3>2
      <4> QED
        BY <2>3, <2>4, <3>2, <4>1
    <3> QED
      BY <3>1, <3>2
  <2> QED
    BY <2>2, <2>3, <2>5
<1>5. PICK c4 \in Sheet : prices.writes \in {<<>>, <<Save("prices", c4)>>}
  <2> HIDE DEF holdings
  <2> QED
    BY <1>1, <1>4, <1>a DEF PlanInvestmentFile
<1> DEFINE w1 == FillIfNeeded(d, "expenses", <<>>)
           w2 == FillIfNeeded(d, "recurring", <<>>)
           w3 == holdings.writes
           w4 == prices.writes
           S == {Save("expenses", c1), Save("recurring", c2), Save("holdings", c3),
                 Save("prices", c4)}
<1>6. PlanYear(d) = w1 \o w2 \o (w3 \o w4)
  BY DEF PlanYear, PlanInvestments
<1> HIDE DEF w1, w2, w3, w4, holdings, prices
<1>7. w1 \in Seq(S) /\ w2 \in Seq(S) /\ w3 \in Seq(S) /\ w4 \in Seq(S)
  <2>1. /\ Save("expenses", c1) \in S /\ Save("recurring", c2) \in S
        /\ Save("holdings", c3) \in S /\ Save("prices", c4) \in S
    OBVIOUS
  <2> HIDE DEF S
  <2> QED
    BY <1>2, <1>3, <1>4, <1>5, <2>1, OneOrNone DEF w1, w2, w3, w4
<1>c. \A s \in S : IsSave(s) /\ (s.table = "expenses" => s.content = c1)
  <2>1. \A t, c : Save(t, c).table = t /\ Save(t, c).content = c /\ IsSave(Save(t, c))
    BY DEF Save, IsSave
  <2> QED
    BY <2>1
<1>8. \A s \in S : s.table \in Keyed /\ TypedStep(s)
  <2>1. ASSUME NEW t \in Keyed, NEW c \in Sheet
        PROVE  Save(t, c).table \in Keyed /\ TypedStep(Save(t, c))
    BY DEF Save, IsSave, TypedStep, TypedContent, RowsOf, Keyed
  <2> QED
    BY <1>2, <1>a, <2>1
<1> HIDE DEF S
<1>9. PlanYear(d) \in Seq(S)
  BY <1>6, <1>7
<1>10. /\ Len(PlanYear(d)) \in Nat /\ DOMAIN PlanYear(d) = 1..Len(PlanYear(d))
       /\ \A i \in DOMAIN PlanYear(d) : PlanYear(d)[i] \in S
  BY <1>9
<1> QED
  BY <1>8, <1>10, <1>c DEF TypedSteps, c1

(* The migration copies the files before it writes one. *)
LEMMA MigrationKeeps ==
  ASSUME IInv, NEW d \in Device, MigrateRowIds(d)
  PROVE  IInv'
<1> USE DEF IInv
<1>1. /\ UNCHANGED <<log, serving, paired, originals, requests>>
      /\ d \in paired \cup {Hub} /\ d \notin serving
      /\ boot' = boot \/ boot' = [boot EXCEPT ![d] = "migrated"]
  BY DEF MigrateRowIds
<1>2. IInv'
  <2>1. CASE UNCHANGED <<disk, backups>>
    BY <1>1, <2>1 DEF Typed, StartsApart, AloneKnowsItself, IncomeIsSum, FilesAsTheyWere,
       RowsAreTyped, TypedTables, TypedContent, TypedLog, TypedRow
  <2>2. ASSUME NEW n \in 0..Len(PlanYear(d)), Backs(d),
               disk' = [disk EXCEPT ![d] = AfterSaves(@, PlanYear(d), 1..n)]
        PROVE  IInv'
    <3>1. /\ DOMAIN disk' = Device /\ disk'[d] = AfterSaves(disk[d], PlanYear(d), 1..n)
          /\ \A e \in Device : e # d => disk'[e] = disk[e]
      BY <2>2 DEF Typed
    <3>2. SavesOf("income", PlanYear(d), 1..n) = {}
      BY PlanIsKeyed DEF SavesOf, Keyed
    <3>3. disk'[d]["income"] = disk[d]["income"]
      BY <3>1, <3>2 DEF AfterSaves, Table
    <3>4. IncomeIsSum'
      BY <3>1, <3>3 DEF IncomeIsSum
    <3>5. FilesAsTheyWere' /\ DOMAIN backups' = Device
      BY <1>1, <2>2, <3>1, FilesStayInCopy
    <3>6. RowsAreTyped'
      <4>1. TypedSteps(PlanYear(d)) /\ 1..n \in SUBSET DOMAIN PlanYear(d)
        BY PlanIsKeyed DEF TypedSteps
      <4>2. TypedTables(AfterSaves(disk[d], PlanYear(d), 1..n))
        BY <4>1, SavesKeepTypes DEF RowsAreTyped
      <4>3. \A e \in Device : TypedTables(disk'[e])
        BY <3>1, <4>2 DEF RowsAreTyped
      <4> QED
        BY <1>1, <4>3 DEF RowsAreTyped, TypedTables, TypedContent, TypedLog, TypedRow
    <3> QED
      BY <1>1, <3>1, <3>4, <3>5, <3>6 DEF Typed, StartsApart, AloneKnowsItself
  <2> QED
    BY <2>1, <2>2 DEF MigrateRowIds
<1> QED
  BY <1>2

(* What a start records goes to its own log, and leaves the files alone.   *)
LEMMA RecordsItsOwn ==
  ASSUME Typed, NEW d \in Device, NEW steps, NEW n \in 0..Len(steps), Records(d, steps, n)
  PROVE  /\ UNCHANGED <<disk, paired, backups, originals>>
         /\ DOMAIN log' = Device
         /\ \A e \in Device : e # d => log'[e] = log[e]
         /\ \A x \in log'[d] \ log[d] : x.key.device = d
         /\ steps = <<>> => log'[d] = log[d]
<1>1. Appends(d, steps, 1..n) /\ UNCHANGED <<disk, paired, backups, originals>>
  BY DEF Records
<1>2. ASSUME steps = <<>> PROVE log'[d] = log[d]
  <2>1. 1..n = {}
    BY <1>2
  <2>2. log' = [log EXCEPT ![d] = @ \cup {}]
    BY <1>1, <2>1 DEF Appends
  <2> QED
    BY <2>2 DEF Typed
<1> QED
  BY <1>1, <1>2, AppendsItsOwn

(* A sequence of typed steps. *)
LEMMA SequenceOfTyped ==
  ASSUME NEW S, NEW steps \in Seq(S), \A s \in S : TypedStep(s)
  PROVE  TypedSteps(steps)
BY DEF TypedSteps

(* The rows a start may record. *)
LoadedRows(d, t) == IF Loads(d, t) THEN ToSet(disk[d][t]) ELSE {}

Recordable(d) ==
  (UNION {{Upsert(t, row) : row \in LoadedRows(d, t)} : t \in Keyed})
    \cup {SetCell("income", c, disk[d]["income"][c]) : c \in IncomeCategory}

(* A baseline records of the data files rows of those it can load, and the *)
(* income.                                                                 *)
LEMMA PendingIsLoaded ==
  ASSUME RowsAreTyped, NEW d \in Device
  PROVE  Pending(d) \in Seq(Recordable(d))
<1> DEFINE salary == SetCell("income", Salary, disk[d]["income"][Salary])
           other == SetCell("income", Other, disk[d]["income"][Other])
           S == Recordable(d)
           Of(t) == IF t \in Tried(d) THEN CollectTable(d, t) ELSE <<>>
<1>1. /\ \A t \in Keyed : \A row \in LoadedRows(d, t) : Upsert(t, row) \in S
      /\ salary \in S /\ other \in S
  BY DEF Recordable, IncomeCategory
<1> HIDE DEF S
<1>2. ASSUME NEW t \in Keyed PROVE Of(t) \in Seq(S)
  <2>1. disk[d][t] \in Seq(SheetRow)
    BY KeyedAreTyped
  <2> DEFINE sheet == disk[d][t]
             upserts == [i \in DOMAIN sheet |-> Upsert(t, sheet[i])]
  <2>2. Of(t) = <<>> \/ (Loads(d, t) /\ Of(t) = upserts)
    BY DEF CollectTable, Keyed
  <2>3. Loads(d, t) => \A i \in DOMAIN sheet : Upsert(t, sheet[i]) \in S
    BY <1>1 DEF LoadedRows, ToSet
  <2> HIDE DEF Of, sheet
  <2>4. Len(sheet) \in Nat /\ DOMAIN sheet = 1..Len(sheet)
    BY <2>1 DEF sheet
  <2>5. Loads(d, t) => upserts \in Seq(S)
    BY <2>3, <2>4
  <2>6. <<>> \in Seq(S)
    OBVIOUS
  <2> QED
    BY <2>2, <2>5, <2>6
<1>3. Of("income") \in Seq(S)
  <2>1. Of("income") = <<>> \/ Of("income") = <<salary, other>>
    BY DEF CollectTable, IncomeCells
  <2> HIDE DEF salary, other, Of
  <2>2. <<>> \in Seq(S) /\ <<salary, other>> \in Seq(S)
    BY <1>1
  <2> QED
    BY <2>1, <2>2
<1>4. Pending(d) =
        Of("expenses") \o Of("recurring") \o Of("holdings") \o Of("prices") \o Of("income")
  BY DEF Pending, Collect
<1>5. {"expenses", "recurring", "holdings", "prices"} \subseteq Keyed
  BY DEF Keyed
<1> HIDE DEF Of
<1>6. Pending(d) \in Seq(S)
  BY <1>2, <1>3, <1>4, <1>5
<1> QED
  BY <1>6 DEF S

(* So it is of the right kind. *)
LEMMA PendingIsTyped ==
  ASSUME RowsAreTyped, NEW d \in Device
  PROVE  TypedSteps(Pending(d))
<1>1. ASSUME NEW t \in Keyed, NEW row \in LoadedRows(d, t) PROVE TypedStep(Upsert(t, row))
  <2>1. t \in SheetTable /\ RowsOf(t) = SheetRow
    BY DEF SheetTable, RowsOf, Keyed
  <2>2. disk[d][t] \in Seq(SheetRow) /\ row \in ToSet(disk[d][t])
    BY KeyedAreTyped DEF LoadedRows
  <2>3. row \in SheetRow
    BY <2>2 DEF ToSet
  <2> QED
    BY <2>1, <2>3, TypedRecords
<1>2. \A c, value : TypedStep(SetCell("income", c, value))
  BY TypedRecords DEF SetCell, SheetTable, Keyed
<1>3. \A s \in Recordable(d) : TypedStep(s)
  BY <1>1, <1>2 DEF Recordable
<1> QED
  BY <1>3, PendingIsLoaded, SequenceOfTyped

(* A finite set has its elements in some sequence. *)
LEMMA SetAsSequence ==
  ASSUME NEW S, IsFiniteSet(S)
  PROVE  SetToSeq(S) \in Seq(S)
<1>1. Cardinality(S) \in Nat /\ ExistsBijection(1..Cardinality(S), S)
  BY FS_CardinalityType
<1>2. \E f \in [1..Cardinality(S) -> S] : IsInjective(f)
  BY <1>1 DEF ExistsBijection, Bijection, Injection
<1>3. SetToSeq(S) \in [1..Cardinality(S) -> S]
  BY <1>2 DEF SetToSeq
<1> QED
  BY <1>1, <1>3 DEF Seq

(* And what it records of the settings is what those files hold. *)
LEMMA SettingsAreTyped ==
  ASSUME RowsAreTyped, NEW d \in Device, NEW T
  PROVE  /\ TypedSteps(CurrentSettings(d, T))
         /\ \A i \in DOMAIN CurrentSettings(d, T) :
              CurrentSettings(d, T)[i].table \in Settings \ Investments
<1> DEFINE mappings == disk[d]["mappings"]
           categories == SetToSeq(disk[d]["categories"])
           FieldRow(f) == Record("currency", f, "upsert", FALSE, [value |-> disk[d]["currency"][f]])
           reference == FieldRow(ReferenceCurrency)
           mode == FieldRow(RateMode)
           Category(label) == Upsert("categories", [id |-> label])
           first == [i \in DOMAIN mappings |-> Upsert("mappings", mappings[i])]
           second == [i \in DOMAIN categories |-> Category(categories[i])]
           third == <<reference, mode>>
           At(t, steps) == IF t \in T /\ file[d][t] = "readable" THEN steps ELSE <<>>
           S == {Upsert("mappings", row) : row \in MappingRow}
                  \cup {Category(label) : label \in disk[d]["categories"]} \cup {reference, mode}
<1>a. \A s \in S : s.table \in Settings \ Investments
  <2>1. {"mappings", "categories", "currency"} \subseteq Settings \ Investments
    BY DEF Settings, Investments
  <2>2. \A t, row : Upsert(t, row).table = t
    BY DEF Upsert, Record
  <2>3. reference.table = "currency" /\ mode.table = "currency"
    BY DEF Record
  <2>4. \A label : Category(label).table = "categories"
    BY <2>2
  <2> HIDE DEF Category, reference, mode
  <2> QED
    BY <2>1, <2>2, <2>3, <2>4
<1>1. \A s \in S : TypedStep(s)
  <2>1. \A row \in MappingRow : TypedStep(Upsert("mappings", row))
    <3>1. "mappings" \in SheetTable /\ RowsOf("mappings") = MappingRow
      BY DEF SheetTable, RowsOf
    <3> QED
      BY <3>1, TypedRecords
  <2>2. \A label : TypedStep(Category(label))
    BY TypedRecords DEF Upsert, SheetTable, Keyed
  <2>3. TypedStep(reference) /\ TypedStep(mode)
    BY TypedRecords DEF SheetTable, Keyed
  <2> HIDE DEF reference, mode, Category
  <2> QED
    BY <2>1, <2>2, <2>3
<1>2. /\ \A row \in MappingRow : Upsert("mappings", row) \in S
      /\ \A label \in disk[d]["categories"] : Category(label) \in S
      /\ reference \in S /\ mode \in S
  OBVIOUS
<1>3. mappings \in Seq(MappingRow) /\ categories \in Seq(disk[d]["categories"])
  <2>1. mappings \in Seq(MappingRow) /\ IsFiniteSet(disk[d]["categories"])
    BY DEF RowsAreTyped, TypedTables, TypedContent, SheetTable, RowsOf, Table, Settings
  <2> QED
    BY <2>1, SetAsSequence
<1>4. CurrentSettings(d, T) =
        At("mappings", first) \o At("categories", second) \o At("currency", third)
  BY DEF CurrentSettings
<1> HIDE DEF S, reference, mode, Category, mappings, categories
<1>5. first \in Seq(S)
  BY <1>2, <1>3
<1>6. second \in Seq(S)
  BY <1>2, <1>3
<1>7. third \in Seq(S) /\ <<>> \in Seq(S)
  BY <1>2
<1> HIDE DEF first, second, third
<1>8. /\ At("mappings", first) \in Seq(S) /\ At("categories", second) \in Seq(S)
      /\ At("currency", third) \in Seq(S)
  BY <1>5, <1>6, <1>7
<1> HIDE DEF At
<1>9. CurrentSettings(d, T) \in Seq(S)
  BY <1>4, <1>8
<1>10. TypedSteps(CurrentSettings(d, T))
  BY <1>1, <1>9, SequenceOfTyped
<1>11. \A i \in DOMAIN CurrentSettings(d, T) : CurrentSettings(d, T)[i] \in S
  BY <1>9
<1> QED
  BY <1>a, <1>10, <1>11

(* So the records of a start are of the right kind. *)
LEMMA RecordsKeepTypes ==
  ASSUME Typed, RowsAreTyped, NEW d \in Device, NEW steps, TypedSteps(steps),
         NEW n \in 0..Len(steps), Records(d, steps, n)
  PROVE  RowsAreTyped'
<1>1. Appends(d, steps, 1..n) /\ UNCHANGED <<disk, requests>>
  BY DEF Records
<1>2. 1..n \in SUBSET DOMAIN steps
  BY DEF TypedSteps
<1>3. \A e \in Device : TypedLog(log'[e])
  BY <1>1, <1>2, AppendsKeepTypes
<1> QED
  BY <1>1, <1>3 DEF RowsAreTyped, TypedTables, TypedContent, TypedLog, TypedRow

(* A step of a start changes no file but those of the migration.  Only a   *)
(* hub that has no peer adds to its log then.                              *)
LEMMA BaselineRecords ==
  ASSUME Typed, RowsAreTyped, StartsApart, NEW d \in Device,
         BaselineChangeLog(d) \/ SettingsBaseline(d)
  PROVE  /\ UNCHANGED <<disk, paired, backups, originals>>
         /\ RowsAreTyped'
         /\ boot[d] # "off" /\ DOMAIN boot' = Device
         /\ \A e \in Device : e # d => boot'[e] = boot[e] /\ log'[e] = log[e]
         /\ serving' = serving \/ (serving' = serving \cup {d} /\ boot'[d] = "off")
         /\ DOMAIN log' = Device
         /\ \A x \in log'[d] \ log[d] : x.key.device = d
         /\ \/ log'[d] = log[d]
            \/ d = Hub /\ Hub \notin paired
<1>1. CASE BaselineChangeLog(d)
  <2>1. boot[d] = "migrated" /\ UNCHANGED serving
    BY <1>1 DEF BaselineChangeLog
  <2>2. CASE /\ ~Refuses(d) /\ (RecordsEveryYear(d) \/ RetriesSkipped(d))
             /\ RecordsAndMarks(d, Pending(d), marker, MarkerAfter(d), "recorded")
    <3>1. PICK n \in 0..Len(Pending(d)) : Records(d, Pending(d), n)
      BY <2>2 DEF RecordsAndMarks
    <3>2. \E next : boot' = [boot EXCEPT ![d] = next]
      BY <2>2 DEF RecordsAndMarks
    <3>3. Pending(d) = <<>> \/ d \notin paired
      BY <2>2 DEF Refuses, PairedForBaseline
    <3>4. d \notin paired => d = Hub
      BY <2>1 DEF StartsApart
    <3>5. RowsAreTyped'
      BY <3>1, PendingIsTyped, RecordsKeepTypes
    <3> QED
      BY <2>1, <3>1, <3>2, <3>3, <3>4, <3>5, RecordsItsOwn DEF Typed
  <2>3. CASE /\ boot' = [boot EXCEPT ![d] = "recorded"]
             /\ UNCHANGED <<disk, log, requests, paired, backups, originals>>
    <3>1. RowsAreTyped'
      BY <2>3 DEF RowsAreTyped, TypedTables, TypedContent, TypedLog, TypedRow
    <3> QED
      BY <2>1, <2>3, <3>1 DEF Typed
  <2> QED
    BY <1>1, <2>2, <2>3 DEF BaselineChangeLog
<1>2. CASE SettingsBaseline(d)
  <2>1. boot[d] = "recorded"
    BY <1>2 DEF SettingsBaseline
  <2>2. CASE d = Hub /\ Wanted(d) # {} /\ ~PairedForBaseline(d)
    <3>1. PICK after :
            RecordsAndMarks(d, CurrentSettings(d, Wanted(d)), settingsMarker, after, "off")
      BY <1>2, <2>2 DEF SettingsBaseline
    <3>2. PICK n \in 0..Len(CurrentSettings(d, Wanted(d))) :
            Records(d, CurrentSettings(d, Wanted(d)), n)
      BY <3>1 DEF RecordsAndMarks
    <3>3. boot' = [boot EXCEPT ![d] = "off"]
      BY <3>1 DEF RecordsAndMarks
    <3>4. serving' = serving \/ serving' = serving \cup {d}
      BY <1>2, <2>2 DEF SettingsBaseline
    <3>5. RowsAreTyped'
      BY <3>2, SettingsAreTyped, RecordsKeepTypes
    <3> QED
      BY <2>1, <2>2, <3>2, <3>3, <3>4, <3>5, RecordsItsOwn DEF Typed, PairedForBaseline
  <2>3. CASE ~(d = Hub /\ Wanted(d) # {} /\ ~PairedForBaseline(d))
    <3>1. /\ serving' = serving \cup {d} /\ boot' = [boot EXCEPT ![d] = "off"]
          /\ UNCHANGED <<disk, log, requests, paired, backups, originals>>
      BY <1>2, <2>3 DEF SettingsBaseline
    <3>2. RowsAreTyped'
      BY <3>1 DEF RowsAreTyped, TypedTables, TypedContent, TypedLog, TypedRow
    <3> QED
      BY <2>1, <3>1, <3>2 DEF Typed
  <2> QED
    BY <2>2, <2>3
<1> QED
  BY <1>1, <1>2

(* The two baselines write records and markers, never a table. *)
LEMMA BaselineKeeps ==
  ASSUME IInv, NEW d \in Device, BaselineChangeLog(d) \/ SettingsBaseline(d)
  PROVE  IInv'
<1> USE DEF IInv
<1>1. Typed' /\ StartsApart'
  BY BaselineRecords DEF Typed, StartsApart
<1>2. AloneKnowsItself'
  BY BaselineRecords DEF AloneKnowsItself
<1>3. IncomeIsSum' /\ FilesAsTheyWere' /\ RowsAreTyped'
  BY BaselineRecords DEF IncomeIsSum, FilesAsTheyWere
<1> QED
  BY <1>1, <1>2, <1>3

(* Stopping, restoring and losing the log change no table. *)
LEMMA AroundKeeps ==
  ASSUME IInv, NEW d \in Device, Stop(d) \/ Restore(d) \/ DeleteLog(d)
  PROVE  IInv'
<1> USE DEF IInv
<1>1. /\ UNCHANGED <<disk, boot, paired, backups, originals, requests>>
      /\ serving' \subseteq serving /\ DOMAIN log' = Device
      /\ \A e \in Device : log'[e] \subseteq log[e]
  BY DEF Stop, Restore, DeleteLog, startVars, Typed
<1>2. Typed' /\ StartsApart'
  BY <1>1 DEF Typed, StartsApart
<1>3. AloneKnowsItself'
  BY <1>1 DEF AloneKnowsItself
<1>4. IncomeIsSum' /\ FilesAsTheyWere'
  BY <1>1 DEF IncomeIsSum, FilesAsTheyWere
<1>5. RowsAreTyped'
  <2>1. \A e \in Device : TypedLog(log'[e])
    BY <1>1, FS_Subset DEF RowsAreTyped, TypedLog
  <2> QED
    BY <1>1, <2>1 DEF RowsAreTyped, TypedTables, TypedContent, TypedLog, TypedRow
<1> QED
  BY <1>2, <1>3, <1>4, <1>5

(* It saves and records rows with a date of the month. *)
LEMMA RepairIsTyped ==
  ASSUME NEW expenses \in Seq(SheetRow)
  PROVE  TypedSteps(RepairSteps(expenses))
<1> DEFINE changed == RowsAt(expenses, {i \in DOMAIN expenses : NeedsRepair(expenses[i])})
           content == [i \in DOMAIN expenses |-> RepairedRow(expenses[i])]
           steps == RepairSteps(expenses)
<1>1. \A row \in SheetRow : RepairedRow(row) \in SheetRow
  <2>1. ASSUME NEW row \in SheetRow PROVE [row EXCEPT !.day = FirstOfMonth] \in SheetRow
    BY DEF SheetRow, FirstOfMonth
  <2> QED
    BY <2>1 DEF RepairedRow
<1>2. changed \in Seq(SheetRow)
  BY FilterOfKind
<1>3. TypedStep(Save("expenses", content))
  <2>1. /\ DOMAIN expenses = 1..Len(expenses) /\ Len(expenses) \in Nat
        /\ \A i \in DOMAIN expenses : expenses[i] \in SheetRow
    OBVIOUS
  <2>2. content \in Seq(SheetRow)
    BY <1>1, <2>1
  <2>3. TypedContent("expenses", content)
    BY <2>2 DEF TypedContent, RowsOf
  <2> HIDE DEF content
  <2> QED
    BY <2>3 DEF TypedStep, Save, IsSave
<1>4. steps = [n \in 1..1 + Len(changed) |->
                IF n = 1 THEN Save("expenses", content)
                ELSE Upsert("expenses", RepairedRow(changed[n - 1]))]
  BY DEF RepairSteps
<1> HIDE DEF changed, content, steps
<1>5. /\ Len(changed) \in Nat /\ \A n \in 1..Len(changed) : changed[n] \in SheetRow
  BY <1>2
<1>6. DOMAIN steps = 1..1 + Len(changed) /\ Len(steps) = 1 + Len(changed)
  BY <1>4, <1>5
<1>7. ASSUME NEW n \in 1..1 + Len(changed) PROVE TypedStep(steps[n])
  <2>1. CASE n = 1
    BY <1>3, <1>4, <2>1
  <2>2. CASE n # 1
    <3>1. RepairedRow(changed[n - 1]) \in SheetRow /\ "expenses" \in SheetTable
      BY <1>1, <1>5, <2>2 DEF SheetTable, Keyed
    <3>2. TypedStep(Upsert("expenses", RepairedRow(changed[n - 1])))
      BY <3>1, TypedRecords DEF RowsOf
    <3> QED
      BY <1>4, <2>2, <3>2
  <2> QED
    BY <2>1, <2>2
<1>8. TypedSteps(steps)
  BY <1>5, <1>6, <1>7 DEF TypedSteps
<1> QED
  BY <1>8 DEF steps

(* And touches no file but that of the expenses, which was loaded. *)
LEMMA RepairIsSafe ==
  ASSUME RowsAreTyped, RepairDates
  PROVE  /\ TypedSteps(RepairSteps(disk[Hub]["expenses"]))
         /\ SafeSteps(Hub, RepairSteps(disk[Hub]["expenses"]))
<1> DEFINE steps == RepairSteps(disk[Hub]["expenses"])
<1>1. CanLoad(Hub, "expenses")
  BY DEF RepairDates
<1>2. \A n \in DOMAIN steps : steps[n].table = "expenses"
  BY DEF RepairSteps, Save, Upsert, Record
<1>3. disk[Hub]["expenses"] \in Seq(SheetRow)
  BY LedgerAssumption, KeyedAreTyped DEF Keyed
<1>4. TypedSteps(steps)
  BY <1>3, RepairIsTyped
<1> HIDE DEF steps
<1>5. SafeSteps(Hub, steps)
  BY <1>1, <1>2 DEF SafeSteps, Investments
<1> QED
  BY <1>4, <1>5 DEF steps

(* The repair of dates writes expenses that it has copied. *)
LEMMA RepairKeeps ==
  ASSUME IInv, RepairDates
  PROVE  IInv'
<1> USE DEF IInv
<1> DEFINE steps == RepairSteps(disk[Hub]["expenses"])
<1>1. /\ Hub \in Device /\ Backs(Hub)
      /\ Completes(Hub, steps) \/ LosesRecord(Hub, steps) \/ CutOff(Hub, steps)
      /\ UNCHANGED <<boot, paired, originals, requests>>
  BY LedgerAssumption DEF RepairDates
<1>2. TypedSteps(steps)
  BY RepairIsSafe
<1>3. SafeSteps(Hub, steps)
  BY RepairIsSafe
<1> HIDE DEF steps
<1>4. PICK done, lost : /\ Performs(Hub, steps, done, lost) /\ serving' \subseteq serving
                        /\ done \in SUBSET DOMAIN steps
  BY <1>1, <1>2, RequestPerforms
<1>5. LeavesFiles
  BY <1>1, <1>3, <1>4, SafeStepsLeaveFiles DEF Performs
<1>6. /\ DOMAIN log' = Device
      /\ \A e \in Device : e # Hub => log'[e] = log[e]
      /\ \A x \in log'[Hub] \ log[Hub] : x.key.device = Hub
  BY <1>1, <1>4, AppendsItsOwn DEF Performs
<1>7. /\ FilesAsTheyWere' /\ DOMAIN backups' = Device
  <2>1. \A e \in Device : e # Hub => disk'[e] = disk[e]
    BY <1>4 DEF Performs, Typed
  <2> QED
    BY <1>1, <2>1, FilesStayInCopy
<1>8. Typed' /\ StartsApart'
  BY <1>1, <1>4, <1>5, <1>6, <1>7 DEF Typed, StartsApart, LeavesFiles
<1>9. AloneKnowsItself'
  BY <1>1, <1>6 DEF AloneKnowsItself
<1>11. RowsAreTyped'
  <2>1. requests' \in Int
    BY <1>1 DEF RowsAreTyped
  <2> QED
    BY <1>1, <1>2, <1>4, <2>1, StepsKeepTypes DEF Performs
<1> QED
  BY <1>5, <1>7, <1>8, <1>9, <1>11 DEF LeavesFiles

(* The repair adds to the log of the hub, while nothing starts there. *)
LEMMA RepairOfStopped ==
  ASSUME Typed, RepairDates, NEW d \in Device, log'[d] # log[d]
  PROVE  d = Hub /\ boot[Hub] = "off"
<1> DEFINE steps == RepairSteps(disk[Hub]["expenses"])
<1>1. /\ Hub \in Device /\ boot[Hub] = "off"
      /\ Completes(Hub, steps) \/ LosesRecord(Hub, steps) \/ CutOff(Hub, steps)
  BY LedgerAssumption DEF RepairDates
<1> HIDE DEF steps
<1>2. PICK done, lost : Performs(Hub, steps, done, lost)
  BY <1>1, RequestPerforms
<1> QED
  BY <1>1, <1>2, AppendsItsOwn DEF Performs

(* A device without data shows an income of nothing. *)
LEMMA NoIncomeIsSum ==
  NoData["income"] = RecomputeIncome(NoData["income"])
<1>1. NoData["income"] = NoIncome
  BY DEF NoData, Table
<1>2. Salary \in IncomeRow /\ Other \in IncomeRow
  BY DEF IncomeRow, IncomeCategory
<1>3. NoIncome = RecomputeIncome(NoIncome)
  BY <1>2 DEF NoIncome, RecomputeIncome
<1> QED
  BY <1>1, <1>3

(* And files without rows. *)
LEMMA NoDataIsTyped ==
  TypedTables(NoData)
<1>1. /\ \A t \in SheetTable : t \in Table /\ NoData[t] = <<>>
      /\ NoData["categories"] = {}
  BY DEF NoData, SheetTable, Table, Keyed, Settings
<1>2. ASSUME NEW t \in SheetTable PROVE <<>> \in Seq(RowsOf(t))
  OBVIOUS
<1> QED
  BY <1>1, <1>2, FS_EmptySet DEF TypedTables, TypedContent

(* A reset prepares its files from the log of the hub and sums the income. *)
LEMMA ResetKeeps ==
  ASSUME IInv, NEW d \in Device, PairAndReset(d)
  PROVE  IInv'
<1> USE DEF IInv
<1>1. /\ d # Hub /\ d \notin paired /\ Hub \in serving /\ Backs(d)
      /\ paired' = paired \cup {d, Hub} /\ serving' = serving \cup {d}
      /\ log' = [log EXCEPT ![d] = log[Hub]]
      /\ disk' = [disk EXCEPT ![d] = Prepared(NoData, d, log[Hub])]
      /\ UNCHANGED <<boot, originals, requests>>
  BY DEF PairAndReset, Healthy
<1>2. boot[d] = "off"
  BY <1>1 DEF StartsApart
<1>3. FilesAsTheyWere' /\ DOMAIN backups' = Device
  BY <1>1, FilesStayInCopy DEF Typed
<1>4. IncomeIsSum'
  <2> DEFINE filled == Prepared(NoData, d, log[Hub])
  <2>1. filled["income"] = RecomputeIncome(filled["income"])
    BY NoIncomeIsSum, PreparedIsSafe
  <2> HIDE DEF filled
  <2>2. disk' = [disk EXCEPT ![d] = filled]
    BY <1>1 DEF filled
  <2> QED
    BY <2>1, <2>2 DEF IncomeIsSum, Typed
<1>5. Typed'
  BY <1>1, <1>3, LedgerAssumption DEF Typed
<1>6. StartsApart'
  BY <1>1, <1>2 DEF StartsApart
<1>7. AloneKnowsItself'
  BY <1>1 DEF AloneKnowsItself
<1>8. RowsAreTyped'
  <2>1. TypedLog(log[d]) /\ TypedLog(log[Hub])
    BY LedgerAssumption DEF RowsAreTyped
  <2> DEFINE filled == Prepared(NoData, d, log[Hub])
  <2>2. TypedTables(filled)
    BY <2>1, NoDataIsTyped, PreparedKeepsTypes
  <2>3. disk' = [disk EXCEPT ![d] = filled]
    BY <1>1
  <2> HIDE DEF filled
  <2>4. \A e \in Device : TypedTables(disk'[e])
    BY <2>2, <2>3 DEF RowsAreTyped, Typed
  <2>5. \A e \in Device : TypedLog(log'[e])
    BY <1>1, <2>1 DEF RowsAreTyped, Typed
  <2> QED
    BY <1>1, <2>4, <2>5 DEF RowsAreTyped, TypedTables, TypedContent, TypedLog, TypedRow
<1> QED
  BY <1>3, <1>4, <1>5, <1>6, <1>7, <1>8

-----------------------------------------------------------------------------
(* The situations a behaviour begins in                                    *)

(* The files from before the log have an income that adds up. *)
LEMMA LegacyIncomeIsSum ==
  ASSUME NEW a, NEW b
  PROVE  /\ LegacyData(a, b)["income"] = RecomputeIncome(LegacyData(a, b)["income"])
         /\ WithSettings(LegacyData(a, b), a)["income"] = LegacyData(a, b)["income"]
<1> DEFINE income == [NoIncome EXCEPT ![Salary] = 51, ![Income] = 51]
<1>1. /\ LegacyData(a, b)["income"] = income
      /\ WithSettings(LegacyData(a, b), a)["income"] = LegacyData(a, b)["income"]
  BY DEF LegacyData, WithSettings, NoData, Table, Keyed, Settings
<1>2. /\ Salary # Other /\ Salary # Income /\ Other # Income
      /\ {Salary, Other, Income} = IncomeRow
  BY LedgerAssumption DEF IncomeRow, IncomeCategory
<1>3. /\ income = [c \in IncomeRow |-> income[c]]
      /\ income[Salary] = 51 /\ income[Other] = 0 /\ income[Income] = 51
  BY <1>2 DEF NoIncome
<1> HIDE DEF income
<1>4. RecomputeIncome(income) = [c \in IncomeRow |-> IF c = Income THEN 51 ELSE income[c]]
  BY <1>3 DEF RecomputeIncome
<1>5. \A c \in IncomeRow : (IF c = Income THEN 51 ELSE income[c]) = income[c]
  BY <1>3
<1>6. income = RecomputeIncome(income)
  BY <1>3, <1>4, <1>5
<1> QED
  BY <1>1, <1>6

(* The month of the other two beginnings has no income yet. *)
LEMMA MonthHasNoIncome ==
  ASSUME NEW templates, NEW expenses
  PROVE  Month(templates, expenses)["income"] = NoData["income"]
<1>1. "income" \in DOMAIN NoData
  BY DEF NoData, Table
<1> QED
  BY <1>1 DEF Month

(* Entries of typed records are a typed log. *)
LEMMA EntriesAreTyped ==
  ASSUME NEW steps, TypedSteps(steps), \A i \in DOMAIN steps : ~IsSave(steps[i])
  PROVE  TypedLog({EntryOf(steps[i], [time |-> i, device |-> Hub]) : i \in DOMAIN steps})
<1> DEFINE entry == [i \in DOMAIN steps |-> EntryOf(steps[i], [time |-> i, device |-> Hub])]
           entries == {entry[i] : i \in DOMAIN steps}
<1>1. IsFiniteSet(DOMAIN steps)
  BY FS_Interval DEF TypedSteps
<1>2. ASSUME NEW i \in DOMAIN steps PROVE TypedRow(entry[i].table, entry[i].op, entry[i].content)
  <2>1. TypedRow(steps[i].table, steps[i].op, steps[i].content)
    BY DEF TypedSteps, TypedStep
  <2>2. /\ entry[i].table = steps[i].table /\ entry[i].op = steps[i].op
        /\ entry[i].content = steps[i].content
    BY DEF EntryOf
  <2> QED
    BY <2>1, <2>2
<1>3. entries = {EntryOf(steps[i], [time |-> i, device |-> Hub]) : i \in DOMAIN steps}
  OBVIOUS
<1>4. entry \in Surjection(DOMAIN steps, entries)
  BY DEF Surjection
<1> HIDE DEF entry
<1>5. TypedLog(entries)
  <2>1. \A e \in entries : TypedRow(e.table, e.op, e.content)
    BY <1>2
  <2> HIDE DEF entries
  <2>2. IsFiniteSet(entries)
    BY <1>1, <1>4, FS_Surjection
  <2> QED
    BY <2>1, <2>2 DEF TypedLog
<1> QED
  BY <1>3, <1>5

(* A month of rows and templates is typed. *)
LEMMA MonthIsTyped ==
  ASSUME NEW templates \in Seq(SheetRow), NEW expenses \in Seq(SheetRow)
  PROVE  TypedTables(Month(templates, expenses))
<1> DEFINE month == Month(templates, expenses)
<1>1. /\ month["recurring"] = templates /\ month["expenses"] = expenses
      /\ \A t \in Table \ {"recurring", "expenses"} : month[t] = NoData[t]
  BY DEF Month, NoData, Table, Keyed
<1>2. RowsOf("recurring") = SheetRow /\ RowsOf("expenses") = SheetRow
  BY DEF RowsOf
<1> HIDE DEF month
<1>3. TypedTables(month)
  BY <1>1, <1>2, NoDataIsTyped DEF TypedTables, TypedContent
<1> QED
  BY <1>3 DEF month

(* The rows a behaviour begins with. *)
LEMMA NewRowsAreTyped ==
  ASSUME NEW label \in Label
  PROVE  /\ \A id \in Int : NewRow(id, label) \in SheetRow
         /\ \A id \in Int, day \in 0..4 : Row(id, label, day, id) \in SheetRow
         /\ [NewRow(51, label) EXCEPT !.day = 2] \in SheetRow
<1>1. \A id \in Int, day \in 0..4 : Row(id, label, day, id) \in SheetRow
  BY DEF Row, SheetRow
<1>2. \A id \in Int : NewRow(id, label) \in SheetRow
  BY <1>1 DEF NewRow, GeneratedRecurringDay
<1>3. \A row \in SheetRow : [row EXCEPT !.day = 2] \in SheetRow
  BY DEF SheetRow
<1> QED
  BY <1>1, <1>2, <1>3

(* So are the files of before, with settings and without. *)
LEMMA LegacyIsTyped ==
  ASSUME NEW a \in Label, NEW b \in Label
  PROVE  TypedTables(LegacyData(a, b)) /\ TypedTables(WithSettings(LegacyData(a, b), a))
<1> DEFINE data == LegacyData(a, b)
           all == WithSettings(data, a)
           r1 == NewRow(51, a)
           r2 == NewRow(0, b)
           r3 == NewRow(0, a)
           mapping == [id |-> a, set |-> 51]
<1>1. /\ DOMAIN data = Table
      /\ data["recurring"] = <<r1, r2>> /\ data["holdings"] = <<r3, r2>>
      /\ data["prices"] = <<r2, r3>> /\ data["expenses"] = <<>> /\ data["mappings"] = <<>>
      /\ data["categories"] = {}
  BY DEF LegacyData, NoData, Table, Keyed, Settings
<1>2. /\ all["mappings"] = <<mapping>> /\ all["categories"] = {a}
      /\ \A t \in Keyed : all[t] = data[t]
  <2>1. DOMAIN data = Table
    BY <1>1
  <2> HIDE DEF data
  <2> QED
    BY <2>1 DEF WithSettings, Table, Keyed, Settings
<1>3. r1 \in SheetRow /\ r2 \in SheetRow /\ r3 \in SheetRow /\ mapping \in MappingRow
  <2>1. \A label \in Label : \A id \in Int : NewRow(id, label) \in SheetRow
    BY NewRowsAreTyped
  <2>2. mapping \in MappingRow
    BY DEF MappingRow
  <2>3. 51 \in Int /\ 0 \in Int
    OBVIOUS
  <2> QED
    BY <2>1, <2>2, <2>3
<1> HIDE DEF data, all, r1, r2, r3, mapping
<1>4. /\ <<r1, r2>> \in Seq(SheetRow) /\ <<r3, r2>> \in Seq(SheetRow)
      /\ <<r2, r3>> \in Seq(SheetRow) /\ <<>> \in Seq(SheetRow)
      /\ <<>> \in Seq(MappingRow) /\ <<mapping>> \in Seq(MappingRow)
  BY <1>3
<1>5. \A t \in Keyed : data[t] \in Seq(SheetRow)
  BY <1>1, <1>4 DEF Keyed
<1>6. \A t \in Keyed : RowsOf(t) = SheetRow
  BY DEF RowsOf, Keyed
<1>7. RowsOf("mappings") = MappingRow /\ "categories" \notin SheetTable /\ "categories" \notin Keyed
  BY DEF RowsOf, SheetTable, Keyed
<1>8. IsFiniteSet({}) /\ IsFiniteSet({a})
  BY FS_EmptySet, FS_Singleton
<1>9. TypedTables(data)
  BY <1>1, <1>4, <1>5, <1>6, <1>7, <1>8 DEF TypedTables, TypedContent, SheetTable
<1>10. TypedTables(all)
  BY <1>2, <1>4, <1>5, <1>6, <1>7, <1>8 DEF TypedTables, TypedContent, SheetTable
<1> QED
  BY <1>9, <1>10 DEF data, all

(* What the first templates, n of them applied, have put in the log. *)
AppliedOf(templates, n) == [i \in 1..n |-> GeneratedRow(templates[i])]

RecordsOf(templates, n) ==
  [i \in DOMAIN templates |-> Upsert("recurring", templates[i])]
    \o [i \in 1..n |-> Record("expenses", AppliedOf(templates, n)[i].id, "upsert", TRUE,
                              AppliedOf(templates, n)[i])]

EntriesFrom(records) ==
  {EntryOf(records[i], [time |-> i, device |-> Hub]) : i \in DOMAIN records}

(* They are rows of the right kind, and so are the generated ones. *)
LEMMA BeginningIsTyped ==
  ASSUME NEW templates \in Seq(SheetRow), NEW n \in 0..Len(templates)
  PROVE  /\ TypedTables(Month(templates, AppliedOf(templates, n)))
         /\ TypedLog(EntriesFrom(RecordsOf(templates, n)))
<1> DEFINE applied == AppliedOf(templates, n)
           upserts == [i \in DOMAIN templates |-> Upsert("recurring", templates[i])]
           made == [i \in 1..n |-> Record("expenses", applied[i].id, "upsert", TRUE, applied[i])]
           records == RecordsOf(templates, n)
           S1 == {Upsert("recurring", row) : row \in SheetRow}
           S2 == {Record("expenses", row.id, "upsert", TRUE, row) : row \in SheetRow}
           S == S1 \cup S2
<1>1. /\ DOMAIN templates = 1..Len(templates) /\ Len(templates) \in Nat /\ n \in Nat
      /\ \A i \in DOMAIN templates : templates[i] \in SheetRow
  OBVIOUS
<1>2. \A i \in 1..n : GeneratedRow(templates[i]) \in SheetRow
  BY <1>1, RowsAreMade
<1>3. applied \in Seq(SheetRow) /\ \A i \in 1..n : applied[i] \in SheetRow
  BY <1>1, <1>2 DEF AppliedOf
<1>4. records = upserts \o made
  BY DEF RecordsOf
<1> HIDE DEF applied, records
<1>5. upserts \in Seq(S1)
  <2>1. \A i \in 1..Len(templates) : Upsert("recurring", templates[i]) \in S1
    BY <1>1
  <2> HIDE DEF S1
  <2> QED
    BY <1>1, <2>1
<1>6. made \in Seq(S2)
  <2>1. \A i \in 1..n : made[i] \in S2
    BY <1>3
  <2>2. made = [i \in 1..n |-> made[i]]
    OBVIOUS
  <2> HIDE DEF S2, made
  <2> QED
    BY <1>1, <2>1, <2>2
<1>7. \A s \in S : TypedStep(s) /\ ~IsSave(s)
  <2>1. {"expenses", "recurring"} \subseteq SheetTable
    BY DEF SheetTable, Keyed
  <2>2. RowsOf("expenses") = SheetRow /\ RowsOf("recurring") = SheetRow
    BY DEF RowsOf
  <2>3. ASSUME NEW row \in SheetRow
        PROVE  /\ TypedStep(Upsert("recurring", row)) /\ ~IsSave(Upsert("recurring", row))
               /\ TypedStep(Record("expenses", row.id, "upsert", TRUE, row))
               /\ ~IsSave(Record("expenses", row.id, "upsert", TRUE, row))
    BY <2>1, <2>2, TypedRecords, RecordsAreNoSaves DEF Upsert
  <2> QED
    BY <2>3
<1> HIDE DEF S1, S2, upserts, made
<1>8. upserts \in Seq(S) /\ made \in Seq(S)
  BY <1>5, <1>6
<1> HIDE DEF S
<1>9. records \in Seq(S)
  BY <1>4, <1>8
<1>10. TypedSteps(records) /\ \A i \in DOMAIN records : ~IsSave(records[i])
  BY <1>7, <1>9, SequenceOfTyped
<1>11. TypedLog(EntriesFrom(records))
  BY <1>10, EntriesAreTyped DEF EntriesFrom
<1>12. TypedTables(Month(templates, applied))
  BY <1>3, MonthIsTyped
<1> QED
  BY <1>11, <1>12 DEF applied, records

(* The templates a behaviour begins with are rows. *)
LEMMA SharedTemplatesAreTyped ==
  ASSUME NEW a \in Label, NEW b \in Label, NEW templates \in SharedTemplates(a, b)
  PROVE  templates \in Seq(SheetRow)
<1> DEFINE r1 == NewRow(51, a)
           r2 == NewRow(52, a)
           r3 == NewRow(52, b)
           r4 == [NewRow(51, a) EXCEPT !.day = 2]
<1>1. SharedTemplates(a, b) = IF page # "expenses" THEN {<<>>}
                               ELSE {<<r1, r2>>, <<r1, r3>>, <<r4>>}
  BY Zenon DEF SharedTemplates
<1>2. r1 \in SheetRow /\ r2 \in SheetRow /\ r3 \in SheetRow /\ r4 \in SheetRow
  <2>1. r4 \in SheetRow
    BY Zenon, NewRowsAreTyped
  <2>2. \A label \in Label : \A id \in Int : NewRow(id, label) \in SheetRow
    BY NewRowsAreTyped
  <2>3. 51 \in Int /\ 52 \in Int
    OBVIOUS
  <2> QED
    BY <2>1, <2>2, <2>3
<1> HIDE DEF r1, r2, r3, r4
<1>3. /\ <<>> \in Seq(SheetRow) /\ <<r1, r2>> \in Seq(SheetRow)
      /\ <<r1, r3>> \in Seq(SheetRow) /\ <<r4>> \in Seq(SheetRow)
  BY <1>2
<1> QED
  BY <1>1, <1>3

(* The first templates, applied or not, begin typed. *)
LEMMA PairedIsTyped ==
  ASSUME InitPaired
  PROVE  RowsAreTyped
<1> DEFINE Begun(templates, n) ==
             /\ disk = [d \in Device |-> Month(templates, AppliedOf(templates, n))]
             /\ log = [d \in Device |-> EntriesFrom(RecordsOf(templates, n))]
             /\ clock = [d \in Device |-> Len(RecordsOf(templates, n))]
<1>1. \E a \in Label : \E b \in Label \ {a} : \E templates \in SharedTemplates(a, b) :
        \E n \in 0..Len(templates) : Begun(templates, n)
  BY DEF InitPaired, AppliedOf, RecordsOf, EntriesFrom
<1>2. PICK a \in Label, b \in Label : \E templates \in SharedTemplates(a, b) :
        \E n \in 0..Len(templates) : Begun(templates, n)
  BY <1>1
<1>3. PICK templates \in SharedTemplates(a, b) : \E n \in 0..Len(templates) : Begun(templates, n)
  BY <1>2
<1>4. PICK n \in 0..Len(templates) : Begun(templates, n)
  BY <1>3
<1>5. templates \in Seq(SheetRow)
  BY SharedTemplatesAreTyped
<1>6. /\ TypedTables(Month(templates, AppliedOf(templates, n)))
      /\ TypedLog(EntriesFrom(RecordsOf(templates, n)))
  BY <1>5, BeginningIsTyped
<1>7. requests \in Int
  BY StartupAssumption DEF InitPaired
<1> QED
  BY <1>4, <1>6, <1>7 DEF RowsAreTyped

(* And the misdated expenses. *)
LEMMA MisdatedIsTyped ==
  ASSUME InitMisdated
  PROVE  RowsAreTyped
<1> DEFINE Rows2(a, day) == <<Row(51, a, day, 51), Row(52, a, NoDate, 52)>>
           Entries2(rows) == {EntryOf(Upsert("expenses", rows[i]), [time |-> i, device |-> Hub]) :
                                i \in DOMAIN rows}
           Begun(a, day, known) ==
             /\ disk = [d \in Device |-> IF d \in (IF known THEN Device ELSE {Hub})
                                         THEN Month(<<>>, Rows2(a, day)) ELSE NoData]
             /\ log = [d \in Device |-> IF known THEN Entries2(Rows2(a, day)) ELSE {}]
             /\ clock = [d \in Device |-> IF known THEN Len(Rows2(a, day)) ELSE 0]
             /\ paired = IF known THEN Device ELSE {}
             /\ serving = paired \ {Hub}
             /\ marker = [d \in Device |-> IF known THEN Present(TRUE, {}) ELSE Absence]
             /\ settingsMarker = [d \in Device |-> IF known /\ d = Hub THEN Present(FALSE, {})
                                                    ELSE Absence]
<1>1. \E a \in Label, day \in {NoDate, OtherMonth, OtherMonthLate}, known \in BOOLEAN :
        Begun(a, day, known)
  BY Zenon DEF InitMisdated
<1>2. PICK a \in Label, day \in {NoDate, OtherMonth, OtherMonthLate}, known \in BOOLEAN :
        Begun(a, day, known)
  BY <1>1
<1> DEFINE first == Row(51, a, day, 51)
           second == Row(52, a, NoDate, 52)
           rows == <<first, second>>
           records == [i \in DOMAIN rows |-> Upsert("expenses", rows[i])]
           entries == EntriesFrom(records)
<1>3. first \in SheetRow /\ second \in SheetRow
  <2>1. NoDate = 0 /\ OtherMonth = 3 /\ OtherMonthLate = 4
    BY DEF NoDate, OtherMonth, OtherMonthLate
  <2>2. day \in 0..4 /\ NoDate \in 0..4
    BY <2>1
  <2>3. \A label \in Label : \A id \in Int, x \in 0..4 : Row(id, label, x, id) \in SheetRow
    BY NewRowsAreTyped
  <2>4. 51 \in Int /\ 52 \in Int
    OBVIOUS
  <2> QED
    BY <2>2, <2>3, <2>4
<1>a. \A d \in Device : /\ disk[d] = Month(<<>>, rows) \/ disk[d] = NoData
                        /\ log[d] = entries \/ log[d] = {}
  <2>1. entries = Entries2(rows)
    BY DEF EntriesFrom
  <2> HIDE DEF entries, Entries2
  <2> QED
    BY <1>2, <2>1
<1> HIDE DEF first, second
<1>4. rows \in Seq(SheetRow) /\ <<>> \in Seq(SheetRow) /\ DOMAIN rows = 1..2 /\ Len(rows) = 2
  BY <1>3
<1> HIDE DEF rows
<1>5. ASSUME NEW i \in 1..2 PROVE TypedStep(records[i]) /\ ~IsSave(records[i])
  <2>1. rows[i] \in SheetRow /\ "expenses" \in SheetTable /\ RowsOf("expenses") = SheetRow
    BY <1>4 DEF SheetTable, RowsOf, Keyed
  <2>2. TypedStep(Upsert("expenses", rows[i]))
    BY <2>1, TypedRecords
  <2>3. ~IsSave(Upsert("expenses", rows[i]))
    BY RecordsAreNoSaves DEF Upsert
  <2>4. records[i] = Upsert("expenses", rows[i])
    BY <1>4
  <2> QED
    BY <2>2, <2>3, <2>4
<1>6. DOMAIN records = 1..2 /\ Len(records) = 2
  BY <1>4
<1> HIDE DEF records
<1>7. TypedSteps(records)
  BY <1>5, <1>6 DEF TypedSteps
<1>8. TypedLog(entries)
  BY <1>5, <1>6, <1>7, EntriesAreTyped DEF EntriesFrom
<1>9. TypedTables(Month(<<>>, rows)) /\ TypedTables(NoData) /\ TypedLog({})
  BY <1>4, MonthIsTyped, NoDataIsTyped, FS_EmptySet DEF TypedLog
<1>10. requests \in Int
  BY DEF InitMisdated
<1> HIDE DEF entries
<1> QED
  BY <1>a, <1>8, <1>9, <1>10 DEF RowsAreTyped

(* And the files from before the log. *)
LEMMA LegacyBeginsTyped ==
  ASSUME InitLegacy
  PROVE  RowsAreTyped
<1>1. PICK data, unreadable : InitAlone(data, unreadable) /\ TypedTables(data)
  BY LegacyIsTyped DEF InitLegacy
<1>2. /\ \A d \in Device : disk[d] = data \/ disk[d] = NoData
      /\ \A d \in Device : log[d] = {}
      /\ requests = 1
  BY <1>1 DEF InitAlone
<1>3. TypedLog({})
  BY FS_EmptySet DEF TypedLog
<1> QED
  BY <1>1, <1>2, <1>3, NoDataIsTyped DEF RowsAreTyped

(* Every beginning keeps the invariant. *)
LEMMA InitKeeps ==
  ASSUME Init
  PROVE  IInv
<1> DEFINE Begins ==
         /\ DOMAIN disk = Device /\ DOMAIN log = Device
         /\ serving \subseteq Device /\ paired \subseteq Device
         /\ serving \subseteq paired \cup {Hub} /\ (paired # {} => Hub \in paired)
         /\ AloneKnowsItself /\ IncomeIsSum
<1>1. ASSUME InitPaired PROVE Begins
  <2>1. /\ DOMAIN disk = Device /\ DOMAIN log = Device
        /\ serving = Device /\ paired = Device /\ Hub \in Device
    BY <1>1, LedgerAssumption DEF InitPaired
  <2>2. \A d \in Device : disk[d]["income"] = NoData["income"]
    BY <1>1, MonthHasNoIncome DEF InitPaired
  <2>3. IncomeIsSum
    BY <2>2, NoIncomeIsSum DEF IncomeIsSum
  <2> QED
    BY <2>1, <2>3 DEF AloneKnowsItself
<1>2. ASSUME InitLegacy PROVE Begins
  <2>1. PICK data, unreadable : /\ InitAlone(data, unreadable)
                                /\ data["income"] = RecomputeIncome(data["income"])
    BY <1>2, LegacyIncomeIsSum DEF InitLegacy
  <2>2. /\ disk = [d \in Device |-> IF d = Hub THEN data ELSE NoData]
        /\ log = [d \in Device |-> {}] /\ serving = {} /\ paired = {}
    BY <2>1 DEF InitAlone
  <2>3. IncomeIsSum
    BY <2>1, <2>2, NoIncomeIsSum DEF IncomeIsSum
  <2> QED
    BY <2>2, <2>3 DEF AloneKnowsItself
<1>3. ASSUME InitMisdated PROVE Begins
  <2>1. /\ DOMAIN disk = Device /\ DOMAIN log = Device
        /\ serving = paired \ {Hub} /\ paired \in {{}, Device}
    BY <1>3 DEF InitMisdated
  <2>2. \A d \in Device : disk[d]["income"] = NoData["income"]
    BY <1>3, MonthHasNoIncome DEF InitMisdated
  <2>3. paired = Device \/ \A d \in Device : log[d] = {}
    BY <1>3 DEF InitMisdated
  <2>4. IncomeIsSum
    BY <2>2, NoIncomeIsSum DEF IncomeIsSum
  <2> QED
    BY <2>1, <2>3, <2>4, LedgerAssumption DEF AloneKnowsItself
<1>4. Begins
  BY <1>1, <1>2, <1>3 DEF Init
<1>5. /\ boot = [d \in Device |-> "off"] /\ backups = [d \in Device |-> {}]
      /\ originals = [d \in Device |-> Copied(d)]
  BY DEF Init
<1>6. FilesAsTheyWere
  BY <1>5 DEF FilesAsTheyWere, Copied, Table, Keyed, Settings
<1>7. RowsAreTyped
  BY PairedIsTyped, LegacyBeginsTyped, MisdatedIsTyped DEF Init
<1> QED
  BY <1>4, <1>5, <1>6, <1>7 DEF IInv, Typed, StartsApart

-----------------------------------------------------------------------------

(* Every step keeps the invariant. *)
LEMMA NextKeeps ==
  ASSUME IInv, [Next]_vars
  PROVE  IInv'
<1>1. CASE Next
  <2>1. PICK d \in Device :
          \/ Handlers(d) /\ UNCHANGED startVars
          \/ Starting(d)
          \/ Stop(d) \/ Restore(d) \/ DeleteLog(d) \/ PairAndReset(d)
          \/ RepairDates
    BY <1>1 DEF Next
  <2> QED
    BY <2>1, HandlersKeep, MigrationKeeps, BaselineKeeps, AroundKeeps, RepairKeeps, ResetKeeps
       DEF Starting
<1>2. CASE UNCHANGED vars
  BY <1>2 DEF vars, ledgerVars, startVars, IInv, Typed, StartsApart, AloneKnowsItself,
              IncomeIsSum, FilesAsTheyWere, RowsAreTyped, TypedTables, TypedContent, TypedLog,
              TypedRow
<1> QED
  BY <1>1, <1>2

(* The inductive invariant holds in every reachable state. *)
THEOREM StartupInvariant == Spec => []IInv
<1>1. Init => IInv
  BY InitKeeps
<1>2. IInv /\ [Next]_vars => IInv'
  BY NextKeeps
<1> QED
  BY <1>1, <1>2, PTL DEF Spec

(* The Income row is the sum of the incomes shown, on every device, for    *)
(* any set of devices and any bounds.                                      *)
THEOREM IncomeStaysSum == Spec => []IncomeIsSum
<1>1. IInv => IncomeIsSum
  BY DEF IInv
<1> QED
  BY <1>1, StartupInvariant, PTL

(* A file that was given ids is found in a copy as it was. *)
THEOREM OriginalsStay == Spec => []OriginalsAreKept
<1>1. IInv => OriginalsAreKept
  BY DEF IInv, FilesAsTheyWere, OriginalsAreKept
<1> QED
  BY <1>1, StartupInvariant, PTL

(* Only a hub that never had a peer adds entries of its own in a start, so *)
(* none of them stands against an entry of another device.                 *)
THEOREM StartsOutrankNoPeer == Spec => StartOutranksNoPeer
<1> DEFINE Fresh ==
      \A d \in Device : \A x \in log'[d] \ log[d] :
        boot[d] # "off" /\ x.key.device = d => \A e \in About(Everything, x) : e.key.device = d
<1>1. ASSUME IInv, Next PROVE Fresh
  <2> SUFFICES ASSUME NEW d \in Device, NEW x \in log'[d] \ log[d], boot[d] # "off",
                      x.key.device = d, NEW e \in About(Everything, x)
               PROVE  e.key.device = d
    OBVIOUS
  <2> USE DEF IInv
  <2>1. d \notin serving /\ d \in paired \cup {Hub}
    BY <1>1 DEF StartsApart
  <2>2. d = Hub /\ Hub \notin paired
    <3>1. PICK c \in Device :
            \/ Handlers(c) /\ UNCHANGED startVars
            \/ Starting(c)
            \/ Stop(c) \/ Restore(c) \/ DeleteLog(c) \/ PairAndReset(c)
            \/ RepairDates
      BY ONLY <1>1 DEF Next
    <3>2. CASE Handlers(c)
      BY <1>1, <3>2, <2>1, HandlersOfServing
    <3>3. CASE MigrateRowIds(c) \/ Stop(c) \/ Restore(c) \/ DeleteLog(c)
      BY <1>1, <3>3 DEF MigrateRowIds, Stop, Restore, DeleteLog, Typed
    <3>4. CASE BaselineChangeLog(c) \/ SettingsBaseline(c)
      BY <1>1, <3>4, BaselineRecords
    <3>5. CASE PairAndReset(c)
      BY <1>1, <2>1, <3>5 DEF PairAndReset, Typed
    <3>6. CASE RepairDates
      BY <1>1, <3>6, RepairOfStopped
    <3> QED
      BY <3>1, <3>2, <3>3, <3>4, <3>5, <3>6 DEF Starting
  <2>3. e \in UNION {log[c] : c \in Device}
    BY DEF About, Everything
  <2> QED
    BY <1>1, <2>2, <2>3 DEF AloneKnowsItself
<1>2. ASSUME IInv, [Next]_vars PROVE [Fresh]_vars
  BY <1>1, <1>2
<1> QED
  BY <1>2, StartupInvariant, PTL DEF Spec, StartOutranksNoPeer

-----------------------------------------------------------------------------
(* The plan of a month                                                     *)

(* The rows of what is picked are the rows at the positions. *)
LEMMA RowsPicked ==
  ASSUME NEW sheet \in Seq(SheetRow), NEW P \in SUBSET DOMAIN sheet
  PROVE  ToSet(RowsAt(sheet, P)) = {sheet[i] : i \in P}
<1> DEFINE picked == RowsAt(sheet, P)
<1>1. Len(sheet) \in Nat /\ P \in SUBSET (1..Len(sheet))
  OBVIOUS
<1>2. /\ \A n \in DOMAIN picked : \E i \in P : picked[n] = sheet[i]
      /\ \A i \in P : \E n \in DOMAIN picked : picked[n] = sheet[i]
  BY <1>1, RowsAtPicks
<1> HIDE DEF picked
<1>3. ToSet(picked) = {picked[n] : n \in DOMAIN picked}
  BY DEF ToSet
<1>4. ToSet(picked) \subseteq {sheet[i] : i \in P}
  BY <1>2, <1>3
<1>5. {sheet[i] : i \in P} \subseteq ToSet(picked)
  BY <1>2, <1>3
<1>6. ToSet(picked) = {sheet[i] : i \in P}
  BY <1>4, <1>5
<1> QED
  BY <1>6 DEF picked

(* No positions, no rows. *)
LEMMA NothingPicked ==
  ASSUME NEW sheet \in Seq(SheetRow)
  PROVE  RowsAt(sheet, {}) = <<>>
<1> DEFINE none == {}
<1>1. Len(sheet) \in Nat /\ none \in SUBSET (1..Len(sheet)) /\ Cardinality(none) = 0
  BY FS_EmptySet
<1> HIDE DEF none
<1>2. RowsAt(sheet, none) = [n \in 1..0 |-> RowsAt(sheet, none)[n]]
  BY <1>1, RowsAtPicks
<1>3. RowsAt(sheet, none) = <<>>
  BY <1>2
<1> QED
  BY <1>3 DEF none

(* The templates for which no row stands. *)
Due(expenses, templates) ==
  {i \in DOMAIN templates :
     \A k \in DOMAIN expenses : ~Matches(expenses[k], templates[i], templates)}

(* The plan picks them from the templates. *)
LEMMA PlanPicks ==
  ASSUME NEW expenses, NEW templates, NEW entries
  PROVE  LET due == Due(expenses, templates)
             stays == due \cap StaysDeleted(templates, entries)
         IN PlanForMonth(expenses, templates, entries) =
              [pending |-> RowsAt(templates, due \ stays), skipped |-> RowsAt(templates, stays)]
BY Zenon DEF PlanForMonth, Due

(* A template that was due and has its row now is due no more, and no      *)
(* other one becomes due.                                                  *)
LEMMA AppliedIsNotDue ==
  ASSUME NEW expenses \in Seq(SheetRow), NEW templates \in Seq(SheetRow), NEW entries
  PROVE  LET pending == PlanForMonth(expenses, templates, entries).pending
             once == expenses \o [i \in DOMAIN pending |-> GeneratedRow(pending[i])]
         IN PlanForMonth(once, templates, entries).pending = <<>>
<1> DEFINE stays == StaysDeleted(templates, entries)
           P == Due(expenses, templates) \ (Due(expenses, templates) \cap stays)
           pending == RowsAt(templates, P)
           generated == [i \in DOMAIN pending |-> GeneratedRow(pending[i])]
           once == expenses \o generated
           Q == Due(once, templates) \ (Due(once, templates) \cap stays)
<1>1. PlanForMonth(expenses, templates, entries).pending = pending
  BY PlanPicks
<1>2. PlanForMonth(once, templates, entries).pending = RowsAt(templates, Q)
  BY PlanPicks
<1>3. P \in SUBSET DOMAIN templates /\ P \subseteq Due(expenses, templates)
  BY DEF Due
<1>4. /\ DOMAIN pending = 1..Len(pending) /\ Len(pending) \in Nat
      /\ \A i \in P : \E n \in DOMAIN pending : pending[n] = templates[i]
  <2>1. pending \in Seq(SheetRow)
    BY <1>3, FilterOfKind
  <2>2. Len(templates) \in Nat /\ P \in SUBSET (1..Len(templates))
    BY <1>3
  <2>3. \A i \in P : \E n \in DOMAIN pending : pending[n] = templates[i]
    BY <2>2, RowsAtPicks
  <2> HIDE DEF pending
  <2> QED
    BY <2>1, <2>3
<1> HIDE DEF pending, P
<1>5. /\ \A k \in DOMAIN expenses : k \in DOMAIN once /\ once[k] = expenses[k]
      /\ \A n \in DOMAIN pending :
           \E k \in DOMAIN once : once[k] = GeneratedRow(pending[n])
  <2>1. /\ Len(generated) = Len(pending)
        /\ \A n \in DOMAIN pending : generated[n] = GeneratedRow(pending[n])
    BY <1>4
  <2>2. /\ Len(expenses) \in Nat /\ DOMAIN expenses = 1..Len(expenses)
        /\ DOMAIN once = 1..Len(expenses) + Len(pending)
        /\ \A k \in 1..Len(expenses) : once[k] = expenses[k]
        /\ \A n \in 1..Len(pending) : once[Len(expenses) + n] = generated[n]
    <3> HIDE DEF generated
    <3>1. Len(expenses) \in Nat /\ DOMAIN expenses = 1..Len(expenses)
      OBVIOUS
    <3>2. /\ DOMAIN once = 1..Len(expenses) + Len(pending)
          /\ \A k \in 1..Len(expenses) : once[k] = expenses[k]
      BY <1>4, <2>1, <3>1
    <3>3. \A n \in 1..Len(pending) : once[Len(expenses) + n] = generated[n]
      BY <1>4, <2>1, <3>1
    <3> QED
      BY <3>1, <3>2, <3>3
  <2> HIDE DEF once, generated
  <2>3. \A k \in DOMAIN expenses : k \in DOMAIN once /\ once[k] = expenses[k]
    BY <1>4, <2>2
  <2>4. ASSUME NEW n \in DOMAIN pending
        PROVE  \E k \in DOMAIN once : once[k] = GeneratedRow(pending[n])
    <3>1. Len(expenses) + n \in DOMAIN once
      BY <1>4, <2>2
    <3>2. once[Len(expenses) + n] = GeneratedRow(pending[n])
      BY <1>4, <2>1, <2>2
    <3> QED
      BY <3>1, <3>2
  <2> QED
    BY <2>3, <2>4
<1> HIDE DEF once, generated
<1>6. Due(once, templates) \subseteq Due(expenses, templates)
  BY <1>5 DEF Due
<1>7. ASSUME NEW i \in P PROVE i \notin Due(once, templates)
  <2>1. PICK n \in DOMAIN pending : pending[n] = templates[i]
    BY <1>4
  <2>2. PICK k \in DOMAIN once : once[k] = GeneratedRow(templates[i])
    BY <1>5, <2>1
  <2>3. once[k].id = Derived(templates[i])
    BY <2>2 DEF GeneratedRow, Row
  <2> QED
    BY <2>3 DEF Due, Matches
<1>8. Q = {}
  BY <1>6, <1>7 DEF P
<1>9. RowsAt(templates, Q) = <<>>
  BY <1>8, NothingPicked
<1> HIDE DEF Q
<1> QED
  BY <1>1, <1>2, <1>9 DEF once, generated

(* The month and its templates are tables of rows. *)
LEMMA SheetsOfADevice ==
  ASSUME IInv, NEW d \in Device
  PROVE  disk[d]["expenses"] \in Seq(SheetRow) /\ disk[d]["recurring"] \in Seq(SheetRow)
<1>1. /\ {"expenses", "recurring"} \subseteq Table
      /\ {"expenses", "recurring"} \subseteq SheetTable
  BY DEF Table, Keyed, SheetTable
<1>2. TypedTables(disk[d])
  BY DEF IInv, RowsAreTyped
<1> QED
  BY <1>1, <1>2 DEF TypedTables, TypedContent, RowsOf

(* Applying twice adds nothing to applying once, to any month and with any *)
(* templates.                                                              *)
THEOREM ApplyingTwiceAddsNothing == Spec => []ApplyTwiceAddsNothing
<1>1. ASSUME IInv PROVE ApplyTwiceAddsNothing
  <2>1. ASSUME NEW d \in Device
        PROVE  disk[d]["expenses"] \in Seq(SheetRow) /\ disk[d]["recurring"] \in Seq(SheetRow)
    BY <1>1, SheetsOfADevice
  <2> QED
    BY <2>1, AppliedIsNotDue DEF ApplyTwiceAddsNothing, PlanOf
<1> QED
  BY <1>1, StartupInvariant, PTL

(* Whether the month has the row of one template changes nothing for the   *)
(* templates with other ids.                                               *)
LEMMA OthersStayDue ==
  ASSUME NEW expenses \in Seq(SheetRow), NEW templates \in Seq(SheetRow),
         NEW i \in DOMAIN templates, NEW j \in DOMAIN templates,
         templates[j].id # templates[i].id
  PROVE  j \in Due(expenses, templates)
           <=> j \in Due(RemoveRow(expenses, Derived(templates[i])), templates)
<1> DEFINE gone == Derived(templates[i])
           P == {k \in DOMAIN expenses : expenses[k].id # gone}
           rest == RowsAt(expenses, P)
<1>1. /\ \A n \in DOMAIN rest : \E k \in P : rest[n] = expenses[k]
      /\ \A k \in P : \E n \in DOMAIN rest : rest[n] = expenses[k]
  <2>1. Len(expenses) \in Nat /\ P \in SUBSET (1..Len(expenses))
    OBVIOUS
  <2> HIDE DEF P
  <2> QED
    BY <2>1, RowsAtPicks
<1>2. \A k \in DOMAIN expenses : k \notin P => ~Matches(expenses[k], templates[j], templates)
  <2>1. templates[i].id \in Int /\ templates[j].id \in Int
    <3>1. templates[i] \in SheetRow /\ templates[j] \in SheetRow
      OBVIOUS
    <3> QED
      BY <3>1 DEF SheetRow
  <2>2. gone # Derived(templates[j]) /\ gone \in DerivedIds(templates)
    BY <2>1 DEF Derived, DerivedIds
  <2> QED
    BY <2>2 DEF Matches
<1>3. RemoveRow(expenses, gone) = rest
  BY DEF RemoveRow
<1> HIDE DEF rest, gone
<1>4. \A k \in P : k \in DOMAIN expenses
  OBVIOUS
<1> HIDE DEF P
<1>5. j \in Due(expenses, templates) <=> j \in Due(rest, templates)
  BY <1>1, <1>2, <1>4 DEF Due
<1> QED
  BY <1>3, <1>5 DEF gone

(* So what is planned for the others is the same. *)
LEMMA OthersArePlannedAlike ==
  ASSUME NEW expenses \in Seq(SheetRow), NEW templates \in Seq(SheetRow), NEW entries,
         NEW i \in DOMAIN templates
  PROVE  LET plan == PlanForMonth(expenses, templates, entries)
             without == PlanForMonth(RemoveRow(expenses, Derived(templates[i])), templates, entries)
             Others(rows) == {t \in ToSet(rows) : t.id # templates[i].id}
         IN /\ Others(plan.pending) = Others(without.pending)
            /\ Others(plan.skipped) = Others(without.skipped)
<1> DEFINE rest == RemoveRow(expenses, Derived(templates[i]))
           stays == StaysDeleted(templates, entries)
           Others(rows) == {t \in ToSet(rows) : t.id # templates[i].id}
           Waiting(sheet) == Due(sheet, templates) \ (Due(sheet, templates) \cap stays)
           Staying(sheet) == Due(sheet, templates) \cap stays
<1>1. ASSUME NEW sheet
      PROVE  /\ PlanForMonth(sheet, templates, entries).pending = RowsAt(templates, Waiting(sheet))
             /\ PlanForMonth(sheet, templates, entries).skipped = RowsAt(templates, Staying(sheet))
  BY PlanPicks
<1>2. ASSUME NEW P \in SUBSET DOMAIN templates, NEW Q \in SUBSET DOMAIN templates,
             \A j \in DOMAIN templates : templates[j].id # templates[i].id => (j \in P <=> j \in Q)
      PROVE  Others(RowsAt(templates, P)) = Others(RowsAt(templates, Q))
  <2>1. /\ ToSet(RowsAt(templates, P)) = {templates[j] : j \in P}
        /\ ToSet(RowsAt(templates, Q)) = {templates[j] : j \in Q}
    BY RowsPicked
  <2>2. Others(RowsAt(templates, P)) \subseteq Others(RowsAt(templates, Q))
    BY <1>2, <2>1
  <2>3. Others(RowsAt(templates, Q)) \subseteq Others(RowsAt(templates, P))
    BY <1>2, <2>1
  <2> QED
    BY <2>2, <2>3
<1>3. \A j \in DOMAIN templates : templates[j].id # templates[i].id =>
        (j \in Due(expenses, templates) <=> j \in Due(rest, templates))
  BY OthersStayDue
<1>4. \A sheet : Due(sheet, templates) \subseteq DOMAIN templates
  BY DEF Due
<1> HIDE DEF rest, stays, Others
<1>5. Others(RowsAt(templates, Waiting(expenses))) = Others(RowsAt(templates, Waiting(rest)))
  BY <1>2, <1>3, <1>4
<1>6. Others(RowsAt(templates, Staying(expenses))) = Others(RowsAt(templates, Staying(rest)))
  BY <1>2, <1>3, <1>4
<1>7. /\ Others(PlanForMonth(expenses, templates, entries).pending)
           = Others(PlanForMonth(rest, templates, entries).pending)
      /\ Others(PlanForMonth(expenses, templates, entries).skipped)
           = Others(PlanForMonth(rest, templates, entries).skipped)
  BY <1>1, <1>5, <1>6
<1> QED
  BY <1>7 DEF Others, rest

(* What becomes of a template never depends on the row of another one, for *)
(* any month and any templates a device may hold.                          *)
THEOREM NoTemplateEverMasksAnother == Spec => []NoTemplateMasksAnother
<1>1. ASSUME IInv PROVE NoTemplateMasksAnother
  <2>1. ASSUME NEW d \in Device
        PROVE  disk[d]["expenses"] \in Seq(SheetRow) /\ disk[d]["recurring"] \in Seq(SheetRow)
    BY <1>1, SheetsOfADevice
  <2> QED
    BY <2>1, OthersArePlannedAlike DEF NoTemplateMasksAnother, PlanOf
<1> QED
  BY <1>1, StartupInvariant, PTL

-----------------------------------------------------------------------------
(* Assets and their ids                                                    *)

(* The rows of assets that the upserts among E hold. *)
ContentsIn(E) == {e.content : e \in {x \in E : x.table \in Investments /\ x.op # "delete"}}

Recorded == UNION {ContentsIn(log[d]) : d \in Device}

(* All that is known of assets anywhere. *)
Assets == (UNION {ToSet(disk[d][t]) : d \in Device, t \in Investments}) \cup Recorded

(* One name, one id. *)
OneToOne(R) == \A r, s \in R : r.id # 0 /\ (r.label = s.label <=> r.id = s.id)

Bare(sheet) == \A i \in DOMAIN sheet : sheet[i].id = 0

Apart(sheet) == \A i, j \in DOMAIN sheet : sheet[i].label = sheet[j].label => i = j

LabelsIn(sheet) == {sheet[i].label : i \in DOMAIN sheet}

(* The migration of the hub is not over. *)
Lacking == \E t \in Investments : NeedsRowIds(disk[Hub][t])

(* Until then assets are in its files alone, the same ones in both, and a  *)
(* file has been given all of its ids or none.                             *)
Unsettled ==
  /\ Recorded = {}
  /\ \A d \in Device \ {Hub}, t \in Investments : disk[d][t] = <<>>
  /\ \A t \in Investments :
       /\ Apart(disk[Hub][t])
       /\ Bare(disk[Hub][t]) \/ (OneToOne(ToSet(disk[Hub][t])) /\ file[Hub][t] = "readable")
  /\ LabelsIn(disk[Hub]["holdings"]) = LabelsIn(disk[Hub]["prices"])

AssetsInv == IF Lacking THEN Unsettled ELSE OneToOne(Assets)

(* What leaves the files and records of assets as they are. *)
AssetsStay ==
  /\ \A d \in Device, t \in Investments : disk'[d][t] = disk[d][t]
  /\ \A d \in Device : ContentsIn(log'[d]) \subseteq Recorded
  /\ \A t \in Investments : file[Hub][t] = "readable" => file'[Hub][t] = "readable"

(* That keeps the invariant, before the migration is over and after. *)
LEMMA StayingKeeps ==
  ASSUME AssetsInv, AssetsStay
  PROVE  AssetsInv'
<1>1. Hub \in Device /\ "holdings" \in Investments /\ "prices" \in Investments
  BY LedgerAssumption DEF Investments
<1>2. \A t \in Investments : disk'[Hub][t] = disk[Hub][t]
  BY <1>1 DEF AssetsStay
<1>3. Lacking' = Lacking
  BY <1>2 DEF Lacking
<1>4. Recorded' \subseteq Recorded
  BY DEF AssetsStay, Recorded
<1>5. CASE Lacking
  <2>1. Unsettled'
    <3>1. Recorded' = {} /\ \A d \in Device \ {Hub}, t \in Investments : disk'[d][t] = <<>>
      BY <1>4, <1>5 DEF AssetsInv, Unsettled, AssetsStay
    <3>2. ASSUME NEW t \in Investments
          PROVE  /\ Apart(disk'[Hub][t])
                 /\ \/ Bare(disk'[Hub][t])
                    \/ OneToOne(ToSet(disk'[Hub][t])) /\ file'[Hub][t] = "readable"
      BY <1>2, <1>5 DEF AssetsInv, Unsettled, AssetsStay
    <3>3. LabelsIn(disk'[Hub]["holdings"]) = LabelsIn(disk'[Hub]["prices"])
      BY <1>1, <1>2, <1>5 DEF AssetsInv, Unsettled
    <3> QED
      BY <3>1, <3>2, <3>3 DEF Unsettled
  <2> QED
    BY <1>3, <1>5, <2>1 DEF AssetsInv
<1>6. CASE ~Lacking
  <2>1. Assets' \subseteq Assets
    BY <1>4 DEF Assets, AssetsStay
  <2>2. OneToOne(Assets)
    BY <1>6 DEF AssetsInv
  <2> QED
    BY <1>3, <1>6, <2>1, <2>2 DEF AssetsInv, OneToOne
<1> QED
  BY <1>5, <1>6

(* So does, after it is over, what brings no row of an asset that was not  *)
(* known somewhere.                                                        *)
LEMMA KnownAssetsKeep ==
  ASSUME AssetsInv, ~Lacking,
         \A d \in Device, t \in Investments : ToSet(disk'[d][t]) \subseteq Assets,
         \A d \in Device : ContentsIn(log'[d]) \subseteq Assets
  PROVE  AssetsInv'
<1>1. OneToOne(Assets)
  BY DEF AssetsInv
<1>2. Assets' \subseteq Assets
  <2>1. Recorded' \subseteq Assets
    BY DEF Recorded
  <2> SUFFICES ASSUME NEW r \in Assets', r \notin Recorded' PROVE r \in Assets
    BY <2>1
  <2>2. PICK d \in Device, t \in Investments : r \in ToSet(disk'[d][t])
    BY DEF Assets
  <2> QED
    BY <2>2
<1>3. OneToOne(Assets')
  BY <1>1, <1>2 DEF OneToOne
<1>4. ~Lacking'
  <2>1. ASSUME NEW t \in Investments, NEW i \in DOMAIN disk'[Hub][t] PROVE disk'[Hub][t][i].id # 0
    <3>1. disk'[Hub][t][i] \in ToSet(disk'[Hub][t])
      BY DEF ToSet
    <3>2. disk'[Hub][t][i] \in Assets
      BY <3>1, LedgerAssumption
    <3> QED
      BY <1>1, <3>2 DEF OneToOne
  <2> QED
    BY <2>1 DEF Lacking, NeedsRowIds, IdsIn
<1> QED
  BY <1>3, <1>4 DEF AssetsInv

(* Safe steps save and record nothing about assets. *)
LEMMA SafeStepsLeaveAssets ==
  ASSUME Typed, NEW d \in Device, NEW steps, SafeSteps(d, steps), TypedSteps(steps),
         Completes(d, steps) \/ LosesRecord(d, steps) \/ CutOff(d, steps)
  PROVE  AssetsStay
<1>1. PICK done, lost : /\ Performs(d, steps, done, lost)
                        /\ done \in SUBSET DOMAIN steps
                        /\ \A t \in lost : \E i \in DOMAIN steps : steps[i].table = t
  BY RequestPerforms
<1>2. /\ disk' = [disk EXCEPT ![d] = AfterSaves(@, steps, done)]
      /\ file' = [file EXCEPT ![d] = [t \in Table |->
                    IF t \in lost THEN "torn"
                    ELSE IF SavesOf(t, steps, done) # {} THEN "readable" ELSE @[t]]]
      /\ Appends(d, steps, done)
  BY <1>1 DEF Performs
<1>3. ASSUME NEW t \in Investments
      PROVE  t \in Table /\ SavesOf(t, steps, done) = {} /\ t \notin lost
  BY <1>1 DEF SafeSteps, SavesOf, Investments, Table, Keyed
<1>4. \A e \in Device, t \in Investments : disk'[e][t] = disk[e][t]
  <2>1. \A t \in Investments : AfterSaves(disk[d], steps, done)[t] = disk[d][t]
    BY <1>3 DEF AfterSaves
  <2> QED
    BY <1>2, <2>1 DEF Typed
<1>5. \A t \in Investments : file[Hub][t] = "readable" => file'[Hub][t] = "readable"
  BY <1>2, <1>3
<1>6. \A e \in Device : ContentsIn(log'[e]) \subseteq Recorded
  <2>1. PICK time \in WallClocks(d) :
          log' = [log EXCEPT ![d] = @ \cup {EntryOf(steps[i], [time |-> time + i, device |-> d]) :
                                              i \in {j \in done : ~IsSave(steps[j])}}]
    BY <1>2 DEF Appends
  <2> DEFINE entries == {EntryOf(steps[i], [time |-> time + i, device |-> d]) :
                           i \in {j \in done : ~IsSave(steps[j])}}
  <2>2. \A e \in entries : e.table \notin Investments
    BY <1>1 DEF EntryOf, SafeSteps
  <2> HIDE DEF entries
  <2>3. log' = [log EXCEPT ![d] = @ \cup entries]
    BY <2>1 DEF entries
  <2>4. \A e \in Device : \A x \in log'[e] : x.table \in Investments => x \in log[e]
    BY <2>2, <2>3 DEF Typed
  <2> QED
    BY <2>4 DEF ContentsIn, Recorded
<1> QED
  BY <1>4, <1>5, <1>6 DEF AssetsStay

(* A merge makes of the rows of assets only rows that were there or that   *)
(* entries on one side or the other hold.                                  *)
LEMMA PreparedAssets ==
  ASSUME NEW f, NEW d, NEW batch, TypedLog(batch), NEW t \in Investments, NEW S,
         f[t] \in Seq(S), ContentsIn(log[d]) \subseteq S, ContentsIn(batch) \subseteq S
  PROVE  Prepared(f, d, batch)[t] \in Seq(S)
<1> DEFINE won == [x \in Written(d, batch) |-> Winner(Known(d, batch, x), x)]
           order == Actions(d, batch)
           loaded == {x.table : x \in DOMAIN won}
           all(u) == WithWinners(f[u], u, won, order)
           after == [u \in Table |-> IF u \in loaded THEN all(u) ELSE f[u]]
<1>1. t \in Table /\ t \in SheetTable /\ t \in Keyed /\ t # "income"
  BY DEF Investments, Table, SheetTable, Keyed
<1>2. ASSUME NEW x \in DOMAIN won, x.table = t, ~Deleted(won[x])
      PROVE  Content(won[x]) \in S
  <2>1. PICK e \in log[d] \cup batch :
          /\ e.table = t /\ e.op # "delete"
          /\ e.content = Content(Winner(Known(d, batch, x), x))
    BY <1>1, <1>2, WinnerIsAnEntry
  <2>2. e.content \in ContentsIn(log[d]) \cup ContentsIn(batch)
    BY <2>1 DEF ContentsIn
  <2> QED
    BY <2>1, <2>2
<1>3. \E n \in Nat : DOMAIN order = 1..n
  BY ActionsAreCounted DEF TypedLog
<1>4. Prepared(f, d, batch) = Finish(after, f)
  BY DEF Prepared
<1> HIDE DEF won, order
<1>5. RowsWithWinners(f[t], t, won, order) \in Seq(S)
  BY <1>2, <1>3, RowsWithWinnersAreTyped
<1>6. all(t) = RowsWithWinners(f[t], t, won, order)
  BY DEF WithWinners, Investments, Keyed
<1> HIDE DEF all
<1>7. Finish(after, f)[t] = IF t \in loaded THEN all(t) ELSE f[t]
  BY <1>1 DEF Finish
<1> QED
  BY <1>4, <1>5, <1>6, <1>7

(* Rows of a set, and the set they make. *)
LEMMA RowsAmong ==
  ASSUME NEW S
  PROVE  /\ \A sheet \in Seq(S) : ToSet(sheet) \subseteq S
         /\ \A sheet \in Seq(SheetRow) : ToSet(sheet) \subseteq S => sheet \in Seq(S)
<1>1. \A sheet \in Seq(S) : ToSet(sheet) \subseteq S
  BY DEF ToSet
<1>2. ASSUME NEW sheet \in Seq(SheetRow), ToSet(sheet) \subseteq S PROVE sheet \in Seq(S)
  <2>1. DOMAIN sheet = 1..Len(sheet) /\ Len(sheet) \in Nat /\ \A i \in DOMAIN sheet : sheet[i] \in S
    BY <1>2 DEF ToSet
  <2>2. sheet = [i \in 1..Len(sheet) |-> sheet[i]]
    OBVIOUS
  <2> QED
    BY <2>1, <2>2
<1> QED
  BY <1>1, <1>2

(* Before the migration is over a merge finds the files of assets of the   *)
(* hub without ids and writes neither, and has none to bring; after it, it *)
(* brings those that are known.                                            *)
LEMMA MergesKeepAssets ==
  ASSUME IInv, AssetsInv, NEW from \in Device, NEW to \in Device,
         Merge(from, to) \/ MergeFails(from, to)
  PROVE  AssetsInv'
<1> USE DEF IInv
<1> DEFINE prepared == Prepared(disk[to], to, log[from])
<1>1. PICK written \in SUBSET Table :
        disk' = [disk EXCEPT ![to] = [t \in Table |->
                  IF t \in written THEN prepared[t] ELSE @[t]]]
  BY MergeWrites
<1>2. CanMerge(from, to) /\ UNCHANGED file
  BY DEF Merge, MergeFails
<1>3. \A t \in Investments : t \in Table /\ t \in Keyed
  BY DEF Investments, Table, Keyed
<1>4. \A d \in Device : ContentsIn(log[d]) \subseteq Recorded
  BY DEF Recorded
<1>5. \A d \in Device : ContentsIn(log'[d]) \subseteq Recorded
  <2>1. \A d \in Device : log'[d] \subseteq log[d] \cup log[from]
    BY DEF Merge, MergeFails, Typed
  <2>2. \A d \in Device :
          ContentsIn(log'[d]) \subseteq ContentsIn(log[d]) \cup ContentsIn(log[from])
    BY <2>1 DEF ContentsIn
  <2> QED
    BY <1>4, <2>2
<1>6. \A t \in Investments : disk[to][t] \in Seq(SheetRow)
  BY <1>3, KeyedAreTyped
<1>7. TypedLog(log[from])
  BY DEF RowsAreTyped
<1>8. ASSUME NEW S, Recorded \subseteq S, NEW t \in Investments, disk[to][t] \in Seq(S)
      PROVE  prepared[t] \in Seq(S)
  BY <1>4, <1>7, <1>8, PreparedAssets
<1> HIDE DEF prepared
<1>9. /\ \A d \in Device : d # to => disk'[d] = disk[d]
      /\ \A t \in Investments : disk'[to][t] = prepared[t] \/ disk'[to][t] = disk[to][t]
  BY <1>1, <1>3 DEF Typed
<1>10. CASE Lacking
  <2>1. Unsettled
    BY <1>10 DEF AssetsInv
  <2>2. ASSUME NEW t \in Investments PROVE prepared[t] = disk[to][t]
    <3>1. CASE to = Hub
      <4>1. PICK u \in Investments : NeedsRowIds(disk[Hub][u])
        BY <1>10 DEF Lacking
      <4>2. ~CanLoad(to, u)
        BY <1>3, <3>1, <4>1 DEF CanLoad
      <4>3. ASSUME NEW x \in Written(to, log[from]), x.table = t PROVE FALSE
        <5>1. u \in LoadedWith(x.table)
          BY <4>3 DEF LoadedWith, Investments, Settings
        <5>2. u \in UNION {LoadedWith(y.table) : y \in Written(to, log[from])}
          BY <5>1
        <5> QED
          BY <1>2, <4>2, <5>2 DEF CanMerge
      <4>4. disk[to]["income"] = RecomputeIncome(disk[to]["income"])
        BY DEF IncomeIsSum
      <4> QED
        BY <1>3, <4>3, <4>4, PreparedIsSafe DEF prepared
    <3>2. CASE to # Hub
      <4>1. disk[to][t] = <<>> /\ Recorded = {}
        BY <2>1, <3>2 DEF Unsettled
      <4>2. disk[to][t] \in Seq({})
        BY <4>1
      <4>3. prepared[t] \in Seq({})
        BY <1>8, <4>1, <4>2
      <4> QED
        BY <4>1, <4>3
    <3> QED
      BY <3>1, <3>2
  <2>3. AssetsStay
    BY <1>2, <1>5, <1>9, <2>2 DEF AssetsStay
  <2> QED
    BY <2>3, StayingKeeps
<1>11. CASE ~Lacking
  <2>1. \A d \in Device, t \in Investments : ToSet(disk[d][t]) \subseteq Assets
    BY DEF Assets
  <2>2. Recorded \subseteq Assets
    BY DEF Assets
  <2>3. \A t \in Investments : ToSet(prepared[t]) \subseteq Assets
    <3>1. ASSUME NEW t \in Investments PROVE prepared[t] \in Seq(Assets)
      <4>1. disk[to][t] \in Seq(Assets)
        BY <1>6, <2>1, RowsAmong
      <4> QED
        BY <1>8, <2>2, <4>1
    <3> QED
      BY <3>1, RowsAmong
  <2>4. \A d \in Device, t \in Investments : ToSet(disk'[d][t]) \subseteq Assets
    BY <1>9, <2>1, <2>3
  <2>5. \A d \in Device : ContentsIn(log'[d]) \subseteq Assets
    BY <1>5, <2>2
  <2> QED
    BY <1>11, <2>4, <2>5, KnownAssetsKeep
<1> QED
  BY <1>10, <1>11

(* So every handler keeps the invariant. *)
LEMMA HandlersKeepAssets ==
  ASSUME IInv, AssetsInv, NEW d \in Device, Handlers(d)
  PROVE  AssetsInv'
<1>1. CASE \E steps : SafeSteps(d, steps) /\ TypedSteps(steps) /\ Request(d, steps)
  <2>1. PICK steps : /\ SafeSteps(d, steps) /\ TypedSteps(steps)
                     /\ Completes(d, steps) \/ LosesRecord(d, steps) \/ CutOff(d, steps)
    BY <1>1 DEF Request
  <2>2. AssetsStay
    BY <2>1, SafeStepsLeaveAssets DEF IInv
  <2> QED
    BY <2>2, StayingKeeps
<1> QED
  BY <1>1, HandlersAreSafe, MergesKeepAssets DEF IInv

(* What a start records adds to the log the assets of its steps.           *)
LEMMA RecordsAddAssets ==
  ASSUME Typed, NEW d \in Device, NEW steps, TypedSteps(steps), NEW n \in 0..Len(steps),
         Records(d, steps, n), NEW S,
         \A i \in DOMAIN steps : steps[i].table \in Investments => steps[i].content \in S
  PROVE  /\ UNCHANGED <<disk, file>>
         /\ \A e \in Device : ContentsIn(log'[e]) \subseteq ContentsIn(log[e]) \cup S
<1>1. Appends(d, steps, 1..n) /\ UNCHANGED <<disk, file>>
  BY DEF Records
<1>2. PICK time \in WallClocks(d) :
        log' = [log EXCEPT ![d] = @ \cup {EntryOf(steps[i], [time |-> time + i, device |-> d]) :
                                            i \in {j \in 1..n : ~IsSave(steps[j])}}]
  BY <1>1 DEF Appends
<1> DEFINE entries == {EntryOf(steps[i], [time |-> time + i, device |-> d]) :
                         i \in {j \in 1..n : ~IsSave(steps[j])}}
<1>3. \A e \in entries : e.table \in Investments => e.content \in S
  <2>1. 1..n \subseteq DOMAIN steps
    BY DEF TypedSteps
  <2> QED
    BY <2>1 DEF EntryOf
<1>4. log' = [log EXCEPT ![d] = @ \cup entries]
  BY <1>2
<1> HIDE DEF entries
<1>5. \A e \in Device : \A x \in log'[e] : x \in log[e] \/ x \in entries
  BY <1>4 DEF Typed
<1>6. \A e \in Device : ContentsIn(log'[e]) \subseteq ContentsIn(log[e]) \cup S
  BY <1>3, <1>5 DEF ContentsIn
<1> QED
  BY <1>1, <1>6

(* Before the migration is over no file of assets with rows in it can be   *)
(* loaded, so the baseline records none of them.                           *)
LEMMA NothingLoaded ==
  ASSUME AssetsInv, Lacking, NEW d \in Device, NEW t \in Investments
  PROVE  LoadedRows(d, t) = {}
<1>1. CASE d = Hub
  <2>1. PICK u \in Investments : NeedsRowIds(disk[Hub][u])
    BY DEF Lacking
  <2>2. ~CanLoad(d, u)
    BY <1>1, <2>1 DEF CanLoad, Investments, Keyed
  <2>3. u \in LoadedWith(t)
    BY DEF LoadedWith, Investments, Settings
  <2> QED
    BY <2>2, <2>3 DEF LoadedRows, Loads
<1>2. CASE d # Hub
  <2>1. disk[d][t] = <<>>
    BY <1>2 DEF AssetsInv, Unsettled
  <2> QED
    BY <2>1 DEF LoadedRows, ToSet
<1> QED
  BY <1>1, <1>2

(* The two baselines record what the files hold. *)
LEMMA BaselinesKeepAssets ==
  ASSUME IInv, AssetsInv, NEW d \in Device, BaselineChangeLog(d) \/ SettingsBaseline(d)
  PROVE  AssetsInv'
<1> USE DEF IInv
<1>1. \A e \in Device : ContentsIn(log[e]) \subseteq Recorded
  BY DEF Recorded
<1>2. CASE UNCHANGED <<disk, file, log>>
  <2>1. AssetsStay
    BY <1>1, <1>2 DEF AssetsStay
  <2> QED
    BY <2>1, StayingKeeps
<1>3. ASSUME NEW n \in 0..Len(Pending(d)), Records(d, Pending(d), n)
      PROVE  AssetsInv'
  <2> DEFINE S == UNION {LoadedRows(d, t) : t \in Investments}
  <2>1. \A i \in DOMAIN Pending(d) :
          Pending(d)[i].table \in Investments => Pending(d)[i].content \in S
    <3>1. \A t \in Keyed : \A row \in LoadedRows(d, t) :
            Upsert(t, row).table = t /\ Upsert(t, row).content = row
      BY DEF Upsert, Record
    <3>2. \A c, value : SetCell("income", c, value).table \notin Investments
      BY DEF SetCell, Record, Investments
    <3>3. \A s \in Recordable(d) : s.table \in Investments => s.content \in S
      BY <3>1, <3>2 DEF Recordable
    <3>4. \A i \in DOMAIN Pending(d) : Pending(d)[i] \in Recordable(d)
      BY PendingIsLoaded
    <3> QED
      BY <3>3, <3>4
  <2>2. TypedSteps(Pending(d))
    BY PendingIsTyped
  <2> HIDE DEF S
  <2>3. /\ UNCHANGED <<disk, file>>
        /\ \A e \in Device : ContentsIn(log'[e]) \subseteq ContentsIn(log[e]) \cup S
    BY <1>3, <2>1, <2>2, RecordsAddAssets
  <2>4. CASE Lacking
    <3>1. S = {}
      BY <2>4, NothingLoaded DEF S
    <3>2. AssetsStay
      BY <1>1, <2>3, <3>1 DEF AssetsStay
    <3> QED
      BY <3>2, StayingKeeps
  <2>5. CASE ~Lacking
    <3>1. \A e \in Device, t \in Investments : ToSet(disk[e][t]) \subseteq Assets
      BY DEF Assets
    <3>2. S \subseteq Assets /\ Recorded \subseteq Assets
      BY <3>1 DEF S, LoadedRows, Assets
    <3>3. \A e \in Device, t \in Investments : ToSet(disk'[e][t]) \subseteq Assets
      BY <2>3, <3>1
    <3>4. \A e \in Device : ContentsIn(log'[e]) \subseteq Assets
      BY <1>1, <2>3, <3>2
    <3> QED
      BY <2>5, <3>3, <3>4, KnownAssetsKeep
  <2> QED
    BY <2>4, <2>5
<1>4. ASSUME NEW n \in 0..Len(CurrentSettings(d, Wanted(d))),
             Records(d, CurrentSettings(d, Wanted(d)), n)
      PROVE  AssetsInv'
  <2> DEFINE steps == CurrentSettings(d, Wanted(d))
  <2>1. TypedSteps(steps) /\ \A i \in DOMAIN steps : steps[i].table \notin Investments
    BY SettingsAreTyped
  <2> HIDE DEF steps
  <2>2. n \in 0..Len(steps) /\ Records(d, steps, n)
    BY <1>4 DEF steps
  <2>3. /\ UNCHANGED <<disk, file>>
        /\ \A e \in Device : ContentsIn(log'[e]) \subseteq ContentsIn(log[e]) \cup {}
    BY <2>1, <2>2, RecordsAddAssets
  <2>4. AssetsStay
    BY <1>1, <2>3 DEF AssetsStay
  <2> QED
    BY <2>4, StayingKeeps
<1>5. CASE BaselineChangeLog(d)
  BY <1>2, <1>3, <1>5 DEF BaselineChangeLog, RecordsAndMarks
<1>6. CASE SettingsBaseline(d)
  BY <1>2, <1>4, <1>6 DEF SettingsBaseline, RecordsAndMarks
<1> QED
  BY <1>5, <1>6

(* Nor do a stop, a repair and a lost log concern assets, and a file of    *)
(* them that is put back only gains.                                       *)
LEMMA AroundKeepsAssets ==
  ASSUME IInv, AssetsInv, NEW d \in Device,
         Stop(d) \/ Restore(d) \/ DeleteLog(d) \/ RepairDates
  PROVE  AssetsInv'
<1> USE DEF IInv
<1>1. CASE Stop(d) \/ Restore(d) \/ DeleteLog(d)
  <2>1. disk' = disk /\ \A e \in Device : log'[e] \subseteq log[e]
    BY <1>1 DEF Stop, Restore, DeleteLog, Typed
  <2>2. \A e \in Device : ContentsIn(log'[e]) \subseteq Recorded
    BY <2>1 DEF ContentsIn, Recorded
  <2>3. \A t \in Investments : file[Hub][t] = "readable" => file'[Hub][t] = "readable"
    <3>1. CASE UNCHANGED file
      BY <3>1
    <3>2. CASE Restore(d)
      <4>1. PICK u \in Table : /\ file[d][u] = "unreadable"
                              /\ file' = [file EXCEPT ![d][u] = "readable"]
        BY <3>2 DEF Restore
      <4>2. file' = [file EXCEPT ![d] = [file[d] EXCEPT ![u] = "readable"]]
        BY <4>1
      <4> DEFINE files == [file[d] EXCEPT ![u] = "readable"]
      <4>3. \A t \in Investments : file[d][t] = "readable" => files[t] = "readable"
        OBVIOUS
      <4> HIDE DEF files
      <4>4. file' = [file EXCEPT ![d] = files]
        BY <4>2 DEF files
      <4> QED
        BY <4>3, <4>4
    <3> QED
      BY <1>1, <3>1, <3>2 DEF Stop, DeleteLog
  <2>4. AssetsStay
    BY <2>1, <2>2, <2>3 DEF AssetsStay
  <2> QED
    BY <2>4, StayingKeeps
<1>2. CASE RepairDates
  <2> DEFINE steps == RepairSteps(disk[Hub]["expenses"])
  <2>1. TypedSteps(steps) /\ SafeSteps(Hub, steps)
    BY <1>2, RepairIsSafe
  <2>2. Completes(Hub, steps) \/ LosesRecord(Hub, steps) \/ CutOff(Hub, steps)
    BY <1>2 DEF RepairDates
  <2> HIDE DEF steps
  <2>3. AssetsStay
    BY <2>1, <2>2, SafeStepsLeaveAssets, LedgerAssumption
  <2> QED
    BY <2>3, StayingKeeps
<1> QED
  BY <1>1, <1>2

(* A phone that is reset gets the assets the log of the hub has. *)
LEMMA ResetKeepsAssets ==
  ASSUME IInv, AssetsInv, NEW d \in Device, PairAndReset(d)
  PROVE  AssetsInv'
<1> USE DEF IInv
<1> DEFINE prepared == Prepared(NoData, d, log[Hub])
<1>1. /\ d # Hub /\ Hub \in Device /\ log' = [log EXCEPT ![d] = log[Hub]]
      /\ disk' = [disk EXCEPT ![d] = prepared] /\ UNCHANGED file
  BY LedgerAssumption DEF PairAndReset
<1>2. \A e \in Device : ContentsIn(log[e]) \subseteq Recorded
  BY DEF Recorded
<1>3. \A e \in Device : ContentsIn(log'[e]) \subseteq Recorded
  BY <1>1, <1>2 DEF Typed
<1>4. TypedLog(log[Hub])
  BY <1>1 DEF RowsAreTyped
<1>5. \A t \in Investments : NoData[t] = <<>>
  BY DEF NoData, Investments, Table, Keyed, Settings
<1>6. ASSUME NEW S, Recorded \subseteq S, NEW t \in Investments PROVE prepared[t] \in Seq(S)
  <2>0. <<>> \in Seq(S)
    OBVIOUS
  <2>1. NoData[t] \in Seq(S)
    BY <1>5, <2>0
  <2>2. ContentsIn(log[d]) \subseteq S /\ ContentsIn(log[Hub]) \subseteq S
    BY <1>1, <1>2, <1>6
  <2> QED
    BY <1>4, <2>1, <2>2, PreparedAssets
<1> HIDE DEF prepared
<1>7. disk'[d] = prepared /\ \A e \in Device : e # d => disk'[e] = disk[e]
  BY <1>1 DEF Typed
<1>8. CASE Lacking
  <2>1. Recorded = {} /\ \A t \in Investments : disk[d][t] = <<>>
    BY <1>1, <1>8 DEF AssetsInv, Unsettled
  <2>2. ASSUME NEW t \in Investments PROVE prepared[t] = <<>>
    <3>1. prepared[t] \in Seq({})
      BY <1>6, <2>1
    <3> QED
      BY <3>1
  <2>3. AssetsStay
    BY <1>1, <1>3, <1>7, <2>1, <2>2 DEF AssetsStay
  <2> QED
    BY <2>3, StayingKeeps
<1>9. CASE ~Lacking
  <2>1. \A e \in Device, t \in Investments : ToSet(disk[e][t]) \subseteq Assets
    BY DEF Assets
  <2>2. Recorded \subseteq Assets
    BY DEF Assets
  <2>3. \A t \in Investments : ToSet(prepared[t]) \subseteq Assets
    BY <1>6, <2>2, RowsAmong
  <2>4. \A e \in Device, t \in Investments : ToSet(disk'[e][t]) \subseteq Assets
    BY <1>7, <2>1, <2>3
  <2>5. \A e \in Device : ContentsIn(log'[e]) \subseteq Assets
    BY <1>3, <2>2
  <2> QED
    BY <1>9, <2>4, <2>5, KnownAssetsKeep
<1> QED
  BY <1>8, <1>9

(* The ids another file has for a name are those of rows of that name. *)
LEMMA IdsOfAsset ==
  ASSUME NEW other \in Seq(SheetRow), NEW label
  PROVE  /\ Bare(other) => IdsByAsset(other, label) = <<>>
         /\ \A j \in DOMAIN other : other[j].label = label /\ other[j].id # 0 =>
              IdsByAsset(other, label) # <<>>
         /\ IdsByAsset(other, label) # <<>> => \E j \in DOMAIN other :
              other[j].label = label /\ other[j].id = IdsByAsset(other, label)[1]
<1> DEFINE P == {i \in DOMAIN other : other[i].label = label /\ other[i].id # 0}
           hits == RowsAt(other, P)
           ids == IdsByAsset(other, label)
<1>1. DOMAIN other = 1..Len(other) /\ Len(other) \in Nat /\ P \in SUBSET (1..Len(other))
  OBVIOUS
<1>2. /\ Cardinality(P) \in Nat /\ DOMAIN hits = 1..Cardinality(P)
      /\ \A n \in DOMAIN hits : \E i \in P : hits[n] = other[i]
      /\ \A i \in P : \E n \in DOMAIN hits : hits[n] = other[i]
  BY <1>1, RowsAtPicks
<1>3. ids = [i \in DOMAIN hits |-> hits[i].id]
  BY DEF IdsByAsset
<1>4. \A i \in P : i \in DOMAIN other /\ other[i].label = label /\ other[i].id # 0
  OBVIOUS
<1> HIDE DEF hits, ids
<1>5. ASSUME Bare(other) PROVE ids = <<>>
  <2>1. DOMAIN hits = {}
    BY <1>2, <1>4, <1>5 DEF Bare
  <2> QED
    BY <1>3, <2>1
<1>6. ASSUME NEW j \in DOMAIN other, other[j].label = label, other[j].id # 0 PROVE ids # <<>>
  <2>1. j \in P
    BY <1>6
  <2>2. DOMAIN ids # {}
    BY <1>2, <1>3, <2>1
  <2> QED
    BY <2>2
<1> HIDE DEF P
<1>7. ASSUME ids # <<>>
      PROVE  \E j \in DOMAIN other : other[j].label = label /\ other[j].id = ids[1]
  <2>1. DOMAIN hits # {}
    <3>1. CASE DOMAIN hits = {}
      BY <1>3, <1>7, <3>1
    <3> QED
      BY <3>1
  <2>2. 1 \in DOMAIN hits
    BY <1>2, <2>1
  <2>3. PICK i \in P : hits[1] = other[i]
    BY <1>2, <2>2
  <2>4. ids[1] = other[i].id
    BY <1>3, <2>2, <2>3
  <2> QED
    BY <1>4, <2>4
<1> QED
  BY <1>5, <1>6, <1>7 DEF ids

(* Fresh ids differ from each other and from none. *)
LEMMA FreshIds ==
  ASSUME NEW t \in Keyed
  PROVE  /\ \A i \in Nat : FreshId(t, i) # 0
         /\ \A i, j \in Nat : FreshId(t, i) = FreshId(t, j) => i = j
<1> DEFINE number == CHOOSE n \in 1..4 : <<"expenses", "recurring", "holdings", "prices">>[n] = t
<1>1. \E n \in 1..4 : <<"expenses", "recurring", "holdings", "prices">>[n] = t
  BY DEF Keyed
<1>2. number \in 1..4
  BY <1>1
<1>3. \A i : FreshId(t, i) = 100 * number + i
  BY DEF FreshId
<1> HIDE DEF number
<1> QED
  BY <1>2, <1>3

(* What a file without ids gets: the ids of the other file, name by name,  *)
(* if that has them, and ids of its own if it has none.                    *)
LEMMA FilledAssets ==
  ASSUME NEW t \in Keyed, NEW sheet \in Seq(SheetRow), NEW other \in Seq(SheetRow),
         Bare(sheet), Apart(sheet)
  PROVE  /\ LabelsIn(FillRowIds(sheet, t, other)) = LabelsIn(sheet)
         /\ Apart(FillRowIds(sheet, t, other))
         /\ Bare(other) => OneToOne(ToSet(FillRowIds(sheet, t, other)))
         /\ OneToOne(ToSet(other)) /\ LabelsIn(sheet) \subseteq LabelsIn(other) =>
              OneToOne(ToSet(FillRowIds(sheet, t, other)) \cup ToSet(other))
<1> DEFINE Shared(i) == IdsByAsset(other, sheet[i].label)
           Takes(i) == /\ Shared(i) # <<>> /\ Shared(i)[1] \notin IdsIn(sheet)
                       /\ \A j \in 1..i - 1 : sheet[j].id = 0 /\ Shared(j) # <<>> =>
                                              Shared(j)[1] # Shared(i)[1]
           id == [i \in DOMAIN sheet |-> IF Takes(i) THEN Shared(i)[1] ELSE FreshId(t, i)]
           filled == FillRowIds(sheet, t, other)
<1>1. /\ DOMAIN sheet = 1..Len(sheet) /\ Len(sheet) \in Nat
      /\ \A i \in DOMAIN sheet : sheet[i] \in SheetRow /\ sheet[i].id = 0
  BY DEF Bare
<1>2. filled = [i \in DOMAIN sheet |-> IF sheet[i].id # 0 THEN sheet[i]
                                       ELSE [sheet[i] EXCEPT !.id = id[i]]]
  BY DEF FillRowIds
<1>3. ASSUME NEW i \in DOMAIN sheet
      PROVE  /\ Takes(i) => id[i] = Shared(i)[1]
             /\ ~Takes(i) => id[i] = FreshId(t, i)
  OBVIOUS
<1>4. \A i \in DOMAIN sheet : Takes(i) => Shared(i) # <<>>
  OBVIOUS
<1>5. ASSUME NEW i \in DOMAIN sheet, Shared(i) # <<>>, Shared(i)[1] # 0,
             \A j \in DOMAIN sheet : j # i /\ Shared(j) # <<>> => Shared(j)[1] # Shared(i)[1]
      PROVE  Takes(i)
  <2>1. \A j \in 1..i - 1 : j \in DOMAIN sheet /\ j # i
    BY <1>1
  <2>2. Shared(i)[1] \notin IdsIn(sheet)
    BY <1>1, <1>5 DEF IdsIn
  <2> HIDE DEF Shared
  <2> QED
    BY <1>5, <2>1, <2>2
<1>6. ASSUME NEW i \in DOMAIN sheet
      PROVE  /\ Bare(other) => Shared(i) = <<>>
             /\ \A j \in DOMAIN other : other[j].label = sheet[i].label /\ other[j].id # 0 =>
                  Shared(i) # <<>>
             /\ Shared(i) # <<>> => \E j \in DOMAIN other :
                  other[j].label = sheet[i].label /\ other[j].id = Shared(i)[1]
  BY IdsOfAsset
<1> HIDE DEF id, filled, Shared, Takes
<1>7. /\ DOMAIN filled = DOMAIN sheet
      /\ \A i \in DOMAIN sheet : filled[i].label = sheet[i].label /\ filled[i].id = id[i]
  <2>1. \A row \in SheetRow : \A x : /\ [row EXCEPT !.id = x].label = row.label
                                     /\ [row EXCEPT !.id = x].id = x
    BY DEF SheetRow
  <2> QED
    BY <1>1, <1>2, <2>1
<1>8. LabelsIn(filled) = LabelsIn(sheet)
  BY <1>7 DEF LabelsIn
<1>9. Apart(filled)
  BY <1>7 DEF Apart
<1>10. ASSUME Bare(other) PROVE OneToOne(ToSet(filled))
  <2>1. \A i \in DOMAIN sheet : id[i] = FreshId(t, i) /\ i \in Nat
    BY <1>1, <1>3, <1>4, <1>6, <1>10
  <2>2. \A i, j \in DOMAIN sheet : id[i] # 0 /\ (id[i] = id[j] => i = j)
    BY <2>1, FreshIds
  <2>3. \A i, j \in DOMAIN filled :
          filled[i].id # 0 /\ (filled[i].label = filled[j].label <=> filled[i].id = filled[j].id)
    BY <1>7, <1>9, <2>2 DEF Apart
  <2> QED
    BY <2>3 DEF OneToOne, ToSet
<1>11. ASSUME OneToOne(ToSet(other)), LabelsIn(sheet) \subseteq LabelsIn(other)
       PROVE  OneToOne(ToSet(filled) \cup ToSet(other))
  <2>1. \A j \in DOMAIN other : other[j] \in ToSet(other)
    BY DEF ToSet
  <2>2. \A j, k \in DOMAIN other :
          other[j].id # 0 /\ (other[j].label = other[k].label <=> other[j].id = other[k].id)
    BY <1>11, <2>1 DEF OneToOne
  <2>3. ASSUME NEW i \in DOMAIN sheet
        PROVE  \E j \in DOMAIN other : other[j].label = sheet[i].label
    BY <1>11 DEF LabelsIn
  <2>4. \A i \in DOMAIN sheet : Shared(i) # <<>>
    BY <1>6, <2>2, <2>3
  <2>5. \A i \in DOMAIN sheet : \E j \in DOMAIN other :
          other[j].label = sheet[i].label /\ other[j].id = Shared(i)[1]
    BY <1>6, <2>4
  <2>6. ASSUME NEW i \in DOMAIN sheet PROVE Takes(i)
    <3>1. Shared(i)[1] # 0
      BY <2>2, <2>5
    <3>2. \A j \in DOMAIN sheet : j # i => Shared(j)[1] # Shared(i)[1]
      BY <2>2, <2>5 DEF Apart
    <3> QED
      BY <1>5, <2>4, <3>1, <3>2
  <2>7. \A r \in ToSet(filled) : \E q \in ToSet(other) : q.label = r.label /\ q.id = r.id
    <3>1. ASSUME NEW i \in DOMAIN sheet
          PROVE  \E q \in ToSet(other) : q.label = filled[i].label /\ q.id = filled[i].id
      BY <1>3, <1>7, <2>1, <2>5, <2>6
    <3> QED
      BY <1>7, <3>1 DEF ToSet
  <2>8. \A r \in ToSet(filled) \cup ToSet(other) :
          \E q \in ToSet(other) : q.label = r.label /\ q.id = r.id
    BY <2>7
  <2> QED
    BY <1>11, <2>8 DEF OneToOne
<1> QED
  BY <1>8, <1>9, <1>10, <1>11 DEF filled

(* What the migration of a device makes of the two files of assets. *)
Fills(d, t) == NeedsRowIds(ReadOrSkip(d, t))

FilledHoldings(d) == FillRowIds(disk[d]["holdings"], "holdings", ReadOrSkip(d, "prices"))

HoldingsThen(d) == IF Fills(d, "holdings") THEN FilledHoldings(d) ELSE ReadOrSkip(d, "holdings")

FilledPrices(d) == FillRowIds(disk[d]["prices"], "prices", HoldingsThen(d))

(* A sequence of at most two steps, a first if v holds it and b if w does. *)
OfTwo(s, a, v, b, w) ==
  /\ Len(s) \in 0..2 /\ DOMAIN s = 1..Len(s) /\ s \in Seq({a, b})
  /\ \A i \in DOMAIN s : (s[i] = a /\ v = <<a>>) \/ (s[i] = b /\ w = <<b>>)
  /\ v = <<a>> => 1 \in DOMAIN s /\ s[1] = a

(* One step or none and then another or none make such a sequence. *)
LEMMA OneAfterAnother ==
  ASSUME NEW a, NEW b, NEW v \in {<<>>, <<a>>}, NEW w \in {<<>>, <<b>>}
  PROVE  OfTwo(v \o w, a, v, b, w)
<1> DEFINE S == {a, b}
<1>1. a \in S /\ b \in S
  OBVIOUS
<1> HIDE DEF S
<1>2. v \in Seq(S) /\ w \in Seq(S)
  BY <1>1, OneOrNone
<1>3. /\ Len(v) \in 0..1 /\ (\A i \in 1..Len(v) : v[i] = a /\ v = <<a>>)
      /\ v = <<a>> => Len(v) = 1
  OBVIOUS
<1>4. /\ Len(w) \in 0..1 /\ (\A i \in 1..Len(w) : w[i] = b /\ w = <<b>>)
      /\ w = <<b>> => Len(w) = 1
  OBVIOUS
<1> DEFINE s == v \o w
<1>5. s \in Seq(S)
  BY ONLY <1>2
<1>6. Len(s) = Len(v) + Len(w)
  BY ONLY <1>2
<1>7. /\ \A i \in 1..Len(v) : s[i] = v[i]
      /\ \A i \in Len(v) + 1..Len(v) + Len(w) : s[i] = w[i - Len(v)]
  BY ONLY <1>2
<1> HIDE DEF s
<1>8. DOMAIN s = 1..Len(s) /\ Len(s) \in 0..2
  BY ONLY <1>3, <1>4, <1>5, <1>6
<1>9. ASSUME NEW i \in DOMAIN s
      PROVE  \/ s[i] = a /\ v = <<a>>
             \/ s[i] = b /\ w = <<b>>
  <2>1. CASE i \in 1..Len(v)
    BY ONLY <1>3, <1>7, <2>1
  <2>2. CASE i \in Len(v) + 1..Len(v) + Len(w)
    <3>1. i - Len(v) \in 1..Len(w)
      BY ONLY <1>3, <1>4, <2>2
    <3> QED
      BY ONLY <1>4, <1>7, <2>2, <3>1
  <2> QED
    BY ONLY <1>3, <1>4, <1>6, <1>8, <1>9, <2>1, <2>2
<1>10. v = <<a>> => 1 \in DOMAIN s /\ s[1] = a
  BY ONLY <1>3, <1>4, <1>6, <1>7, <1>8
<1> QED
  BY ONLY <1>5, <1>8, <1>9, <1>10 DEF s, S, OfTwo

(* The prices are the last file it writes. *)
LEMMA MigrationOfAssets ==
  ASSUME RowsAreTyped, NEW d \in Device, NEW n \in 0..Len(PlanYear(d)), NEW after,
         after = AfterSaves(disk[d], PlanYear(d), 1..n)
  PROVE  /\ \/ after["holdings"] = disk[d]["holdings"]
            \/ Fills(d, "holdings") /\ after["holdings"] = FilledHoldings(d)
         /\ \/ after["prices"] = disk[d]["prices"]
            \/ /\ Fills(d, "prices") /\ after["prices"] = FilledPrices(d)
               /\ Fills(d, "holdings") => after["holdings"] = FilledHoldings(d)
<1> DEFINE plan == PlanYear(d)
           holdings == PlanInvestmentFile(d, "holdings", ReadOrSkip(d, "prices"))
           save3 == Save("holdings", FilledHoldings(d))
           save4 == Save("prices", FilledPrices(d))
           w1 == FillIfNeeded(d, "expenses", <<>>)
           w2 == FillIfNeeded(d, "recurring", <<>>)
           w3 == IF Fills(d, "holdings") THEN <<save3>> ELSE <<>>
           w4 == IF Fills(d, "prices") THEN <<save4>> ELSE <<>>
<1>1. holdings.writes = w3 /\ holdings.sheet = HoldingsThen(d)
  <2>1. holdings.writes = w3
    BY DEF PlanInvestmentFile, FillIfNeeded, Fills, FilledHoldings
  <2>2. holdings.sheet = IF w3 = <<>> THEN ReadOrSkip(d, "holdings") ELSE w3[1].content
    BY <2>1 DEF PlanInvestmentFile
  <2>3. save3.content = FilledHoldings(d)
    BY DEF Save
  <2> HIDE DEF save3, holdings
  <2>4. CASE Fills(d, "holdings")
    <3>1. w3 = <<save3>> /\ w3 # <<>> /\ w3[1] = save3
      BY <2>4
    <3> QED
      BY <2>1, <2>2, <2>3, <2>4, <3>1 DEF HoldingsThen
  <2>5. CASE ~Fills(d, "holdings")
    BY <2>1, <2>2, <2>5 DEF HoldingsThen
  <2> QED
    BY <2>4, <2>5
<1>2. PlanInvestmentFile(d, "prices", holdings.sheet).writes = w4
  <2> HIDE DEF holdings
  <2> QED
    BY <1>1 DEF PlanInvestmentFile, FillIfNeeded, Fills, FilledPrices
<1>3. plan = w1 \o w2 \o (w3 \o w4)
  BY <1>1, <1>2 DEF PlanYear, PlanInvestments
<1>4. PICK c1 : w1 \in {<<>>, <<Save("expenses", c1)>>}
  BY DEF FillIfNeeded
<1>5. PICK c2 : w2 \in {<<>>, <<Save("recurring", c2)>>}
  BY DEF FillIfNeeded
<1> DEFINE S == {Save("expenses", c1), Save("recurring", c2)}
           u == w1 \o w2
<1>6. \A s \in S : s.table \notin Investments
  BY DEF Save, Investments
<1>7. /\ save3.table = "holdings" /\ save3.content = FilledHoldings(d) /\ IsSave(save3)
      /\ save4.table = "prices" /\ save4.content = FilledPrices(d) /\ IsSave(save4)
  BY DEF Save, IsSave
<1> HIDE DEF w1, w2, save3, save4
<1>8. u \in Seq(S)
  <2>1. Save("expenses", c1) \in S /\ Save("recurring", c2) \in S
    OBVIOUS
  <2> HIDE DEF S
  <2>2. w1 \in Seq(S) /\ w2 \in Seq(S)
    BY <1>4, <1>5, <2>1, OneOrNone
  <2> QED
    BY <2>2
<1>9. /\ Len(u) \in Nat /\ DOMAIN u = 1..Len(u)
      /\ \A i \in DOMAIN u : u[i].table \notin Investments
  <2> HIDE DEF S, u
  <2> QED
    BY <1>6, <1>8
<1>10. plan = u \o (w3 \o w4)
  BY <1>3
<1> HIDE DEF u, S
<1> DEFINE tail == w3 \o w4
<1>11. /\ w3 \in {<<>>, <<save3>>} /\ w4 \in {<<>>, <<save4>>}
       /\ w3 = <<save3>> <=> Fills(d, "holdings")
       /\ w4 = <<save4>> <=> Fills(d, "prices")
  <2>1. <<>> # <<save3>> /\ <<>> # <<save4>>
    OBVIOUS
  <2> QED
    BY <2>1
<1>t. tail = w3 \o w4
  OBVIOUS
<1> HIDE DEF tail, plan, w3, w4
<1>12. /\ Len(tail) \in 0..2 /\ DOMAIN tail = 1..Len(tail) /\ tail \in Seq({save3, save4})
       /\ \A i \in DOMAIN tail : \/ tail[i] = save3 /\ Fills(d, "holdings")
                                 \/ tail[i] = save4 /\ Fills(d, "prices")
       /\ Fills(d, "holdings") => 1 \in DOMAIN tail /\ tail[1] = save3
  <2>1. OfTwo(w3 \o w4, save3, w3, save4, w4)
    BY ONLY <1>11, Zenon, OneAfterAnother
  <2>2. OfTwo(tail, save3, w3, save4, w4)
    BY ONLY <1>t, <2>1
  <2> QED
    BY ONLY <1>11, <2>2 DEF OfTwo
<1>13. tail \in Seq({save3, save4}) /\ u \in Seq(S)
  BY <1>8, <1>12
<1>14. /\ Len(plan) = Len(u) + Len(tail) /\ DOMAIN plan = 1..Len(u) + Len(tail)
       /\ \A i \in 1..Len(u) : plan[i] = u[i]
       /\ \A i \in Len(u) + 1..Len(u) + Len(tail) : plan[i] = tail[i - Len(u)]
  BY <1>10, <1>13 DEF tail
<1>15. ASSUME NEW i \in DOMAIN plan
       PROVE  /\ plan[i].table = "holdings" => plan[i] = save3 /\ Fills(d, "holdings")
              /\ plan[i].table = "prices" =>
                   /\ plan[i] = save4 /\ Fills(d, "prices") /\ i > Len(u)
                   /\ Fills(d, "holdings") => i > Len(u) + 1
  <2>1. CASE i \in 1..Len(u)
    BY <1>9, <1>14, <2>1 DEF Investments
  <2>2. CASE i \in Len(u) + 1..Len(u) + Len(tail)
    <3>1. i - Len(u) \in DOMAIN tail /\ plan[i] = tail[i - Len(u)]
      BY <1>9, <1>12, <1>14, <2>2
    <3>2. Fills(d, "holdings") /\ plan[i].table = "prices" => i - Len(u) # 1
      BY <1>7, <1>12, <3>1
    <3> QED
      BY <1>7, <1>9, <1>12, <2>2, <3>1, <3>2
  <2> QED
    BY <1>9, <1>12, <1>14, <2>1, <2>2
<1>16. ASSUME NEW t \in Investments, SavesOf(t, plan, 1..n) # {}
       PROVE  \E i \in SavesOf(t, plan, 1..n) : after[t] = plan[i].content
  <2> DEFINE saves == SavesOf(t, plan, 1..n)
  <2>1. t \in Table
    BY DEF Investments, Table, Keyed
  <2>2. after[t] = plan[Max(saves)].content
    BY <1>16, <2>1 DEF AfterSaves, plan
  <2>3. saves \in SUBSET (0..Len(plan)) /\ Len(plan) \in Nat
    BY <1>9, <1>12, <1>14 DEF SavesOf
  <2>4. saves # {}
    BY <1>16
  <2> HIDE DEF saves
  <2>5. PICK k \in saves : \A m \in saves : m <= k
    BY <2>3, <2>4, GreatestUpTo
  <2>6. \A m \in saves : k >= m
    BY <2>3, <2>5
  <2>7. Max(saves) \in saves
    BY <2>5, <2>6 DEF Max
  <2> QED
    BY <2>2, <2>7 DEF saves
<1>17. \A t \in Investments : SavesOf(t, plan, 1..n) = {} => after[t] = disk[d][t]
  BY DEF AfterSaves, plan, Investments, Table, Keyed
<1>18. \A t : \A i \in SavesOf(t, plan, 1..n) : i \in DOMAIN plan /\ i \in 1..n /\ plan[i].table = t
  BY DEF SavesOf
<1>19. {"holdings", "prices"} = Investments
  BY DEF Investments
<1>20. \/ after["holdings"] = disk[d]["holdings"]
       \/ Fills(d, "holdings") /\ after["holdings"] = FilledHoldings(d)
  <2>1. CASE SavesOf("holdings", plan, 1..n) = {}
    BY <1>17, <1>19, <2>1
  <2>2. CASE SavesOf("holdings", plan, 1..n) # {}
    <3>1. PICK i \in SavesOf("holdings", plan, 1..n) : after["holdings"] = plan[i].content
      BY <1>16, <1>19, <2>2
    <3> QED
      BY <1>7, <1>15, <1>18, <3>1
  <2> QED
    BY <2>1, <2>2
<1>21. CASE SavesOf("prices", plan, 1..n) = {}
  BY <1>17, <1>19, <1>20, <1>21
<1>22. CASE SavesOf("prices", plan, 1..n) # {}
  <2>1. PICK i \in SavesOf("prices", plan, 1..n) : after["prices"] = plan[i].content
    BY <1>16, <1>19, <1>22
  <2>2. /\ Fills(d, "prices") /\ after["prices"] = FilledPrices(d)
        /\ Fills(d, "holdings") => i > Len(u) + 1
    BY <1>7, <1>15, <1>18, <2>1
  <2>3. ASSUME Fills(d, "holdings") PROVE after["holdings"] = FilledHoldings(d)
    <3>1. Len(u) + 1 \in 1..n /\ Len(u) + 1 \in DOMAIN plan
      BY <1>9, <1>12, <1>14, <1>18, <2>1, <2>2, <2>3
    <3>2. plan[Len(u) + 1] = save3
      BY <1>9, <1>12, <1>14, <2>3
    <3>3. Len(u) + 1 \in SavesOf("holdings", plan, 1..n)
      BY <1>7, <3>1, <3>2 DEF SavesOf
    <3>4. PICK k \in SavesOf("holdings", plan, 1..n) : after["holdings"] = plan[k].content
      BY <1>16, <1>19, <3>3
    <3> QED
      BY <1>7, <1>15, <1>18, <3>4
  <2> QED
    BY <1>20, <2>2, <2>3
<1> QED
  BY <1>21, <1>22

(* The migration is over when every row of the two files of the hub has an *)
(* id, one for each name.                                                  *)
LEMMA SettledAssets ==
  ASSUME Unsettled, log' = log,
         \A d \in Device \ {Hub}, t \in Investments : disk'[d][t] = disk[d][t],
         OneToOne(ToSet(disk'[Hub]["holdings"]) \cup ToSet(disk'[Hub]["prices"]))
  PROVE  AssetsInv'
<1> DEFINE rows == ToSet(disk'[Hub]["holdings"]) \cup ToSet(disk'[Hub]["prices"])
<1>1. \A t \in Investments : ToSet(disk'[Hub][t]) \subseteq rows
  BY DEF Investments
<1>2. OneToOne(rows)
  OBVIOUS
<1> HIDE DEF rows
<1>3. ASSUME NEW t \in Investments PROVE ~NeedsRowIds(disk'[Hub][t])
  <2>1. \A i \in DOMAIN disk'[Hub][t] : disk'[Hub][t][i].id # 0
    BY <1>1, <1>2 DEF ToSet, OneToOne
  <2> QED
    BY <2>1 DEF NeedsRowIds, IdsIn
<1>4. ~Lacking'
  BY <1>3 DEF Lacking
<1>5. Recorded' = {}
  BY DEF Unsettled, Recorded
<1>6. \A d \in Device, t \in Investments : ToSet(disk'[d][t]) \subseteq rows
  <2>1. \A d \in Device \ {Hub}, t \in Investments : disk'[d][t] = <<>>
    BY DEF Unsettled
  <2>2. ToSet(<<>>) = {}
    BY DEF ToSet
  <2> QED
    BY <1>1, <2>1, <2>2
<1>7. Assets' \subseteq rows
  BY <1>5, <1>6 DEF Assets
<1>8. OneToOne(Assets')
  BY <1>2, <1>7 DEF OneToOne
<1>9. AssetsInv' = OneToOne(Assets')
  BY <1>4 DEF AssetsInv
<1> QED
  BY <1>8, <1>9

(* A migration cut short has given one of the two files its ids and left   *)
(* the other as it was.                                                    *)
LEMMA HalfFilled ==
  ASSUME Unsettled, log' = log, file' = file,
         \A d \in Device \ {Hub}, t \in Investments : disk'[d][t] = disk[d][t],
         NEW t \in Investments, NEW u \in Investments, t # u,
         disk'[Hub][u] = disk[Hub][u], Bare(disk[Hub][u]), DOMAIN disk[Hub][u] # {},
         OneToOne(ToSet(disk'[Hub][t])), file[Hub][t] = "readable",
         Apart(disk'[Hub][t]), LabelsIn(disk'[Hub][t]) = LabelsIn(disk[Hub][t])
  PROVE  AssetsInv'
<1>1. NeedsRowIds(disk'[Hub][u])
  BY DEF NeedsRowIds, IdsIn, Bare
<1>2. Lacking'
  BY <1>1 DEF Lacking
<1>3. Recorded' = {} /\ \A d \in Device \ {Hub}, v \in Investments : disk'[d][v] = <<>>
  BY DEF Unsettled, Recorded
<1>4. \A v \in Investments : v = t \/ v = u
  BY DEF Investments
<1>5. ASSUME NEW v \in Investments
      PROVE  /\ Apart(disk'[Hub][v])
             /\ \/ Bare(disk'[Hub][v])
                \/ OneToOne(ToSet(disk'[Hub][v])) /\ file'[Hub][v] = "readable"
  BY <1>4 DEF Unsettled
<1>6. \A v \in Investments : LabelsIn(disk'[Hub][v]) = LabelsIn(disk[Hub][v])
  BY <1>4
<1>7. LabelsIn(disk'[Hub]["holdings"]) = LabelsIn(disk'[Hub]["prices"])
  BY <1>6 DEF Unsettled, Investments
<1>8. Unsettled'
  BY <1>3, <1>5, <1>7 DEF Unsettled
<1> QED
  BY <1>2, <1>8 DEF AssetsInv

(* The migration of row ids, cut short or not: what lacks ids gets the ids *)
(* of the other file if that has them.                                     *)
LEMMA MigrationKeepsAssets ==
  ASSUME IInv, AssetsInv, NEW d \in Device, MigrateRowIds(d)
  PROVE  AssetsInv'
<1> USE DEF IInv
<1>1. log' = log /\ file' = file
  BY DEF MigrateRowIds
<1>2. ASSUME \A e \in Device, t \in Investments : disk'[e][t] = disk[e][t] PROVE AssetsInv'
  <2>1. AssetsStay
    BY <1>1, <1>2 DEF AssetsStay, Recorded
  <2> QED
    BY <2>1, StayingKeeps
<1>3. CASE UNCHANGED disk
  BY <1>2, <1>3
<1>4. ASSUME NEW n \in 0..Len(PlanYear(d)),
             disk' = [disk EXCEPT ![d] = AfterSaves(@, PlanYear(d), 1..n)]
      PROVE  AssetsInv'
  <2> DEFINE after == AfterSaves(disk[d], PlanYear(d), 1..n)
  <2>1. disk' = [disk EXCEPT ![d] = after]
    BY <1>4
  <2>2. /\ \/ after["holdings"] = disk[d]["holdings"]
           \/ Fills(d, "holdings") /\ after["holdings"] = FilledHoldings(d)
        /\ \/ after["prices"] = disk[d]["prices"]
           \/ /\ Fills(d, "prices") /\ after["prices"] = FilledPrices(d)
              /\ Fills(d, "holdings") => after["holdings"] = FilledHoldings(d)
    BY MigrationOfAssets
  <2> HIDE DEF after
  <2>3. disk'[d] = after /\ \A e \in Device : e # d => disk'[e] = disk[e]
    BY <2>1 DEF Typed
  <2>4. CASE ~Fills(d, "holdings") /\ ~Fills(d, "prices")
    <3>1. \A t \in Investments : after[t] = disk[d][t]
      BY <2>2, <2>4 DEF Investments
    <3> QED
      BY <1>2, <2>3, <3>1
  <2>5. ASSUME d # Hub \/ ~Lacking, NEW t \in Investments PROVE ~Fills(d, t)
    <3>1. CASE ~Lacking
      <4>1. \A row \in ToSet(disk[d][t]) : row.id # 0
        BY <3>1 DEF AssetsInv, OneToOne, Assets
      <4> QED
        BY <4>1 DEF Fills, ReadOrSkip, NeedsRowIds, IdsIn, ToSet
    <3>2. CASE Lacking /\ d # Hub
      <4>1. disk[d][t] = <<>>
        BY <3>2 DEF AssetsInv, Unsettled
      <4> QED
        BY <4>1 DEF Fills, ReadOrSkip, NeedsRowIds, IdsIn
    <3> QED
      BY <2>5, <3>1, <3>2
  <2>6. CASE d = Hub /\ Lacking
    <3>1. Unsettled
      BY <2>6 DEF AssetsInv
    <3>2. \A e \in Device \ {Hub}, t \in Investments : disk'[e][t] = disk[e][t]
      BY <2>3, <2>6
    <3> DEFINE H0 == disk[Hub]["holdings"]
               P0 == disk[Hub]["prices"]
               H1 == FilledHoldings(Hub)
               P1 == FilledPrices(Hub)
               ReadH == ReadOrSkip(Hub, "holdings")
               ReadP == ReadOrSkip(Hub, "prices")
               OkH == OneToOne(ToSet(H0)) /\ file[Hub]["holdings"] = "readable"
               OkP == OneToOne(ToSet(P0)) /\ file[Hub]["prices"] = "readable"
    <3>3. /\ disk'[Hub]["holdings"] = after["holdings"]
          /\ disk'[Hub]["prices"] = after["prices"]
      BY <2>3, <2>6
    <3>4. /\ Apart(H0) /\ Apart(P0) /\ LabelsIn(H0) = LabelsIn(P0)
          /\ Bare(H0) \/ OkH
          /\ Bare(P0) \/ OkP
      BY <3>1 DEF Unsettled, Investments
    <3>5. ASSUME NEW t \in Investments
          PROVE  /\ disk[Hub][t] \in Seq(SheetRow) /\ ReadOrSkip(Hub, t) \in Seq(SheetRow)
                 /\ Bare(disk[Hub][t]) => Bare(ReadOrSkip(Hub, t))
                 /\ file[Hub][t] = "readable" => ReadOrSkip(Hub, t) = disk[Hub][t]
                 /\ file[Hub][t] # "readable" => ReadOrSkip(Hub, t) = <<>>
                 /\ Fills(Hub, t) => /\ file[Hub][t] = "readable"
                                     /\ DOMAIN disk[Hub][t] # {}
                                     /\ ~OneToOne(ToSet(disk[Hub][t]))
      <4>1. disk[Hub][t] \in Seq(SheetRow)
        BY LedgerAssumption, KeyedAreTyped DEF Investments, Keyed
      <4>2. <<>> \in Seq(SheetRow) /\ Bare(<<>>)
        BY DEF Bare
      <4>3. Fills(Hub, t) => file[Hub][t] = "readable" /\ 0 \in IdsIn(disk[Hub][t])
        BY DEF Fills, ReadOrSkip, NeedsRowIds, IdsIn
      <4>4. 0 \in IdsIn(disk[Hub][t]) =>
              DOMAIN disk[Hub][t] # {} /\ ~OneToOne(ToSet(disk[Hub][t]))
        BY DEF IdsIn, OneToOne, ToSet
      <4> QED
        BY <4>1, <4>2, <4>3, <4>4 DEF ReadOrSkip
    <3>6. "holdings" \in Investments /\ "prices" \in Investments
          /\ "holdings" \in Keyed /\ "prices" \in Keyed
      BY DEF Investments, Keyed
    <3>7. /\ H0 \in Seq(SheetRow) /\ P0 \in Seq(SheetRow)
          /\ ReadH \in Seq(SheetRow) /\ ReadP \in Seq(SheetRow)
          /\ Bare(H0) => Bare(ReadH)
          /\ Bare(P0) => Bare(ReadP)
          /\ OkH => ReadH = H0
          /\ OkP => ReadP = P0
          /\ Fills(Hub, "holdings") => DOMAIN H0 # {} /\ Bare(H0)
                                       /\ file[Hub]["holdings"] = "readable"
          /\ Fills(Hub, "prices") => DOMAIN P0 # {} /\ Bare(P0)
                                     /\ file[Hub]["prices"] = "readable"
      BY <3>4, <3>5, <3>6
    <3>8. LabelsIn(H0) = LabelsIn(P0) => (DOMAIN H0 # {} <=> DOMAIN P0 # {})
      BY DEF LabelsIn
    <3>9. ASSUME Fills(Hub, "holdings")
          PROVE  /\ LabelsIn(H1) = LabelsIn(H0) /\ Apart(H1)
                 /\ Bare(ReadP) => OneToOne(ToSet(H1))
                 /\ OkP => OneToOne(ToSet(H1) \cup ToSet(P0))
      <4> HIDE DEF OkP
      <4>1. H1 = FillRowIds(H0, "holdings", ReadP)
        BY DEF FilledHoldings
      <4>2. OkP => OneToOne(ToSet(P0))
        BY DEF OkP
      <4> HIDE DEF H0, P0, H1, ReadP, ReadH
      <4>3. H0 \in Seq(SheetRow) /\ ReadP \in Seq(SheetRow) /\ Bare(H0) /\ Apart(H0)
        BY <3>4, <3>7, <3>9
      <4>4. /\ LabelsIn(FillRowIds(H0, "holdings", ReadP)) = LabelsIn(H0)
            /\ Apart(FillRowIds(H0, "holdings", ReadP))
            /\ Bare(ReadP) => OneToOne(ToSet(FillRowIds(H0, "holdings", ReadP)))
            /\ OneToOne(ToSet(ReadP)) /\ LabelsIn(H0) \subseteq LabelsIn(ReadP) =>
                 OneToOne(ToSet(FillRowIds(H0, "holdings", ReadP)) \cup ToSet(ReadP))
        BY ONLY <3>6, <4>3, Zenon, FilledAssets
      <4> QED
        BY <3>4, <3>7, <4>1, <4>2, <4>4
    <3>10. ASSUME Fills(Hub, "prices"), NEW other \in Seq(SheetRow), HoldingsThen(Hub) = other
           PROVE  /\ LabelsIn(P1) = LabelsIn(P0) /\ Apart(P1)
                  /\ Bare(other) => OneToOne(ToSet(P1))
                  /\ OneToOne(ToSet(other)) /\ LabelsIn(P0) \subseteq LabelsIn(other) =>
                       OneToOne(ToSet(P1) \cup ToSet(other))
      <4>1. P1 = FillRowIds(P0, "prices", other)
        BY <3>10 DEF FilledPrices
      <4> HIDE DEF H0, P0, P1, ReadP, ReadH, OkH, OkP
      <4>2. P0 \in Seq(SheetRow) /\ Bare(P0) /\ Apart(P0)
        BY <3>4, <3>7, <3>10
      <4>3. /\ LabelsIn(FillRowIds(P0, "prices", other)) = LabelsIn(P0)
            /\ Apart(FillRowIds(P0, "prices", other))
            /\ Bare(other) => OneToOne(ToSet(FillRowIds(P0, "prices", other)))
            /\ OneToOne(ToSet(other)) /\ LabelsIn(P0) \subseteq LabelsIn(other) =>
                 OneToOne(ToSet(FillRowIds(P0, "prices", other)) \cup ToSet(other))
        BY ONLY <3>6, <3>10, <4>2, Zenon, FilledAssets
      <4> QED
        BY <4>1, <4>3
    <3>11. HoldingsThen(Hub) = IF Fills(Hub, "holdings") THEN H1 ELSE ReadH
      BY DEF HoldingsThen
    <3>12. Fills(Hub, "holdings") => H1 \in Seq(SheetRow)
      <4>1. "holdings" \in Keyed
        BY DEF Keyed
      <4> QED
        BY <3>7, <4>1, FilledIsTyped DEF FilledHoldings
    <3> HIDE DEF H0, P0, H1, P1, ReadH, ReadP
    <3>13. CASE after["holdings"] = H1 /\ Fills(Hub, "holdings") /\ after["prices"] = P0
      <4>1. CASE OkP
        <5>1. OneToOne(ToSet(disk'[Hub]["holdings"]) \cup ToSet(disk'[Hub]["prices"]))
          BY <3>3, <3>9, <3>13, <4>1
        <5> QED
          BY <1>1, <3>1, <3>2, <5>1, SettledAssets
      <4>2. CASE Bare(P0)
        <5>1. /\ disk'[Hub]["prices"] = disk[Hub]["prices"]
              /\ Bare(disk[Hub]["prices"]) /\ DOMAIN disk[Hub]["prices"] # {}
              /\ OneToOne(ToSet(disk'[Hub]["holdings"])) /\ file[Hub]["holdings"] = "readable"
              /\ Apart(disk'[Hub]["holdings"])
              /\ LabelsIn(disk'[Hub]["holdings"]) = LabelsIn(disk[Hub]["holdings"])
          BY <3>3, <3>4, <3>7, <3>8, <3>9, <3>13, <4>2 DEF H0, P0
        <5> QED
          BY <1>1, <3>1, <3>2, <3>6, <5>1, HalfFilled
      <4> QED
        BY <3>4, <4>1, <4>2
    <3>14. CASE after["prices"] = P1 /\ Fills(Hub, "prices") /\ Fills(Hub, "holdings")
                /\ after["holdings"] = H1
      <4>1. OneToOne(ToSet(H1)) /\ LabelsIn(P0) \subseteq LabelsIn(H1)
        BY <3>4, <3>7, <3>9, <3>14
      <4>2. OneToOne(ToSet(P1) \cup ToSet(H1))
        BY <3>10, <3>11, <3>12, <3>14, <4>1
      <4>3. ToSet(P1) \cup ToSet(H1) = ToSet(H1) \cup ToSet(P1)
        OBVIOUS
      <4>4. OneToOne(ToSet(disk'[Hub]["holdings"]) \cup ToSet(disk'[Hub]["prices"]))
        BY <3>3, <3>14, <4>2, <4>3
      <4> QED
        BY <1>1, <3>1, <3>2, <4>4, SettledAssets
    <3>15. CASE after["prices"] = P1 /\ Fills(Hub, "prices") /\ ~Fills(Hub, "holdings")
                /\ after["holdings"] = H0
      <4>0. HoldingsThen(Hub) = ReadH
        BY <3>11, <3>15
      <4>1. CASE OkH
        <5>1. ReadH = H0 /\ OneToOne(ToSet(H0)) /\ LabelsIn(P0) \subseteq LabelsIn(H0)
          BY <3>4, <3>7, <4>1
        <5>2. OneToOne(ToSet(P1) \cup ToSet(H0))
          BY <3>7, <3>10, <3>15, <4>0, <5>1
        <5>3. ToSet(P1) \cup ToSet(H0) = ToSet(H0) \cup ToSet(P1)
          OBVIOUS
        <5>4. OneToOne(ToSet(disk'[Hub]["holdings"]) \cup ToSet(disk'[Hub]["prices"]))
          BY <3>3, <3>15, <5>2, <5>3
        <5> QED
          BY <1>1, <3>1, <3>2, <5>4, SettledAssets
      <4>2. CASE Bare(H0)
        <5>1. OneToOne(ToSet(P1)) /\ LabelsIn(P1) = LabelsIn(P0) /\ Apart(P1)
          BY <3>7, <3>10, <3>15, <4>0, <4>2
        <5>2. /\ disk'[Hub]["holdings"] = disk[Hub]["holdings"]
              /\ Bare(disk[Hub]["holdings"]) /\ DOMAIN disk[Hub]["holdings"] # {}
              /\ OneToOne(ToSet(disk'[Hub]["prices"])) /\ file[Hub]["prices"] = "readable"
              /\ Apart(disk'[Hub]["prices"])
              /\ LabelsIn(disk'[Hub]["prices"]) = LabelsIn(disk[Hub]["prices"])
          BY <3>3, <3>4, <3>7, <3>8, <3>15, <4>2, <5>1 DEF H0, P0
        <5> QED
          BY <1>1, <3>1, <3>2, <3>6, <5>2, HalfFilled
      <4> QED
        BY <3>4, <4>1, <4>2
    <3>16. CASE after["holdings"] = H0 /\ after["prices"] = P0
      <4>1. \A t \in Investments : after[t] = disk[d][t]
        BY <2>6, <3>16 DEF Investments, H0, P0
      <4> QED
        BY <1>2, <2>3, <4>1
    <3> QED
      BY <2>2, <2>6, <3>13, <3>14, <3>15, <3>16 DEF H0, P0, H1, P1
  <2> QED
    BY <2>4, <2>5, <2>6 DEF Investments
<1> QED
  BY <1>3, <1>4 DEF MigrateRowIds

(* A beginning in which nobody has an asset, in no file and no log. *)
LEMMA NoAssets ==
  ASSUME \A d \in Device, t \in Investments : disk[d][t] = <<>>, Recorded = {}
  PROVE  AssetsInv
<1>1. ToSet(<<>>) = {} /\ ~NeedsRowIds(<<>>)
  BY DEF ToSet, NeedsRowIds, IdsIn
<1>2. \A d \in Device, t \in Investments : ToSet(disk[d][t]) = {} /\ ~NeedsRowIds(disk[d][t])
  BY <1>1
<1>3. Assets = {}
  BY <1>2 DEF Assets
<1>4. ~Lacking
  BY <1>2, LedgerAssumption DEF Lacking
<1> QED
  BY <1>3, <1>4 DEF AssetsInv, OneToOne

(* A month has no assets, and records of other tables tell of none. *)
LEMMA MonthHasNoAssets ==
  ASSUME NEW templates, NEW expenses, NEW t \in Investments
  PROVE  Month(templates, expenses)[t] = <<>> /\ NoData[t] = <<>>
<1>1. t \in Table /\ t # "recurring" /\ t # "expenses" /\ t # "income" /\ t # "currency"
      /\ t # "categories"
  BY DEF Investments, Table, Keyed
<1>2. NoData[t] = <<>>
  BY <1>1 DEF NoData
<1> QED
  BY <1>1, <1>2 DEF Month, NoData

(* The files from before rows had ids: the same two names in both, no ids. *)
LEMMA LegacyAssets ==
  ASSUME NEW a \in Label, NEW b \in Label, a # b,
         NEW data \in {LegacyData(a, b), WithSettings(LegacyData(a, b), a)}
  PROVE  /\ \A t \in Investments : Apart(data[t]) /\ Bare(data[t]) /\ NeedsRowIds(data[t])
         /\ LabelsIn(data["holdings"]) = LabelsIn(data["prices"])
<1> DEFINE plain == LegacyData(a, b)
           all == WithSettings(plain, a)
           r1 == NewRow(0, a)
           r2 == NewRow(0, b)
           h == <<r1, r2>>
           p == <<r2, r1>>
<1>1. DOMAIN plain = Table /\ plain["holdings"] = h /\ plain["prices"] = p
  BY DEF LegacyData, NoData, Table, Keyed, Settings
<1>2. \A t \in Investments : all[t] = plain[t]
  <2>1. DOMAIN plain = Table
    BY <1>1
  <2> HIDE DEF plain
  <2> QED
    BY <2>1 DEF WithSettings, Investments, Table, Keyed, Settings
<1>3. r1.id = 0 /\ r2.id = 0 /\ r1.label = a /\ r2.label = b
  BY DEF NewRow, Row
<1> HIDE DEF r1, r2
<1>4. /\ DOMAIN h = {1, 2} /\ h[1] = r1 /\ h[2] = r2
      /\ DOMAIN p = {1, 2} /\ p[1] = r2 /\ p[2] = r1
  OBVIOUS
<1>5. data["holdings"] = h /\ data["prices"] = p
  <2> HIDE DEF plain, all, h, p
  <2>1. data = plain \/ data = all
    BY DEF plain, all
  <2>2. "holdings" \in Investments /\ "prices" \in Investments
    BY DEF Investments
  <2> QED
    BY <1>1, <1>2, <2>1, <2>2
<1> HIDE DEF plain, all, h, p
<1>6. /\ Apart(h) /\ Bare(h) /\ NeedsRowIds(h)
      /\ Apart(p) /\ Bare(p) /\ NeedsRowIds(p)
  BY <1>3, <1>4 DEF Apart, Bare, NeedsRowIds, IdsIn
<1>7. LabelsIn(h) = {a, b} /\ LabelsIn(p) = {a, b}
  BY <1>3, <1>4 DEF LabelsIn
<1> QED
  BY <1>5, <1>6, <1>7 DEF Investments

(* What the first templates have put in the log tells of no asset. *)
LEMMA BeginningHasNoAssets ==
  ASSUME NEW records, \A i \in DOMAIN records : records[i].table \in {"recurring", "expenses"}
  PROVE  ContentsIn(EntriesFrom(records)) = {}
<1>1. \A e \in EntriesFrom(records) : e.table \in {"recurring", "expenses"}
  BY DEF EntriesFrom, EntryOf
<1> QED
  BY <1>1 DEF ContentsIn, Investments

(* Every beginning. *)
LEMMA InitKeepsAssets ==
  ASSUME Init
  PROVE  AssetsInv
<1>1. Hub \in Device
  BY LedgerAssumption
<1>2. ContentsIn({}) = {}
  BY DEF ContentsIn
<1>3. ASSUME InitPaired PROVE AssetsInv
  <2> DEFINE Begun(templates, n) ==
               /\ disk = [d \in Device |-> Month(templates, AppliedOf(templates, n))]
               /\ log = [d \in Device |-> EntriesFrom(RecordsOf(templates, n))]
               /\ clock = [d \in Device |-> Len(RecordsOf(templates, n))]
  <2>1. \E a \in Label : \E b \in Label \ {a} : \E templates \in SharedTemplates(a, b) :
          \E n \in 0..Len(templates) : Begun(templates, n)
    BY <1>3 DEF InitPaired, AppliedOf, RecordsOf, EntriesFrom
  <2>2. PICK a \in Label, b \in Label : \E templates \in SharedTemplates(a, b) :
          \E n \in 0..Len(templates) : Begun(templates, n)
    BY <2>1
  <2>3. PICK templates \in SharedTemplates(a, b) : \E n \in 0..Len(templates) : Begun(templates, n)
    BY <2>2
  <2>4. PICK n \in 0..Len(templates) : Begun(templates, n)
    BY <2>3
  <2>5. templates \in Seq(SheetRow)
    BY SharedTemplatesAreTyped
  <2> DEFINE upserts == [i \in DOMAIN templates |-> Upsert("recurring", templates[i])]
             made == [i \in 1..n |-> Record("expenses", AppliedOf(templates, n)[i].id, "upsert",
                                            TRUE, AppliedOf(templates, n)[i])]
             records == RecordsOf(templates, n)
             S == {x \in {upserts[i] : i \in DOMAIN upserts} \cup {made[i] : i \in DOMAIN made} :
                     x.table \in {"recurring", "expenses"}}
  <2>6. upserts \in Seq(S)
    <3>1. DOMAIN upserts = 1..Len(templates) /\ Len(templates) \in Nat
      BY <2>5
    <3>2. \A i \in DOMAIN upserts : upserts[i].table = "recurring"
      BY DEF Upsert, Record
    <3> HIDE DEF upserts
    <3>3. \A i \in DOMAIN upserts : upserts[i] \in S
      BY <3>2
    <3>4. upserts = [i \in 1..Len(templates) |-> upserts[i]]
      BY <3>1 DEF upserts
    <3> HIDE DEF S
    <3> QED
      BY <3>1, <3>3, <3>4
  <2>7. made \in Seq(S)
    <3>1. DOMAIN made = 1..n /\ n \in Nat
      BY <2>5
    <3>2. \A i \in DOMAIN made : made[i].table = "expenses"
      BY DEF Record
    <3>3. made = [i \in 1..n |-> made[i]]
      OBVIOUS
    <3> HIDE DEF made
    <3>4. \A i \in DOMAIN made : made[i] \in S
      BY <3>2
    <3> HIDE DEF S
    <3> QED
      BY <3>1, <3>3, <3>4
  <2>8. records = upserts \o made
    BY DEF RecordsOf
  <2>9. \A x \in S : x.table \in {"recurring", "expenses"}
    OBVIOUS
  <2> HIDE DEF upserts, made, records, S
  <2>10. records \in Seq(S)
    BY <2>6, <2>7, <2>8
  <2>11. \A i \in DOMAIN records : records[i].table \in {"recurring", "expenses"}
    BY <2>9, <2>10
  <2>12. ContentsIn(EntriesFrom(records)) = {}
    BY <2>11, BeginningHasNoAssets
  <2>13. Recorded = {}
    BY <2>4, <2>12 DEF Recorded, records
  <2>14. \A d \in Device, t \in Investments : disk[d][t] = <<>>
    BY <2>4, MonthHasNoAssets
  <2> QED
    BY <2>13, <2>14, NoAssets
<1>4. ASSUME InitLegacy PROVE AssetsInv
  <2>1. PICK a \in Label, b \in Label : a # b /\
          \E data \in {LegacyData(a, b), WithSettings(LegacyData(a, b), a)} :
            \E unreadable : InitAlone(data, unreadable)
    BY <1>4 DEF InitLegacy
  <2>2. PICK data \in {LegacyData(a, b), WithSettings(LegacyData(a, b), a)} :
          \E unreadable : InitAlone(data, unreadable)
    BY <2>1
  <2>3. /\ disk = [d \in Device |-> IF d = Hub THEN data ELSE NoData]
        /\ log = [d \in Device |-> {}]
    BY <2>2 DEF InitAlone
  <2>4. /\ \A t \in Investments : Apart(data[t]) /\ Bare(data[t]) /\ NeedsRowIds(data[t])
        /\ LabelsIn(data["holdings"]) = LabelsIn(data["prices"])
    BY <2>1, LegacyAssets
  <2>5. disk[Hub] = data /\ \A d \in Device \ {Hub} : disk[d] = NoData
    BY <1>1, <2>3
  <2>6. Recorded = {}
    BY <1>2, <2>3 DEF Recorded
  <2>7. \A d \in Device \ {Hub}, t \in Investments : disk[d][t] = <<>>
    BY <2>5, MonthHasNoAssets
  <2>8. Unsettled
    BY <2>4, <2>5, <2>6, <2>7 DEF Unsettled
  <2>9. Lacking
    BY <2>4, <2>5 DEF Lacking, Investments
  <2> QED
    BY <2>8, <2>9 DEF AssetsInv
<1>5. ASSUME InitMisdated PROVE AssetsInv
  <2> DEFINE Rows2(a, day) == <<Row(51, a, day, 51), Row(52, a, NoDate, 52)>>
             Entries2(rows) == {EntryOf(Upsert("expenses", rows[i]), [time |-> i, device |-> Hub]) :
                                  i \in DOMAIN rows}
             Begun(a, day, known) ==
               /\ disk = [d \in Device |-> IF d \in (IF known THEN Device ELSE {Hub})
                                           THEN Month(<<>>, Rows2(a, day)) ELSE NoData]
               /\ log = [d \in Device |-> IF known THEN Entries2(Rows2(a, day)) ELSE {}]
               /\ clock = [d \in Device |-> IF known THEN Len(Rows2(a, day)) ELSE 0]
               /\ paired = IF known THEN Device ELSE {}
               /\ serving = paired \ {Hub}
               /\ marker = [d \in Device |-> IF known THEN Present(TRUE, {}) ELSE Absence]
               /\ settingsMarker = [d \in Device |-> IF known /\ d = Hub THEN Present(FALSE, {})
                                                      ELSE Absence]
  <2>0. \E a \in Label, day \in {NoDate, OtherMonth, OtherMonthLate}, known \in BOOLEAN :
          Begun(a, day, known)
    BY <1>5, Zenon DEF InitMisdated
  <2>1. \E rows : \A d \in Device : /\ disk[d] = Month(<<>>, rows) \/ disk[d] = NoData
                                    /\ log[d] = Entries2(rows) \/ log[d] = {}
    <3>1. PICK a \in Label, day \in {NoDate, OtherMonth, OtherMonthLate}, known \in BOOLEAN :
            Begun(a, day, known)
      BY <2>0
    <3> DEFINE rows == Rows2(a, day)
    <3>2. /\ disk = [d \in Device |-> IF d \in (IF known THEN Device ELSE {Hub})
                                      THEN Month(<<>>, rows) ELSE NoData]
          /\ log = [d \in Device |-> IF known THEN Entries2(rows) ELSE {}]
      BY <3>1
    <3> HIDE DEF rows, Entries2
    <3>3. \A d \in Device : /\ disk[d] = Month(<<>>, rows) \/ disk[d] = NoData
                            /\ log[d] = Entries2(rows) \/ log[d] = {}
      BY <3>2
    <3> QED
      BY <3>3
  <2>2. PICK rows : \A d \in Device : /\ disk[d] = Month(<<>>, rows) \/ disk[d] = NoData
                                      /\ log[d] = Entries2(rows) \/ log[d] = {}
    BY <2>1
  <2>3. \A e \in Entries2(rows) : e.table = "expenses"
    BY DEF EntryOf, Upsert, Record
  <2>4. ContentsIn(Entries2(rows)) = {}
    <3> HIDE DEF Entries2
    <3> QED
      BY <2>3 DEF ContentsIn, Investments
  <2> HIDE DEF Entries2
  <2>5. Recorded = {}
    BY <1>2, <2>2, <2>4 DEF Recorded
  <2>6. \A d \in Device, t \in Investments : disk[d][t] = <<>>
    BY <2>2, MonthHasNoAssets
  <2> QED
    BY <2>5, <2>6, NoAssets
<1> QED
  BY <1>3, <1>4, <1>5 DEF Init

(* Every step. *)
LEMMA NextKeepsAssets ==
  ASSUME IInv, AssetsInv, [Next]_vars
  PROVE  AssetsInv'
<1>1. CASE Next
  <2>1. PICK d \in Device :
          \/ Handlers(d) /\ UNCHANGED startVars
          \/ Starting(d)
          \/ Stop(d) \/ Restore(d) \/ DeleteLog(d) \/ PairAndReset(d)
          \/ RepairDates
    BY <1>1 DEF Next
  <2> QED
    BY <2>1, HandlersKeepAssets, MigrationKeepsAssets, BaselinesKeepAssets, AroundKeepsAssets,
       ResetKeepsAssets DEF Starting
<1>2. CASE UNCHANGED vars
  <2>1. disk' = disk /\ log' = log /\ file' = file
    BY <1>2 DEF vars, ledgerVars
  <2>2. AssetsStay
    BY <2>1 DEF AssetsStay, Recorded
  <2> QED
    BY <2>2, StayingKeeps
<1> QED
  BY <1>1, <1>2

(* Where both files of assets can be loaded, an asset has one id in both,  *)
(* on every device, whatever was migrated, cut short, unreadable at first, *)
(* merged, paired or recorded anew.                                        *)
THEOREM AssetsShareTheirIds == Spec => []AssetSharesItsId
<1>1. Init => AssetsInv
  BY InitKeepsAssets
<1>2. IInv /\ AssetsInv /\ [Next]_vars => AssetsInv'
  BY NextKeepsAssets
<1>3. IInv /\ AssetsInv => AssetSharesItsId
  <2> SUFFICES ASSUME IInv, AssetsInv,
                      NEW d \in serving, CanLoad(d, "holdings"), CanLoad(d, "prices"),
                      NEW i \in DOMAIN disk[d]["holdings"], NEW j \in DOMAIN disk[d]["prices"],
                      disk[d]["holdings"][i].label = disk[d]["prices"][j].label
               PROVE  disk[d]["holdings"][i].id = disk[d]["prices"][j].id
    BY DEF AssetSharesItsId
  <2>1. d \in Device /\ "holdings" \in Investments /\ "prices" \in Investments
    BY DEF IInv, Typed, Investments
  <2>2. CASE ~Lacking
    <3>1. \A t \in Investments : ToSet(disk[d][t]) \subseteq Assets
      BY <2>1 DEF Assets
    <3>2. disk[d]["holdings"][i] \in Assets /\ disk[d]["prices"][j] \in Assets
      BY <2>1, <3>1 DEF ToSet
    <3>3. OneToOne(Assets)
      BY <2>2 DEF AssetsInv
    <3> QED
      BY <3>2, <3>3 DEF OneToOne
  <2>3. CASE Lacking /\ d # Hub
    <3>1. disk[d]["holdings"] = <<>>
      BY <2>1, <2>3 DEF AssetsInv, Unsettled
    <3> QED
      BY <3>1
  <2>4. CASE Lacking /\ d = Hub
    <3>1. ~NeedsRowIds(disk[Hub]["holdings"]) /\ ~NeedsRowIds(disk[Hub]["prices"])
      BY <2>4 DEF CanLoad, Keyed
    <3> QED
      BY <2>4, <3>1 DEF Lacking, Investments
  <2> QED
    BY <2>2, <2>3, <2>4
<1> QED
  BY <1>1, <1>2, <1>3, StartupInvariant, PTL DEF Spec

-----------------------------------------------------------------------------
(* Dates that do not belong to the month                                   *)

(* An entry that gives an expense a date that does not belong to the month. *)
IsWrong(e) == e.table = "expenses" /\ e.op # "delete" /\ NeedsRepair(e.content)

WrongIn(E) == {e \in E : IsWrong(e)}

(* Rows of one id are all wrong or all right. *)
Alike(sheet) ==
  \A i, j \in DOMAIN sheet :
    sheet[i].id = sheet[j].id /\ NeedsRepair(sheet[i]) => NeedsRepair(sheet[j])

SameRow(e, f) == e.table = f.table /\ e.id = f.id

EntriesAbout(E, id) == {e \in E : e.table = "expenses" /\ e.id = id}

(* An entry about an expense removes the row or holds it whole. *)
HoldsItsRow(e) ==
  e.table = "expenses" => e.op \in {"upsert", "delete"} /\ (e.op = "upsert" => e.content.id = e.id)

EntriesHoldRows == \A d \in Device : \A e \in log[d] : HoldsItsRow(e)

(* Most behaviours never see a wrong date. *)
NothingWrong == repaired = {} /\ \A d \in Device : Wrong(d) = {} /\ WrongIn(log[d]) = {}

(* Where there are any, they are of two rows from before the only start    *)
(* and the only request.                                                   *)
Early ==
  /\ removals = 0 /\ requests <= 1
  /\ starts = 0 \/ (starts = 1 /\ Hub \notin serving /\ boot[Hub] = "off")

OldRow == {51, 52}

WrongIsOld == \A d \in Device : Wrong(d) \subseteq OldRow /\ \A e \in WrongIn(log[d]) : e.id \in OldRow

(* A clock is past all the device knows. *)
ClocksAhead ==
  /\ DOMAIN clock = Device
  /\ \E N \in Nat : \A d \in Device : \A e \in log[d] : e.key.time \in 0..N /\ e.key.device \in 0..N
  /\ \A d \in Device : clock[d] \in Nat /\ \A e \in log[d] : e.key.time \in 0..clock[d]

(* What says a row wrong is older than what says it right or removes it. *)
WrongFirst ==
  \A c, d \in Device : \A e \in WrongIn(log[c]), f \in log[d] :
    SameRow(e, f) /\ ~IsWrong(f) => e.key.time < f.key.time

(* And every device that takes part has it. *)
WrongIsKnown == \A c \in Device, d \in paired \cup {Hub} : WrongIn(log[c]) \subseteq log[d]

HubKnowsItself == \A d \in Device : \A e \in log[d] : e.key.device = Hub => e \in log[Hub]

NobodyBefore == \A d \in Device \ (paired \cup {Hub}) : log[d] = {}

(* A row is wrong only where nothing is known that says it right. *)
StillWrong ==
  \A d \in Device :
    /\ Alike(disk[d]["expenses"])
    /\ \A id \in Wrong(d) : /\ EntriesAbout(log[d], id) \subseteq WrongIn(log[d])
                            /\ d # Hub => EntriesAbout(log[d], id) # {}

(* The repair has rewritten every row that was wrong anywhere, or came so  *)
(* late that no other device will hear of it.                              *)
Covered ==
  \A d \in Device : \A e \in WrongIn(log[d]) : \E f \in repaired : SameRow(e, f) /\ ~IsWrong(f)

HubIsOut ==
  /\ Hub \notin serving /\ boot[Hub] = "off" /\ starts = 0
  /\ \A d \in Device \ {Hub} : repaired \cap log[d] = {}

CopiesHaveOld ==
  \A e \in repaired : \E copy \in backups[Hub] : \E i \in DOMAIN copy["expenses"] :
    copy["expenses"][i].id = e.id /\ NeedsRepair(copy["expenses"][i])

RepairedOnce ==
  /\ repaired # {} => Wrong(Hub) = {} /\ (Covered \/ HubIsOut)
  /\ \A e \in repaired : e \in log[Hub] /\ e.key.device = Hub
  /\ CopiesHaveOld

(* Before the start the hub shows wrong all that the log says wrong. *)
NotYet ==
  starts # 0 /\ repaired = {} /\ Wrong(Hub) # {} =>
    \A d \in Device : \A e \in WrongIn(log[d]) : e.id \in Wrong(Hub)

SomethingWrong ==
  /\ Early /\ WrongIsOld /\ ClocksAhead /\ WrongFirst /\ WrongIsKnown /\ HubKnowsItself
  /\ NobodyBefore /\ StillWrong /\ RepairedOnce /\ NotYet

DatesInv == EntriesHoldRows /\ (NothingWrong \/ SomethingWrong)

-----------------------------------------------------------------------------
(* What a table becomes                                                    *)

(* No row becomes wrong. *)
Corrects(sheet, content) ==
  Misdated(content) \subseteq Misdated(sheet) /\ (Alike(sheet) => Alike(content))

(* So none does, and none of ids stays so. *)
LEMMA ReplacedRows ==
  ASSUME NEW sheet, NEW ids, NEW content, Replaces(sheet, ids, content)
  PROVE  Corrects(sheet, content) /\ Misdated(content) \cap ids = {}
<1>1. ASSUME NEW i \in DOMAIN content, NeedsRepair(content[i])
      PROVE  content[i].id \notin ids /\ content[i].id \in Misdated(sheet)
  BY <1>1 DEF Replaces, Misdated
<1>2. Misdated(content) \subseteq Misdated(sheet) /\ Misdated(content) \cap ids = {}
  BY <1>1 DEF Misdated
<1>3. ASSUME Alike(sheet), NEW i \in DOMAIN content, NEW k \in DOMAIN content,
             content[i].id = content[k].id, NeedsRepair(content[i])
      PROVE  NeedsRepair(content[k])
  <2>1. content[i].id \notin ids
    BY <1>1, <1>3
  <2>2. PICK j \in DOMAIN sheet : content[i] = sheet[j]
    BY <1>3, <2>1 DEF Replaces
  <2>3. PICK l \in DOMAIN sheet : content[k] = sheet[l]
    BY <1>3, <2>1 DEF Replaces
  <2> QED
    BY <1>3, <2>2, <2>3 DEF Alike
<1>4. Alike(sheet) => Alike(content)
  BY <1>3 DEF Alike
<1> QED
  BY <1>2, <1>4 DEF Corrects

(* A table that stays as it is. *)
LEMMA SameRows ==
  \A sheet : Corrects(sheet, sheet)
BY DEF Corrects

-----------------------------------------------------------------------------
(* What a device does by itself                                            *)

(* No row of device d becomes wrong, and what it adds to its log says of   *)
(* each row what the row is now.  A wrong one is only recorded by the      *)
(* first start of a hub that has no peer.                                  *)
KeepsDates(d) ==
  /\ \A e \in Device \ {d} : disk'[e]["expenses"] = disk[e]["expenses"] /\ log'[e] = log[e]
  /\ Corrects(disk[d]["expenses"], disk'[d]["expenses"])
  /\ log[d] \subseteq log'[d]
  /\ \A x \in log'[d] \ log[d] :
       /\ HoldsItsRow(x) /\ x.key.device = d
       /\ x.table = "expenses" => (IsWrong(x) <=> x.id \in Misdated(disk'[d]["expenses"]))
       /\ IsWrong(x) => paired = {} /\ d = Hub /\ boot[d] # "off"

(* What is appended are the entries of records that were done. *)
LEMMA AppendedEntries ==
  ASSUME Typed, NEW d \in Device, NEW steps, NEW done, Appends(d, steps, done)
  PROVE  /\ \A e \in Device \ {d} : log'[e] = log[e]
         /\ log[d] \subseteq log'[d]
         /\ \A x \in log'[d] \ log[d] :
              /\ x.key.device = d
              /\ \E i \in done :
                   /\ ~IsSave(steps[i]) /\ x.table = steps[i].table /\ x.id = steps[i].id
                   /\ x.op = steps[i].op /\ x.content = steps[i].content
<1>1. PICK t \in WallClocks(d) :
        log' = [log EXCEPT ![d] = @ \cup {EntryOf(steps[i], [time |-> t + i, device |-> d]) :
                                            i \in {j \in done : ~IsSave(steps[j])}}]
  BY DEF Appends
<1> DEFINE entries == {EntryOf(steps[i], [time |-> t + i, device |-> d]) :
                         i \in {j \in done : ~IsSave(steps[j])}}
<1>2. \A x \in entries :
        /\ x.key.device = d
        /\ \E i \in done :
             /\ ~IsSave(steps[i]) /\ x.table = steps[i].table /\ x.id = steps[i].id
             /\ x.op = steps[i].op /\ x.content = steps[i].content
  BY DEF EntryOf
<1>3. log' = [log EXCEPT ![d] = @ \cup entries]
  BY <1>1
<1> HIDE DEF entries
<1>4. /\ \A e \in Device \ {d} : log'[e] = log[e]
      /\ log'[d] = log[d] \cup entries
  BY <1>3 DEF Typed
<1> QED
  BY <1>2, <1>4

(* The expenses after some steps: as before, or as one of them saved them. *)
LEMMA SavedExpenses ==
  ASSUME NEW f, NEW steps, TypedSteps(steps), NEW done \in SUBSET DOMAIN steps
  PROVE  \/ /\ AfterSaves(f, steps, done)["expenses"] = f["expenses"]
            /\ SavesOf("expenses", steps, done) = {}
         \/ \E i \in done : /\ IsSave(steps[i]) /\ steps[i].table = "expenses"
                            /\ AfterSaves(f, steps, done)["expenses"] = steps[i].content
<1> DEFINE saves == SavesOf("expenses", steps, done)
<1>1. AfterSaves(f, steps, done)["expenses"]
        = IF saves = {} THEN f["expenses"] ELSE steps[Max(saves)].content
  BY DEF AfterSaves, Table, Keyed
<1>2. CASE saves = {}
  BY <1>1, <1>2
<1>3. CASE saves # {}
  <2>1. saves \in SUBSET (0..Len(steps)) /\ Len(steps) \in Nat
    BY DEF SavesOf, TypedSteps
  <2>2. \A i \in saves : i \in done /\ IsSave(steps[i]) /\ steps[i].table = "expenses"
    BY DEF SavesOf
  <2> HIDE DEF saves
  <2>3. PICK n \in saves : \A m \in saves : m <= n
    BY <1>3, <2>1, GreatestUpTo
  <2>4. \A m \in saves : n >= m
    BY <2>1, <2>3
  <2>5. Max(saves) \in saves
    BY <2>3, <2>4 DEF Max
  <2> QED
    BY <1>1, <1>3, <2>2, <2>5
<1> QED
  BY <1>2, <1>3

(* Dated steps, wherever they stop, keep the dates right. *)
LEMMA DatedStepsKeep ==
  ASSUME Typed, NEW d \in Device, NEW steps, TypedSteps(steps),
         DatedSteps(disk[d]["expenses"], steps), NEW done \in SUBSET DOMAIN steps,
         InOrder(steps, done),
         disk' = [disk EXCEPT ![d] = AfterSaves(@, steps, done)], Appends(d, steps, done)
  PROVE  KeepsDates(d)
<1> DEFINE after == AfterSaves(disk[d], steps, done)["expenses"]
<1>1. /\ disk'[d]["expenses"] = after
      /\ \A e \in Device \ {d} : disk'[e]["expenses"] = disk[e]["expenses"]
  BY DEF Typed
<1>2. /\ \A e \in Device \ {d} : log'[e] = log[e]
      /\ log[d] \subseteq log'[d]
      /\ \A x \in log'[d] \ log[d] :
              /\ x.key.device = d
              /\ \E i \in done :
                   /\ ~IsSave(steps[i]) /\ x.table = steps[i].table /\ x.id = steps[i].id
                   /\ x.op = steps[i].op /\ x.content = steps[i].content
  BY AppendedEntries
<1>3. \/ /\ after = disk[d]["expenses"]
         /\ SavesOf("expenses", steps, done) = {}
      \/ \E i \in done : /\ IsSave(steps[i]) /\ steps[i].table = "expenses"
                         /\ after = steps[i].content
  BY SavedExpenses
<1> HIDE DEF after
<1>4. CASE \A i \in DOMAIN steps : steps[i].table # "expenses"
  <2>1. after = disk[d]["expenses"]
    BY <1>3, <1>4
  <2>2. \A x \in log'[d] \ log[d] : x.table # "expenses"
    BY <1>2, <1>4
  <2> QED
    BY <1>1, <1>2, <2>1, <2>2, SameRows DEF KeepsDates, HoldsItsRow, IsWrong
<1>5. ASSUME NEW ids, DatedFor(disk[d]["expenses"], ids, steps) PROVE KeepsDates(d)
  <2>1. CASE after = disk[d]["expenses"] /\ SavesOf("expenses", steps, done) = {}
    <3>1. 1 \notin done /\ done = {}
      BY <1>5, <2>1 DEF DatedFor, SavesOf, InOrder
    <3>2. log'[d] \ log[d] = {}
      BY <1>2, <3>1
    <3> QED
      BY <1>1, <1>2, <2>1, <3>2, SameRows DEF KeepsDates
  <2>2. ASSUME NEW i \in done, IsSave(steps[i]), after = steps[i].content
        PROVE  KeepsDates(d)
    <3>1. Replaces(disk[d]["expenses"], ids, after)
      BY <1>5, <2>2 DEF DatedFor
    <3>2. Corrects(disk[d]["expenses"], after) /\ Misdated(after) \cap ids = {}
      BY <3>1, ReplacedRows
    <3>3. ASSUME NEW x \in log'[d] \ log[d]
          PROVE  HoldsItsRow(x) /\ ~IsWrong(x) /\ x.id \in ids
      <4>1. PICK k \in done : /\ ~IsSave(steps[k]) /\ x.id = steps[k].id
                              /\ x.op = steps[k].op /\ x.content = steps[k].content
        BY <1>2
      <4>2. steps[k].id \in ids /\ RightRecord(steps[k])
        BY <1>5, <4>1 DEF DatedFor
      <4> QED
        BY <4>1, <4>2 DEF RightRecord, HoldsItsRow, IsWrong
    <3> QED
      BY <1>1, <1>2, <3>2, <3>3 DEF KeepsDates
  <2> QED
    BY <1>3, <2>1, <2>2
<1> QED
  BY <1>4, <1>5 DEF DatedSteps

(* The largest of some bounded times.                                      *)
LEMMA LargestIs ==
  ASSUME NEW N \in Nat, NEW E, \A e \in E : e.key.time \in 0..N
  PROVE  LargestTime(E) \in 0..N /\ \A e \in E : e.key.time <= LargestTime(E)
<1> DEFINE times == {e.key.time : e \in E}
<1>1. CASE E = {}
  BY <1>1 DEF LargestTime
<1>2. CASE E # {}
  <2>1. times \in SUBSET (0..N) /\ times # {}
    BY <1>2
  <2>2. \A t : (\A e \in E : e.key.time <= t) <=> (\A u \in times : u <= t)
    OBVIOUS
  <2>3. LargestTime(E) = CHOOSE t \in times : \A e \in E : e.key.time <= t
    BY <1>2 DEF LargestTime
  <2> HIDE DEF times
  <2>4. \E t \in times : \A e \in E : e.key.time <= t
    BY <2>1, <2>2, GreatestUpTo
  <2>5. LargestTime(E) \in times /\ \A e \in E : e.key.time <= LargestTime(E)
    BY <2>3, <2>4
  <2> QED
    BY <2>1, <2>5
<1> QED
  BY <1>1, <1>2

(* What device d adds gets stamps past its clock, which follows them.      *)
RisesFor(d) ==
  /\ DOMAIN clock' = Device /\ \A e \in Device \ {d} : clock'[e] = clock[e]
  /\ clock'[d] \in Nat /\ \A x \in log'[d] : x.key.time \in 0..clock'[d]
  /\ \A x \in log'[d] \ log[d] : x.key.time > clock[d]

(* Appended entries are stamped like that. *)
LEMMA StampsRise ==
  ASSUME Typed, ClocksAhead, NEW d \in Device, NEW steps, TypedSteps(steps),
         NEW done \in SUBSET DOMAIN steps, Appends(d, steps, done)
  PROVE  RisesFor(d)
<1> DEFINE recorded == {i \in done : ~IsSave(steps[i])}
<1>1. PICK t \in WallClocks(d) :
        LET entries == {EntryOf(steps[i], [time |-> t + i, device |-> d]) : i \in recorded}
        IN /\ log' = [log EXCEPT ![d] = @ \cup entries]
           /\ clock' = [clock EXCEPT ![d] = IF recorded = {} THEN @ ELSE LargestTime(entries)]
  BY DEF Appends
<1> DEFINE entries == {EntryOf(steps[i], [time |-> t + i, device |-> d]) : i \in recorded}
<1>2. /\ log'[d] = log[d] \cup entries
      /\ DOMAIN clock' = Device /\ \A e \in Device \ {d} : clock'[e] = clock[e]
      /\ clock'[d] = IF recorded = {} THEN clock[d] ELSE LargestTime(entries)
  BY <1>1 DEF Typed, ClocksAhead
<1>3. PICK N \in Nat : \A e \in Device : \A x \in log[e] : x.key.time \in 0..N
  BY DEF ClocksAhead
<1>4. clock[d] \in Nat /\ \A x \in log[d] : x.key.time \in 0..clock[d]
  BY DEF ClocksAhead
<1>5. t \in Nat /\ clock[d] <= t
  <2>1. \A x \in Everything : x.key.time \in 0..N
    BY <1>3 DEF Everything
  <2>2. LargestTime(Everything) \in 0..N
    BY <1>3, <2>1, LargestIs
  <2>3. t \in {clock[d], LargestTime(Everything)} /\ t \notin 0..(clock[d] - 1)
    BY DEF WallClocks
  <2>4. t \in Nat
    BY <1>3, <1>4, <2>2, <2>3
  <2> QED
    BY <1>4, <2>3, <2>4
<1>6. Len(steps) \in Nat /\ \A i \in recorded : i \in 1..Len(steps)
  BY DEF TypedSteps
<1>7. \A x \in entries : \E i \in recorded : x.key.time = t + i
  BY DEF EntryOf
<1>8. recorded # {} => entries # {}
  OBVIOUS
<1>9. recorded = {} => entries = {}
  OBVIOUS
<1> HIDE DEF entries, recorded
<1>10. \A x \in entries : x.key.time \in 0..(t + Len(steps)) /\ x.key.time > clock[d]
  BY <1>4, <1>5, <1>6, <1>7
<1>11. CASE recorded = {}
  BY <1>2, <1>4, <1>9, <1>11 DEF RisesFor
<1>12. CASE recorded # {}
  <2>1. t + Len(steps) \in Nat
    BY <1>5, <1>6
  <2>2. /\ LargestTime(entries) \in 0..(t + Len(steps))
        /\ \A x \in entries : x.key.time <= LargestTime(entries)
    BY <1>10, <2>1, LargestIs
  <2>3. PICK y \in entries : TRUE
    BY <1>8, <1>12
  <2>4. clock[d] < LargestTime(entries) /\ LargestTime(entries) \in Nat
    BY <1>4, <1>10, <2>1, <2>2, <2>3
  <2>5. \A x \in entries : x.key.time \in 0..LargestTime(entries)
    BY <1>10, <2>1, <2>2, <2>4
  <2>6. \A x \in log[d] : x.key.time \in 0..LargestTime(entries)
    BY <1>4, <2>4
  <2>7. clock'[d] = LargestTime(entries)
    BY <1>2, <1>12
  <2> QED
    BY <1>2, <1>10, <2>4, <2>5, <2>6, <2>7 DEF RisesFor
<1> QED
  BY <1>11, <1>12

-----------------------------------------------------------------------------
(* What a merge makes of the expenses                                      *)

(* Some entries with bounded stamps have a newest one.                     *)
LEMMA SomeAreNewest ==
  ASSUME NEW N \in Nat, NEW T, T # {},
         \A e \in T : e.key.time \in 0..N /\ e.key.device \in 0..N
  PROVE  Rows!Newest(T) # {}
<1> DEFINE times == {e.key.time : e \in T}
<1>1. times \in SUBSET (0..N) /\ times # {}
  OBVIOUS
<1>2. \A e \in T : e.key.time \in times
  OBVIOUS
<1>3. \A t \in times : \E e \in T : e.key.time = t
  OBVIOUS
<1> HIDE DEF times
<1>4. PICK last \in times : \A t \in times : t <= last
  BY <1>1, GreatestUpTo
<1> DEFINE latest == {e \in T : e.key.time = last}
           devices == {e.key.device : e \in latest}
<1>5. devices \in SUBSET (0..N) /\ devices # {}
  BY <1>3
<1>6. \A e \in latest : e.key.device \in devices
  OBVIOUS
<1>7. \A v \in devices : \E e \in latest : e.key.device = v
  OBVIOUS
<1> HIDE DEF devices
<1>8. PICK most \in devices : \A v \in devices : v <= most
  BY <1>5, GreatestUpTo
<1>9. PICK e \in latest : e.key.device = most
  BY <1>7
<1>10. ASSUME NEW f \in T PROVE ~Rows!Precedes(e, f)
  <2>1. f.key.time <= last /\ f.key.time \in Nat /\ last \in Nat
    BY <1>1, <1>2, <1>4
  <2>2. f.key.time = last => f.key.device <= most /\ f.key.device \in Nat /\ most \in Nat
    BY <1>5, <1>6, <1>8
  <2>3. e.key.time = last /\ e.key.device = most
    BY <1>9
  <2> QED
    BY <2>1, <2>2, <2>3 DEF Rows!Precedes, Rows!KeyBefore
<1>11. e \in Rows!Newest(T)
  BY <1>9, <1>10 DEF Rows!Newest
<1> QED
  BY <1>11

(* Where what says a row wrong is older than what says it right, an entry  *)
(* that says it right decides, if there is any.                            *)
LEMMA RightsDecide ==
  ASSUME NEW N \in Nat, NEW S, \A e \in S : e.key.time \in 0..N /\ e.key.device \in 0..N,
         \A e \in S : e.table = "expenses" /\ e.op \in {"upsert", "delete"},
         \A e, f \in S : IsWrong(e) /\ ~IsWrong(f) => e.key.time < f.key.time,
         NEW right \in S, ~IsWrong(right)
  PROVE  Rows!RowWinner(S) # {} /\ \A w \in Rows!RowWinner(S) : w \in S /\ ~IsWrong(w)
<1> DEFINE mays == {e \in Rows!Deletes(S) \cup Rows!Upserts(S) : ~Rows!HeldBack(e, S)}
<1>1. mays \subseteq S /\ Rows!RowWinner(S) = Rows!Newest(mays)
  BY DEF Rows!RowWinner, Rows!Deletes, Rows!Upserts
<1>2. \A e \in S : ~Rows!HeldBack(e, S) => e \in mays
  BY DEF Rows!Deletes, Rows!Upserts
<1> HIDE DEF mays
<1>3. PICK c \in mays : ~IsWrong(c)
  <2>1. CASE ~Rows!HeldBack(right, S)
    BY <1>2, <2>1
  <2>2. CASE Rows!HeldBack(right, S)
    <3>1. PICK e \in Rows!Newest(Rows!Deletes(S)) : TRUE
      BY <2>2 DEF Rows!HeldBack
    <3>2. e \in S /\ e.op = "delete"
      BY <3>1 DEF Rows!Newest, Rows!Deletes
    <3>3. ~Rows!HeldBack(e, S) /\ ~IsWrong(e)
      BY <3>2 DEF Rows!HeldBack, IsWrong
    <3> QED
      BY <1>2, <3>2, <3>3
  <2> QED
    BY <2>1, <2>2
<1>4. Rows!Newest(mays) # {}
  <2>1. mays # {} /\ \A e \in mays : e.key.time \in 0..N /\ e.key.device \in 0..N
    BY <1>1, <1>3
  <2> QED
    BY <2>1, SomeAreNewest
<1>5. ASSUME NEW w \in Rows!Newest(mays) PROVE w \in S /\ ~IsWrong(w)
  <2>1. w \in mays /\ ~Rows!Precedes(w, c)
    BY <1>5 DEF Rows!Newest
  <2>2. ~(w.key.time < c.key.time)
    BY <2>1 DEF Rows!Precedes, Rows!KeyBefore
  <2> QED
    BY <1>1, <1>3, <2>1, <2>2
<1> QED
  BY <1>1, <1>4, <1>5

WrittenIds(d, batch) == {x.id : x \in {y \in Written(d, batch) : y.table = "expenses"}}

(* A row there was stays, unless the batch decides it.  The others are     *)
(* what decided them holds.                                                *)
LEMMA RowsAreDecided ==
  ASSUME NEW sheet, Len(sheet) \in Nat, DOMAIN sheet = 1..Len(sheet), NEW t, NEW won, NEW order,
         \E n \in Nat : DOMAIN order = 1..n,
         NEW S, \A i \in DOMAIN sheet : RowId(t, sheet[i].id) \notin DOMAIN won => sheet[i] \in S,
         \A x \in DOMAIN won : x.table = t /\ ~Deleted(won[x]) => Content(won[x]) \in S
  PROVE  RowsWithWinners(sheet, t, won, order) \in Seq(S)
<1> DEFINE Touches(id) == RowId(t, id) \in DOMAIN won
           Gone(id) == Touches(id) /\ Deleted(won[RowId(t, id)])
           changed == [i \in DOMAIN sheet |-> IF Touches(sheet[i].id)
                                              THEN Content(won[RowId(t, sheet[i].id)])
                                              ELSE sheet[i]]
           kept == {i \in DOMAIN sheet : ~Gone(sheet[i].id)}
           added == {x \in DOMAIN won :
                       x.table = t /\ ~Deleted(won[x]) /\ x.id \notin IdsIn(sheet)}
           brought == [n \in DOMAIN order |-> Content(won[order[n]])]
           new == {n \in DOMAIN order : order[n] \in added}
<1>1. PICK n \in Nat : DOMAIN order = 1..n
  OBVIOUS
<1>2. kept \in SUBSET (1..Len(sheet)) /\ new \in SUBSET (1..n)
  BY <1>1
<1>3. \A i \in kept : changed[i] \in S
  BY <1>2 DEF RowId
<1>4. \A i \in new : brought[i] \in S
  BY DEF RowId
<1>5. RowsWithWinners(sheet, t, won, order) = RowsAt(changed, kept) \o RowsAt(brought, new)
  BY DEF RowsWithWinners
<1> HIDE DEF changed, kept, brought, new
<1>6. RowsAt(changed, kept) \in Seq(S) /\ RowsAt(brought, new) \in Seq(S)
  BY <1>1, <1>2, <1>3, <1>4, RowsAtOfKind
<1> QED
  BY <1>5, <1>6

(* What decides a row that is not deleted is an entry about it.            *)
LEMMA DecidingEntry ==
  ASSUME NEW d, NEW batch, NEW x \in Written(d, batch), x.table = "expenses",
         ~Deleted(Winner(Known(d, batch, x), x))
  PROVE  \E e \in Rows!RowWinner(Known(d, batch, x)) :
           /\ Content(Winner(Known(d, batch, x), x)) = e.content
           /\ e \in log[d] \cup batch /\ e.table = "expenses" /\ e.id = x.id /\ e.op # "delete"
<1> DEFINE winner == Winner(Known(d, batch, x), x)
<1>1. winner = Rows!RowWinner(Known(d, batch, x)) /\ winner # {}
  BY DEF Winner, Fixed, Written
<1>2. \A e \in winner : e.op # "delete"
  BY DEF Deleted, Rows!Deletes
<1>3. \A e \in Rows!RowWinner(Known(d, batch, x)) :
        e \in log[d] \cup batch /\ e.table = "expenses" /\ e.id = x.id
  BY DEF Rows!RowWinner, Rows!Newest, Rows!Deletes, Rows!Upserts, Known, About
<1> HIDE DEF winner
<1>4. (CHOOSE e \in winner : TRUE) \in winner
  BY <1>1
<1>5. \E e \in winner : Content(winner) = e.content
  BY <1>4 DEF Content
<1> QED
  BY <1>1, <1>2, <1>3, <1>5 DEF winner

(* The rows of the expenses after a merge.                                 *)
LEMMA PreparedRows ==
  ASSUME NEW f, f["expenses"] \in Seq(SheetRow), NEW d, NEW batch, IsFiniteSet(batch),
         NEW i \in DOMAIN Prepared(f, d, batch)["expenses"]
  PROVE  \/ \E x \in Written(d, batch) :
              /\ x.table = "expenses" /\ ~Deleted(Winner(Known(d, batch, x), x))
              /\ Prepared(f, d, batch)["expenses"][i] = Content(Winner(Known(d, batch, x), x))
         \/ \E j \in DOMAIN f["expenses"] :
              /\ Prepared(f, d, batch)["expenses"][i] = f["expenses"][j]
              /\ f["expenses"][j].id \notin WrittenIds(d, batch)
<1> DEFINE won == [x \in Written(d, batch) |-> Winner(Known(d, batch, x), x)]
           order == Actions(d, batch)
           loaded == {x.table : x \in DOMAIN won}
           all(t) == WithWinners(f[t], t, won, order)
           after == [t \in Table |-> IF t \in loaded THEN all(t) ELSE f[t]]
           sheet == f["expenses"]
           ids == WrittenIds(d, batch)
           S == {sheet[k] : k \in {j \in DOMAIN sheet : sheet[j].id \notin ids}}
                  \cup {Content(won[x]) : x \in {y \in Written(d, batch) :
                                                  y.table = "expenses" /\ ~Deleted(won[y])}}
<1>1. Prepared(f, d, batch)["expenses"] = IF "expenses" \in loaded THEN all("expenses") ELSE sheet
  <2>1. Prepared(f, d, batch) = Finish(after, f)
    BY DEF Prepared
  <2> HIDE DEF all, loaded
  <2> QED
    BY <2>1 DEF Finish, Table, Keyed
<1>2. \A id : id \in ids <=> RowId("expenses", id) \in Written(d, batch)
  <2>1. \A x \in Written(d, batch) : x = RowId(x.table, x.id)
    BY DEF Written, RowId
  <2> QED
    BY <2>1 DEF WrittenIds, RowId
<1>3. Len(sheet) \in Nat /\ DOMAIN sheet = 1..Len(sheet)
  OBVIOUS
<1>4. \E n \in Nat : DOMAIN order = 1..n
  BY ActionsAreCounted
<1>5. ASSUME "expenses" \in loaded PROVE all("expenses") \in Seq(S)
  <2>1. all("expenses") = RowsWithWinners(sheet, "expenses", won, order)
    BY DEF WithWinners, Keyed
  <2>2. \A k \in DOMAIN sheet : RowId("expenses", sheet[k].id) \notin DOMAIN won => sheet[k] \in S
    BY <1>2
  <2>3. \A x \in DOMAIN won : x.table = "expenses" /\ ~Deleted(won[x]) => Content(won[x]) \in S
    OBVIOUS
  <2> HIDE DEF S, won, order, sheet
  <2> QED
    BY <1>3, <1>4, <2>1, <2>2, <2>3, RowsAreDecided
<1>6. "expenses" \notin loaded => ids = {}
  BY DEF WrittenIds
<1>7. \A row \in S :
        \/ \E x \in Written(d, batch) :
             /\ x.table = "expenses" /\ ~Deleted(Winner(Known(d, batch, x), x))
             /\ row = Content(Winner(Known(d, batch, x), x))
        \/ \E j \in DOMAIN sheet : row = sheet[j] /\ sheet[j].id \notin ids
  OBVIOUS
<1> HIDE DEF S, ids, won, loaded, all
<1>8. CASE "expenses" \in loaded
  <2>1. \A k \in DOMAIN all("expenses") : all("expenses")[k] \in S
    BY <1>5, <1>8
  <2>2. Prepared(f, d, batch)["expenses"][i] \in S
    BY <1>1, <1>8, <2>1
  <2> QED
    BY <1>7, <2>2 DEF ids
<1>9. CASE "expenses" \notin loaded
  BY <1>1, <1>6, <1>9 DEF ids
<1> QED
  BY <1>8, <1>9

(* So where right entries decide the rows a batch brings, these are right. *)
LEMMA MergedRows ==
  ASSUME NEW f, f["expenses"] \in Seq(SheetRow), NEW d, NEW batch, IsFiniteSet(batch),
         \A e \in log[d] \cup batch : HoldsItsRow(e),
         \A x \in Written(d, batch) : x.table = "expenses" =>
           \A w \in Rows!RowWinner(Known(d, batch, x)) : ~IsWrong(w)
  PROVE  Replaces(f["expenses"], WrittenIds(d, batch), Prepared(f, d, batch)["expenses"])
<1> DEFINE prepared == Prepared(f, d, batch)["expenses"]
           ids == WrittenIds(d, batch)
<1>1. ASSUME NEW i \in DOMAIN prepared, NEW x \in Written(d, batch), x.table = "expenses",
             ~Deleted(Winner(Known(d, batch, x), x)),
             prepared[i] = Content(Winner(Known(d, batch, x), x))
      PROVE  prepared[i].id \in ids /\ ~NeedsRepair(prepared[i])
  <2>1. PICK e \in Rows!RowWinner(Known(d, batch, x)) :
           /\ Content(Winner(Known(d, batch, x), x)) = e.content
           /\ e \in log[d] \cup batch /\ e.table = "expenses" /\ e.id = x.id /\ e.op # "delete"
    BY <1>1, DecidingEntry
  <2>2. ~IsWrong(e) /\ HoldsItsRow(e)
    BY <1>1, <2>1
  <2>3. e.content.id = x.id /\ ~NeedsRepair(e.content)
    BY <2>1, <2>2 DEF IsWrong, HoldsItsRow
  <2>4. x.id \in ids
    BY <1>1 DEF WrittenIds
  <2> QED
    BY <1>1, <2>1, <2>3, <2>4
<1>2. ASSUME NEW i \in DOMAIN prepared
      PROVE  \/ prepared[i].id \in ids /\ ~NeedsRepair(prepared[i])
             \/ \E j \in DOMAIN f["expenses"] :
                  prepared[i] = f["expenses"][j] /\ f["expenses"][j].id \notin ids
  BY <1>1, PreparedRows
<1> HIDE DEF prepared, ids
<1>3. Replaces(f["expenses"], ids, prepared)
  BY <1>2 DEF Replaces
<1> QED
  BY <1>3 DEF prepared, ids

(* Nothing but right entries decides a row that a merge writes.            *)
LEMMA WinnersAreRight ==
  ASSUME DatesInv, NEW from \in Device, NEW to \in Device, to \in paired,
         NEW x \in Written(to, log[from]), x.table = "expenses"
  PROVE  \A w \in Rows!RowWinner(Known(to, log[from], x)) : ~IsWrong(w)
<1> DEFINE S == Known(to, log[from], x)
<1>1. \A e \in S : /\ e \in log[to] \cup log[from] /\ e.table = "expenses" /\ e.id = x.id
                   /\ e.op \in {"upsert", "delete"}
  BY DEF Known, About, DatesInv, EntriesHoldRows, HoldsItsRow
<1>2. CASE NothingWrong
  <2>1. \A e \in S : ~IsWrong(e)
    BY <1>1, <1>2 DEF NothingWrong, WrongIn
  <2> QED
    BY <2>1 DEF Rows!RowWinner, Rows!Newest, Rows!Deletes, Rows!Upserts
<1>3. CASE SomethingWrong
  <2>1. PICK right \in Rows!RowWinner(S) : right \in Remote(to, log[from], x)
    BY DEF Written, Winner, Fixed
  <2>2. right \in S /\ right \in log[from] /\ right \notin log[to]
    BY <2>1 DEF Rows!RowWinner, Rows!Newest, Rows!Deletes, Rows!Upserts, Remote, About
  <2>3. ~IsWrong(right)
    BY <1>3, <2>2 DEF SomethingWrong, WrongIsKnown, WrongIn
  <2>4. PICK N \in Nat : \A e \in S : e.key.time \in 0..N /\ e.key.device \in 0..N
    BY <1>1, <1>3 DEF SomethingWrong, ClocksAhead
  <2>5. \A e, f \in S : IsWrong(e) /\ ~IsWrong(f) => e.key.time < f.key.time
    BY <1>1, <1>3 DEF SomethingWrong, WrongFirst, WrongIn, SameRow
  <2>6. \A e \in S : e.table = "expenses" /\ e.op \in {"upsert", "delete"}
    BY <1>1
  <2> HIDE DEF S
  <2>7. \A w \in Rows!RowWinner(S) : ~IsWrong(w)
    BY <2>2, <2>3, <2>4, <2>5, <2>6, RightsDecide
  <2> QED
    BY <2>7 DEF S
<1> QED
  BY <1>2, <1>3 DEF DatesInv

(* An entry that a device lacks about a row it only knows to be wrong is   *)
(* a right one, and the row is written.                                    *)
LEMMA NewsAreWritten ==
  ASSUME EntriesHoldRows, SomethingWrong, NEW from \in Device, NEW to \in Device,
         to \in paired, NEW e \in log[from] \ log[to], e.table = "expenses",
         EntriesAbout(log[to], e.id) \subseteq WrongIn(log[to])
  PROVE  e.id \in WrittenIds(to, log[from])
<1> DEFINE x == RowId(e.table, e.id)
           S == Known(to, log[from], x)
<1>1. x.table = "expenses" /\ x.id = e.id
  BY DEF RowId
<1>2. ~IsWrong(e)
  BY DEF SomethingWrong, WrongIsKnown, WrongIn
<1>3. /\ e \in S
      /\ \A f \in S : /\ f \in log[to] \cup log[from] /\ f.table = "expenses" /\ f.id = e.id
                      /\ f.op \in {"upsert", "delete"}
  BY <1>1 DEF Known, About, EntriesHoldRows, HoldsItsRow
<1>4. PICK N \in Nat : \A f \in S : f.key.time \in 0..N /\ f.key.device \in 0..N
  BY <1>3 DEF SomethingWrong, ClocksAhead
<1>5. \A f, g \in S : IsWrong(f) /\ ~IsWrong(g) => f.key.time < g.key.time
  BY <1>3 DEF SomethingWrong, WrongFirst, WrongIn, SameRow
<1>6. \A f \in S : f \in log[to] => IsWrong(f)
  BY <1>3 DEF EntriesAbout, WrongIn
<1> HIDE DEF S
<1>7. Rows!RowWinner(S) # {} /\ \A w \in Rows!RowWinner(S) : w \in S /\ ~IsWrong(w)
  BY <1>2, <1>3, <1>4, <1>5, RightsDecide
<1>8. PICK w \in Rows!RowWinner(S) : w \in S /\ w \in log[from] /\ w \notin log[to]
  BY <1>3, <1>6, <1>7
<1>9. w \in Remote(to, log[from], x)
  BY <1>1, <1>3, <1>8 DEF Remote, About
<1>10. x \in {RowId(f.table, f.id) : f \in log[from] \ log[to]}
  OBVIOUS
<1>11. Winner(S, x) = Rows!RowWinner(S)
  BY <1>1 DEF Winner, Fixed
<1> HIDE DEF x
<1>12. x \in Written(to, log[from])
  BY <1>8, <1>9, <1>10, <1>11 DEF Written, S
<1> QED
  BY <1>1, <1>12 DEF WrittenIds

(* Entries and rows pass from one device to another, and nothing is new.   *)
Spreads ==
  /\ \A d \in Device : log[d] \subseteq log'[d] /\ \A e \in log'[d] : \E c \in Device : e \in log[c]
  /\ paired \subseteq paired'
  /\ \A d \in Device \ (paired' \cup {Hub}) : log'[d] = log[d]
  /\ \A d \in paired' \cup {Hub} : \E c \in paired \cup {Hub} : log[c] \subseteq log'[d]
  /\ repaired' = repaired /\ backups[Hub] \subseteq backups'[Hub]
  /\ Misdated(disk'[Hub]["expenses"]) \subseteq Wrong(Hub)
  /\ starts' # 0 => starts # 0 /\ Misdated(disk'[Hub]["expenses"]) = Wrong(Hub)
  /\ HubIsOut => HubIsOut'

(* So the dates stay right, if the rows do. *)
LEMMA SpreadingKeeps ==
  ASSUME Typed, EntriesHoldRows, SomethingWrong, Spreads, Early', ClocksAhead', StillWrong',
         \A d \in Device : Misdated(disk'[d]["expenses"]) \subseteq OldRow
  PROVE  EntriesHoldRows' /\ SomethingWrong'
<1> USE DEF SomethingWrong
<1>1. /\ \A d \in Device : log[d] \subseteq log'[d]
      /\ \A d \in Device : \A e \in log'[d] : \E c \in Device : e \in log[c]
      /\ Hub \in Device
  BY LedgerAssumption DEF Spreads
<1>2. \A d \in Device : \A e \in WrongIn(log'[d]) : \E c \in Device : e \in WrongIn(log[c])
  BY <1>1 DEF WrongIn
<1>3. EntriesHoldRows'
  BY <1>1 DEF EntriesHoldRows, HoldsItsRow
<1>w. \A d \in Device : Wrong(d)' = Misdated(disk'[d]["expenses"])
  BY DEF Wrong
<1>4. WrongIsOld'
  BY <1>2, <1>w DEF WrongIsOld, WrongIn, IsWrong, NeedsRepair
<1>5. WrongFirst'
  <2>1. ASSUME NEW c \in Device, NEW d \in Device, NEW e \in WrongIn(log'[c]), NEW f \in log'[d],
               SameRow(e, f), ~IsWrong(f)
        PROVE  e.key.time < f.key.time
    <3>1. PICK b \in Device : e \in WrongIn(log[b])
      BY <1>2
    <3>2. PICK a \in Device : f \in log[a]
      BY <1>1
    <3> QED
      BY <2>1, <3>1, <3>2 DEF WrongFirst
  <2> QED
    BY <2>1 DEF WrongFirst, WrongIn, IsWrong, SameRow, NeedsRepair
<1>6. WrongIsKnown'
  <2>1. ASSUME NEW c \in Device, NEW d \in paired' \cup {Hub}, NEW e \in WrongIn(log'[c])
        PROVE  e \in log'[d]
    <3>1. PICK b \in Device : e \in WrongIn(log[b])
      BY <1>2
    <3>2. PICK a \in paired \cup {Hub} : log[a] \subseteq log'[d]
      BY DEF Spreads
    <3> QED
      BY <3>1, <3>2 DEF WrongIsKnown
  <2> QED
    BY <2>1 DEF WrongIsKnown, WrongIn, IsWrong, NeedsRepair
<1>7. HubKnowsItself'
  BY <1>1 DEF HubKnowsItself
<1>8. NobodyBefore'
  BY DEF NobodyBefore, Spreads
<1>9. Covered => Covered'
  <2>1. ASSUME Covered, NEW d \in Device, NEW e \in WrongIn(log'[d])
        PROVE  \E f \in repaired : SameRow(e, f) /\ ~IsWrong(f)
    BY <1>2, <2>1 DEF Covered
  <2>2. repaired' = repaired
    BY DEF Spreads
  <2> QED
    BY <2>1, <2>2 DEF Covered, WrongIn, IsWrong, SameRow, NeedsRepair
<1>10. RepairedOnce'
  <2>1. repaired' = repaired /\ backups[Hub] \subseteq backups'[Hub]
    BY DEF Spreads
  <2>2. CopiesHaveOld'
    BY <2>1 DEF RepairedOnce, CopiesHaveOld, NeedsRepair
  <2>3. repaired # {} => Wrong(Hub)' = {} /\ (Covered' \/ HubIsOut')
    BY <1>1, <1>9, <1>w DEF RepairedOnce, Spreads
  <2> QED
    BY <1>1, <2>1, <2>2, <2>3 DEF RepairedOnce
<1>11. NotYet'
  <2>1. ASSUME starts' # 0, repaired' = {}, Wrong(Hub)' # {}, NEW d \in Device,
               NEW e \in WrongIn(log'[d])
        PROVE  e.id \in Wrong(Hub)'
    <3>1. starts # 0 /\ repaired = {} /\ Wrong(Hub)' = Wrong(Hub)
      BY <1>1, <1>w, <2>1 DEF Spreads
    <3>2. PICK b \in Device : e \in WrongIn(log[b])
      BY <1>2
    <3> QED
      BY <2>1, <3>1, <3>2 DEF NotYet
  <2> QED
    BY <2>1 DEF NotYet, WrongIn, IsWrong, NeedsRepair
<1> QED
  BY <1>3, <1>4, <1>5, <1>6, <1>7, <1>8, <1>10, <1>11

(* A clock that follows what a batch brings is past it.                    *)
LEMMA ObservedIsAhead ==
  ASSUME ClocksAhead, NEW from \in Device, NEW to \in Device
  PROVE  /\ Observed(to, log[from]) \in Nat
         /\ \A e \in log[to] \cup log[from] : e.key.time \in 0..Observed(to, log[from])
<1>1. clock[to] \in Nat /\ \A e \in log[to] : e.key.time \in 0..clock[to]
  BY DEF ClocksAhead
<1>2. PICK N \in Nat : \A e \in log[from] : e.key.time \in 0..N
  BY DEF ClocksAhead
<1>3. /\ LargestTime(log[from]) \in 0..N
      /\ \A e \in log[from] : e.key.time <= LargestTime(log[from])
  BY <1>2, LargestIs
<1>4. /\ Observed(to, log[from]) \in Nat /\ clock[to] <= Observed(to, log[from])
      /\ LargestTime(log[from]) <= Observed(to, log[from])
  BY <1>1, <1>3 DEF Observed
<1>5. ASSUME NEW e \in log[to] PROVE e.key.time \in 0..Observed(to, log[from])
  BY <1>1, <1>4
<1>6. ASSUME NEW e \in log[from] PROVE e.key.time \in 0..Observed(to, log[from])
  BY <1>2, <1>3, <1>4
<1> QED
  BY <1>4, <1>5, <1>6

(* So the clocks stay ahead where logs are spread. *)
LEMMA SpreadClocks ==
  ASSUME ClocksAhead, Typed, NEW from \in Device, NEW to \in Device,
         clock' = [clock EXCEPT ![to] = Observed(to, log[from])],
         \A d \in Device \ {to} : log'[d] = log[d], log'[to] \subseteq log[to] \cup log[from]
  PROVE  ClocksAhead'
<1>1. /\ DOMAIN clock' = Device
      /\ \A d \in Device \ {to} : clock'[d] = clock[d]
      /\ clock'[to] = Observed(to, log[from])
  BY DEF ClocksAhead
<1>2. PICK N \in Nat : \A d \in Device : \A e \in log[d] : e.key.time \in 0..N /\ e.key.device \in 0..N
  BY DEF ClocksAhead
<1>3. \A d \in Device : \A e \in log'[d] : e.key.time \in 0..N /\ e.key.device \in 0..N
  BY <1>2
<1>4. \A d \in Device : clock'[d] \in Nat /\ \A e \in log'[d] : e.key.time \in 0..clock'[d]
  <2>1. clock'[to] \in Nat /\ \A e \in log'[to] : e.key.time \in 0..clock'[to]
    BY <1>1, ObservedIsAhead
  <2> QED
    BY <1>1, <2>1 DEF ClocksAhead
<1> QED
  BY <1>1, <1>3, <1>4 DEF ClocksAhead

(* What a merge does to the expenses and the log of device to. *)
LEMMA MergesCorrect ==
  ASSUME IInv, DatesInv, NEW from \in Device, NEW to \in Device,
         Merge(from, to) \/ MergeFails(from, to)
  PROVE  /\ \A d \in Device \ {to} : disk'[d]["expenses"] = disk[d]["expenses"] /\ log'[d] = log[d]
         /\ Corrects(disk[to]["expenses"], disk'[to]["expenses"])
         /\ \/ log'[to] = log[to]
            \/ /\ log'[to] = log[to] \cup log[from]
               /\ Misdated(disk'[to]["expenses"]) \cap WrittenIds(to, log[from]) = {}
<1> DEFINE sheet == disk[to]["expenses"]
           prepared == Prepared(disk[to], to, log[from])["expenses"]
<1>1. to \in paired /\ DOMAIN disk = Device /\ DOMAIN log = Device
  BY DEF Merge, MergeFails, CanMerge, IInv, Typed
<1>2. Replaces(sheet, WrittenIds(to, log[from]), prepared)
  <2>1. sheet \in Seq(SheetRow) /\ IsFiniteSet(log[from])
    BY KeyedAreTyped DEF IInv, Keyed, RowsAreTyped, TypedLog
  <2>2. \A e \in log[to] \cup log[from] : HoldsItsRow(e)
    BY DEF DatesInv, EntriesHoldRows
  <2>3. \A x \in Written(to, log[from]) : x.table = "expenses" =>
           \A w \in Rows!RowWinner(Known(to, log[from], x)) : ~IsWrong(w)
    BY <1>1, WinnersAreRight
  <2> QED
    BY <2>1, <2>2, <2>3, MergedRows
<1>3. Corrects(sheet, prepared) /\ Misdated(prepared) \cap WrittenIds(to, log[from]) = {}
  <2> HIDE DEF sheet, prepared
  <2> QED
    BY <1>2, ReplacedRows
<1>4. "expenses" \in Table /\ Corrects(sheet, sheet)
  BY SameRows DEF Table, Keyed
<1>5. CASE Merge(from, to)
  <2>1. disk' = [disk EXCEPT ![to] = Prepared(@, to, log[from])]
        /\ log' = [log EXCEPT ![to] = @ \cup log[from]]
    BY <1>5 DEF Merge
  <2>2. disk'[to]["expenses"] = prepared /\ log'[to] = log[to] \cup log[from]
        /\ \A d \in Device \ {to} : disk'[d] = disk[d] /\ log'[d] = log[d]
    BY <1>1, <2>1
  <2> HIDE DEF prepared, sheet
  <2> QED
    BY <1>3, <2>2 DEF sheet
<1>6. CASE MergeFails(from, to)
  <2>1. PICK written \in SUBSET Table :
           disk' = [disk EXCEPT ![to] = [t \in Table |->
                      IF t \in written THEN Prepared(disk[to], to, log[from])[t] ELSE @[t]]]
    BY <1>6, MergeWrites
  <2>2. /\ disk'[to]["expenses"] = IF "expenses" \in written THEN prepared ELSE sheet
        /\ \A d \in Device \ {to} : disk'[d] = disk[d]
    BY <1>1, <1>4, <2>1
  <2>3. log' = log
    BY <1>6 DEF MergeFails
  <2> HIDE DEF prepared, sheet
  <2> QED
    BY <1>3, <1>4, <2>2, <2>3 DEF sheet
<1> QED
  BY <1>5, <1>6

(* Where nothing is wrong nothing becomes so. *)
LEMMA NothingBecomesWrong ==
  ASSUME EntriesHoldRows, NothingWrong, repaired' = repaired,
         \A d \in Device : Misdated(disk'[d]["expenses"]) = {},
         \A d \in Device : \A e \in log'[d] :
           \/ \E c \in Device : e \in log[c]
           \/ HoldsItsRow(e) /\ ~IsWrong(e)
  PROVE  DatesInv'
<1>1. EntriesHoldRows'
  BY DEF EntriesHoldRows, HoldsItsRow
<1>2. \A d \in Device : WrongIn(log'[d]) = {}
  BY DEF NothingWrong, WrongIn
<1>3. NothingWrong'
  BY <1>2 DEF NothingWrong, Wrong
<1> QED
  BY <1>1, <1>3 DEF DatesInv

(* Merges put no wrong date anywhere.                                      *)
LEMMA MergesKeepDates ==
  ASSUME IInv, DatesInv, NEW from \in Device, NEW to \in Device,
         Merge(from, to) \/ MergeFails(from, to), UNCHANGED startVars
  PROVE  DatesInv'
<1>1. /\ \A d \in Device \ {to} : disk'[d]["expenses"] = disk[d]["expenses"] /\ log'[d] = log[d]
      /\ Corrects(disk[to]["expenses"], disk'[to]["expenses"])
      /\ \/ log'[to] = log[to]
         \/ /\ log'[to] = log[to] \cup log[from]
            /\ Misdated(disk'[to]["expenses"]) \cap WrittenIds(to, log[from]) = {}
  BY MergesCorrect
<1>2. /\ UNCHANGED <<paired, requests, repaired, backups, starts, removals, boot>>
      /\ {from, to} \subseteq paired \cap serving /\ serving' \subseteq serving
      /\ clock' = [clock EXCEPT ![to] = Observed(to, log[from])]
  BY DEF startVars, Merge, MergeFails, CanMerge, Healthy
<1>3. Typed /\ EntriesHoldRows /\ Hub \in Device
  BY LedgerAssumption DEF IInv, DatesInv
<1>4. \A d \in Device : Misdated(disk'[d]["expenses"]) \subseteq Wrong(d)
  BY <1>1 DEF Corrects, Wrong
<1>5. \A d \in Device : log[d] \subseteq log'[d] /\ \A e \in log'[d] : \E c \in Device : e \in log[c]
  BY <1>1
<1>6. CASE NothingWrong
  <2>1. \A d \in Device : Misdated(disk'[d]["expenses"]) = {}
    BY <1>4, <1>6 DEF NothingWrong
  <2> QED
    BY <1>2, <1>3, <1>5, <1>6, <2>1, NothingBecomesWrong
<1>7. CASE SomethingWrong
  <2> USE <1>7 DEF SomethingWrong
  <2>1. Early'
    BY <1>2 DEF Early
  <2>2. ClocksAhead'
    BY <1>1, <1>2, <1>3, SpreadClocks
  <2>3. StillWrong'
    <3>1. ASSUME NEW id \in Misdated(disk'[to]["expenses"])
          PROVE  /\ EntriesAbout(log'[to], id) \subseteq WrongIn(log'[to])
                 /\ to # Hub => EntriesAbout(log'[to], id) # {}
      <4>1. /\ EntriesAbout(log[to], id) \subseteq WrongIn(log[to])
            /\ to # Hub => EntriesAbout(log[to], id) # {}
        BY <1>4 DEF StillWrong
      <4>2. ASSUME NEW e \in log'[to] \ log[to], e.table = "expenses", e.id = id PROVE FALSE
        <5>1. e \in log[from] /\ id \notin WrittenIds(to, log[from])
          BY <1>1, <4>2
        <5> QED
          BY <1>2, <1>3, <4>1, <4>2, <5>1, NewsAreWritten
      <4>3. EntriesAbout(log'[to], id) = EntriesAbout(log[to], id)
        BY <1>5, <4>2 DEF EntriesAbout
      <4>4. WrongIn(log[to]) \subseteq WrongIn(log'[to])
        BY <1>5 DEF WrongIn
      <4> QED
        BY <4>1, <4>3, <4>4
    <3>2. Alike(disk'[to]["expenses"])
      BY <1>1 DEF StillWrong, Corrects
    <3>3. ASSUME NEW d \in Device
          PROVE  /\ Alike(disk'[d]["expenses"])
                 /\ \A id \in Misdated(disk'[d]["expenses"]) :
                      /\ EntriesAbout(log'[d], id) \subseteq WrongIn(log'[d])
                      /\ d # Hub => EntriesAbout(log'[d], id) # {}
      <4>1. CASE d = to
        BY <3>1, <3>2, <4>1
      <4>2. CASE d # to
        BY <1>1, <4>2 DEF StillWrong, Wrong
      <4> QED
        BY <4>1, <4>2
    <3> QED
      BY <3>3 DEF StillWrong, Wrong, Alike, EntriesAbout, WrongIn, IsWrong, NeedsRepair
  <2>4. Spreads
    <3>1. \A d \in Device \ (paired' \cup {Hub}) : log'[d] = log[d]
      BY <1>1, <1>2
    <3>2. \A d \in paired' \cup {Hub} : \E c \in paired \cup {Hub} : log[c] \subseteq log'[d]
      BY <1>2, <1>3, <1>5 DEF Typed
    <3>3. starts' # 0 => starts # 0 /\ Misdated(disk'[Hub]["expenses"]) = Wrong(Hub)
      <4>1. starts' # 0 => starts = 1 /\ Hub \notin serving
        BY <1>2 DEF Early
      <4>2. Hub \notin serving => disk'[Hub]["expenses"] = disk[Hub]["expenses"]
        BY <1>1, <1>2, <1>3
      <4> QED
        BY <4>1, <4>2 DEF Wrong
    <3>4. HubIsOut => HubIsOut'
      BY <1>1, <1>2, <1>3 DEF HubIsOut
    <3> QED
      BY <1>2, <1>3, <1>4, <1>5, <3>1, <3>2, <3>3, <3>4 DEF Spreads
  <2>5. \A d \in Device : Misdated(disk'[d]["expenses"]) \subseteq OldRow
    BY <1>4 DEF WrongIsOld
  <2>6. EntriesHoldRows' /\ SomethingWrong'
    BY <1>3, <1>7, <2>1, <2>2, <2>3, <2>4, <2>5, SpreadingKeeps
  <2> QED
    BY <2>6 DEF DatesInv
<1> QED
  BY <1>6, <1>7 DEF DatesInv

(* The rows of a reset phone say what the newest entries of the hub say,   *)
(* and a row is wrong only if all entries about it are.                    *)
LEMMA ResetRows ==
  ASSUME IInv, EntriesHoldRows, SomethingWrong, NEW d \in Device, log[d] = {}
  PROVE  LET sheet == Prepared(NoData, d, log[Hub])["expenses"]
         IN /\ Alike(sheet)
            /\ \A id \in Misdated(sheet) : /\ EntriesAbout(log[Hub], id) \subseteq WrongIn(log[Hub])
                                           /\ EntriesAbout(log[Hub], id) # {}
<1> DEFINE sheet == Prepared(NoData, d, log[Hub])["expenses"]
           Known1(id) == Known(d, log[Hub], RowId("expenses", id))
           Decided(id) == Content(Winner(Known1(id), RowId("expenses", id)))
<1>1. ASSUME NEW i \in DOMAIN sheet
      PROVE  /\ sheet[i] = Decided(sheet[i].id)
             /\ \E e \in Rows!RowWinner(Known1(sheet[i].id)) :
                  /\ e \in log[Hub] /\ e.table = "expenses" /\ e.id = sheet[i].id
                  /\ e.op # "delete" /\ e.content = sheet[i]
  <2>1. NoData["expenses"] = <<>> /\ IsFiniteSet(log[Hub]) /\ <<>> \in Seq(SheetRow)
    <3>1. NoData["expenses"] = <<>>
      BY DEF NoData, Table, Keyed
    <3>2. IsFiniteSet(log[Hub])
      BY LedgerAssumption DEF IInv, RowsAreTyped, TypedLog
    <3>3. <<>> \in Seq(SheetRow)
      OBVIOUS
    <3> QED
      BY <3>1, <3>2, <3>3
  <2>2. DOMAIN NoData["expenses"] = {}
    BY <2>1
  <2>a. NoData["expenses"] \in Seq(SheetRow)
    BY <2>1
  <2>b. \/ \E x \in Written(d, log[Hub]) :
              /\ x.table = "expenses" /\ ~Deleted(Winner(Known(d, log[Hub], x), x))
              /\ Prepared(NoData, d, log[Hub])["expenses"][i]
                   = Content(Winner(Known(d, log[Hub], x), x))
        \/ \E j \in DOMAIN NoData["expenses"] :
              /\ Prepared(NoData, d, log[Hub])["expenses"][i] = NoData["expenses"][j]
              /\ NoData["expenses"][j].id \notin WrittenIds(d, log[Hub])
    BY <2>1, <2>a, PreparedRows, Zenon
  <2>3. PICK x \in Written(d, log[Hub]) :
           /\ x.table = "expenses" /\ ~Deleted(Winner(Known(d, log[Hub], x), x))
           /\ sheet[i] = Content(Winner(Known(d, log[Hub], x), x))
    BY <2>2, <2>b, Zenon
  <2>4. x = RowId("expenses", x.id)
    BY <2>3 DEF Written, RowId
  <2>5. PICK e \in Rows!RowWinner(Known(d, log[Hub], x)) :
           /\ sheet[i] = e.content
           /\ e \in log[d] \cup log[Hub] /\ e.table = "expenses" /\ e.id = x.id /\ e.op # "delete"
    BY <2>3, DecidingEntry
  <2>6. e \in log[Hub] /\ HoldsItsRow(e)
    BY <2>5, LedgerAssumption DEF EntriesHoldRows
  <2>7. sheet[i].id = x.id
    BY <2>5, <2>6 DEF HoldsItsRow
  <2> HIDE DEF sheet
  <2>8. RowId("expenses", sheet[i].id) = x
    BY <2>4, <2>7
  <2> QED
    BY <2>3, <2>5, <2>6, <2>7, <2>8
<1> HIDE DEF sheet, Decided
<1>2. Alike(sheet)
  <2>1. \A i, j \in DOMAIN sheet : sheet[i].id = sheet[j].id => sheet[i] = sheet[j]
    BY <1>1
  <2> QED
    BY <2>1 DEF Alike
<1>3. ASSUME NEW id \in Misdated(sheet)
      PROVE  /\ EntriesAbout(log[Hub], id) \subseteq WrongIn(log[Hub])
             /\ EntriesAbout(log[Hub], id) # {}
  <2>1. PICK i \in DOMAIN sheet : sheet[i].id = id /\ NeedsRepair(sheet[i])
    BY DEF Misdated
  <2>2. PICK e \in Rows!RowWinner(Known1(id)) :
           /\ e \in log[Hub] /\ e.table = "expenses" /\ e.id = id
           /\ e.op # "delete" /\ e.content = sheet[i]
    BY <1>1, <2>1
  <2>3. IsWrong(e)
    BY <2>1, <2>2 DEF IsWrong
  <2>4. ASSUME NEW f \in EntriesAbout(log[Hub], id), ~IsWrong(f) PROVE FALSE
    <3> DEFINE S == Known1(id)
    <3>1. S = EntriesAbout(log[Hub], id)
      BY DEF Known, About, RowId, EntriesAbout
    <3>2. \A g \in S : g \in log[Hub] /\ g.table = "expenses" /\ g.id = id
      BY <3>1 DEF EntriesAbout
    <3>3. \A g \in S : g.op \in {"upsert", "delete"}
      BY <3>2, LedgerAssumption DEF EntriesHoldRows, HoldsItsRow
    <3>4. PICK N \in Nat : \A g \in S : g.key.time \in 0..N /\ g.key.device \in 0..N
      BY <3>2, LedgerAssumption DEF SomethingWrong, ClocksAhead
    <3>5. \A g, h \in S : IsWrong(g) /\ ~IsWrong(h) => g.key.time < h.key.time
      BY <3>2, LedgerAssumption DEF SomethingWrong, WrongFirst, WrongIn, SameRow
    <3>6. f \in S /\ e \in Rows!RowWinner(S)
      BY <2>2, <3>1
    <3> HIDE DEF S
    <3>7. \A w \in Rows!RowWinner(S) : ~IsWrong(w)
      BY <2>4, <3>2, <3>3, <3>4, <3>5, <3>6, RightsDecide
    <3> QED
      BY <2>3, <3>6, <3>7
  <2>5. e \in EntriesAbout(log[Hub], id)
    BY <2>2 DEF EntriesAbout
  <2>6. EntriesAbout(log[Hub], id) \subseteq log[Hub]
    BY DEF EntriesAbout
  <2> QED
    BY <2>4, <2>5, <2>6 DEF WrongIn
<1> QED
  BY <1>2, <1>3 DEF sheet

(* Nor does the reset of a phone.                                          *)
LEMMA ResetKeepsDates ==
  ASSUME IInv, DatesInv, NEW d \in Device, PairAndReset(d)
  PROVE  DatesInv'
<1> DEFINE sheet == Prepared(NoData, d, log[Hub])["expenses"]
<1>1. /\ d # Hub /\ d \notin paired /\ Hub \in serving
      /\ paired' = paired \cup {d, Hub} /\ serving' = serving \cup {d}
      /\ clock' = [clock EXCEPT ![d] = Observed(d, log[Hub])]
      /\ log' = [log EXCEPT ![d] = log[Hub]]
      /\ disk' = [disk EXCEPT ![d] = Prepared(NoData, d, log[Hub])]
      /\ Backs(d)
      /\ UNCHANGED <<requests, repaired, starts, removals, boot>>
  BY DEF PairAndReset, Healthy
<1>2. Typed /\ EntriesHoldRows /\ Hub \in Device /\ IsFiniteSet(log[Hub])
  BY LedgerAssumption DEF IInv, DatesInv, RowsAreTyped, TypedLog
<1>3. /\ log'[d] = log[Hub] /\ \A e \in Device \ {d} : log'[e] = log[e]
      /\ disk'[d]["expenses"] = sheet
      /\ \A e \in Device \ {d} : disk'[e]["expenses"] = disk[e]["expenses"]
  BY <1>1, <1>2 DEF Typed
<1>4. CASE NothingWrong
  <2>1. NoData["expenses"] = <<>>
    BY DEF NoData, Table, Keyed
  <2>2. <<>> \in Seq(SheetRow)
    OBVIOUS
  <2>3. \A e \in log[d] \cup log[Hub] : HoldsItsRow(e) /\ ~IsWrong(e)
    BY <1>2, <1>4 DEF NothingWrong, WrongIn, EntriesHoldRows
  <2>4. \A x \in Written(d, log[Hub]) : \A w \in Rows!RowWinner(Known(d, log[Hub], x)) : ~IsWrong(w)
    BY <2>3 DEF Rows!RowWinner, Rows!Newest, Rows!Deletes, Rows!Upserts, Known, About
  <2>5. Replaces(<<>>, WrittenIds(d, log[Hub]), sheet)
    BY <1>2, <2>1, <2>2, <2>3, <2>4, MergedRows
  <2>6. Misdated(<<>>) = {}
    BY DEF Misdated
  <2> HIDE DEF sheet
  <2>7. Misdated(sheet) = {}
    BY <2>5, <2>6, ReplacedRows DEF Corrects
  <2>8. \A e \in Device : Misdated(disk'[e]["expenses"]) = {}
    BY <1>3, <1>4, <2>7 DEF NothingWrong, Wrong
  <2>9. \A e \in Device : \A x \in log'[e] : \E c \in Device : x \in log[c]
    BY <1>2, <1>3
  <2> QED
    BY <1>1, <1>2, <1>4, <2>8, <2>9, NothingBecomesWrong
<1>5. CASE SomethingWrong
  <2> USE <1>5 DEF SomethingWrong
  <2>1. log[d] = {}
    BY <1>1 DEF NobodyBefore
  <2>2. Early'
    BY <1>1 DEF Early
  <2>3. ClocksAhead'
    BY <1>1, <1>2, <1>3, SpreadClocks
  <2>4. /\ Alike(sheet)
        /\ \A id \in Misdated(sheet) : /\ EntriesAbout(log[Hub], id) \subseteq WrongIn(log[Hub])
                                       /\ EntriesAbout(log[Hub], id) # {}
    BY <1>2, <2>1, ResetRows
  <2> HIDE DEF sheet
  <2>5. StillWrong'
    <3>1. ASSUME NEW e \in Device
          PROVE  /\ Alike(disk'[e]["expenses"])
                 /\ \A id \in Misdated(disk'[e]["expenses"]) :
                      /\ EntriesAbout(log'[e], id) \subseteq WrongIn(log'[e])
                      /\ e # Hub => EntriesAbout(log'[e], id) # {}
      <4>1. CASE e = d
        BY <1>3, <2>4, <4>1
      <4>2. CASE e # d
        BY <1>3, <4>2 DEF StillWrong, Wrong
      <4> QED
        BY <4>1, <4>2
    <3> QED
      BY <3>1 DEF StillWrong, Wrong, Alike, EntriesAbout, WrongIn, IsWrong, NeedsRepair
  <2>6. Spreads
    <3>1. /\ \A e \in Device : log[e] \subseteq log'[e]
          /\ \A e \in Device : \A x \in log'[e] : \E c \in Device : x \in log[c]
      BY <1>2, <1>3, <2>1
    <3>2. \A e \in Device \ (paired' \cup {Hub}) : log'[e] = log[e]
      BY <1>1, <1>3
    <3>3. \A e \in paired' \cup {Hub} : \E c \in paired \cup {Hub} : log[c] \subseteq log'[e]
      <4>1. log[Hub] \subseteq log'[d]
        BY <1>3
      <4>2. \A e \in paired \cup {Hub} : log[e] \subseteq log'[e]
        BY <1>2, <3>1 DEF Typed
      <4> QED
        BY <1>1, <4>1, <4>2
    <3>4. backups'[Hub] = backups[Hub]
      BY <1>1, <1>2 DEF Backs, BackupDbs, Typed
    <3>5. Misdated(disk'[Hub]["expenses"]) = Wrong(Hub)
      BY <1>1, <1>2, <1>3 DEF Wrong
    <3>6. starts' # 0 => starts # 0
      BY <1>1
    <3>7. ~HubIsOut
      BY <1>1 DEF HubIsOut
    <3> QED
      BY <1>1, <3>1, <3>2, <3>3, <3>4, <3>5, <3>6, <3>7 DEF Spreads
  <2>7. \A e \in Device : Misdated(disk'[e]["expenses"]) \subseteq OldRow
    <3>1. Misdated(sheet) \subseteq OldRow
      BY <1>2, <2>4 DEF WrongIsOld, EntriesAbout
    <3> QED
      BY <1>3, <3>1 DEF WrongIsOld, Wrong
  <2>8. EntriesHoldRows' /\ SomethingWrong'
    BY <1>2, <1>5, <2>2, <2>3, <2>5, <2>6, <2>7, SpreadingKeeps
  <2> QED
    BY <2>8 DEF DatesInv
<1> QED
  BY <1>4, <1>5 DEF DatesInv

-----------------------------------------------------------------------------
(* The steps of one device                                                 *)

(* Its clock stays past what it knows.                                     *)
LEMMA RisenClocks ==
  ASSUME ClocksAhead, NEW d \in Device, RisesFor(d), KeepsDates(d)
  PROVE  ClocksAhead'
<1>1. PICK N \in Nat : \A c \in Device : \A e \in log[c] : e.key.time \in 0..N /\ e.key.device \in 0..N
  BY DEF ClocksAhead
<1>2. d \in Nat /\ clock'[d] \in Nat
  BY LedgerAssumption DEF RisesFor
<1>3. N + clock'[d] + d \in Nat
  BY <1>1, <1>2
<1>4. ASSUME NEW c \in Device, NEW e \in log'[c]
      PROVE  e.key.time \in 0..(N + clock'[d] + d) /\ e.key.device \in 0..(N + clock'[d] + d)
  <2>1. CASE e \in log[c]
    BY <1>1, <1>2, <2>1
  <2>2. CASE e \notin log[c]
    <3>1. c = d /\ e.key.device = d /\ e.key.time \in 0..clock'[d]
      BY <2>2 DEF KeepsDates, RisesFor
    <3> QED
      BY <1>1, <1>2, <3>1
  <2> QED
    BY <2>1, <2>2
<1>5. ASSUME NEW c \in Device PROVE clock'[c] \in Nat /\ \A e \in log'[c] : e.key.time \in 0..clock'[c]
  <2>1. CASE c = d
    BY <2>1 DEF RisesFor
  <2>2. CASE c # d
    BY <2>2 DEF RisesFor, KeepsDates, ClocksAhead
  <2> QED
    BY <2>1, <2>2
<1>6. DOMAIN clock' = Device
  BY DEF RisesFor
<1> QED
  BY <1>3, <1>4, <1>5, <1>6 DEF ClocksAhead

(* Nothing becomes wrong by steps that keep the dates, where nothing was.  *)
LEMMA KeepsNothingWrong ==
  ASSUME EntriesHoldRows, NothingWrong, NEW d \in Device, KeepsDates(d), repaired' = repaired
  PROVE  DatesInv'
<1>1. \A c \in Device : Misdated(disk'[c]["expenses"]) = {}
  BY DEF KeepsDates, Corrects, NothingWrong, Wrong
<1>2. ASSUME NEW c \in Device, NEW e \in log'[c], e \notin log[c]
      PROVE  HoldsItsRow(e) /\ ~IsWrong(e)
  <2>1. c = d
    BY <1>2 DEF KeepsDates
  <2>2. HoldsItsRow(e) /\ (e.table = "expenses" => ~IsWrong(e))
    BY <1>1, <1>2, <2>1 DEF KeepsDates
  <2> QED
    BY <2>2 DEF IsWrong
<1> QED
  BY <1>1, <1>2, NothingBecomesWrong

(* All but the history of the repair.                                      *)
OldStaysOld ==
  /\ EntriesHoldRows /\ WrongIsOld /\ ClocksAhead /\ WrongFirst /\ WrongIsKnown
  /\ HubKnowsItself /\ NobodyBefore /\ StillWrong

(* A device that keeps its own dates makes no old row wrong anew, and what *)
(* it adds is newer than what was wrong.                                   *)
LEMMA KeepsOldWrong ==
  ASSUME IInv, EntriesHoldRows, SomethingWrong, NEW d \in Device, d \in paired \cup {Hub},
         KeepsDates(d), RisesFor(d), paired' = paired
  PROVE  OldStaysOld'
<1> USE DEF SomethingWrong
<1>1. /\ \A c \in Device : log[c] \subseteq log'[c]
      /\ \A c \in Device \ {d} : disk'[c]["expenses"] = disk[c]["expenses"] /\ log'[c] = log[c]
      /\ Misdated(disk'[d]["expenses"]) \subseteq Wrong(d)
      /\ Alike(disk'[d]["expenses"])
      /\ Hub \in Device
  BY LedgerAssumption DEF KeepsDates, Corrects, Wrong, StillWrong
<1>2. \A c \in Device : Misdated(disk'[c]["expenses"]) \subseteq Wrong(c)
  BY <1>1 DEF Wrong
<1>3. ASSUME NEW c \in Device, NEW e \in log'[c], e \notin log[c]
      PROVE  /\ c = d /\ HoldsItsRow(e) /\ e.key.device = d
             /\ e.table = "expenses" => (IsWrong(e) <=> e.id \in Misdated(disk'[d]["expenses"]))
             /\ IsWrong(e) => paired = {} /\ d = Hub /\ boot[d] # "off"
             /\ e.key.time > clock[d]
  BY <1>3 DEF KeepsDates, RisesFor
<1>4. \A c \in Device : Wrong(c)' = Misdated(disk'[c]["expenses"])
  BY DEF Wrong
<1>5. EntriesHoldRows'
  <2>1. \A c \in Device : \A e \in log'[c] : HoldsItsRow(e)
    BY <1>3 DEF EntriesHoldRows
  <2> QED
    BY <2>1 DEF EntriesHoldRows, HoldsItsRow
<1>6. WrongIsOld'
  <2>1. ASSUME NEW c \in Device, NEW e \in log'[c], IsWrong(e) PROVE e.id \in OldRow
    <3>1. CASE e \in log[c]
      BY <2>1, <3>1 DEF WrongIsOld, WrongIn
    <3>2. CASE e \notin log[c]
      <4>1. e.id \in Misdated(disk'[d]["expenses"])
        BY <1>3, <2>1, <3>2 DEF IsWrong
      <4> QED
        BY <1>1, <4>1 DEF WrongIsOld
    <3> QED
      BY <3>1, <3>2
  <2> QED
    BY <1>2, <1>4, <2>1 DEF WrongIsOld, WrongIn, IsWrong, NeedsRepair
<1>7. ClocksAhead'
  BY RisenClocks
<1>8. WrongIsKnown'
  <2>1. ASSUME NEW c \in Device, NEW b \in paired \cup {Hub}, NEW e \in log'[c], IsWrong(e)
        PROVE  e \in log'[b]
    <3>1. CASE e \in log[c]
      BY <1>1, <2>1, <3>1 DEF WrongIsKnown, WrongIn, IInv, Typed
    <3>2. CASE e \notin log[c]
      BY <1>3, <2>1, <3>2
    <3> QED
      BY <3>1, <3>2
  <2> QED
    BY <2>1 DEF WrongIsKnown, WrongIn, IsWrong, NeedsRepair
<1>9. HubKnowsItself'
  <2>1. ASSUME NEW c \in Device, NEW e \in log'[c], e.key.device = Hub PROVE e \in log'[Hub]
    <3>1. CASE e \in log[c]
      BY <1>1, <2>1, <3>1 DEF HubKnowsItself
    <3>2. CASE e \notin log[c]
      BY <1>3, <2>1, <3>2
    <3> QED
      BY <3>1, <3>2
  <2> QED
    BY <2>1 DEF HubKnowsItself
<1>10. NobodyBefore'
  BY <1>1 DEF NobodyBefore
<1>11. ASSUME NEW c \in Device, NEW id \in Misdated(disk'[c]["expenses"])
       PROVE  /\ EntriesAbout(log'[c], id) \subseteq WrongIn(log'[c])
              /\ c # Hub => EntriesAbout(log'[c], id) # {}
  <2>1. /\ EntriesAbout(log[c], id) \subseteq WrongIn(log[c])
        /\ c # Hub => EntriesAbout(log[c], id) # {}
    BY <1>2, <1>11 DEF StillWrong
  <2>2. EntriesAbout(log[c], id) \subseteq EntriesAbout(log'[c], id)
    BY <1>1 DEF EntriesAbout
  <2>3. ASSUME NEW e \in EntriesAbout(log'[c], id) PROVE e \in log'[c] /\ IsWrong(e)
    <3>1. e \in log'[c] /\ e.table = "expenses" /\ e.id = id
      BY <2>3 DEF EntriesAbout
    <3>2. CASE e \in log[c]
      BY <2>1, <3>1, <3>2 DEF EntriesAbout, WrongIn
    <3>3. CASE e \notin log[c]
      BY <1>3, <1>11, <3>1, <3>3
    <3> QED
      BY <3>1, <3>2, <3>3
  <2> QED
    BY <2>1, <2>2, <2>3 DEF WrongIn
<1>12. \A c \in Device : Alike(disk'[c]["expenses"])
  BY <1>1 DEF StillWrong
<1>13. StillWrong'
  BY <1>4, <1>11, <1>12 DEF StillWrong, Alike, EntriesAbout, WrongIn, IsWrong, NeedsRepair
<1>14. WrongFirst'
  <2>1. ASSUME NEW a \in Device, NEW b \in Device, NEW e \in log'[a], IsWrong(e),
               NEW f \in log'[b], SameRow(e, f), ~IsWrong(f)
        PROVE  e.key.time < f.key.time
    <3>1. CASE e \in log[a] /\ f \in log[b]
      BY <2>1, <3>1 DEF WrongFirst, WrongIn
    <3>2. CASE e \in log[a] /\ f \notin log[b]
      <4>1. e \in log[d]
        BY <2>1, <3>2 DEF WrongIsKnown, WrongIn
      <4>2. e.key.time \in 0..clock[d] /\ clock[d] \in Nat
        BY <4>1 DEF ClocksAhead
      <4>3. f.key.time > clock[d] /\ b = d
        BY <1>3, <3>2
      <4>4. f.key.time \in Nat
        BY <4>3 DEF RisesFor
      <4> QED
        BY <4>2, <4>3, <4>4
    <3>3. CASE e \notin log[a]
      <4>1. a = d /\ d = Hub /\ paired = {} /\ e.table = "expenses"
            /\ e.id \in Misdated(disk'[d]["expenses"])
        BY <1>3, <2>1, <3>3 DEF IsWrong
      <4>2. b # Hub => log'[b] = {}
        BY <1>1, <4>1 DEF NobodyBefore
      <4>3. b = Hub
        BY <2>1, <4>2
      <4>4. f \in EntriesAbout(log'[Hub], e.id)
        BY <2>1, <4>1, <4>3 DEF EntriesAbout, SameRow
      <4>5. f \in WrongIn(log'[Hub])
        BY <1>11, <4>1, <4>4
      <4> QED
        BY <2>1, <4>5 DEF WrongIn
    <3> QED
      BY <3>1, <3>2, <3>3
  <2> QED
    BY <2>1 DEF WrongFirst, WrongIn, IsWrong, SameRow, NeedsRepair
<1> QED
  BY <1>5, <1>6, <1>7, <1>8, <1>9, <1>10, <1>13, <1>14 DEF OldStaysOld

(* What else changes around the repair. *)
StepsAround ==
  /\ repaired' = repaired /\ paired' = paired /\ backups[Hub] \subseteq backups'[Hub]
  /\ removals' = removals
  /\ SomethingWrong =>
       /\ Early'
       /\ HubIsOut => Hub \notin serving' /\ boot'[Hub] = "off" /\ starts' = 0
       /\ starts' # 0 => /\ starts # 0 /\ boot[Hub] = "off"
                         /\ Misdated(disk'[Hub]["expenses"]) \in {Wrong(Hub), {}}

(* So the dates stay right, where a device keeps its own. *)
LEMMA DatesStay ==
  ASSUME IInv, DatesInv, NEW d \in Device, KeepsDates(d), StepsAround,
         SomethingWrong => RisesFor(d) /\ d \in paired \cup {Hub}
  PROVE  DatesInv'
<1>1. EntriesHoldRows /\ repaired' = repaired /\ paired' = paired
  BY DEF DatesInv, StepsAround
<1>2. CASE NothingWrong
  BY <1>1, <1>2, KeepsNothingWrong
<1>3. CASE SomethingWrong
  <2> USE <1>3 DEF SomethingWrong
  <2>1. OldStaysOld'
    BY <1>1, KeepsOldWrong
  <2>2. /\ Early' /\ backups[Hub] \subseteq backups'[Hub]
        /\ HubIsOut => Hub \notin serving' /\ boot'[Hub] = "off" /\ starts' = 0
        /\ starts' # 0 => /\ starts # 0 /\ boot[Hub] = "off"
                          /\ Misdated(disk'[Hub]["expenses"]) \in {Wrong(Hub), {}}
    BY DEF StepsAround
  <2>3. /\ Hub \in Device /\ Wrong(Hub)' = Misdated(disk'[Hub]["expenses"])
        /\ Misdated(disk'[Hub]["expenses"]) \subseteq Wrong(Hub)
        /\ log[Hub] \subseteq log'[Hub]
    BY LedgerAssumption DEF Wrong, KeepsDates, Corrects
  <2>4. ASSUME NEW c \in Device, NEW e \in log'[c], e \notin log[c]
        PROVE  /\ e.key.device = d /\ c = d
               /\ IsWrong(e) => boot[Hub] # "off" /\ e.id \in Wrong(Hub)
    <3>1. /\ c = d /\ e.key.device = d
          /\ e.table = "expenses" => (IsWrong(e) <=> e.id \in Misdated(disk'[d]["expenses"]))
          /\ IsWrong(e) => d = Hub /\ boot[d] # "off"
      BY <2>4 DEF KeepsDates
    <3> QED
      BY <2>3, <3>1 DEF IsWrong
  <2>5. CopiesHaveOld'
    BY <1>1, <2>2 DEF RepairedOnce, CopiesHaveOld, NeedsRepair
  <2>6. ASSUME repaired # {} PROVE Wrong(Hub)' = {} /\ (Covered' \/ HubIsOut')
    <3>1. Wrong(Hub) = {} /\ (Covered \/ HubIsOut)
      BY <2>6 DEF RepairedOnce
    <3>2. ASSUME Covered PROVE Covered'
      <4>1. ASSUME NEW c \in Device, NEW e \in log'[c], IsWrong(e)
            PROVE  \E f \in repaired : SameRow(e, f) /\ ~IsWrong(f)
        <5>1. e \in log[c]
          BY <2>4, <3>1, <4>1
        <5> QED
          BY <3>2, <4>1, <5>1 DEF Covered, WrongIn
      <4> QED
        BY <1>1, <4>1 DEF Covered, WrongIn, IsWrong, SameRow, NeedsRepair
    <3>3. ASSUME HubIsOut PROVE HubIsOut'
      <4>1. ASSUME NEW c \in Device, c # Hub, NEW e \in repaired PROVE e \notin log'[c]
        <5>1. e.key.device = Hub /\ e \notin log[c]
          BY <3>3, <4>1 DEF RepairedOnce, HubIsOut
        <5> QED
          BY <2>4, <4>1, <5>1
      <4> QED
        BY <1>1, <2>2, <3>3, <4>1 DEF HubIsOut
    <3> QED
      BY <2>3, <3>1, <3>2, <3>3
  <2>7. RepairedOnce'
    BY <1>1, <2>3, <2>5, <2>6 DEF RepairedOnce
  <2>8. NotYet'
    <3>1. ASSUME starts' # 0, repaired' = {}, Wrong(Hub)' # {}, NEW c \in Device,
                 NEW e \in log'[c], IsWrong(e)
          PROVE  e.id \in Wrong(Hub)'
      <4>1. starts # 0 /\ boot[Hub] = "off" /\ Wrong(Hub)' = Wrong(Hub) /\ repaired = {}
        BY <1>1, <2>2, <2>3, <3>1
      <4>2. e \in log[c]
        BY <2>4, <3>1, <4>1
      <4> QED
        BY <3>1, <4>1, <4>2 DEF NotYet, WrongIn
    <3> QED
      BY <3>1 DEF NotYet, WrongIn, IsWrong, NeedsRepair
  <2>9. SomethingWrong'
    BY <2>1, <2>2, <2>7, <2>8 DEF OldStaysOld
  <2> QED
    BY <2>1, <2>9 DEF DatesInv, OldStaysOld
<1> QED
  BY <1>2, <1>3 DEF DatesInv

(* A step that is about none of this. *)
LEMMA DatesUnchanged ==
  ASSUME DatesInv,
         UNCHANGED <<disk, log, clock, repaired, paired, backups, removals, requests, starts,
                     serving, boot>>
  PROVE  DatesInv'
<1>1. NothingWrong => NothingWrong'
  BY DEF NothingWrong, Wrong, Misdated, WrongIn, IsWrong, NeedsRepair
<1>2. EntriesHoldRows'
  BY DEF DatesInv, EntriesHoldRows, HoldsItsRow
<1>3. ASSUME SomethingWrong PROVE SomethingWrong'
  <2> USE <1>3 DEF SomethingWrong
  <2>1. Early' /\ ClocksAhead' /\ HubKnowsItself' /\ NobodyBefore'
    BY DEF Early, ClocksAhead, HubKnowsItself, NobodyBefore
  <2>2. WrongIsOld' /\ WrongFirst' /\ WrongIsKnown'
    BY DEF WrongIsOld, Wrong, Misdated, WrongFirst, WrongIsKnown, WrongIn, IsWrong, SameRow,
           NeedsRepair
  <2>3. StillWrong'
    BY DEF StillWrong, Alike, Wrong, Misdated, EntriesAbout, WrongIn, IsWrong, NeedsRepair
  <2>4. Wrong(Hub)' = Wrong(Hub) /\ (HubIsOut => HubIsOut')
    BY DEF Wrong, Misdated, NeedsRepair, HubIsOut
  <2>5. (Covered => Covered') /\ (CopiesHaveOld => CopiesHaveOld')
    BY DEF Covered, CopiesHaveOld, WrongIn, IsWrong, SameRow, NeedsRepair
  <2>6. RepairedOnce'
    BY <2>4, <2>5 DEF RepairedOnce
  <2>7. NotYet'
    BY <2>4 DEF NotYet, WrongIn, IsWrong, NeedsRepair
  <2> QED
    BY <2>1, <2>2, <2>3, <2>6, <2>7
<1> QED
  BY <1>1, <1>2, <1>3 DEF DatesInv

(* Requests write no wrong date: what they add has an id of its own, or is *)
(* a row they have seen. *)
LEMMA HandlersKeepDates ==
  ASSUME IInv, DatesInv, NEW d \in Device, Handlers(d), UNCHANGED startVars
  PROVE  DatesInv'
<1>1. RowsAreTyped /\ Typed
  BY DEF IInv
<1>2. ASSUME d \in serving, NEW steps, SafeSteps(d, steps), TypedSteps(steps), Request(d, steps),
             New \notin Wrong(d) => DatedSteps(disk[d]["expenses"], steps)
      PROVE  DatesInv'
  <2>1. /\ UNCHANGED <<repaired, paired, backups, removals, starts, boot>>
        /\ requests' = requests - 1
        /\ Completes(d, steps) \/ LosesRecord(d, steps) \/ CutOff(d, steps)
    BY <1>2 DEF Request, startVars
  <2>2. New \notin Wrong(d)
    <3>1. CASE NothingWrong
      BY <3>1 DEF NothingWrong
    <3>2. CASE SomethingWrong
      <4>1. requests <= 1 /\ requests \in Int /\ Wrong(d) \subseteq OldRow
        BY <1>1, <3>2 DEF SomethingWrong, Early, WrongIsOld, RowsAreTyped
      <4> QED
        BY <4>1 DEF New, OldRow
    <3> QED
      BY <3>1, <3>2 DEF DatesInv
  <2>3. DatedSteps(disk[d]["expenses"], steps)
    BY <1>2, <2>2
  <2>4. PICK done, lost : /\ Performs(d, steps, done, lost) /\ serving' \subseteq serving
                          /\ done \in SUBSET DOMAIN steps /\ InOrder(steps, done)
    <3>1. /\ \E done : \E lost : /\ Performs(d, steps, done, lost)
                                 /\ TypedSteps(steps) => done \subseteq DOMAIN steps /\ InOrder(steps, done)
          /\ serving' \subseteq serving
      BY <1>1, <2>1, RequestPerforms
    <3> QED
      BY <1>2, <3>1
  <2>5. Appends(d, steps, done) /\ disk' = [disk EXCEPT ![d] = AfterSaves(@, steps, done)]
    BY <2>4 DEF Performs
  <2>6. KeepsDates(d)
    BY <1>1, <1>2, <2>3, <2>4, <2>5, DatedStepsKeep
  <2>7. SomethingWrong => RisesFor(d)
    BY <1>1, <1>2, <2>4, <2>5, StampsRise DEF SomethingWrong
  <2>8. ASSUME SomethingWrong
        PROVE  /\ Early'
               /\ HubIsOut => Hub \notin serving' /\ boot'[Hub] = "off" /\ starts' = 0
               /\ starts' # 0 => /\ starts # 0 /\ boot[Hub] = "off"
                                 /\ Misdated(disk'[Hub]["expenses"]) \in {Wrong(Hub), {}}
    <3>1. requests' <= 1
      BY <1>1, <2>1, <2>8 DEF SomethingWrong, Early, RowsAreTyped
    <3>2. Early'
      BY <2>1, <2>4, <2>8, <3>1 DEF SomethingWrong, Early
    <3>3. starts # 0 => Hub # d /\ boot[Hub] = "off"
      BY <1>2, <2>8 DEF SomethingWrong, Early
    <3>4. Hub # d => disk'[Hub]["expenses"] = disk[Hub]["expenses"]
      BY <2>6, LedgerAssumption DEF KeepsDates
    <3> QED
      BY <2>1, <2>4, <3>2, <3>3, <3>4 DEF HubIsOut, Wrong
  <2>9. StepsAround
    BY <2>1, <2>8 DEF StepsAround
  <2>10. d \in paired \cup {Hub}
    BY <1>2 DEF IInv, StartsApart
  <2> QED
    BY <2>6, <2>7, <2>9, <2>10, DatesStay
<1> QED
  BY <1>1, <1>2, HandlersAreSafe, MergesKeepDates

(* The ids a migration gives are none of the wrong rows.                   *)
LEMMA FilledDates ==
  ASSUME NEW sheet \in Seq(SheetRow), Misdated(sheet) \subseteq OldRow
  PROVE  Corrects(sheet, FillRowIds(sheet, "expenses", <<>>))
<1> DEFINE filled == FillRowIds(sheet, "expenses", <<>>)
           Shared(i) == IdsByAsset(<<>>, sheet[i].label)
           Takes(i) == /\ Shared(i) # <<>> /\ Shared(i)[1] \notin IdsIn(sheet)
                       /\ \A j \in 1..i - 1 : sheet[j].id = 0 /\ Shared(j) # <<>> =>
                                              Shared(j)[1] # Shared(i)[1]
<1>1. DOMAIN sheet = 1..Len(sheet) /\ Len(sheet) \in Nat
      /\ \A i \in DOMAIN sheet : sheet[i] \in SheetRow
  OBVIOUS
<1>2. \A label : IdsByAsset(<<>>, label) = <<>>
  <2>1. <<>> \in Seq(SheetRow) /\ Bare(<<>>)
    BY DEF Bare
  <2> QED
    BY <2>1, IdsOfAsset
<1>3. \A i : ~Takes(i)
  BY <1>2
<1>4. filled = [i \in DOMAIN sheet |->
                  IF sheet[i].id # 0 THEN sheet[i]
                  ELSE [sheet[i] EXCEPT !.id = IF Takes(i) THEN Shared(i)[1]
                                               ELSE FreshId("expenses", i)]]
  BY DEF FillRowIds
<1> HIDE DEF filled, Takes, Shared
<1>5. DOMAIN filled = DOMAIN sheet
      /\ \A i \in DOMAIN sheet :
           filled[i] = IF sheet[i].id # 0 THEN sheet[i]
                       ELSE [sheet[i] EXCEPT !.id = FreshId("expenses", i)]
  BY <1>3, <1>4
<1>6. \A i \in DOMAIN sheet : FreshId("expenses", i) \notin OldRow
  <2> DEFINE number == CHOOSE n \in 1..4 :
                         <<"expenses", "recurring", "holdings", "prices">>[n] = "expenses"
  <2>1. \E n \in 1..4 : <<"expenses", "recurring", "holdings", "prices">>[n] = "expenses"
    OBVIOUS
  <2>2. number \in 1..4
    BY <2>1
  <2>3. \A i : FreshId("expenses", i) = 100 * number + i
    BY DEF FreshId
  <2> HIDE DEF number
  <2> QED
    BY <1>1, <2>2, <2>3 DEF OldRow
<1>7. ASSUME NEW i \in DOMAIN sheet, NeedsRepair(filled[i])
      PROVE  filled[i] = sheet[i] /\ sheet[i].id \in Misdated(sheet)
  <2>1. sheet[i] \in SheetRow
    BY <1>1
  <2>2. filled[i].day = sheet[i].day
    BY <1>5, <2>1 DEF SheetRow
  <2>3. sheet[i].id \in Misdated(sheet)
    BY <1>7, <2>2 DEF NeedsRepair, Misdated
  <2>4. sheet[i].id # 0
    BY <2>3 DEF OldRow
  <2> QED
    BY <1>5, <2>3, <2>4
<1>8. Misdated(filled) \subseteq Misdated(sheet)
  BY <1>5, <1>7 DEF Misdated
<1>9. ASSUME Alike(sheet), NEW i \in DOMAIN sheet, NEW k \in DOMAIN sheet,
             filled[i].id = filled[k].id, NeedsRepair(filled[i])
      PROVE  NeedsRepair(filled[k])
  <2>1. filled[i] = sheet[i] /\ filled[i].id \in OldRow
    BY <1>7, <1>9
  <2>2. filled[k] = sheet[k]
    <3>1. sheet[k] \in SheetRow
      BY <1>1
    <3>2. sheet[k].id = 0 => filled[k].id = FreshId("expenses", k)
      BY <1>5, <3>1 DEF SheetRow
    <3> QED
      BY <1>5, <1>6, <1>9, <2>1, <3>2
  <2> QED
    BY <1>9, <2>1, <2>2 DEF Alike
<1>10. Alike(sheet) => Alike(filled)
  BY <1>5, <1>9 DEF Alike
<1>11. Corrects(sheet, filled)
  BY <1>8, <1>10 DEF Corrects
<1> QED
  BY <1>11 DEF filled

(* So a migration gives no row a wrong date. *)
LEMMA MigrationKeepsDates ==
  ASSUME IInv, DatesInv, NEW d \in Device, MigrateRowIds(d)
  PROVE  DatesInv'
<1> DEFINE sheet == disk[d]["expenses"]
           filled == FillRowIds(sheet, "expenses", <<>>)
<1>1. /\ UNCHANGED <<log, serving, paired, requests, removals, repaired>>
      /\ d \in paired \cup {Hub} /\ boot[d] = "off" /\ starts > 0 /\ starts' = starts - 1
      /\ clock' = [clock EXCEPT ![d] = LargestTime(log[d])]
  BY DEF MigrateRowIds
<1>2. Typed /\ RowsAreTyped /\ Hub \in Device /\ sheet \in Seq(SheetRow)
  BY LedgerAssumption, KeyedAreTyped DEF IInv, Keyed
<1>3. Misdated(sheet) \subseteq OldRow
  BY DEF DatesInv, NothingWrong, SomethingWrong, WrongIsOld, Wrong
<1>4. Corrects(sheet, filled) /\ Corrects(sheet, sheet)
  BY <1>2, <1>3, FilledDates, SameRows
<1>5. /\ disk'[d]["expenses"] = sheet \/ disk'[d]["expenses"] = filled
      /\ \A e \in Device \ {d} : disk'[e]["expenses"] = disk[e]["expenses"]
      /\ backups[Hub] \subseteq backups'[Hub]
  <2>1. CASE UNCHANGED <<disk, backups>>
    BY <2>1
  <2>2. ASSUME NEW n \in 0..Len(PlanYear(d)), Backs(d),
               disk' = [disk EXCEPT ![d] = AfterSaves(@, PlanYear(d), 1..n)]
        PROVE  /\ disk'[d]["expenses"] = sheet \/ disk'[d]["expenses"] = filled
               /\ \A e \in Device \ {d} : disk'[e]["expenses"] = disk[e]["expenses"]
               /\ backups[Hub] \subseteq backups'[Hub]
    <3>1. /\ TypedSteps(PlanYear(d)) /\ 1..n \in SUBSET DOMAIN PlanYear(d)
          /\ \A i \in DOMAIN PlanYear(d) : PlanYear(d)[i].table = "expenses" =>
               PlanYear(d)[i].content = filled
      BY <1>2, PlanIsKeyed DEF TypedSteps
    <3> DEFINE after == AfterSaves(disk[d], PlanYear(d), 1..n)["expenses"]
    <3>2. \/ after = disk[d]["expenses"] /\ SavesOf("expenses", PlanYear(d), 1..n) = {}
          \/ \E i \in 1..n : /\ IsSave(PlanYear(d)[i]) /\ PlanYear(d)[i].table = "expenses"
                             /\ after = PlanYear(d)[i].content
      BY <3>1, SavedExpenses
    <3>3. disk'[d]["expenses"] = after
      BY <1>2, <2>2 DEF Typed
    <3> HIDE DEF after, filled
    <3>4. disk'[d]["expenses"] = sheet \/ disk'[d]["expenses"] = filled
      BY <3>1, <3>2, <3>3
    <3>5. \A e \in Device \ {d} : disk'[e]["expenses"] = disk[e]["expenses"]
      BY <1>2, <2>2 DEF Typed
    <3>6. backups[Hub] \subseteq backups'[Hub]
      BY <1>2, <2>2 DEF Typed, Backs, BackupDbs
    <3> QED
      BY <3>4, <3>5, <3>6
  <2> HIDE DEF filled, sheet
  <2> QED
    BY <2>1, <2>2 DEF MigrateRowIds
<1> HIDE DEF filled
<1>6. KeepsDates(d)
  BY <1>1, <1>4, <1>5 DEF KeepsDates
<1>7. ASSUME SomethingWrong PROVE RisesFor(d)
  <2>1. /\ DOMAIN clock = Device
        /\ clock[d] \in Nat /\ \A e \in log[d] : e.key.time \in 0..clock[d]
    BY <1>7 DEF SomethingWrong, ClocksAhead
  <2>2. LargestTime(log[d]) \in 0..clock[d] /\ \A e \in log[d] : e.key.time <= LargestTime(log[d])
    BY <2>1, LargestIs
  <2>3. \A e \in log[d] : e.key.time \in 0..LargestTime(log[d])
    BY <2>1, <2>2
  <2> QED
    BY <1>1, <2>1, <2>2, <2>3 DEF RisesFor
<1>8. StepsAround
  <2>1. ASSUME SomethingWrong PROVE starts = 1
    BY <1>1, <2>1 DEF SomethingWrong, Early
  <2>2. SomethingWrong => starts' = 0 /\ Early' /\ ~HubIsOut
    BY <1>1, <2>1 DEF SomethingWrong, Early, HubIsOut
  <2> QED
    BY <1>1, <1>5, <2>2 DEF StepsAround
<1> QED
  BY <1>1, <1>6, <1>7, <1>8, DatesStay

(* What a device records of its own log, if that is about no expense or    *)
(* what its expenses are, keeps the dates.                                 *)
LEMMA RecordsKeepDates ==
  ASSUME Typed, NEW d \in Device, NEW steps, NEW n \in 0..Len(steps), Records(d, steps, n),
         \A i \in 1..n : steps[i].table = "expenses" =>
           /\ steps[i].op = "upsert" /\ steps[i].content.id = steps[i].id
           /\ NeedsRepair(steps[i].content) <=> steps[i].id \in Wrong(d)
           /\ paired = {} /\ d = Hub /\ boot[d] # "off"
  PROVE  KeepsDates(d)
<1>1. disk' = disk /\ Appends(d, steps, 1..n)
  BY DEF Records
<1>2. /\ \A e \in Device \ {d} : log'[e] = log[e]
      /\ log[d] \subseteq log'[d]
      /\ \A x \in log'[d] \ log[d] :
              /\ x.key.device = d
              /\ \E i \in 1..n :
                   /\ ~IsSave(steps[i]) /\ x.table = steps[i].table /\ x.id = steps[i].id
                   /\ x.op = steps[i].op /\ x.content = steps[i].content
  BY <1>1, AppendedEntries
<1>3. ASSUME NEW x \in log'[d] \ log[d]
      PROVE  /\ HoldsItsRow(x) /\ x.key.device = d
             /\ x.table = "expenses" => (IsWrong(x) <=> x.id \in Misdated(disk'[d]["expenses"]))
             /\ IsWrong(x) => paired = {} /\ d = Hub /\ boot[d] # "off"
  <2>1. PICK i \in 1..n : /\ x.table = steps[i].table /\ x.id = steps[i].id
                          /\ x.op = steps[i].op /\ x.content = steps[i].content
    BY <1>2
  <2>2. Misdated(disk'[d]["expenses"]) = Wrong(d)
    BY <1>1 DEF Wrong
  <2>3. x.key.device = d
    BY <1>2
  <2>4. x.table = "expenses" =>
          /\ x.op = "upsert" /\ x.content.id = x.id
          /\ NeedsRepair(x.content) <=> x.id \in Wrong(d)
          /\ paired = {} /\ d = Hub /\ boot[d] # "off"
    BY <2>1
  <2> QED
    BY <2>2, <2>3, <2>4 DEF HoldsItsRow, IsWrong
<1>4. Corrects(disk[d]["expenses"], disk'[d]["expenses"])
  BY <1>1, SameRows
<1> QED
  BY <1>1, <1>2, <1>3, <1>4 DEF KeepsDates

(* The records of a baseline are like that. *)
LEMMA PendingIsDated ==
  ASSUME IInv, DatesInv, NEW d \in Device, boot[d] # "off", ~Refuses(d),
         RecordsEveryYear(d) \/ RetriesSkipped(d), NEW n \in 0..Len(Pending(d)),
         NEW i \in 1..n, Pending(d)[i].table = "expenses"
  PROVE  /\ Pending(d)[i].op = "upsert" /\ Pending(d)[i].content.id = Pending(d)[i].id
         /\ NeedsRepair(Pending(d)[i].content) <=> Pending(d)[i].id \in Wrong(d)
         /\ paired = {} /\ d = Hub
<1> DEFINE step == Pending(d)[i]
<1>1. Pending(d) \in Seq(Recordable(d))
  BY PendingIsLoaded DEF IInv
<1>2. step \in Recordable(d) /\ Pending(d) # <<>>
  BY <1>1
<1> HIDE DEF step
<1>3. step.table = "expenses"
  BY DEF step
<1>4. \A c, value : SetCell("income", c, value).table = "income"
  BY DEF SetCell, Record
<1>5. \A t, row : /\ Upsert(t, row).table = t /\ Upsert(t, row).id = row.id
                  /\ Upsert(t, row).op = "upsert" /\ Upsert(t, row).content = row
  BY DEF Upsert, Record
<1>6. PICK row \in LoadedRows(d, "expenses") : step = Upsert("expenses", row)
  <2>1. step \notin {SetCell("income", c, disk[d]["income"][c]) : c \in IncomeCategory}
    BY <1>3, <1>4
  <2>2. PICK t \in Keyed : step \in {Upsert(t, row) : row \in LoadedRows(d, t)}
    BY <1>2, <2>1 DEF Recordable
  <2>3. t = "expenses"
    BY <1>3, <1>5, <2>2
  <2> QED
    BY <2>2, <2>3
<1>7. PICK k \in DOMAIN disk[d]["expenses"] : row = disk[d]["expenses"][k]
  BY <1>6 DEF LoadedRows, ToSet
<1>8. Alike(disk[d]["expenses"])
  BY DEF DatesInv, NothingWrong, SomethingWrong, StillWrong, Alike, Wrong, Misdated
<1>9. NeedsRepair(row) <=> row.id \in Wrong(d)
  BY <1>7, <1>8 DEF Alike, Wrong, Misdated
<1>10. d \notin paired
  BY <1>2 DEF Refuses, PairedForBaseline
<1>11. d = Hub /\ paired = {}
  BY <1>10 DEF IInv, StartsApart
<1>12. /\ step.op = "upsert" /\ step.content.id = step.id
       /\ NeedsRepair(step.content) <=> step.id \in Wrong(d)
  BY <1>5, <1>6, <1>9
<1> QED
  BY <1>11, <1>12 DEF step

(* What a device knows stays older than its clock, where it adds nothing.  *)
LEMMA StillRises ==
  ASSUME Typed, ClocksAhead, NEW d \in Device, UNCHANGED <<log, clock>>
  PROVE  RisesFor(d)
BY DEF ClocksAhead, RisesFor

(* The two baselines record of the expenses what they are. *)
LEMMA BaselinesKeepDates ==
  ASSUME IInv, DatesInv, NEW d \in Device, BaselineChangeLog(d) \/ SettingsBaseline(d)
  PROVE  DatesInv'
<1>1. Typed /\ RowsAreTyped /\ StartsApart /\ Hub \in Device
  BY LedgerAssumption DEF IInv
<1>2. /\ UNCHANGED <<disk, paired, backups>>
      /\ boot[d] # "off"
      /\ \A e \in Device : e # d => boot'[e] = boot[e]
      /\ serving' = serving \/ serving' = serving \cup {d}
  BY <1>1, BaselineRecords
<1>3. UNCHANGED <<repaired, removals, requests, starts>>
  BY DEF BaselineChangeLog, SettingsBaseline, RecordsAndMarks, Records
<1>4. StepsAround
  <2>1. SomethingWrong /\ starts # 0 => d # Hub /\ boot[Hub] = "off"
    BY <1>2 DEF SomethingWrong, Early
  <2>2. SomethingWrong => Early'
    BY <1>1, <1>2, <1>3, <2>1 DEF SomethingWrong, Early
  <2>3. HubIsOut => Hub \notin serving' /\ boot'[Hub] = "off" /\ starts' = 0
    BY <1>1, <1>2, <1>3 DEF HubIsOut
  <2>4. Misdated(disk'[Hub]["expenses"]) = Wrong(Hub)
    BY <1>2 DEF Wrong
  <2> QED
    BY <1>2, <1>3, <2>1, <2>2, <2>3, <2>4 DEF StepsAround
<1>5. d \in paired \cup {Hub}
  BY <1>1, <1>2 DEF StartsApart
<1>6. ASSUME UNCHANGED <<log, clock>> PROVE DatesInv'
  <2>1. KeepsDates(d)
    BY <1>2, <1>6, SameRows DEF KeepsDates
  <2>2. SomethingWrong => RisesFor(d)
    BY <1>1, <1>6, StillRises DEF SomethingWrong
  <2> QED
    BY <1>4, <1>5, <2>1, <2>2, DatesStay
<1>7. ASSUME NEW steps, TypedSteps(steps), NEW n \in 0..Len(steps), Records(d, steps, n),
             KeepsDates(d)
      PROVE  DatesInv'
  <2>1. Appends(d, steps, 1..n) /\ 1..n \in SUBSET DOMAIN steps
    BY <1>7 DEF Records, TypedSteps
  <2>2. SomethingWrong => RisesFor(d)
    BY <1>1, <1>7, <2>1, StampsRise DEF SomethingWrong
  <2> QED
    BY <1>4, <1>5, <1>7, <2>2, DatesStay
<1>8. ASSUME ~Refuses(d), RecordsEveryYear(d) \/ RetriesSkipped(d),
             NEW n \in 0..Len(Pending(d)), Records(d, Pending(d), n)
      PROVE  DatesInv'
  <2>1. TypedSteps(Pending(d))
    BY <1>1, PendingIsTyped
  <2>2. \A i \in 1..n : Pending(d)[i].table = "expenses" =>
          /\ Pending(d)[i].op = "upsert" /\ Pending(d)[i].content.id = Pending(d)[i].id
          /\ NeedsRepair(Pending(d)[i].content) <=> Pending(d)[i].id \in Wrong(d)
          /\ paired = {} /\ d = Hub /\ boot[d] # "off"
    BY <1>2, <1>8, PendingIsDated
  <2>3. KeepsDates(d)
    BY <1>1, <1>8, <2>2, RecordsKeepDates
  <2> QED
    BY <1>7, <1>8, <2>1, <2>3
<1>9. ASSUME NEW n \in 0..Len(CurrentSettings(d, Wanted(d))),
             Records(d, CurrentSettings(d, Wanted(d)), n)
      PROVE  DatesInv'
  <2> DEFINE steps == CurrentSettings(d, Wanted(d))
  <2>1. TypedSteps(steps) /\ \A i \in DOMAIN steps : steps[i].table # "expenses"
    BY <1>1, SettingsAreTyped DEF Settings
  <2>2. n \in 0..Len(steps) /\ Records(d, steps, n)
    BY <1>9
  <2> HIDE DEF steps
  <2>3. \A i \in 1..n : steps[i].table # "expenses"
    BY <2>1, <2>2 DEF TypedSteps
  <2>4. KeepsDates(d)
    BY <1>1, <2>2, <2>3, RecordsKeepDates
  <2> QED
    BY <1>7, <2>1, <2>2, <2>4
<1>10. CASE BaselineChangeLog(d)
  BY <1>6, <1>8, <1>10 DEF BaselineChangeLog, RecordsAndMarks
<1>11. CASE SettingsBaseline(d)
  BY <1>6, <1>9, <1>11 DEF SettingsBaseline, RecordsAndMarks
<1> QED
  BY <1>10, <1>11

(* Of what happens around a start, only a log that is deleted concerns the *)
(* dates, and none is where a date is wrong.                               *)
LEMMA AroundKeepsDates ==
  ASSUME IInv, DatesInv, NEW d \in Device, (d = Hub /\ Stop(d)) \/ Restore(d) \/ DeleteLog(d)
  PROVE  DatesInv'
<1>1. CASE Restore(d)
  BY <1>1, DatesUnchanged DEF Restore, startVars
<1>2. CASE DeleteLog(d)
  <2>1. /\ UNCHANGED <<disk, repaired>> /\ \A e \in Device : log'[e] \subseteq log[e]
        /\ removals > 0
    BY <1>2 DEF DeleteLog, IInv, Typed
  <2>2. NothingWrong /\ EntriesHoldRows
    BY <2>1 DEF DatesInv, SomethingWrong, Early
  <2>3. \A e \in Device : Misdated(disk'[e]["expenses"]) = {}
    BY <2>1, <2>2 DEF NothingWrong, Wrong
  <2> QED
    BY <2>1, <2>2, <2>3, NothingBecomesWrong
<1>3. CASE d = Hub /\ Stop(d)
  <2>1. Hub \in serving /\ starts > 0 /\ UNCHANGED <<disk, log, repaired>>
    BY <1>3 DEF Stop, startVars
  <2>2. NothingWrong /\ EntriesHoldRows
    BY <2>1 DEF DatesInv, SomethingWrong, Early
  <2>3. \A e \in Device : Misdated(disk'[e]["expenses"]) = {}
    BY <2>1, <2>2 DEF NothingWrong, Wrong
  <2> QED
    BY <2>1, <2>2, <2>3, NothingBecomesWrong
<1> QED
  BY <1>1, <1>2, <1>3

-----------------------------------------------------------------------------
(* The repair                                                              *)

(* It saves a table without wrong dates and records every row it had wrong *)
(* as it then is.                                                          *)
RepairsAll(sheet, steps) ==
  /\ DatedFor(sheet, Misdated(sheet), steps)
  /\ \A i \in DOMAIN steps : IF IsSave(steps[i]) THEN Misdated(steps[i].content) = {}
                             ELSE steps[i].op = "upsert" /\ steps[i].table = "expenses"
  /\ \A id \in Misdated(sheet) : \E i \in DOMAIN steps : ~IsSave(steps[i]) /\ steps[i].id = id

(* The steps of the repair are like that. *)
LEMMA RepairIsDated ==
  ASSUME NEW sheet \in Seq(SheetRow)
  PROVE  RepairsAll(sheet, RepairSteps(sheet))
<1> DEFINE P == {i \in DOMAIN sheet : NeedsRepair(sheet[i])}
           changed == RowsAt(sheet, P)
           content == [i \in DOMAIN sheet |-> RepairedRow(sheet[i])]
           steps == RepairSteps(sheet)
           ids == Misdated(sheet)
<1>1. /\ DOMAIN sheet = 1..Len(sheet) /\ Len(sheet) \in Nat
      /\ \A i \in DOMAIN sheet : sheet[i] \in SheetRow
      /\ P \in SUBSET (1..Len(sheet))
  OBVIOUS
<1>3. /\ \A i \in P : i \in DOMAIN sheet /\ NeedsRepair(sheet[i]) /\ sheet[i].id \in ids
      /\ \A i \in DOMAIN sheet : NeedsRepair(sheet[i]) => i \in P
      /\ \A id \in ids : \E i \in P : sheet[i].id = id
  BY DEF Misdated
<1>4. \A row \in SheetRow : /\ RepairedRow(row).id = row.id /\ ~NeedsRepair(RepairedRow(row))
                            /\ ~NeedsRepair(row) => RepairedRow(row) = row
  <2>1. ASSUME NEW row \in SheetRow
        PROVE  [row EXCEPT !.day = FirstOfMonth].id = row.id
               /\ [row EXCEPT !.day = FirstOfMonth].day = 1
    BY DEF SheetRow, FirstOfMonth
  <2>2. 1 \in Days
    BY DEF Days
  <2> QED
    BY <2>1, <2>2 DEF RepairedRow, NeedsRepair
<1>6. steps = [n \in 1..1 + Len(changed) |->
                IF n = 1 THEN Save("expenses", content)
                ELSE Upsert("expenses", RepairedRow(changed[n - 1]))]
  BY DEF RepairSteps
<1>7. /\ DOMAIN content = DOMAIN sheet
      /\ \A i \in DOMAIN sheet : content[i] = RepairedRow(sheet[i])
  OBVIOUS
<1> HIDE DEF P
<1>2. /\ Cardinality(P) \in Nat /\ DOMAIN changed = 1..Cardinality(P)
      /\ changed = [n \in 1..Cardinality(P) |-> changed[n]]
      /\ \A n \in DOMAIN changed : \E i \in P : changed[n] = sheet[i]
      /\ \A i \in P : \E n \in DOMAIN changed : changed[n] = sheet[i]
  BY <1>1, RowsAtPicks
<1> HIDE DEF changed, content, steps, ids
<1>5. Len(changed) = Cardinality(P)
  BY <1>2
<1>8. /\ DOMAIN steps = 1..1 + Cardinality(P) /\ steps[1] = Save("expenses", content)
      /\ \A n \in 1..Cardinality(P) : /\ n + 1 \in DOMAIN steps
                                      /\ steps[n + 1] = Upsert("expenses", RepairedRow(changed[n]))
      /\ \A k \in DOMAIN steps : k = 1 \/ \E n \in 1..Cardinality(P) : k = n + 1
  <2>1. DOMAIN steps = 1..1 + Cardinality(P) /\ steps[1] = Save("expenses", content)
    BY <1>2, <1>5, <1>6
  <2>2. ASSUME NEW n \in 1..Cardinality(P)
        PROVE  n + 1 \in DOMAIN steps /\ steps[n + 1] = Upsert("expenses", RepairedRow(changed[n]))
    <3>1. n + 1 \in 1..1 + Cardinality(P) /\ n + 1 # 1 /\ (n + 1) - 1 = n
      BY <1>2
    <3> QED
      BY <1>5, <1>6, <2>1, <3>1
  <2>3. ASSUME NEW k \in DOMAIN steps, k # 1 PROVE \E n \in 1..Cardinality(P) : k = n + 1
    <3>1. k - 1 \in 1..Cardinality(P) /\ k = (k - 1) + 1
      BY <1>2, <2>1, <2>3
    <3> QED
      BY <3>1
  <2> QED
    BY <2>1, <2>2, <2>3
<1>9. /\ \A i \in DOMAIN content : ~NeedsRepair(content[i])
      /\ Misdated(content) = {}
  BY <1>1, <1>4, <1>7 DEF Misdated
<1>10. Replaces(sheet, ids, content)
  <2>1. ASSUME NEW i \in DOMAIN content
        PROVE  \/ content[i].id \in ids /\ ~NeedsRepair(content[i])
               \/ content[i] = sheet[i] /\ ~NeedsRepair(sheet[i])
    <3>1. i \in DOMAIN sheet /\ sheet[i] \in SheetRow /\ content[i] = RepairedRow(sheet[i])
      BY <1>1, <1>7
    <3> QED
      BY <1>3, <1>4, <3>1
  <2> QED
    BY <1>7, <2>1 DEF Replaces
<1>11. ASSUME NEW n \in 1..Cardinality(P)
       PROVE  LET row == RepairedRow(changed[n])
              IN row.id = changed[n].id /\ row.id \in ids /\ ~NeedsRepair(row)
  <2>1. PICK i \in P : changed[n] = sheet[i]
    BY <1>2
  <2>2. sheet[i] \in SheetRow /\ sheet[i].id \in ids
    BY <1>1, <1>3
  <2> QED
    BY <1>4, <2>1, <2>2
<1>12. /\ IsSave(Save("expenses", content)) /\ Save("expenses", content).table = "expenses"
       /\ Save("expenses", content).content = content
  BY DEF IsSave, Save
<1>13. \A row : LET s == Upsert("expenses", row)
                IN /\ ~IsSave(s) /\ s.table = "expenses" /\ s.id = row.id
                   /\ s.op = "upsert" /\ s.content = row
  BY DEF IsSave, Upsert, Record
<1>14. ASSUME NEW k \in DOMAIN steps, k # 1
       PROVE  /\ ~IsSave(steps[k]) /\ steps[k].id \in ids /\ RightRecord(steps[k])
              /\ steps[k].op = "upsert" /\ steps[k].table = "expenses"
  <2>1. PICK n \in 1..Cardinality(P) : k = n + 1
    BY <1>8, <1>14
  <2>2. steps[k] = Upsert("expenses", RepairedRow(changed[n]))
    BY <1>8, <2>1
  <2> QED
    BY <1>11, <1>13, <2>2 DEF RightRecord
<1>15. 1 \in DOMAIN steps
  BY <1>2, <1>8
<1>16. DatedFor(sheet, ids, steps)
  BY <1>8, <1>10, <1>12, <1>14, <1>15 DEF DatedFor
<1>17. ASSUME NEW id \in ids PROVE \E k \in DOMAIN steps : ~IsSave(steps[k]) /\ steps[k].id = id
  <2>1. PICK i \in P : sheet[i].id = id
    BY <1>3
  <2>2. PICK n \in 1..Cardinality(P) : changed[n] = sheet[i]
    BY <1>2
  <2>3. n + 1 \in DOMAIN steps /\ steps[n + 1] = Upsert("expenses", RepairedRow(changed[n]))
    BY <1>8
  <2> QED
    BY <1>11, <1>13, <2>1, <2>2, <2>3
<1>18. \A k \in DOMAIN steps : IF IsSave(steps[k]) THEN Misdated(steps[k].content) = {}
                               ELSE steps[k].op = "upsert" /\ steps[k].table = "expenses"
  BY <1>8, <1>9, <1>12, <1>14
<1>19. RepairsAll(sheet, steps)
  BY <1>16, <1>17, <1>18 DEF RepairsAll, ids
<1> QED
  BY <1>19 DEF steps

(* Each record that is done is found in the log. *)
LEMMA RecordsAreAppended ==
  ASSUME Typed, NEW d \in Device, NEW steps, NEW done, Appends(d, steps, done),
         NEW i \in done, ~IsSave(steps[i])
  PROVE  \E x \in log'[d] : /\ x.table = steps[i].table /\ x.id = steps[i].id
                            /\ x.op = steps[i].op /\ x.content = steps[i].content
<1>1. PICK t \in WallClocks(d) :
        log' = [log EXCEPT ![d] = @ \cup {EntryOf(steps[j], [time |-> t + j, device |-> d]) :
                                            j \in {k \in done : ~IsSave(steps[k])}}]
  BY DEF Appends
<1> DEFINE entries == {EntryOf(steps[j], [time |-> t + j, device |-> d]) :
                         j \in {k \in done : ~IsSave(steps[k])}}
           x == EntryOf(steps[i], [time |-> t + i, device |-> d])
<1>2. x \in entries
  OBVIOUS
<1>3. /\ x.table = steps[i].table /\ x.id = steps[i].id
      /\ x.op = steps[i].op /\ x.content = steps[i].content
  BY DEF EntryOf
<1> HIDE DEF entries, x
<1>4. log'[d] = log[d] \cup entries
  BY <1>1 DEF Typed, entries
<1> QED
  BY <1>2, <1>3, <1>4

(* The repair finds wrong dates, so it has not gone through before. *)
LEMMA RepairIsFirst ==
  ASSUME IInv, DatesInv, RepairDates
  PROVE  SomethingWrong /\ repaired = {} /\ Wrong(Hub) # {}
<1>1. PICK i \in DOMAIN disk[Hub]["expenses"] : NeedsRepair(disk[Hub]["expenses"][i])
  BY DEF RepairDates
<1>2. disk[Hub]["expenses"][i].id \in Wrong(Hub)
  BY <1>1 DEF Wrong, Misdated
<1>3. SomethingWrong
  BY <1>2, LedgerAssumption DEF DatesInv, NothingWrong
<1>4. repaired = {}
  BY <1>2, <1>3 DEF SomethingWrong, RepairedOnce
<1> QED
  BY <1>2, <1>3, <1>4

(* The expenses after a repair that has come anywhere are right. *)
LEMMA RepairedExpenses ==
  ASSUME Typed, NEW steps, TypedSteps(steps), RepairsAll(disk[Hub]["expenses"], steps),
         NEW done \in SUBSET DOMAIN steps,
         disk' = [disk EXCEPT ![Hub] = AfterSaves(@, steps, done)]
  PROVE  /\ disk'[Hub]["expenses"] = disk[Hub]["expenses"] \/ Misdated(disk'[Hub]["expenses"]) = {}
         /\ 1 \in done => Misdated(disk'[Hub]["expenses"]) = {}
<1> DEFINE after == AfterSaves(disk[Hub], steps, done)["expenses"]
<1>1. disk'[Hub]["expenses"] = after
  BY LedgerAssumption DEF Typed
<1>2. \/ after = disk[Hub]["expenses"] /\ SavesOf("expenses", steps, done) = {}
      \/ \E i \in done : /\ IsSave(steps[i]) /\ steps[i].table = "expenses"
                         /\ after = steps[i].content
  BY SavedExpenses
<1> HIDE DEF after
<1>3. \A i \in done : IsSave(steps[i]) => Misdated(steps[i].content) = {}
  BY DEF RepairsAll
<1>4. 1 \in done => SavesOf("expenses", steps, done) # {}
  BY DEF RepairsAll, DatedFor, SavesOf
<1>5. after = disk[Hub]["expenses"] \/ Misdated(after) = {}
  BY <1>2, <1>3
<1>6. 1 \in done => Misdated(after) = {}
  BY <1>2, <1>3, <1>4
<1> QED
  BY <1>1, <1>5, <1>6

(* What a repair that goes through has recorded. *)
LEMMA RepairedEntries ==
  ASSUME Typed, StillWrong, NEW steps, RepairsAll(disk[Hub]["expenses"], steps),
         Appends(Hub, steps, DOMAIN steps)
  PROVE  /\ \A x \in log'[Hub] \ log[Hub] :
              x.key.device = Hub /\ ~IsWrong(x) /\ x.id \in Wrong(Hub)
         /\ \A id \in Wrong(Hub) : \E x \in log'[Hub] \ log[Hub] :
              x.table = "expenses" /\ x.id = id
<1> DEFINE sheet == disk[Hub]["expenses"]
<1>1. Hub \in Device /\ Wrong(Hub) = Misdated(sheet)
  BY LedgerAssumption DEF Wrong
<1>2. \A i \in DOMAIN steps : ~IsSave(steps[i]) =>
        /\ steps[i].id \in Wrong(Hub) /\ RightRecord(steps[i])
        /\ steps[i].op = "upsert" /\ steps[i].table = "expenses"
  BY <1>1 DEF RepairsAll, DatedFor
<1>3. \A id \in Wrong(Hub) : \E i \in DOMAIN steps : ~IsSave(steps[i]) /\ steps[i].id = id
  BY <1>1 DEF RepairsAll
<1> HIDE DEF sheet
<1>4. \A x \in log'[Hub] \ log[Hub] :
        /\ x.key.device = Hub
        /\ \E i \in DOMAIN steps :
             /\ ~IsSave(steps[i]) /\ x.table = steps[i].table /\ x.id = steps[i].id
             /\ x.op = steps[i].op /\ x.content = steps[i].content
  BY <1>1, AppendedEntries
<1>5. ASSUME NEW x, NEW i \in DOMAIN steps, ~IsSave(steps[i]), x.table = steps[i].table,
             x.id = steps[i].id, x.op = steps[i].op, x.content = steps[i].content
      PROVE  ~IsWrong(x) /\ x.table = "expenses" /\ x.id \in Wrong(Hub)
  BY <1>2, <1>5 DEF IsWrong, RightRecord
<1>6. \A x \in log'[Hub] \ log[Hub] :
        x.key.device = Hub /\ ~IsWrong(x) /\ x.id \in Wrong(Hub)
  BY <1>4, <1>5
<1>7. ASSUME NEW id \in Wrong(Hub)
      PROVE  \E x \in log'[Hub] \ log[Hub] : x.table = "expenses" /\ x.id = id
  <2>1. PICK i \in DOMAIN steps : ~IsSave(steps[i]) /\ steps[i].id = id
    BY <1>3
  <2>2. PICK x \in log'[Hub] : /\ x.table = steps[i].table /\ x.id = steps[i].id
                               /\ x.op = steps[i].op /\ x.content = steps[i].content
    BY <1>1, <2>1, RecordsAreAppended
  <2>3. ~IsWrong(x) /\ x.table = "expenses" /\ x.id = id
    BY <1>5, <2>1, <2>2
  <2>4. x \notin log[Hub]
    BY <1>1, <2>3 DEF StillWrong, EntriesAbout, WrongIn
  <2> QED
    BY <2>3, <2>4
<1> QED
  BY <1>6, <1>7

(* The copy taken first has the rows as they were. *)
LEMMA CopyHasWrong ==
  ASSUME Typed, Backs(Hub), NEW id \in Wrong(Hub)
  PROVE  \E copy \in backups'[Hub] : \E i \in DOMAIN copy["expenses"] :
           copy["expenses"][i].id = id /\ NeedsRepair(copy["expenses"][i])
<1>1. Copied(Hub)["expenses"] = disk[Hub]["expenses"]
  BY DEF Copied, Table, Keyed, Settings
<1>2. Copied(Hub) \in backups'[Hub]
  BY LedgerAssumption DEF Typed, Backs, BackupDbs
<1>3. PICK i \in DOMAIN disk[Hub]["expenses"] :
        disk[Hub]["expenses"][i].id = id /\ NeedsRepair(disk[Hub]["expenses"][i])
  BY DEF Wrong, Misdated
<1> QED
  BY <1>1, <1>2, <1>3

(* The repair leaves no wrong date behind where it goes through. *)
LEMMA RepairKeepsDates ==
  ASSUME IInv, DatesInv, RepairDates
  PROVE  DatesInv'
<1> DEFINE steps == RepairSteps(disk[Hub]["expenses"])
<1>1. /\ Typed /\ RowsAreTyped /\ Hub \in Device
      /\ SomethingWrong /\ repaired = {} /\ Wrong(Hub) # {}
      /\ Hub \notin serving /\ boot[Hub] = "off" /\ Backs(Hub)
      /\ UNCHANGED <<paired, requests, boot, starts, removals>>
      /\ Completes(Hub, steps) \/ LosesRecord(Hub, steps) \/ CutOff(Hub, steps)
  BY RepairIsFirst, LedgerAssumption DEF RepairDates, IInv
<1>2. \/ Completes(Hub, steps) /\ repaired' = log'[Hub] \ log[Hub]
      \/ repaired' = {}
  BY <1>1 DEF RepairDates
<1>3. TypedSteps(steps)
  BY <1>1, RepairIsSafe
<1>4. RepairsAll(disk[Hub]["expenses"], steps)
  BY <1>1, RepairIsDated, KeyedAreTyped DEF Keyed
<1> HIDE DEF steps
<1> USE <1>1 DEF SomethingWrong
<1>5. PICK done, lost : /\ Performs(Hub, steps, done, lost) /\ serving' \subseteq serving
                        /\ done \in SUBSET DOMAIN steps /\ InOrder(steps, done)
  BY <1>1, <1>3, RequestPerforms
<1>6. Appends(Hub, steps, done) /\ disk' = [disk EXCEPT ![Hub] = AfterSaves(@, steps, done)]
  BY <1>5 DEF Performs
<1>7. KeepsDates(Hub)
  <2>1. DatedSteps(disk[Hub]["expenses"], steps)
    BY <1>4 DEF RepairsAll, DatedSteps
  <2> QED
    BY <1>1, <1>3, <1>5, <1>6, <2>1, DatedStepsKeep
<1>8. RisesFor(Hub)
  BY <1>1, <1>3, <1>5, <1>6, StampsRise
<1>9. OldStaysOld'
  BY <1>1, <1>7, <1>8, KeepsOldWrong DEF DatesInv
<1>10. Early'
  BY <1>1, <1>5 DEF Early
<1>11. /\ Wrong(Hub)' = Wrong(Hub) \/ Wrong(Hub)' = {}
       /\ \A c \in Device : \A e \in log'[c] : IsWrong(e) => e \in log[c]
  <2>1. Wrong(Hub)' = Misdated(disk'[Hub]["expenses"])
    BY DEF Wrong
  <2>2. disk'[Hub]["expenses"] = disk[Hub]["expenses"] \/ Misdated(disk'[Hub]["expenses"]) = {}
    BY <1>1, <1>3, <1>4, <1>5, <1>6, RepairedExpenses
  <2> QED
    BY <2>1, <2>2, <1>7, <1>1 DEF KeepsDates, Wrong
<1>12. NotYet'
  <2>1. ASSUME starts' # 0, repaired' = {}, Wrong(Hub)' # {}, NEW c \in Device,
               NEW e \in log'[c], IsWrong(e)
        PROVE  e.id \in Wrong(Hub)'
    BY <1>1, <1>11, <2>1 DEF NotYet, WrongIn
  <2> QED
    BY <2>1 DEF NotYet, WrongIn, IsWrong, NeedsRepair
<1>13. RepairedOnce'
  <2>1. CASE repaired' = {}
    BY <2>1 DEF RepairedOnce, CopiesHaveOld
  <2>2. CASE Completes(Hub, steps) /\ repaired' = log'[Hub] \ log[Hub]
    <3>1. /\ Appends(Hub, steps, DOMAIN steps)
          /\ disk' = [disk EXCEPT ![Hub] = AfterSaves(@, steps, DOMAIN steps)]
      BY <2>2 DEF Completes, Performs
    <3>2. Wrong(Hub)' = {}
      <4>1. 1 \in DOMAIN steps
        BY <1>4 DEF RepairsAll, DatedFor
      <4> QED
        BY <1>1, <1>3, <1>4, <3>1, <4>1, RepairedExpenses DEF Wrong
    <3>3. /\ \A x \in repaired' : x.key.device = Hub /\ ~IsWrong(x) /\ x.id \in Wrong(Hub)
          /\ \A id \in Wrong(Hub) : \E x \in repaired' : x.table = "expenses" /\ x.id = id
      BY <1>1, <1>4, <2>2, <3>1, RepairedEntries
    <3>4. CopiesHaveOld'
      <4>1. \A x \in repaired' : \E copy \in backups'[Hub] : \E i \in DOMAIN copy["expenses"] :
               copy["expenses"][i].id = x.id /\ NeedsRepair(copy["expenses"][i])
        BY <1>1, <3>3, CopyHasWrong
      <4> QED
        BY <4>1 DEF CopiesHaveOld, NeedsRepair
    <3>5. ASSUME starts # 0 PROVE Covered'
      <4>1. ASSUME NEW c \in Device, NEW e \in log'[c], IsWrong(e)
            PROVE  \E f \in repaired' : SameRow(e, f) /\ ~IsWrong(f)
        <5>1. e.id \in Wrong(Hub) /\ e.table = "expenses"
          BY <1>1, <1>11, <3>5, <4>1 DEF NotYet, WrongIn, IsWrong
        <5> QED
          BY <3>3, <5>1 DEF SameRow
      <4> QED
        BY <4>1 DEF Covered, WrongIn, IsWrong, SameRow, NeedsRepair
    <3>6. ASSUME starts = 0 PROVE HubIsOut'
      <4>1. ASSUME NEW c \in Device \ {Hub}, NEW e \in repaired' PROVE e \notin log'[c]
        <5>1. log'[c] = log[c]
          BY <1>7, <4>1 DEF KeepsDates
        <5>2. e.key.device = Hub /\ e \notin log[Hub]
          BY <2>2, <3>3, <4>1
        <5> QED
          BY <5>1, <5>2 DEF HubKnowsItself
      <4>2. \A c \in Device \ {Hub} : repaired' \cap log'[c] = {}
        BY <4>1
      <4> QED
        BY <1>1, <1>5, <3>6, <4>2 DEF HubIsOut
    <3>7. \A e \in repaired' : e \in log'[Hub] /\ e.key.device = Hub
      BY <2>2, <3>3
    <3> QED
      BY <3>2, <3>4, <3>5, <3>6, <3>7 DEF RepairedOnce
  <2> QED
    BY <1>2, <2>1, <2>2
<1>14. SomethingWrong'
  BY <1>9, <1>10, <1>12, <1>13 DEF OldStaysOld
<1> QED
  BY <1>9, <1>14 DEF DatesInv, OldStaysOld

-----------------------------------------------------------------------------
(* The beginnings and the theorem                                          *)

WrongRows(a, day) == <<Row(51, a, day, 51), Row(52, a, NoDate, 52)>>

EntriesOf(rows) ==
  {EntryOf(Upsert("expenses", rows[i]), [time |-> i, device |-> Hub]) : i \in DOMAIN rows}

(* Rows and entries that are wrong, and of the same rows. *)
AllWrong(rows, entries) ==
  /\ Misdated(rows) = OldRow /\ Alike(rows) /\ Len(rows) = 2
  /\ \A e \in entries : /\ IsWrong(e) /\ HoldsItsRow(e) /\ e.id \in OldRow
                        /\ e.key.time \in 0..2 /\ e.key.device = Hub
  /\ \A id \in OldRow : \E e \in entries : e.table = "expenses" /\ e.id = id

(* The month that begins misdated is like that.                            *)
LEMMA MisdatedMonth ==
  ASSUME NEW a, NEW day \in {NoDate, OtherMonth, OtherMonthLate}
  PROVE  AllWrong(WrongRows(a, day), EntriesOf(WrongRows(a, day)))
<1> DEFINE rows == WrongRows(a, day)
           entries == EntriesOf(rows)
<1>1. /\ DOMAIN rows = 1..2 /\ Len(rows) = 2
      /\ rows[1].id = 51 /\ rows[2].id = 52 /\ rows[1].day = day /\ rows[2].day = NoDate
  BY DEF WrongRows, Row
<1>2. day \notin Days /\ NoDate \notin Days
  BY DEF NoDate, OtherMonth, OtherMonthLate, Days
<1>3. \A i \in 1..2 : NeedsRepair(rows[i]) /\ rows[i].id \in OldRow
  BY <1>1, <1>2 DEF NeedsRepair, OldRow
<1>4. \A id \in OldRow : \E i \in 1..2 : rows[i].id = id
  BY <1>1 DEF OldRow
<1> DEFINE entry(i) == EntryOf(Upsert("expenses", rows[i]), [time |-> i, device |-> Hub])
<1>5. \A i : /\ entry(i).table = "expenses" /\ entry(i).id = rows[i].id /\ entry(i).op = "upsert"
             /\ entry(i).content = rows[i]
             /\ entry(i).key.time = i /\ entry(i).key.device = Hub
  BY DEF EntryOf, Upsert, Record
<1>6. entries = {entry(i) : i \in 1..2}
  BY <1>1 DEF EntriesOf
<1> HIDE DEF entry, rows, entries
<1>7. ASSUME NEW i \in 1..2
      PROVE  /\ IsWrong(entry(i)) /\ HoldsItsRow(entry(i)) /\ entry(i).id \in OldRow
             /\ entry(i).key.time \in 0..2 /\ entry(i).key.device = Hub
  BY <1>3, <1>5 DEF IsWrong, HoldsItsRow
<1>8. ASSUME NEW id \in OldRow PROVE \E e \in entries : e.table = "expenses" /\ e.id = id
  <2>1. PICK i \in 1..2 : rows[i].id = id
    BY <1>4
  <2>2. entry(i) \in entries /\ entry(i).table = "expenses" /\ entry(i).id = id
    BY <1>5, <1>6, <2>1
  <2> QED
    BY <2>2
<1>9. Misdated(rows) = OldRow /\ Alike(rows)
  BY <1>1, <1>3, <1>4 DEF Misdated, Alike
<1>10. AllWrong(rows, entries)
  BY <1>1, <1>6, <1>7, <1>8, <1>9 DEF AllWrong
<1> QED
  BY <1>10 DEF rows, entries

(* A table without rows. *)
LEMMA NoRowsAreRight ==
  Misdated(<<>>) = {} /\ Alike(<<>>)
BY DEF Misdated, Alike

(* The expenses of the contents that behaviours begin with. *)
LEMMA BegunExpenses ==
  /\ NoData["expenses"] = <<>>
  /\ \A templates, expenses : Month(templates, expenses)["expenses"] = expenses
  /\ \A a, b : LegacyData(a, b)["expenses"] = <<>>
  /\ \A a, b : WithSettings(LegacyData(a, b), a)["expenses"] = <<>>
<1>1. "expenses" \in Table /\ DOMAIN NoData = Table
  BY DEF NoData, Table, Keyed
<1>2. NoData["expenses"] = <<>>
  BY <1>1 DEF NoData
<1>3. \A templates, expenses : Month(templates, expenses)["expenses"] = expenses
  BY <1>1 DEF Month
<1>4. \A a, b : LegacyData(a, b)["expenses"] = <<>> /\ DOMAIN LegacyData(a, b) = Table
  BY <1>1, <1>2 DEF LegacyData
<1>5. ASSUME NEW a, NEW b PROVE WithSettings(LegacyData(a, b), a)["expenses"] = <<>>
  <2> DEFINE data == LegacyData(a, b)
  <2>1. data["expenses"] = <<>> /\ "expenses" \in DOMAIN data
    BY <1>1, <1>4
  <2> HIDE DEF data
  <2>2. WithSettings(data, a)["expenses"] = data["expenses"]
    BY <2>1 DEF WithSettings
  <2>3. WithSettings(data, a)["expenses"] = <<>>
    BY <2>1, <2>2
  <2> QED
    BY <2>3 DEF data
<1> QED
  BY <1>2, <1>3, <1>4, <1>5

(* Where every device begins without wrong dates. *)
LEMMA BegunRight ==
  ASSUME repaired = {}, \A d \in Device : Misdated(disk[d]["expenses"]) = {},
         \A d \in Device : \A e \in log[d] : HoldsItsRow(e) /\ ~IsWrong(e)
  PROVE  DatesInv
BY DEF DatesInv, EntriesHoldRows, NothingWrong, Wrong, WrongIn

(* The records of a month to which templates were applied are right. *)
LEMMA BeginningIsRight ==
  ASSUME NEW templates, NEW n \in Nat, NEW e \in EntriesFrom(RecordsOf(templates, n)),
         Len(templates) \in Nat, DOMAIN templates = 1..Len(templates)
  PROVE  HoldsItsRow(e) /\ ~IsWrong(e)
<1> DEFINE upserts == [i \in DOMAIN templates |-> Upsert("recurring", templates[i])]
           made == [i \in 1..n |-> Record("expenses", AppliedOf(templates, n)[i].id, "upsert",
                                          TRUE, AppliedOf(templates, n)[i])]
           records == RecordsOf(templates, n)
           S == {x \in {upserts[i] : i \in DOMAIN upserts} \cup {made[i] : i \in DOMAIN made} :
                   x.table = "expenses" => RightRecord(x) /\ x.op = "upsert"}
<1>1. upserts \in Seq(S)
  <2>1. \A i \in DOMAIN upserts : upserts[i].table # "expenses"
    BY DEF Upsert, Record
  <2>2. upserts = [i \in 1..Len(templates) |-> upserts[i]]
    OBVIOUS
  <2> HIDE DEF upserts
  <2>3. \A i \in 1..Len(templates) : upserts[i] \in S
    BY <2>1, <2>2
  <2> HIDE DEF S
  <2> QED
    BY <2>2, <2>3
<1>2. made \in Seq(S)
  <2>1. \A i \in 1..n : RightRecord(made[i]) /\ made[i].op = "upsert"
    <3>1. ASSUME NEW i \in 1..n PROVE RightRecord(made[i]) /\ made[i].op = "upsert"
      <4>1. AppliedOf(templates, n)[i].day = 1
        BY DEF AppliedOf, GeneratedRow, Row, GeneratedRecurringDay
      <4>2. ~NeedsRepair(AppliedOf(templates, n)[i])
        BY <4>1 DEF NeedsRepair, Days
      <4> QED
        BY <4>2 DEF RightRecord, Record
    <3> QED
      BY <3>1
  <2>2. made = [i \in 1..n |-> made[i]]
    OBVIOUS
  <2> HIDE DEF made
  <2>3. \A i \in 1..n : made[i] \in S
    BY <2>1, <2>2
  <2> HIDE DEF S
  <2> QED
    BY <2>2, <2>3
<1>3. records = upserts \o made
  BY DEF RecordsOf
<1>4. \A x \in S : x.table = "expenses" => RightRecord(x) /\ x.op = "upsert"
  OBVIOUS
<1> HIDE DEF upserts, made, records, S
<1>5. records \in Seq(S)
  BY <1>1, <1>2, <1>3
<1>6. PICK i \in DOMAIN records : e = EntryOf(records[i], [time |-> i, device |-> Hub])
  BY DEF EntriesFrom, records
<1>7. records[i] \in S
  BY <1>5
<1>8. /\ e.table = records[i].table /\ e.id = records[i].id /\ e.op = records[i].op
      /\ e.content = records[i].content
  BY <1>6 DEF EntryOf
<1> QED
  BY <1>4, <1>7, <1>8 DEF RightRecord, HoldsItsRow, IsWrong

(* A hub that is stopped with wrong dates, alone or with its phones. *)
LEMMA BegunWrong ==
  ASSUME NEW rows, NEW E, NEW known \in BOOLEAN,
         Misdated(rows) = OldRow, Alike(rows),
         \A e \in E : /\ IsWrong(e) /\ HoldsItsRow(e) /\ e.id \in OldRow
                      /\ e.key.time \in 0..2 /\ e.key.device = Hub,
         known => \A id \in OldRow : \E e \in E : e.table = "expenses" /\ e.id = id,
         ~known => E = {} /\ \A d \in Device \ {Hub} : disk[d]["expenses"] = <<>>,
         disk[Hub]["expenses"] = rows,
         known => paired = Device /\ \A d \in Device : disk[d]["expenses"] = rows,
         \A d \in Device : log[d] = E,
         clock = [d \in Device |-> IF known THEN 2 ELSE 0],
         Hub \notin serving, starts = 1, removals = 0, requests = 1, repaired = {},
         boot = [d \in Device |-> "off"]
  PROVE  DatesInv
<1>1. Hub \in Device /\ Hub \in Nat /\ Wrong(Hub) = OldRow
  BY LedgerAssumption DEF Wrong
<1>2. ASSUME NEW d \in Device
      PROVE  /\ Alike(disk[d]["expenses"])
             /\ Wrong(d) = OldRow \/ Wrong(d) = {}
             /\ d # Hub /\ Wrong(d) # {} => known
  BY NoRowsAreRight DEF Wrong
<1>3. Early
  BY <1>1 DEF Early
<1>4. WrongIsOld /\ WrongFirst /\ WrongIsKnown /\ HubKnowsItself
  BY <1>1, <1>2 DEF WrongIsOld, WrongFirst, WrongIsKnown, HubKnowsItself, WrongIn
<1>5. ClocksAhead
  <2>1. 2 + Hub \in Nat /\ \A e \in E : e.key.time \in 0..2 + Hub /\ e.key.device \in 0..2 + Hub
    BY <1>1
  <2>2. DOMAIN clock = Device
    OBVIOUS
  <2>3. \A d \in Device : clock[d] \in Nat /\ \A e \in log[d] : e.key.time \in 0..clock[d]
    OBVIOUS
  <2> QED
    BY <2>1, <2>2, <2>3 DEF ClocksAhead
<1>6. NobodyBefore
  BY DEF NobodyBefore
<1>7. StillWrong
  <2>1. ASSUME NEW d \in Device, NEW id \in Wrong(d)
        PROVE  /\ EntriesAbout(log[d], id) \subseteq WrongIn(log[d])
               /\ d # Hub => EntriesAbout(log[d], id) # {}
    <3>1. EntriesAbout(log[d], id) \subseteq WrongIn(log[d])
      BY DEF EntriesAbout, WrongIn
    <3>2. id \in OldRow /\ (d # Hub => known)
      BY <1>2, <2>1
    <3> QED
      BY <3>1, <3>2 DEF EntriesAbout
  <2> QED
    BY <1>2, <2>1 DEF StillWrong
<1>8. RepairedOnce
  BY DEF RepairedOnce, CopiesHaveOld
<1>9. NotYet
  BY <1>1 DEF NotYet, WrongIn
<1>10. EntriesHoldRows
  BY DEF EntriesHoldRows
<1> QED
  BY <1>3, <1>4, <1>5, <1>6, <1>7, <1>8, <1>9, <1>10 DEF DatesInv, SomethingWrong

(* Every beginning has its dates like that. *)
LEMMA InitKeepsDates ==
  ASSUME Init
  PROVE  DatesInv
<1>1. Hub \in Device /\ repaired = {} /\ boot = [d \in Device |-> "off"]
  BY LedgerAssumption DEF Init
<1>2. ASSUME InitPaired PROVE DatesInv
  <2> DEFINE Begun(templates, n) ==
               /\ disk = [d \in Device |-> Month(templates, AppliedOf(templates, n))]
               /\ log = [d \in Device |-> EntriesFrom(RecordsOf(templates, n))]
               /\ clock = [d \in Device |-> Len(RecordsOf(templates, n))]
  <2>1. \E a \in Label : \E b \in Label \ {a} : \E templates \in SharedTemplates(a, b) :
          \E n \in 0..Len(templates) : Begun(templates, n)
    BY <1>2 DEF InitPaired, AppliedOf, RecordsOf, EntriesFrom
  <2>2. PICK a \in Label, b \in Label : \E templates \in SharedTemplates(a, b) :
          \E n \in 0..Len(templates) : Begun(templates, n)
    BY <2>1
  <2>3. PICK templates \in SharedTemplates(a, b) : \E n \in 0..Len(templates) : Begun(templates, n)
    BY <2>2
  <2>4. PICK n \in 0..Len(templates) : Begun(templates, n)
    BY <2>3
  <2>5. Len(templates) \in Nat /\ DOMAIN templates = 1..Len(templates) /\ n \in Nat
    BY SharedTemplatesAreTyped
  <2>6. \A i \in DOMAIN AppliedOf(templates, n) : ~NeedsRepair(AppliedOf(templates, n)[i])
    BY DEF AppliedOf, GeneratedRow, Row, GeneratedRecurringDay, NeedsRepair, Days
  <2>7. Misdated(AppliedOf(templates, n)) = {}
    BY <2>6 DEF Misdated
  <2>8. \A e \in EntriesFrom(RecordsOf(templates, n)) : HoldsItsRow(e) /\ ~IsWrong(e)
    BY <2>5, BeginningIsRight
  <2>9. \A d \in Device : /\ Misdated(disk[d]["expenses"]) = {}
                          /\ log[d] = EntriesFrom(RecordsOf(templates, n))
    BY <2>4, <2>7, BegunExpenses
  <2> QED
    BY <1>1, <2>8, <2>9, BegunRight
<1>3. ASSUME InitLegacy PROVE DatesInv
  <2>1. PICK a \in Label, b \in Label : a # b /\
          \E data \in {LegacyData(a, b), WithSettings(LegacyData(a, b), a)} :
            \E unreadable : InitAlone(data, unreadable)
    BY <1>3 DEF InitLegacy
  <2>2. PICK data \in {LegacyData(a, b), WithSettings(LegacyData(a, b), a)} :
          \E unreadable : InitAlone(data, unreadable)
    BY <2>1
  <2>3. /\ disk = [d \in Device |-> IF d = Hub THEN data ELSE NoData]
        /\ log = [d \in Device |-> {}]
    BY <2>2 DEF InitAlone
  <2>4. data["expenses"] = <<>> /\ NoData["expenses"] = <<>>
    BY <2>2, BegunExpenses
  <2>5. \A d \in Device : disk[d]["expenses"] = <<>> /\ log[d] = {}
    BY <2>3, <2>4
  <2>6. \A d \in Device : Misdated(disk[d]["expenses"]) = {}
    BY <2>5, NoRowsAreRight
  <2> QED
    BY <1>1, <2>5, <2>6, BegunRight
<1>4. ASSUME InitMisdated PROVE DatesInv
  <2> DEFINE Rows2(a, day) == <<Row(51, a, day, 51), Row(52, a, NoDate, 52)>>
             Entries2(rows) == {EntryOf(Upsert("expenses", rows[i]), [time |-> i, device |-> Hub]) :
                                  i \in DOMAIN rows}
             Begun(a, day, known) ==
               /\ disk = [d \in Device |-> IF d \in (IF known THEN Device ELSE {Hub})
                                           THEN Month(<<>>, Rows2(a, day)) ELSE NoData]
               /\ log = [d \in Device |-> IF known THEN Entries2(Rows2(a, day)) ELSE {}]
               /\ clock = [d \in Device |-> IF known THEN Len(Rows2(a, day)) ELSE 0]
               /\ paired = IF known THEN Device ELSE {}
               /\ serving = paired \ {Hub}
               /\ marker = [d \in Device |-> IF known THEN Present(TRUE, {}) ELSE Absence]
               /\ settingsMarker = [d \in Device |-> IF known /\ d = Hub THEN Present(FALSE, {})
                                                      ELSE Absence]
  <2>1. \E a \in Label, day \in {NoDate, OtherMonth, OtherMonthLate}, known \in BOOLEAN :
          Begun(a, day, known)
    BY <1>4, Zenon DEF InitMisdated
  <2>2. PICK a \in Label, day \in {NoDate, OtherMonth, OtherMonthLate}, known \in BOOLEAN :
          Begun(a, day, known)
    BY <2>1
  <2> DEFINE rows == Rows2(a, day)
             entries == Entries2(rows)
             E == IF known THEN entries ELSE {}
  <2>0. rows = WrongRows(a, day) /\ entries = EntriesOf(rows)
    BY DEF WrongRows, EntriesOf
  <2>4. starts = 1 /\ removals = 0 /\ requests = 1
    BY <1>4 DEF InitMisdated
  <2>5. /\ disk = [d \in Device |-> IF d \in (IF known THEN Device ELSE {Hub})
                                    THEN Month(<<>>, rows) ELSE NoData]
        /\ log = [d \in Device |-> E]
        /\ clock = [d \in Device |-> IF known THEN Len(rows) ELSE 0]
        /\ paired = (IF known THEN Device ELSE {}) /\ serving = paired \ {Hub}
    BY <2>2
  <2> HIDE DEF rows, entries, Rows2, Entries2, Begun
  <2>3. /\ Misdated(rows) = OldRow /\ Alike(rows) /\ Len(rows) = 2
        /\ \A e \in entries : /\ IsWrong(e) /\ HoldsItsRow(e) /\ e.id \in OldRow
                              /\ e.key.time \in 0..2 /\ e.key.device = Hub
        /\ \A id \in OldRow : \E e \in entries : e.table = "expenses" /\ e.id = id
    BY <2>0, MisdatedMonth DEF AllWrong
  <2>6. Month(<<>>, rows)["expenses"] = rows /\ NoData["expenses"] = <<>>
    BY BegunExpenses
  <2>7. disk[Hub]["expenses"] = rows /\ Hub \notin serving
    BY <1>1, <2>5, <2>6
  <2>8. /\ known => paired = Device /\ \A d \in Device : disk[d]["expenses"] = rows
        /\ ~known => E = {} /\ \A d \in Device \ {Hub} : disk[d]["expenses"] = <<>>
    BY <2>5, <2>6
  <2>9. clock = [d \in Device |-> IF known THEN 2 ELSE 0] /\ \A d \in Device : log[d] = E
    BY <2>3, <2>5
  <2>10. /\ \A e \in E : /\ IsWrong(e) /\ HoldsItsRow(e) /\ e.id \in OldRow
                         /\ e.key.time \in 0..2 /\ e.key.device = Hub
         /\ known => \A id \in OldRow : \E e \in E : e.table = "expenses" /\ e.id = id
    BY <2>3
  <2> HIDE DEF E
  <2> QED
    BY <1>1, <2>3, <2>4, <2>7, <2>8, <2>9, <2>10, BegunWrong
<1> QED
  BY <1>2, <1>3, <1>4 DEF Init

(* Every step keeps it. *)
LEMMA NextKeepsDates ==
  ASSUME IInv, DatesInv, [Next]_vars
  PROVE  DatesInv'
<1>1. CASE UNCHANGED vars
  BY <1>1, DatesUnchanged DEF vars, ledgerVars, startVars
<1>2. CASE Next
  <2>1. PICK d \in Device :
           \/ Handlers(d) /\ UNCHANGED startVars
           \/ Starting(d)
           \/ (d = Hub /\ Stop(d)) \/ Restore(d) \/ DeleteLog(d) \/ PairAndReset(d)
           \/ (d = Hub /\ RepairDates)
    BY <1>2 DEF Next
  <2>2. CASE Handlers(d) /\ UNCHANGED startVars
    BY <2>2, HandlersKeepDates
  <2>3. CASE MigrateRowIds(d)
    BY <2>3, MigrationKeepsDates
  <2>4. CASE BaselineChangeLog(d) \/ SettingsBaseline(d)
    BY <2>4, BaselinesKeepDates
  <2>5. CASE (d = Hub /\ Stop(d)) \/ Restore(d) \/ DeleteLog(d)
    BY <2>5, AroundKeepsDates
  <2>6. CASE PairAndReset(d)
    BY <2>6, ResetKeepsDates
  <2>7. CASE RepairDates
    BY <2>7, RepairKeepsDates
  <2> QED
    BY <2>1, <2>2, <2>3, <2>4, <2>5, <2>6, <2>7 DEF Starting
<1> QED
  BY <1>1, <1>2

(* The numbers up to n are n.                                              *)
LEMMA UpToCounts ==
  ASSUME NEW n \in Nat
  PROVE  Cardinality(1..n) = n
<1>1. Cardinality(1..n) = IF 1 > n THEN 0 ELSE n - 1 + 1
  BY FS_Interval
<1>2. n = 0 \/ (1 <= n /\ n - 1 + 1 = n)
  OBVIOUS
<1> QED
  BY <1>1, <1>2

(* All rows of a table, picked one by one, are the table. *)
LEMMA AllRowsAreThere ==
  ASSUME NEW sheet \in Seq(SheetRow)
  PROVE  RowsAt(sheet, DOMAIN sheet) = sheet
<1> DEFINE L == Len(sheet)
           Rank(i) == Cardinality({j \in 1..L : j <= i})
<1>1. DOMAIN sheet = 1..L /\ L \in Nat /\ sheet = [n \in 1..L |-> sheet[n]]
  OBVIOUS
<1>2. ASSUME NEW i \in 1..L PROVE Rank(i) = i
  <2>1. {j \in 1..L : j <= i} = 1..i /\ i \in Int /\ 1 \in Int /\ 1 <= i
    BY <1>1
  <2>2. Cardinality(1..i) = i
    BY <2>1, UpToCounts
  <2> QED
    BY <2>1, <2>2
<1>3. Cardinality(1..L) = L
  <2> HIDE DEF L
  <2> QED
    BY <1>1, UpToCounts
<1>4. ASSUME NEW n \in 1..L PROVE (CHOOSE i \in 1..L : Rank(i) = n) = n
  <2> HIDE DEF Rank
  <2> QED
    BY <1>2
<1>5. RowsAt(sheet, DOMAIN sheet)
        = [n \in 1..Cardinality(1..L) |-> sheet[CHOOSE i \in 1..L : Rank(i) = n]]
  BY <1>1 DEF RowsAt
<1> HIDE DEF Rank
<1>6. RowsAt(sheet, DOMAIN sheet) = [n \in 1..L |-> sheet[n]]
  BY <1>3, <1>4, <1>5
<1> QED
  BY <1>1, <1>6

(* A table without wrong dates is listed, summed and charted whole. *)
LEMMA RightSheetsShow ==
  ASSUME NEW sheet \in Seq(SheetRow), Misdated(sheet) = {}
  PROVE  /\ Listed(sheet) = sheet
         /\ \A label \in Label :
              /\ MonthlySpending(sheet, label) = AmountOf(sheet, label)
              /\ CategoryTotal(sheet, label) = AmountOf(sheet, label)
<1>1. \A i \in DOMAIN sheet : sheet[i].day \in Days
  BY DEF Misdated, NeedsRepair
<1>2. RowsAt(sheet, DOMAIN sheet) = sheet
  BY AllRowsAreThere
<1>3. \A i \in DOMAIN sheet : sheet[i].day # NoDate /\ sheet[i].day # OtherMonthLate
  BY <1>1 DEF NoDate, OtherMonthLate, Days
<1>4. /\ {i \in DOMAIN sheet : sheet[i].day \notin {NoDate, OtherMonthLate}} = DOMAIN sheet
      /\ {i \in DOMAIN sheet : sheet[i].day # NoDate} = DOMAIN sheet
      /\ {i \in DOMAIN sheet : sheet[i].day \in Days} = DOMAIN sheet
  BY <1>1, <1>3
<1>5. Listed(sheet) = sheet /\ Facts(sheet) = sheet
  BY <1>2, <1>4 DEF Listed, Facts
<1>6. \A label : CategoryTotal(sheet, label) = AmountOf(sheet, label)
  BY <1>5 DEF CategoryTotal
<1>7. \A label : MonthlySpending(sheet, label) = AmountOf(sheet, label)
  BY <1>2, <1>4, <1>5 DEF MonthlySpending
<1> QED
  BY <1>5, <1>6, <1>7

(* What the repair has put right is right wherever its entries are. *)
LEMMA DatesAreRight ==
  ASSUME IInv, DatesInv, NEW d \in Device, repaired # {}, repaired \subseteq log[d]
  PROVE  Wrong(d) = {}
<1>1. SomethingWrong
  BY DEF DatesInv, NothingWrong
<1> USE <1>1 DEF SomethingWrong
<1>2. Wrong(Hub) = {} /\ (Covered \/ HubIsOut)
  BY DEF RepairedOnce
<1>3. CASE d = Hub
  BY <1>2, <1>3
<1>4. CASE d # Hub /\ HubIsOut
  BY <1>4 DEF HubIsOut
<1>5. ASSUME d # Hub, Covered, NEW id \in Wrong(d) PROVE FALSE
  <2>1. EntriesAbout(log[d], id) \subseteq WrongIn(log[d]) /\ EntriesAbout(log[d], id) # {}
    BY <1>5 DEF StillWrong
  <2>2. PICK e \in WrongIn(log[d]) : e.table = "expenses" /\ e.id = id
    BY <2>1 DEF EntriesAbout
  <2>3. PICK f \in repaired : SameRow(e, f) /\ ~IsWrong(f)
    BY <1>5, <2>2 DEF Covered
  <2>4. f \in EntriesAbout(log[d], id)
    BY <2>2, <2>3 DEF EntriesAbout, SameRow
  <2> QED
    BY <2>1, <2>3, <2>4 DEF WrongIn
<1> QED
  BY <1>2, <1>3, <1>4, <1>5

(* No wrong date comes back to a device that has the entries of the repair *)
(* of dates, and what the repair has dated is found as it was in a copy.   *)
THEOREM RepairsStay == Spec => []RepairIsForGood
<1>1. Init => DatesInv
  BY InitKeepsDates
<1>2. IInv /\ DatesInv /\ [Next]_vars => DatesInv'
  BY NextKeepsDates
<1>3. IInv /\ DatesInv => RepairIsForGood
  <2> SUFFICES ASSUME IInv, DatesInv PROVE RepairIsForGood
    OBVIOUS
  <2>1. ASSUME NEW d \in Device, repaired # {}, repaired \subseteq log[d]
        PROVE  /\ Listed(disk[d]["expenses"]) = disk[d]["expenses"]
               /\ \A label \in Label :
                    /\ MonthlySpending(disk[d]["expenses"], label)
                         = AmountOf(disk[d]["expenses"], label)
                    /\ CategoryTotal(disk[d]["expenses"], label)
                         = AmountOf(disk[d]["expenses"], label)
    <3>1. Misdated(disk[d]["expenses"]) = {}
      BY <2>1, DatesAreRight DEF Wrong
    <3>2. disk[d]["expenses"] \in Seq(SheetRow)
      BY KeyedAreTyped DEF IInv, Keyed
    <3> QED
      BY <3>1, <3>2, RightSheetsShow
  <2>2. CopiesHaveOld
    BY DEF DatesInv, NothingWrong, SomethingWrong, RepairedOnce, CopiesHaveOld
  <2> QED
    BY <2>1, <2>2 DEF RepairIsForGood, CopiesHaveOld
<1>4. Spec => []IInv
  BY StartupInvariant
<1> QED
  BY <1>1, <1>2, <1>3, <1>4, PTL DEF Spec

=============================================================================

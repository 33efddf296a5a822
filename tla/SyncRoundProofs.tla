-------------------------- MODULE SyncRoundProofs --------------------------
(***************************************************************************)
(* What of SyncRound holds for any number of phones, rows, changes, resets *)
(* and faults: its types, and that the hub takes nothing a phone held      *)
(* alone before its pairing.                                               *)
(***************************************************************************)
EXTENDS SyncRound, FiniteSetTheorems, WellFoundedInduction, TLAPS

(* A nonempty set of natural numbers has a least element. *)
LEMMA NatLeast ==
  ASSUME NEW T \in SUBSET Nat, T # {}
  PROVE  \E n \in T : \A m \in T : n <= m
<1>1. PICK n \in T : \A m \in T : ~(<<m, n>> \in OpToRel(<, Nat))
  BY WFMin, NatLessThanWellFounded
<1>2. \A m \in T : ~(m < n)
  BY <1>1 DEF OpToRel
<1> QED
  BY <1>2

(* A bounded one has a greatest element. *)
LEMMA GreatestUpTo ==
  ASSUME NEW N \in Nat, NEW T \in SUBSET (0..N), T # {}
  PROVE  \E n \in T : \A m \in T : m <= n
<1> DEFINE U == {N - t : t \in T}
<1>1. \A t \in T : t \in Nat /\ N - t \in Nat
  OBVIOUS
<1>2. U \in SUBSET Nat /\ U # {}
  BY <1>1
<1>3. PICK u \in U : \A v \in U : u <= v
  BY <1>2, NatLeast
<1>4. PICK t \in T : u = N - t
  OBVIOUS
<1>5. \A m \in T : N - t <= N - m
  BY <1>3, <1>4
<1> QED
  BY <1>1, <1>5

(* The lines there can be by now: no clock runs ahead of the bound, and    *)
(* every line is about a change that was made.                             *)
Written == {x \in Line : x.made <= made /\ x.entry.key.time <= MaxTime
                         /\ x.entry.key.device \in Device}

Problem == {"damaged", "append_failed", "reset_pending", "no_baseline", "baseline_refused",
            "repair_unfinished"}

Said == [kind : {"none", "done", "proceed"}]
Hellos == [kind : {"hello"}, summary : [Device -> Nat], reliable : BOOLEAN, pending : BOOLEAN,
           last : Nat]
Answers == [kind : {"answer"}, summary : [Device -> Nat], reliable : BOOLEAN,
            mustReset : BOOLEAN, firstReset : BOOLEAN]
Pushes(W) == [kind : {"push"}, lines : SUBSET W]
Replies(W) == [kind : {"reply"}, lines : SUBSET W, all : SUBSET W]
Fulls(W, n) == [kind : {"full"}, lines : SUBSET W, id : 0..n]

ForHub(W) == Said \cup Hellos \cup Pushes(W)
ForPhone(W, n) == Said \cup Answers \cup Replies(W) \cup Fulls(W, n)

RoundPlan == [kind : {"exchange", "reset", "repair"}, pushFirst : BOOLEAN]
Begun == [phone : Phone, stage : {"hello"}]
Serving == [phone : Phone, hello : Hellos, plan : RoundPlan,
            stage : {"push", "proceed", "reply", "full", "repair"}]

DataTypes ==
  /\ log \in [Device -> SUBSET Written]
  /\ disk \in [Device -> [Row -> M!Content \cup {M!Absent}]]
  /\ clock \in [Device -> 0..MaxTime]
  /\ problems \in [Device -> SUBSET Problem]

PeerTypes ==
  /\ hubOf \subseteq Phone /\ phones \subseteq Phone
  /\ issued \in 0..MaxResets
  /\ finished \in [Phone -> 0..issued]
  /\ required \in [Phone -> [id : 0..issued, first : 0..issued]]

WireTypes ==
  /\ at \in [Phone -> {"idle", "pairing", "hello", "reply", "full"}]
  /\ own \in [Phone -> Said \cup Hellos]
  /\ session \in {Idle} \cup Begun \cup Serving
  /\ toHub \in [Phone -> ForHub(Written)]
  /\ toPhone \in [Phone -> ForPhone(Written, issued)]

PastTypes ==
  /\ cast \in Casts /\ made \in 0..MaxTime /\ lost \in 0..cast.losses
  /\ joined \subseteq Phone /\ private \subseteq Written

Types == DataTypes /\ PeerTypes /\ WireTypes /\ PastTypes

-----------------------------------------------------------------------------
(* What keeps a phone that the hub has not replaced yet from pushing.      *)

(* Such a phone has finished no reset since it paired. *)
Unproven == \A p \in Phone : p \notin hubOf \cap joined => finished[p] = 0

(* While a pairing is under way, and from then on until the hub sees a     *)
(* proof, the hub requires a reset, and the first one of this pairing.     *)
Owing(p) == required[p].id # 0 /\ required[p].first # 0

PairsFirst ==
  \A p \in Phone : at[p] = "pairing" =>
    p \notin hubOf /\ session.phone # p /\ (p \in phones => Owing(p))

Owes == \A p \in (hubOf \cap phones) \ joined : Owing(p)

(* Its hello proves nothing. *)
HelloTrue ==
  \A p \in Phone \ joined : session.phone = p =>
    /\ toHub[p].kind = "hello" => toHub[p].last = 0
    /\ session.stage # "hello" => session.hello.last = 0

(* So the hub's answer tells it to push nothing. *)
AnswerTrue ==
  \A p \in hubOf \ joined :
    at[p] = "hello" /\ toPhone[p].kind = "answer" => toPhone[p].firstReset

Guarded == Unproven /\ PairsFirst /\ Owes /\ HelloTrue /\ AnswerTrue

-----------------------------------------------------------------------------
(* Where private lines are not.                                            *)

JoinedClean == \A p \in joined : log[p] \cap private = {}

PushClean ==
  \A p \in Phone : session.phone = p /\ toHub[p].kind = "push" => toHub[p].lines \cap private = {}

TakenClean ==
  \A p \in Phone : at[p] \in {"reply", "full"} => Carried(toPhone[p]) \cap private = {}

Clean == HubTakesNoPrivateData /\ JoinedClean /\ PushClean /\ TakenClean

IInv == Types /\ Guarded /\ Clean

-----------------------------------------------------------------------------
(* Devices, messages and stamps.                                           *)

(* The hub and the phones are devices, no phone is the number of nobody,   *)
(* and only devices take part.                                             *)
LEMMA Devices ==
  /\ Hub \in Device /\ Phone \subseteq Device /\ Hub \notin Phone /\ 0 \notin Phone
  /\ Device \subseteq Nat
  /\ PastTypes => Present \subseteq Device
  BY RoundAssumption DEF Device, PastTypes, Present

(* What was said stays well formed while more is made and issued. *)
LEMMA MessagesGrow ==
  ASSUME NEW V, NEW W, V \subseteq W, NEW n \in Nat, NEW m \in Nat, n <= m
  PROVE  ForHub(V) \subseteq ForHub(W) /\ ForPhone(V, n) \subseteq ForPhone(W, m)
<1>1. Pushes(V) \subseteq Pushes(W)
  BY DEF Pushes
<1>2. Replies(V) \subseteq Replies(W)
  BY DEF Replies
<1>3. Fulls(V, n) \subseteq Fulls(W, m)
  <2>1. 0..n \subseteq 0..m
    OBVIOUS
  <2> QED
    BY <2>1 DEF Fulls
<1> QED
  BY <1>1, <1>2, <1>3 DEF ForHub, ForPhone

(* What a message of either direction is, by its kind. *)
LEMMA HubKinds ==
  ASSUME NEW W, NEW m \in ForHub(W)
  PROVE  /\ m.kind \in {"none", "done", "proceed", "hello", "push"}
         /\ m.kind = "hello" => m \in Hellos
         /\ m.kind = "push" => m.lines \subseteq W
         /\ Carried(m) \subseteq W
         /\ m.kind # "push" => Carried(m) = {}
         /\ m.kind = "push" => Carried(m) = m.lines
<1>1. CASE m \in Said
  BY <1>1 DEF Said, Carried
<1>2. CASE m \in Hellos
  BY <1>2 DEF Hellos, Carried
<1>3. CASE m \in Pushes(W)
  BY <1>3 DEF Pushes, Carried
<1> QED
  BY <1>1, <1>2, <1>3 DEF ForHub

(* The same for the phone. *)
LEMMA PhoneKinds ==
  ASSUME NEW W, NEW n, NEW m \in ForPhone(W, n)
  PROVE  /\ m.kind \in {"none", "done", "proceed", "answer", "reply", "full"}
         /\ m.kind = "answer" => m \in Answers
         /\ m.kind \in {"reply", "full"} => m.lines \subseteq W
         /\ m.kind = "full" => m.id \in 0..n
         /\ Carried(m) \subseteq W
         /\ m.kind \notin {"reply", "full"} => Carried(m) = {}
         /\ m.kind \in {"reply", "full"} => Carried(m) = m.lines
<1>1. CASE m \in Said
  BY <1>1 DEF Said, Carried
<1>2. CASE m \in Answers
  BY <1>2 DEF Answers, Carried
<1>3. CASE m \in Replies(W)
  BY <1>3 DEF Replies, Carried
<1>4. CASE m \in Fulls(W, n)
  BY <1>4 DEF Fulls, Carried
<1> QED
  BY <1>1, <1>2, <1>3, <1>4 DEF ForPhone

(* Of bounded stamps the largest is one of them and none is larger. *)
LEMMA LargestIs ==
  ASSUME NEW n \in Nat, NEW T \in SUBSET (0..n)
  PROVE  Largest(T) \in 0..n /\ \A t \in T : t <= Largest(T)
<1>1. CASE T = {}
  BY <1>1 DEF Largest
<1>2. CASE T # {}
  <2>1. \E t \in T : \A u \in T : u <= t
    BY <1>2, GreatestUpTo
  <2>2. Largest(T) = CHOOSE t \in T : \A u \in T : u <= t
    BY <1>2 DEF Largest
  <2>3. Largest(T) \in T /\ \A u \in T : u <= Largest(T)
    BY <2>1, <2>2
  <2> QED
    BY <2>3
<1> QED
  BY <1>1, <1>2

(* The stamps of lines are bounded. *)
LEMMA TimesBounded ==
  ASSUME NEW L, L \subseteq Written
  PROVE  TimesIn(L) \subseteq 0..MaxTime
<1>1. \A x \in L : x.entry.key.time \in Nat /\ x.entry.key.time <= MaxTime
  BY DEF Written, Line, M!Entry, M!Key
<1> QED
  BY <1>1, RoundAssumption DEF TimesIn

(* A clock that observes a batch stays within the bound. *)
LEMMA ClockTypes ==
  ASSUME NEW t \in 0..MaxTime, NEW L, L \subseteq Written
  PROVE  ClockAfter(t, L) \in 0..MaxTime
<1>1. TimesIn(L) \cup {t} \in SUBSET (0..MaxTime)
  BY TimesBounded
<1> QED
  BY <1>1, LargestIs, RoundAssumption DEF ClockAfter

(* A summary names a stamp of every device. *)
LEMMA SummaryTypes ==
  ASSUME NEW L, L \subseteq Written
  PROVE  Summary(L) \in [Device -> Nat]
<1>1. ASSUME NEW d \in Device
      PROVE  Largest(TimesIn({x \in L : x.entry.key.device = d})) \in Nat
  <2>1. TimesIn({x \in L : x.entry.key.device = d}) \in SUBSET (0..MaxTime)
    BY TimesBounded
  <2> QED
    BY <2>1, LargestIs, RoundAssumption
<1> QED
  BY <1>1 DEF Summary

-----------------------------------------------------------------------------
(* Rows.                                                                   *)

(* A row of this table is absent or names one change. *)
LEMMA ContentTypes ==
  ASSUME NEW x \in Line
  PROVE  ContentOf(x) \in M!Content \cup {M!Absent}
<1>1. x.entry.key \in M!Key
  BY DEF Line, M!Entry
<1> QED
  BY <1>1 DEF ContentOf, M!Content

(* What a merge makes of a row is a row. *)
LEMMA RowTypes ==
  ASSUME NEW row \in M!Content \cup {M!Absent}, NEW S \in SUBSET M!Entry, NEW remote
  PROVE  M!RowAfter(row, S, remote, FALSE) \in M!Content \cup {M!Absent}
<1>1. \A c \in {"row"} : M!CellWinner(S, c) = {}
  BY DEF M!CellWinner
<1>2. ~M!SetsCells(S, remote, FALSE)
  BY <1>1 DEF M!SetsCells
<1>3. M!BaseUpsert(S) \subseteq S
  BY DEF M!BaseUpsert, M!RowWinner, M!Upserts, M!Deletes, M!Newest
<1>4. M!Values(S) \in M!Content
  <2>1. \A c \in {"row"} : M!Shown(S, c) = M!BaseUpsert(S)
    BY <1>1 DEF M!Shown
  <2>2. M!Unset \in M!Key
    BY DEF M!Unset, M!Key
  <2>3. \A e \in M!BaseUpsert(S) : e.key \in M!Key
    BY <1>3 DEF M!Entry
  <2>4. M!BaseUpsert(S) # {} => (CHOOSE e \in M!BaseUpsert(S) : TRUE).key \in M!Key
    BY <2>3
  <2> QED
    BY <2>1, <2>2, <2>4 DEF M!Values, M!Content
<1> QED
  BY <1>2, <1>4 DEF M!RowAfter

-----------------------------------------------------------------------------
(* A recorded baseline.                                                    *)

(* The line of a row that is shown. *)
BaselineLine(d, t, r) ==
  [row |-> r, made |-> made + Place(d, r),
   entry |-> [key |-> [time |-> t + Place(d, r), device |-> d], op |-> "upsert",
              generated |-> FALSE, column |-> "row"]]

(* The shown rows are numbered from one on. *)
LEMMA PlaceIs ==
  ASSUME NEW d, NEW r \in Shown(d)
  PROVE  /\ IsFiniteSet(Shown(d)) /\ Cardinality(Shown(d)) \in Nat
         /\ Place(d, r) \in 1..Cardinality(Shown(d))
<1> DEFINE S == Shown(d)
<1> DEFINE T == {q \in S : q <= r}
<1>1. IsFiniteSet(S) /\ Cardinality(S) \in Nat
  <2>1. S \subseteq Row /\ IsFiniteSet(Row)
    BY RoundAssumption DEF Shown
  <2> QED
    BY <2>1, FS_Subset, FS_CardinalityType
<1>2. r \in T /\ T \subseteq S
  <2>1. r \in Nat
    BY RoundAssumption DEF Shown
  <2> QED
    BY <2>1
<1>3. IsFiniteSet(T) /\ Cardinality(T) \in Nat /\ Cardinality(T) <= Cardinality(S)
  BY <1>1, <1>2, FS_Subset, FS_CardinalityType
<1>4. Cardinality(T) # 0
  BY <1>2, <1>3, FS_EmptySet
<1> QED
  BY <1>1, <1>3, <1>4 DEF Place

(* There is one line for every row that is shown. *)
LEMMA BaselineIs ==
  ASSUME NEW d, NEW t
  PROVE  /\ BaselineLines(d, t) = {BaselineLine(d, t, r) : r \in Shown(d)}
         /\ Cardinality(BaselineLines(d, t)) = Cardinality(Shown(d))
<1> DEFINE S == Shown(d)
<1> DEFINE L == {BaselineLine(d, t, r) : r \in S}
<1>1. ASSUME NEW r \in S
      PROVE  [NewLine(d, r, "upsert", t + Place(d, r)) EXCEPT !.made = made + Place(d, r)]
             = BaselineLine(d, t, r)
  <2> DEFINE k == Place(d, r)
  <2> DEFINE e == [key |-> [time |-> t + k, device |-> d], op |-> "upsert",
                   generated |-> FALSE, column |-> "row"]
  <2>1. NewLine(d, r, "upsert", t + k) = [row |-> r, made |-> made + 1, entry |-> e]
    BY DEF NewLine
  <2>2. BaselineLine(d, t, r) = [row |-> r, made |-> made + k, entry |-> e]
    BY DEF BaselineLine
  <2> HIDE DEF k, e
  <2>3. [[row |-> r, made |-> made + 1, entry |-> e] EXCEPT !.made = made + k]
        = [row |-> r, made |-> made + k, entry |-> e]
    OBVIOUS
  <2>4. [NewLine(d, r, "upsert", t + k) EXCEPT !.made = made + k] = BaselineLine(d, t, r)
    BY <2>1, <2>2, <2>3
  <2> QED
    BY <2>4 DEF k
<1>2. BaselineLines(d, t) = L
  <2>1. ASSUME NEW x, x \in BaselineLines(d, t) PROVE x \in L
    BY <1>1, <2>1 DEF BaselineLines
  <2>2. ASSUME NEW x, x \in L PROVE x \in BaselineLines(d, t)
    BY <1>1, <2>2 DEF BaselineLines
  <2> HIDE DEF L
  <2> QED
    BY <2>1, <2>2
<1>3. IsFiniteSet(S)
  <2>1. S \subseteq Row /\ IsFiniteSet(Row)
    BY RoundAssumption DEF Shown
  <2> QED
    BY <2>1, FS_Subset
<1> DEFINE f == [r \in S |-> BaselineLine(d, t, r)]
<1>4. f \in Bijection(S, L)
  <2>1. f \in [S -> L] /\ \A x \in L : \E r \in S : f[r] = x
    OBVIOUS
  <2>2. ASSUME NEW q \in S, NEW r \in S, f[q] = f[r] PROVE q = r
    <3>1. BaselineLine(d, t, q).row = BaselineLine(d, t, r).row
      BY <2>2
    <3> QED
      BY <3>1 DEF BaselineLine
  <2> HIDE DEF f, L
  <2>3. f \in Injection(S, L)
    BY <2>1, <2>2 DEF Injection, IsInjective
  <2>4. f \in Surjection(S, L)
    BY <2>1 DEF Surjection
  <2> QED
    BY <2>3, <2>4 DEF Bijection
<1>5. Cardinality(L) = Cardinality(S)
  BY <1>3, <1>4, FS_Bijection DEF ExistsBijection
<1> QED
  BY <1>2, <1>5

(* A line as it is numbered when the change is made. *)
LEMMA BaselineLineIs ==
  ASSUME DataTypes, PastTypes, NEW d \in Device, NEW r \in Shown(d),
         NEW t \in Nat, t + Cardinality(Shown(d)) <= MaxTime
  PROVE  LET x == BaselineLine(d, t, r)
         IN /\ x \in Line /\ x.row = r /\ x.made > made
            /\ x.made <= made + Cardinality(Shown(d))
            /\ x.entry.key.time <= MaxTime /\ x.entry.key.time \in Nat
            /\ x.entry.key.device = d
<1>1. Place(d, r) \in 1..Cardinality(Shown(d)) /\ Cardinality(Shown(d)) \in Nat
  BY PlaceIs
<1>2. made \in Nat /\ d \in Nat /\ r \in Row
  BY RoundAssumption, Devices DEF PastTypes, Shown
<1>3. t + Place(d, r) \in Nat /\ made + Place(d, r) \in Nat
  BY <1>1, <1>2
<1>4. BaselineLine(d, t, r) \in Line
  BY <1>2, <1>3 DEF BaselineLine, Line, M!Entry, M!Key
<1>5. t + Place(d, r) <= MaxTime /\ made + Place(d, r) > made
      /\ made + Place(d, r) <= made + Cardinality(Shown(d))
  BY <1>1, <1>2, RoundAssumption
<1> QED
  BY <1>3, <1>4, <1>5 DEF BaselineLine

(* What is written from here on. *)
Later == {x \in Line : x.made > made /\ x.made <= made' /\ x.entry.key.time <= MaxTime
                       /\ x.entry.key.device \in Device}

(* Changes are counted, and a device writes lines about later changes. *)
Writes(d) ==
  /\ made' \in 0..MaxTime /\ made <= made'
  /\ log' \in [Device -> SUBSET (Written \cup Later)]
  /\ \A e \in Device \ {d} : log'[e] = log[e]
  /\ log'[d] \subseteq log[d] \cup Later
  /\ disk' \in [Device -> [Row -> M!Content \cup {M!Absent}]]
  /\ clock' \in [Device -> 0..MaxTime]

(* The lines there can be grow by later ones, which are no earlier ones. *)
LEMMA WrittenGrows ==
  ASSUME made \in Nat, made' \in Nat, made <= made'
  PROVE  Written' = Written \cup Later /\ Written \cap Later = {}
<1>1. \A x \in Line : x.made \in Nat
  BY DEF Line
<1>2. Written' = {x \in Line : x.made <= made' /\ x.entry.key.time <= MaxTime
                               /\ x.entry.key.device \in Device}
  BY DEF Written
<1>3. ASSUME NEW x \in Line
      PROVE  x \in Written' <=> x \in Written \/ x \in Later
  BY <1>1, <1>2 DEF Written, Later
<1>4. ASSUME NEW x \in Line
      PROVE  ~(x \in Written /\ x \in Later)
  BY <1>1 DEF Written, Later
<1>5. Written \subseteq Line /\ Later \subseteq Line /\ Written' \subseteq Line
  BY <1>2 DEF Written, Later
<1> QED
  BY <1>3, <1>4, <1>5

(* The lines of a baseline, together. *)
LEMMA BaselineLinesAre ==
  ASSUME DataTypes, PastTypes, NEW d \in Device, NEW t \in Nat,
         t + Cardinality(Shown(d)) <= MaxTime
  PROVE  /\ \A x \in BaselineLines(d, t) :
              /\ x \in Line /\ x.made > made /\ x.made <= made + Cardinality(Shown(d))
              /\ x.entry.key.time <= MaxTime /\ x.entry.key.device = d
         /\ \A r \in Shown(d) : \E x \in BaselineLines(d, t) : x.row = r
<1>1. \A x \in BaselineLines(d, t) : \E r \in Shown(d) : x = BaselineLine(d, t, r)
  BY BaselineIs
<1>2. \A r \in Shown(d) : BaselineLine(d, t, r) \in BaselineLines(d, t)
  BY BaselineIs
<1>3. ASSUME NEW r \in Shown(d)
      PROVE  /\ BaselineLine(d, t, r) \in Line /\ BaselineLine(d, t, r).row = r
             /\ BaselineLine(d, t, r).made > made
             /\ BaselineLine(d, t, r).made <= made + Cardinality(Shown(d))
             /\ BaselineLine(d, t, r).entry.key.time <= MaxTime
             /\ BaselineLine(d, t, r).entry.key.device = d
  BY <1>3, BaselineLineIs
<1> QED
  BY <1>1, <1>2, <1>3

(* A recorded baseline writes lines of its device. *)
LEMMA BaselineWrites ==
  ASSUME DataTypes, PastTypes, NEW d \in Device, NEW from \in 0..MaxTime,
         RecordBaseline(d, from)
  PROVE  Writes(d)
<1> DEFINE n == Cardinality(Shown(d))
<1>1. PICK t \in from .. Largest({from, cast.changes}) :
        /\ t + n <= MaxTime
        /\ made + Cardinality(BaselineLines(d, t)) <= MaxTime
        /\ log' = [log EXCEPT ![d] = @ \cup BaselineLines(d, t)]
        /\ disk' = [disk EXCEPT ![d] = [r \in Row |->
             IF r \in Shown(d) THEN ContentOf(CHOOSE x \in BaselineLines(d, t) : x.row = r)
             ELSE @[r]]]
        /\ clock' = [clock EXCEPT ![d] = Largest(TimesIn(BaselineLines(d, t)) \cup {from})]
        /\ made' = made + Cardinality(BaselineLines(d, t))
  BY DEF RecordBaseline
<1> DEFINE B == BaselineLines(d, t)
<1>2. n \in Nat
  <2>1. Shown(d) \subseteq Row /\ IsFiniteSet(Row)
    BY RoundAssumption DEF Shown
  <2> QED
    BY <2>1, FS_Subset, FS_CardinalityType
<1>3. t \in Nat /\ t + n <= MaxTime
  BY <1>1, RoundAssumption
<1>4. Cardinality(B) = n
  BY BaselineIs
<1>5. made \in Nat /\ MaxTime \in Nat
  BY RoundAssumption DEF PastTypes
<1>6. made' \in 0..MaxTime /\ made <= made' /\ made' = made + n
  BY <1>1, <1>2, <1>4, <1>5
<1>7. /\ \A x \in B : /\ x \in Line /\ x.made > made /\ x.made <= made + n
                      /\ x.entry.key.time <= MaxTime /\ x.entry.key.device = d
      /\ \A r \in Shown(d) : \E x \in B : x.row = r
  BY <1>3, BaselineLinesAre
<1>8. B \subseteq Later
  BY <1>6, <1>7 DEF Later
<1> HIDE DEF B, n
<1>9. log' = [log EXCEPT ![d] = @ \cup B]
  BY <1>1 DEF B
<1>10. log' \in [Device -> SUBSET (Written \cup Later)]
  BY <1>8, <1>9 DEF DataTypes
<1>11. (\A e \in Device \ {d} : log'[e] = log[e]) /\ log'[d] \subseteq log[d] \cup Later
  BY <1>8, <1>9 DEF DataTypes
<1>12. disk' \in [Device -> [Row -> M!Content \cup {M!Absent}]]
  <2>1. ASSUME NEW r \in Shown(d)
        PROVE  ContentOf(CHOOSE x \in B : x.row = r) \in M!Content \cup {M!Absent}
    <3>1. (CHOOSE x \in B : x.row = r) \in B
      BY <1>7
    <3> QED
      BY <1>7, <3>1, ContentTypes
  <2> DEFINE rows == [r \in Row |-> IF r \in Shown(d)
                        THEN ContentOf(CHOOSE x \in B : x.row = r) ELSE disk[d][r]]
  <2>2. rows \in [Row -> M!Content \cup {M!Absent}]
    BY <2>1 DEF DataTypes
  <2>3. disk' = [disk EXCEPT ![d] = rows]
    BY <1>1 DEF B, DataTypes
  <2> HIDE DEF rows
  <2> QED
    BY <2>2, <2>3 DEF DataTypes
<1>13. clock' \in [Device -> 0..MaxTime]
  <2>1. TimesIn(B) \subseteq 0..MaxTime
    <3>1. \A x \in B : x.entry.key.time \in Nat /\ x.entry.key.time <= MaxTime
      BY <1>7 DEF Line, M!Entry, M!Key
    <3> QED
      BY <3>1, RoundAssumption DEF TimesIn
  <2>2. TimesIn(B) \cup {from} \in SUBSET (0..MaxTime)
    BY <2>1
  <2>3. Largest(TimesIn(B) \cup {from}) \in 0..MaxTime
    BY <2>2, LargestIs, RoundAssumption
  <2>4. clock' = [clock EXCEPT ![d] = Largest(TimesIn(B) \cup {from})]
    BY <1>1 DEF B
  <2> QED
    BY <2>3, <2>4 DEF DataTypes
<1> QED
  BY <1>6, <1>10, <1>11, <1>12, <1>13 DEF Writes

-----------------------------------------------------------------------------
(* Types, part by part.                                                    *)

(* The data of a device that writes. *)
LEMMA DataTypesLater ==
  ASSUME DataTypes, PastTypes, NEW d \in Device, Writes(d),
         problems' \in [Device -> SUBSET Problem]
  PROVE  DataTypes'
<1>1. made \in Nat /\ made' \in Nat /\ made <= made'
  BY RoundAssumption DEF PastTypes, Writes
<1>2. Written' = Written \cup Later
  BY <1>1, WrittenGrows
<1>3. log' \in [Device -> SUBSET Written']
  BY <1>2 DEF Writes
<1> QED
  BY <1>3 DEF DataTypes, Writes

(* The data of a step that makes nothing. *)
LEMMA DataTypesSame ==
  ASSUME made' = made,
         log' \in [Device -> SUBSET Written],
         disk' \in [Device -> [Row -> M!Content \cup {M!Absent}]],
         clock' \in [Device -> 0..MaxTime],
         problems' \in [Device -> SUBSET Problem]
  PROVE  DataTypes' /\ Written' = Written
<1>1. Written' = Written
  BY DEF Written
<1> QED
  BY <1>1 DEF DataTypes

(* Nothing that was made is lost sight of. *)
LEMMA PastTypesLater ==
  ASSUME PastTypes, cast' = cast, made' \in 0..MaxTime, made <= made',
         lost' \in 0..cast.losses, joined' \subseteq Phone, private' \subseteq Written \cup Later
  PROVE  PastTypes'
<1>1. made \in Nat /\ made' \in Nat
  BY RoundAssumption DEF PastTypes
<1>2. Written' = Written \cup Later
  BY <1>1, WrittenGrows
<1> QED
  BY <1>2 DEF PastTypes

(* The messages on their way stay well formed. *)
LEMMA WireGrows ==
  ASSUME WireTypes, made \in Nat, made' \in Nat, made <= made',
         issued \in Nat, issued' \in Nat, issued <= issued'
  PROVE  /\ toHub \in [Phone -> ForHub(Written')]
         /\ toPhone \in [Phone -> ForPhone(Written', issued')]
<1>1. Written \subseteq Written'
  BY WrittenGrows
<1>2. ForHub(Written) \subseteq ForHub(Written')
      /\ ForPhone(Written, issued) \subseteq ForPhone(Written', issued')
  BY <1>1, MessagesGrow
<1> QED
  BY <1>2 DEF WireTypes

(* Quiet is well formed either way. *)
LEMMA QuietIs ==
  ASSUME NEW W, NEW n
  PROVE  /\ Quiet \in Said /\ Quiet \in ForHub(W) /\ Quiet \in ForPhone(W, n)
         /\ Quiet.kind = "none" /\ Carried(Quiet) = {}
  BY DEF Quiet, Said, ForHub, ForPhone, Carried

(* What the session holds. *)
LEMMA SessionIs ==
  ASSUME WireTypes, NEW p \in Phone, session.phone = p
  PROVE  /\ session \in Begun \cup Serving
         /\ session.stage \in {"hello", "push", "proceed", "reply", "full", "repair"}
         /\ session.stage = "hello" => session \in Begun
         /\ session.stage # "hello" => session \in Serving
         /\ session # Idle
<1>1. session # Idle
  BY Devices DEF Idle
<1>2. CASE session \in Begun
  BY <1>1, <1>2 DEF Begun
<1>3. CASE session \in Serving
  BY <1>1, <1>3 DEF Serving
<1> QED
  BY <1>1, <1>2, <1>3 DEF WireTypes

(* A step of a device's data alone keeps every record well formed. *)
LEMMA DataStep ==
  ASSUME Types, NEW d \in Device, Writes(d), problems' \in [Device -> SUBSET Problem],
         UNCHANGED <<peers, wire, cast, joined>>, lost' \in 0..cast.losses,
         private' \subseteq Written \cup Later
  PROVE  Types'
<1>1. made \in Nat /\ made' \in Nat /\ made <= made' /\ issued \in Nat /\ issued' = issued
  BY RoundAssumption DEF Types, PastTypes, PeerTypes, Writes, peers
<1>2. DataTypes'
  BY DataTypesLater DEF Types
<1>3. PastTypes'
  BY PastTypesLater DEF Types, PastTypes, Writes
<1>4. PeerTypes'
  BY DEF Types, PeerTypes, peers
<1>5. WireTypes'
  <2>1. toHub \in [Phone -> ForHub(Written')] /\ toPhone \in [Phone -> ForPhone(Written', issued')]
    BY <1>1, WireGrows DEF Types
  <2> QED
    BY <2>1 DEF Types, WireTypes, wire
<1> QED
  BY <1>2, <1>3, <1>4, <1>5 DEF Types

(* What users do stays within the bounds of what there is in all. *)
LEMMA ChangesBounded ==
  ASSUME PastTypes
  PROVE  /\ cast.changes \in 0..MaxTime /\ cast.resets \in 0..MaxResets
         /\ MaxTime \in Nat /\ MaxResets \in Nat
  BY RoundAssumption DEF PastTypes

(* What an edit writes. *)
LEMMA NewLineIs ==
  ASSUME PastTypes, NEW d \in Device, NEW r \in Row, NEW op \in {"upsert", "delete"},
         NEW t \in 1..MaxTime, made < cast.changes, made' = made + 1
  PROVE  /\ NewLine(d, r, op, t) \in Later
         /\ made' \in 0..MaxTime /\ made <= made'
<1>1. /\ made \in Nat /\ cast.changes \in 0..MaxTime /\ MaxTime \in Nat
      /\ d \in Nat /\ t \in Nat /\ t <= MaxTime
  BY RoundAssumption, Devices DEF PastTypes
<1>2. NewLine(d, r, op, t) \in Line
  BY <1>1 DEF NewLine, Line, M!Entry, M!Key
<1>3. /\ NewLine(d, r, op, t).made = made + 1
      /\ NewLine(d, r, op, t).entry.key.time = t /\ NewLine(d, r, op, t).entry.key.device = d
  BY DEF NewLine
<1> QED
  BY <1>1, <1>2, <1>3 DEF Later

-----------------------------------------------------------------------------
(* Steps of a device's data: edits and faults.                             *)

(* What is guarded is about records and messages. *)
LEMMA GuardedStays ==
  ASSUME Guarded, UNCHANGED <<peers, wire, joined>>
  PROVE  Guarded'
<1>1. Unproven' /\ PairsFirst' /\ Owes' /\ HelloTrue' /\ AnswerTrue'
  BY DEF Guarded, Unproven, PairsFirst, Owes, HelloTrue, AnswerTrue, Owing, peers, wire
<1> QED
  BY <1>1 DEF Guarded

(* What messages carry was written before, and is private only if it was. *)
LEMMA CarriedClean ==
  ASSUME Types, Clean, made' \in Nat, made <= made', private' \subseteq private \cup Later,
         NEW p \in Phone
  PROVE  /\ session.phone = p /\ toHub[p].kind = "push" => toHub[p].lines \cap private' = {}
         /\ at[p] \in {"reply", "full"} => Carried(toPhone[p]) \cap private' = {}
<1>1. Written \cap Later = {}
  BY WrittenGrows, RoundAssumption DEF Types, PastTypes
<1>2. toHub[p].kind = "push" => toHub[p].lines \subseteq Written
  BY HubKinds DEF Types, WireTypes
<1>3. Carried(toPhone[p]) \subseteq Written
  BY PhoneKinds DEF Types, WireTypes
<1>4. /\ session.phone = p /\ toHub[p].kind = "push" => toHub[p].lines \cap private = {}
      /\ at[p] \in {"reply", "full"} => Carried(toPhone[p]) \cap private = {}
  BY DEF Clean, PushClean, TakenClean
<1> QED
  BY <1>1, <1>2, <1>3, <1>4

(* What the hub and the joined phones hold, after a device wrote. *)
LEMMA LogsClean ==
  ASSUME Types, Clean, NEW d \in Device, Writes(d), joined' = joined,
         private' = private \/ (d \in Phone \ joined /\ private' \subseteq private \cup Later)
  PROVE  HubTakesNoPrivateData' /\ JoinedClean'
<1>1. Written \cap Later = {} /\ private \subseteq Written
  BY WrittenGrows, RoundAssumption DEF Types, PastTypes, Writes
<1>2. \A e \in Device : log[e] \subseteq Written
  BY DEF Types, DataTypes
<1>3. \A e \in {Hub} \cup joined : e \in Device /\ log[e] \cap private = {}
  BY Devices DEF Clean, HubTakesNoPrivateData, JoinedClean, Types, PastTypes
<1>4. ASSUME NEW e \in {Hub} \cup joined PROVE log'[e] \cap private' = {}
  <2>1. CASE private' = private
    <3>1. log'[e] \subseteq log[e] \cup Later
      BY <1>3 DEF Writes
    <3> QED
      BY <1>1, <1>3, <2>1, <3>1
  <2>2. CASE d \in Phone \ joined /\ private' \subseteq private \cup Later
    <3>1. e # d
      BY <2>2, Devices
    <3>2. log'[e] = log[e]
      BY <1>3, <3>1 DEF Writes
    <3> QED
      BY <1>1, <1>2, <1>3, <2>2, <3>2
  <2> QED
    BY <2>1, <2>2
<1> QED
  BY <1>4 DEF HubTakesNoPrivateData, JoinedClean

(* A step that only writes keeps everything clean. *)
LEMMA WritingClean ==
  ASSUME Types, Clean, NEW d \in Device, Writes(d), joined' = joined, UNCHANGED wire,
         private' = private \/ (d \in Phone \ joined /\ private' \subseteq private \cup Later)
  PROVE  Clean'
<1>1. made' \in Nat /\ made <= made' /\ private' \subseteq private \cup Later
  BY RoundAssumption DEF Writes, Types, PastTypes
<1>2. PushClean'
  BY <1>1, CarriedClean DEF PushClean, wire
<1>3. TakenClean'
  BY <1>1, CarriedClean DEF TakenClean, wire, Carried
<1> QED
  BY <1>2, <1>3, LogsClean DEF Clean

(* An edit, recorded or not, writes at most one line. *)
LEMMA EditWrites ==
  ASSUME DataTypes, PastTypes, NEW d \in Device, Edit(d) \/ EditUnlogged(d)
  PROVE  Writes(d)
<1>1. PICK r \in Row, op \in {"upsert", "delete"}, t \in clock[d] + 1 .. cast.changes :
        /\ made < cast.changes /\ made' = made + 1
        /\ \/ log' = [log EXCEPT ![d] = @ \cup {NewLine(d, r, op, t)}]
           \/ log' = log
        /\ disk' = [disk EXCEPT ![d][r] = ContentOf(NewLine(d, r, op, t))]
        /\ clock' = [clock EXCEPT ![d] = t]
  BY DEF Edit, EditUnlogged
<1>2. t \in 1..MaxTime /\ t \in 0..MaxTime
  BY ChangesBounded, RoundAssumption DEF DataTypes
<1> DEFINE x == NewLine(d, r, op, t)
<1>3. x \in Later /\ made' \in 0..MaxTime /\ made <= made'
  BY <1>1, <1>2, NewLineIs
<1>4. x \in Line
  BY <1>3 DEF Later
<1>5. ContentOf(x) \in M!Content \cup {M!Absent}
  BY <1>4, ContentTypes
<1> HIDE DEF x
<1>6. \/ log' = [log EXCEPT ![d] = @ \cup {x}]
      \/ log' = log
  BY <1>1 DEF x
<1>7. log' \in [Device -> SUBSET (Written \cup Later)]
  BY <1>3, <1>6 DEF DataTypes
<1>8. (\A e \in Device \ {d} : log'[e] = log[e]) /\ log'[d] \subseteq log[d] \cup Later
  BY <1>3, <1>6 DEF DataTypes
<1>9. disk' \in [Device -> [Row -> M!Content \cup {M!Absent}]]
  <2>1. disk' = [disk EXCEPT ![d] = [@ EXCEPT ![r] = ContentOf(x)]]
    BY <1>1 DEF x
  <2> QED
    BY <1>5, <2>1 DEF DataTypes
<1>10. clock' \in [Device -> 0..MaxTime]
  BY <1>1, <1>2 DEF DataTypes
<1> QED
  BY <1>3, <1>7, <1>8, <1>9, <1>10 DEF Writes

(* A device that writes nothing writes. *)
LEMMA NothingWritten ==
  ASSUME DataTypes, PastTypes, NEW d \in Device, made' = made, disk' = disk,
         log' = [log EXCEPT ![d] = log'[d]], log'[d] \subseteq log[d],
         clock' \in [Device -> 0..MaxTime]
  PROVE  Writes(d)
<1>1. made \in Nat
  BY RoundAssumption DEF PastTypes
<1>2. log' \in [Device -> SUBSET (Written \cup Later)]
  BY DEF DataTypes
<1> QED
  BY <1>1, <1>2 DEF Writes, DataTypes, PastTypes

(* An edit keeps the invariant. *)
LEMMA EditKeeps ==
  ASSUME IInv, NEW d \in Device, Edit(d) \/ EditUnlogged(d)
  PROVE  IInv'
<1>1. Types /\ Guarded /\ Clean /\ DataTypes /\ PastTypes
  BY DEF IInv, Types
<1>2. Writes(d)
  BY <1>1, EditWrites
<1>3. UNCHANGED <<peers, wire, cast, joined>>
  BY DEF Edit, EditUnlogged, history
<1>4. problems' \in [Device -> SUBSET Problem] /\ lost' \in 0..cast.losses
  <2>1. CASE Edit(d)
    BY <1>1, <2>1 DEF Edit, DataTypes, PastTypes
  <2>2. CASE EditUnlogged(d)
    <3>1. lost' = lost + 1 /\ lost < cast.losses
          /\ problems' = [problems EXCEPT ![d] = @ \cup {"append_failed"}]
      BY <2>2 DEF EditUnlogged, Losable, Fails
    <3>2. cast.losses \in Nat
      BY <1>1, RoundAssumption DEF PastTypes
    <3>3. lost' \in 0..cast.losses
      BY <1>1, <3>1, <3>2 DEF PastTypes
    <3> QED
      BY <1>1, <3>1, <3>3 DEF DataTypes, Problem
  <2> QED
    BY <2>1, <2>2
<1>5. private' = private \/ (d \in Phone \ joined /\ private' \subseteq private \cup Later)
  <2>1. CASE Edit(d)
    <3>1. PICK r \in Row, op \in {"upsert", "delete"}, t \in clock[d] + 1 .. cast.changes :
            /\ made < cast.changes /\ made' = made + 1
            /\ private' = KeptFromHub(d, NewLine(d, r, op, t))
      BY <2>1 DEF Edit
    <3>2. t \in 1..MaxTime
      BY <1>1, ChangesBounded, RoundAssumption DEF DataTypes
    <3>3. NewLine(d, r, op, t) \in Later
      BY <1>1, <3>1, <3>2, NewLineIs
    <3> QED
      BY <1>1, <3>1, <3>3 DEF KeptFromHub, Types, PeerTypes
  <2>2. CASE EditUnlogged(d)
    BY <2>2 DEF EditUnlogged, history
  <2> QED
    BY <2>1, <2>2
<1>6. private' \subseteq Written \cup Later
  BY <1>1, <1>5 DEF PastTypes
<1>7. Types'
  BY <1>1, <1>2, <1>3, <1>4, <1>6, DataStep
<1>8. Guarded'
  BY <1>1, <1>3, GuardedStays
<1>9. Clean'
  BY <1>1, <1>2, <1>3, <1>5, WritingClean
<1> QED
  BY <1>7, <1>8, <1>9 DEF IInv

(* A fault that loses a line or a marker keeps the invariant. *)
LEMMA FaultKeeps ==
  ASSUME IInv, NEW d \in Device, LineDamaged(d) \/ MarkerLost(d)
  PROVE  IInv'
<1>1. Types /\ Guarded /\ Clean /\ DataTypes /\ PastTypes
  BY DEF IInv, Types
<1>2. UNCHANGED <<disk, clock, peers, wire, made, history>> /\ lost' = lost + 1
      /\ lost < cast.losses
  BY DEF LineDamaged, MarkerLost, Losable, Fails
<1>3. problems' \in [Device -> SUBSET Problem]
  <2>1. CASE LineDamaged(d)
    <3>1. problems' = [problems EXCEPT ![d] = @ \cup {"damaged"}]
      BY <2>1 DEF LineDamaged
    <3> QED
      BY <1>1, <3>1 DEF DataTypes, Problem
  <2>2. CASE MarkerLost(d)
    BY <1>1, <2>2 DEF MarkerLost, DataTypes
  <2> QED
    BY <2>1, <2>2
<1>4. log' = [log EXCEPT ![d] = log'[d]] /\ log'[d] \subseteq log[d]
  <2>1. CASE LineDamaged(d)
    <3>1. PICK gone \in {{}} \cup {{x} : x \in log[d]} : log' = [log EXCEPT ![d] = @ \ gone]
      BY <2>1 DEF LineDamaged
    <3> QED
      BY <1>1, <3>1 DEF DataTypes
  <2>2. CASE MarkerLost(d)
    BY <1>1, <2>2 DEF MarkerLost, DataTypes
  <2> QED
    BY <2>1, <2>2
<1>5. Writes(d)
  BY <1>1, <1>2, <1>4, NothingWritten DEF DataTypes
<1>6. lost' \in 0..cast.losses
  BY <1>1, <1>2, RoundAssumption DEF PastTypes
<1>7. private' = private /\ joined' = joined /\ cast' = cast /\ private \subseteq Written
  BY <1>1, <1>2 DEF history, PastTypes
<1>8. Types'
  BY <1>1, <1>2, <1>3, <1>5, <1>6, <1>7, DataStep
<1>9. Guarded'
  BY <1>1, <1>2, <1>7, GuardedStays
<1>10. Clean'
  BY <1>1, <1>2, <1>5, <1>7, WritingClean
<1> QED
  BY <1>8, <1>9, <1>10 DEF IInv

-----------------------------------------------------------------------------
(* Pairing and unpairing.                                                  *)

(* A step that makes and loses nothing. *)
LEMMA NothingMade ==
  ASSUME Types, UNCHANGED <<made, cast>>, lost' \in 0..cast.losses,
         joined' \subseteq Phone, private' \subseteq Written
  PROVE  PastTypes' /\ Written' = Written
<1>1. Written' = Written
  BY DEF Written
<1> QED
  BY <1>1 DEF Types, PastTypes

(* A step that leaves all data alone. *)
LEMMA DataStays ==
  ASSUME Types, UNCHANGED <<data, made, lost, history>>
  PROVE  DataTypes' /\ PastTypes' /\ Written' = Written
<1>1. PastTypes' /\ Written' = Written
  BY NothingMade DEF history, Types, PastTypes
<1>2. DataTypes'
  BY DataTypesSame DEF Types, DataTypes, data
<1> QED
  BY <1>1, <1>2

(* The first pairing's requirement owes, and fits under a new id. *)
LEMMA FirstPairingIs ==
  ASSUME Types, issued < MaxResets, issued' = issued + 1, NEW p \in Phone,
         required' = [required EXCEPT ![p] = FirstPairing(issued + 1)]
  PROVE  /\ issued \in Nat /\ issued' \in 0..MaxResets /\ issued <= issued'
         /\ required' \in [Phone -> [id : 0..issued', first : 0..issued']]
         /\ required'[p].id # 0 /\ required'[p].first # 0
         /\ \A q \in Phone \ {p} : required'[q] = required[q]
<1>1. issued \in Nat /\ issued' \in 0..MaxResets /\ issued <= issued' /\ issued + 1 # 0
  BY RoundAssumption DEF Types, PeerTypes
<1>2. [id : 0..issued, first : 0..issued] \subseteq [id : 0..issued', first : 0..issued']
  BY <1>1
<1>3. FirstPairing(issued + 1) \in [id : 0..issued', first : 0..issued']
      /\ FirstPairing(issued + 1).id # 0 /\ FirstPairing(issued + 1).first # 0
  BY <1>1 DEF FirstPairing
<1> QED
  BY <1>1, <1>2, <1>3 DEF Types, PeerTypes

(* The hub records a phone that is about to record it. *)
LEMMA HubPairsKeeps ==
  ASSUME IInv, NEW p \in Phone, HubPairs(p)
  PROVE  IInv'
<1>1. Types /\ Guarded /\ Clean
  BY DEF IInv
<1>2. /\ p \notin hubOf /\ session = Idle /\ issued < cast.resets /\ issued' = issued + 1
      /\ phones' = phones \cup {p}
      /\ required' = [required EXCEPT ![p] = FirstPairing(issued + 1)]
      /\ at' = [at EXCEPT ![p] = "pairing"]
      /\ UNCHANGED <<data, hubOf, finished, own, session, toHub, toPhone, made, lost, history>>
  BY DEF HubPairs
<1>3. /\ issued \in Nat /\ issued' \in 0..MaxResets /\ issued <= issued'
      /\ required' \in [Phone -> [id : 0..issued', first : 0..issued']]
      /\ required'[p].id # 0 /\ required'[p].first # 0
      /\ \A q \in Phone \ {p} : required'[q] = required[q]
  <2>1. issued < MaxResets
    BY <1>1, <1>2, ChangesBounded DEF Types, PeerTypes
  <2> QED
    BY <1>1, <1>2, <2>1, FirstPairingIs
<1>4. at'[p] = "pairing" /\ \A q \in Phone \ {p} : at'[q] = at[q]
  BY <1>1, <1>2 DEF Types, WireTypes
<1>5. \A q \in Phone : session.phone # q
  BY <1>2, Devices DEF Idle
<1>6. DataTypes' /\ PastTypes' /\ Written' = Written /\ made \in Nat /\ made' = made
  BY <1>1, <1>2, DataStays, RoundAssumption DEF Types, PastTypes
<1>7. PeerTypes'
  <2>1. 0..issued \subseteq 0..issued'
    BY <1>3
  <2>2. finished' \in [Phone -> 0..issued']
    BY <1>1, <1>2, <2>1 DEF Types, PeerTypes
  <2> QED
    BY <1>1, <1>2, <1>3, <2>2 DEF Types, PeerTypes
<1>8. WireTypes'
  <2>1. toHub \in [Phone -> ForHub(Written')] /\ toPhone \in [Phone -> ForPhone(Written', issued')]
    BY <1>1, <1>3, <1>6, WireGrows DEF Types
  <2>2. at' \in [Phone -> {"idle", "pairing", "hello", "reply", "full"}]
    BY <1>1, <1>2 DEF Types, WireTypes
  <2> QED
    BY <1>1, <1>2, <2>1, <2>2 DEF Types, WireTypes
<1>9. Unproven'
  BY <1>1, <1>2 DEF Guarded, Unproven, history
<1>10. PairsFirst'
  BY <1>1, <1>2, <1>3, <1>4, <1>5 DEF Guarded, PairsFirst, Owing
<1>11. Owes'
  BY <1>1, <1>2, <1>3 DEF Guarded, Owes, Owing, history, Types, PeerTypes
<1>12. HelloTrue'
  BY <1>2, <1>5 DEF HelloTrue
<1>13. AnswerTrue'
  BY <1>1, <1>2, <1>4 DEF Guarded, AnswerTrue, history, Types, PeerTypes
<1>14. Clean'
  <2>1. HubTakesNoPrivateData' /\ JoinedClean'
    BY <1>1, <1>2 DEF Clean, HubTakesNoPrivateData, JoinedClean, data, history
  <2>2. PushClean'
    BY <1>2, <1>5 DEF PushClean
  <2>3. TakenClean'
    BY <1>1, <1>2, <1>4 DEF Clean, TakenClean, history, Carried
  <2> QED
    BY <2>1, <2>2, <2>3 DEF Clean
<1> QED
  BY <1>6, <1>7, <1>8, <1>9, <1>10, <1>11, <1>12, <1>13, <1>14 DEF IInv, Types, Guarded

(* What a phone has to itself is nobody else's. *)
LEMMA HeldOnlyIs ==
  ASSUME Types, NEW p \in Phone
  PROVE  /\ HeldOnlyBy(p) \subseteq Written
         /\ \A d \in Device \ {p} : log[d] \cap HeldOnlyBy(p) = {}
         /\ \A q \in Phone \ {p} :
              (Carried(toHub[q]) \cup Carried(toPhone[q])) \cap HeldOnlyBy(p) = {}
<1>1. log[p] \subseteq Written
  BY Devices DEF Types, DataTypes
<1> QED
  BY <1>1 DEF HeldOnlyBy

(* The phone marks itself, and records the hub unless it stops before. *)
LEMMA PhonePairsKeeps ==
  ASSUME IInv, NEW p \in Phone, PhonePairs(p)
  PROVE  IInv'
<1>1. Types /\ Guarded /\ Clean
  BY DEF IInv
<1>2. /\ at[p] = "pairing" /\ problems' = [problems EXCEPT ![p] = @ \cup {"reset_pending"}]
      /\ at' = [at EXCEPT ![p] = "idle"]
      /\ UNCHANGED <<log, disk, clock, finished, phones, required, issued, own, session, cast,
                     toHub, toPhone, made, lost>>
  BY DEF PhonePairs
<1>3. \/ hubOf' = hubOf \cup {p} /\ joined' = joined \ {p} /\ private' = private \cup HeldOnlyBy(p)
      \/ hubOf' = hubOf /\ joined' = joined /\ private' = private
  BY DEF PhonePairs
<1>4. p \notin hubOf /\ session.phone # p /\ (p \in phones => Owing(p))
  BY <1>1, <1>2 DEF Guarded, PairsFirst
<1>5. at'[p] = "idle" /\ \A q \in Phone \ {p} : at'[q] = at[q]
  BY <1>1, <1>2 DEF Types, WireTypes
<1>6. /\ HeldOnlyBy(p) \subseteq Written
      /\ \A d \in Device \ {p} : log[d] \cap HeldOnlyBy(p) = {}
      /\ \A q \in Phone \ {p} :
           (Carried(toHub[q]) \cup Carried(toPhone[q])) \cap HeldOnlyBy(p) = {}
  BY <1>1, HeldOnlyIs
<1>7. joined' \subseteq Phone /\ private' \subseteq Written /\ hubOf' \subseteq Phone
  BY <1>1, <1>3, <1>6 DEF Types, PastTypes, PeerTypes
<1>8. PastTypes' /\ Written' = Written
  BY <1>1, <1>2, <1>7, NothingMade DEF Types, PastTypes
<1>9. DataTypes'
  BY <1>1, <1>2, DataTypesSame, Devices DEF Types, DataTypes, Problem
<1>10. PeerTypes'
  BY <1>1, <1>2, <1>7 DEF Types, PeerTypes
<1>11. WireTypes'
  BY <1>1, <1>2, <1>8 DEF Types, WireTypes
<1>12. Unproven'
  BY <1>1, <1>2, <1>3, <1>4 DEF Guarded, Unproven
<1>13. PairsFirst'
  <2>1. \A q \in Phone : Owing(q)' <=> Owing(q)
    BY <1>2 DEF Owing
  <2> QED
    BY <1>1, <1>2, <1>3, <1>5, <2>1 DEF Guarded, PairsFirst
<1>14. Owes'
  <2>1. \A q \in Phone : Owing(q)' <=> Owing(q)
    BY <1>2 DEF Owing
  <2> QED
    BY <1>1, <1>2, <1>3, <1>4, <1>7, <2>1 DEF Guarded, Owes
<1>15. HelloTrue'
  BY <1>1, <1>2, <1>3, <1>4 DEF Guarded, HelloTrue
<1>16. AnswerTrue'
  BY <1>1, <1>2, <1>3, <1>5, <1>7 DEF Guarded, AnswerTrue
<1>17. HubTakesNoPrivateData' /\ JoinedClean'
  <2>1. Hub \in Device \ {p} /\ \A q \in joined \ {p} : q \in Device \ {p}
    BY <1>1, Devices DEF Types, PastTypes
  <2> QED
    BY <1>1, <1>2, <1>3, <1>6, <2>1 DEF Clean, HubTakesNoPrivateData, JoinedClean
<1>18. PushClean'
  <2>1. ASSUME NEW q \in Phone, session.phone = q, toHub[q].kind = "push"
        PROVE  toHub[q].lines \cap private' = {}
    <3>1. q # p /\ toHub[q].lines \cap private = {} /\ Carried(toHub[q]) = toHub[q].lines
      BY <1>1, <1>4, <2>1, HubKinds DEF Clean, PushClean, Types, WireTypes
    <3> QED
      BY <1>3, <1>6, <3>1
  <2> QED
    BY <1>2, <2>1 DEF PushClean
<1>19. TakenClean'
  <2>1. ASSUME NEW q \in Phone, at'[q] \in {"reply", "full"}
        PROVE  Carried(toPhone[q]) \cap private' = {}
    <3>1. q # p /\ Carried(toPhone[q]) \cap private = {}
      BY <1>1, <1>5, <2>1 DEF Clean, TakenClean
    <3> QED
      BY <1>3, <1>6, <3>1
  <2> QED
    BY <1>2, <2>1 DEF TakenClean, Carried
<1>20. Clean'
  BY <1>17, <1>18, <1>19 DEF Clean
<1>21. Guarded'
  BY <1>12, <1>13, <1>14, <1>15, <1>16 DEF Guarded
<1> QED
  BY <1>8, <1>9, <1>10, <1>11, <1>20, <1>21 DEF IInv, Types

(* A step of the records alone keeps all that is about data and messages. *)
LEMMA RecordsStep ==
  ASSUME Types, Clean, PeerTypes', issued' = issued, UNCHANGED <<data, wire, made, lost, history>>
  PROVE  Types' /\ Clean'
<1>1. DataTypes' /\ PastTypes' /\ Written' = Written
  BY DataStays
<1>2. WireTypes'
  BY <1>1 DEF Types, WireTypes, wire
<1>3. Clean'
  BY DEF Clean, HubTakesNoPrivateData, JoinedClean, PushClean, TakenClean, Carried, data, wire,
         history
<1> QED
  BY <1>1, <1>2, <1>3 DEF Types

(* Either side forgets the other. *)
LEMMA UnpairKeeps ==
  ASSUME IInv, NEW p \in Phone, PhoneUnpairs(p) \/ HubUnpairs(p)
  PROVE  IInv'
<1>1. Types /\ Guarded /\ Clean
  BY DEF IInv
<1>2. issued' = issued /\ UNCHANGED <<data, wire, made, lost, history>> /\ joined' = joined
  BY DEF PhoneUnpairs, HubUnpairs, history
<1>3. issued \in Nat
  BY <1>1, RoundAssumption DEF Types, PeerTypes
<1>4. \/ /\ hubOf' = hubOf \ {p} /\ finished' = [finished EXCEPT ![p] = 0]
         /\ phones' = phones /\ required' = required
      \/ /\ phones' = phones \ {p} /\ required' = [required EXCEPT ![p] = NoReset]
         /\ hubOf' = hubOf /\ finished' = finished
  BY DEF PhoneUnpairs, HubUnpairs
<1>5. NoReset \in [id : 0..issued, first : 0..issued]
  BY <1>3 DEF NoReset
<1>6. PeerTypes'
  BY <1>1, <1>2, <1>3, <1>4, <1>5 DEF Types, PeerTypes
<1>7. Types' /\ Clean'
  BY <1>1, <1>2, <1>6, RecordsStep
<1>8. \A q \in Phone : q \in phones' => required'[q] = required[q] /\ q \in phones
  BY <1>1, <1>4 DEF Types, PeerTypes
<1>9. Unproven'
  BY <1>1, <1>2, <1>4 DEF Guarded, Unproven, Types, PeerTypes
<1>10. PairsFirst'
  BY <1>1, <1>2, <1>4, <1>8 DEF Guarded, PairsFirst, Owing, wire
<1>11. Owes'
  BY <1>1, <1>2, <1>4, <1>8 DEF Guarded, Owes, Owing, Types, PeerTypes
<1>12. HelloTrue'
  BY <1>1, <1>2 DEF Guarded, HelloTrue, wire
<1>13. AnswerTrue'
  BY <1>1, <1>2, <1>4 DEF Guarded, AnswerTrue, wire
<1> QED
  BY <1>7, <1>9, <1>10, <1>11, <1>12, <1>13 DEF IInv, Guarded

-----------------------------------------------------------------------------
(* The messages of a round.                                                *)

(* The messages and sessions there can be. *)
Wired ==
  /\ at' \in [Phone -> {"idle", "pairing", "hello", "reply", "full"}]
  /\ own' \in [Phone -> Said \cup Hellos]
  /\ session' \in {Idle} \cup Begun \cup Serving
  /\ toHub' \in [Phone -> ForHub(Written)]
  /\ toPhone' \in [Phone -> ForPhone(Written, issued)]

(* A step of one phone's round, on either side, leaves the others alone. *)
Only(p) ==
  /\ \A q \in Phone \ {p} : at'[q] = at[q] /\ toHub'[q] = toHub[q] /\ toPhone'[q] = toPhone[q]
  /\ session' = session \/ session'.phone \in {0, p}

(* What the step must keep true of that phone. *)
Truthful(p) ==
  /\ at'[p] = "pairing" => at[p] = "pairing" /\ session'.phone # p
  /\ p \notin joined /\ session'.phone = p =>
       /\ toHub'[p].kind = "hello" => toHub'[p].last = 0
       /\ session'.stage # "hello" => session'.hello.last = 0
  /\ p \in hubOf \ joined /\ at'[p] = "hello" /\ toPhone'[p].kind = "answer" =>
       toPhone'[p].firstReset
  /\ session'.phone = p /\ toHub'[p].kind = "push" => toHub'[p].lines \cap private = {}
  /\ at'[p] \in {"reply", "full"} => Carried(toPhone'[p]) \cap private = {}

(* A truthful step of one phone's round keeps what is guarded. *)
LEMMA TruthfulGuarded ==
  ASSUME Types, Guarded, NEW p \in Phone, Only(p), Truthful(p),
         UNCHANGED <<hubOf, finished, phones, required, joined>>
  PROVE  Guarded'
<1>1. \A q \in Phone : q # 0
  BY Devices
<1>2. \A q \in Phone : Owing(q)' <=> Owing(q)
  BY DEF Owing
<1>3. Unproven'
  BY DEF Guarded, Unproven
<1>4. PairsFirst'
  BY <1>1, <1>2 DEF Guarded, PairsFirst, Only, Truthful
<1>5. Owes'
  BY <1>2 DEF Guarded, Owes, Types, PeerTypes
<1>6. HelloTrue'
  BY <1>1 DEF Guarded, HelloTrue, Only, Truthful
<1>7. AnswerTrue'
  BY DEF Guarded, AnswerTrue, Only, Truthful, Types, PeerTypes
<1> QED
  BY <1>3, <1>4, <1>5, <1>6, <1>7 DEF Guarded

(* And its messages carry nothing private. *)
LEMMA TruthfulClean ==
  ASSUME Clean, NEW p \in Phone, Only(p), Truthful(p), private' = private
  PROVE  PushClean' /\ TakenClean'
<1>1. \A q \in Phone : q # 0
  BY Devices
<1>2. PushClean'
  BY <1>1 DEF Clean, PushClean, Only, Truthful
<1>3. TakenClean'
  BY DEF Clean, TakenClean, Only, Truthful, Carried
<1> QED
  BY <1>2, <1>3

(* A truthful step that moves messages alone keeps the invariant. *)
LEMMA MessageStep ==
  ASSUME IInv, NEW p \in Phone, Wired, Only(p), Truthful(p),
         UNCHANGED <<data, peers, made, lost, history>>
  PROVE  IInv'
<1>1. Types /\ Guarded /\ Clean
  BY DEF IInv
<1>2. DataTypes' /\ PastTypes' /\ Written' = Written
  BY <1>1, DataStays
<1>3. PeerTypes' /\ issued' = issued
  BY <1>1 DEF Types, PeerTypes, peers
<1>4. WireTypes'
  BY <1>2, <1>3 DEF WireTypes, Wired
<1>5. Guarded'
  BY <1>1, TruthfulGuarded DEF peers, history
<1>6. HubTakesNoPrivateData' /\ JoinedClean' /\ PushClean' /\ TakenClean'
  BY <1>1, TruthfulClean DEF Clean, HubTakesNoPrivateData, JoinedClean, data, history
<1> QED
  BY <1>1, <1>2, <1>3, <1>4, <1>5, <1>6 DEF IInv, Types, Clean

(* A phone that no reset joined yet says that it finished none. *)
LEMMA PhoneHelloIs ==
  ASSUME Types, Guarded, NEW p \in Phone
  PROVE  /\ PhoneHello(p) \in Hellos /\ PhoneHello(p) \in ForHub(Written)
         /\ PhoneHello(p).kind = "hello"
         /\ p \notin joined => PhoneHello(p).last = 0
<1>1. log[p] \subseteq Written /\ problems[p] \subseteq Problem
  BY Devices DEF Types, DataTypes
<1>2. Summary(log[p]) \in [Device -> Nat]
  BY <1>1, SummaryTypes
<1>3. Reliable(p) \in BOOLEAN /\ ResetPending(p) \in BOOLEAN
  BY DEF Reliable, ResetPending
<1>4. finished[p] \in Nat /\ (p \notin joined => finished[p] = 0)
  BY RoundAssumption DEF Types, PeerTypes, Guarded, Unproven
<1> DEFINE n == IF p \in hubOf THEN finished[p] ELSE 0
<1>5. n \in Nat /\ (p \notin joined => n = 0)
  BY <1>4
<1>6. PhoneHello(p) = [kind |-> "hello", summary |-> Summary(log[p]), reliable |-> Reliable(p),
                       pending |-> ResetPending(p), last |-> n]
  BY DEF PhoneHello
<1> HIDE DEF n
<1>7. PhoneHello(p) \in Hellos /\ PhoneHello(p).kind = "hello" /\ PhoneHello(p).last = n
  BY <1>2, <1>3, <1>5, <1>6 DEF Hellos
<1> QED
  BY <1>5, <1>7 DEF ForHub

(* A phone's hello. *)
LEMMA StartRoundKeeps ==
  ASSUME IInv, NEW p \in Phone, StartRound(p)
  PROVE  IInv'
<1>1. Types /\ Guarded /\ Clean /\ WireTypes
  BY DEF IInv, Types
<1> DEFINE h == PhoneHello(p)
<1>2. h \in Hellos /\ h \in ForHub(Written) /\ h.kind = "hello" /\ (p \notin joined => h.last = 0)
  BY <1>1, PhoneHelloIs
<1> HIDE DEF h
<1>3. /\ at' = [at EXCEPT ![p] = "hello"] /\ own' = [own EXCEPT ![p] = h]
      /\ toHub' = [toHub EXCEPT ![p] = h] /\ toPhone' = [toPhone EXCEPT ![p] = Quiet]
      /\ session' = [phone |-> p, stage |-> "hello"]
      /\ UNCHANGED <<data, peers, made, lost, history>>
  BY DEF StartRound, h
<1>4. Quiet \in ForPhone(Written, issued) /\ Quiet.kind = "none"
  BY QuietIs
<1>5. session' \in Begun /\ session'.phone = p /\ session'.stage = "hello"
  BY <1>3 DEF Begun
<1>6. Wired
  BY <1>1, <1>2, <1>3, <1>4, <1>5 DEF Wired, WireTypes
<1>7. at'[p] = "hello" /\ toHub'[p] = h /\ toPhone'[p] = Quiet
  BY <1>1, <1>3 DEF WireTypes
<1>8. Only(p)
  BY <1>1, <1>3, <1>5 DEF Only, WireTypes
<1>9. Truthful(p)
  BY <1>2, <1>4, <1>5, <1>7 DEF Truthful
<1> QED
  BY <1>3, <1>6, <1>8, <1>9, MessageStep

(* The hub asks a phone that it wants a first reset of for just that. *)
LEMMA HubHelloIs ==
  ASSUME Types, NEW p \in Phone, NEW hello \in Hellos
  PROVE  /\ HubHello(p, hello) \in Answers /\ HubHello(p, hello) \in ForPhone(Written, issued)
         /\ HubHello(p, hello).kind = "answer"
         /\ Owing(p) /\ hello.last = 0 =>
              HubHello(p, hello).mustReset /\ HubHello(p, hello).firstReset
<1> DEFINE owes == required[p] # NoReset /\ ~ResetProven(hello, required[p])
<1> DEFINE first == owes /\ FirstPairingPending(required[p], hello.last)
<1>1. owes \in BOOLEAN /\ first \in BOOLEAN
  BY DEF FirstPairingPending
<1>2. log[Hub] \subseteq Written
  BY Devices DEF Types, DataTypes
<1>3. Summary(log[Hub]) \in [Device -> Nat] /\ Reliable(Hub) \in BOOLEAN
  BY <1>2, SummaryTypes DEF Reliable
<1>4. Owing(p) /\ hello.last = 0 => owes /\ first
  BY DEF Owing, NoReset, ResetProven, FirstPairingPending
<1>5. HubHello(p, hello) =
        [kind |-> "answer", summary |-> Summary(log[Hub]), reliable |-> Reliable(Hub),
         mustReset |-> owes, firstReset |-> first]
  BY DEF HubHello
<1> HIDE DEF owes, first
<1>6. /\ HubHello(p, hello) \in Answers /\ HubHello(p, hello).kind = "answer"
      /\ HubHello(p, hello).mustReset = owes /\ HubHello(p, hello).firstReset = first
  BY <1>1, <1>3, <1>5 DEF Answers
<1> QED
  BY <1>4, <1>6 DEF ForPhone

(* Every plan is one of three, with or without a push. *)
LEMMA PlanIs ==
  ASSUME NEW phone \in Said \cup Hellos, NEW hub
  PROVE  PlanOf(phone, hub).kind \in {"exchange", "reset", "repair"}
  BY DEF PlanOf

(* The plan a hub makes of two hellos. *)
LEMMA RoundPlanIs ==
  ASSUME NEW phone \in Hellos, NEW hub \in Answers
  PROVE  PlanOf(phone, hub) \in RoundPlan
  BY DEF PlanOf, RoundPlan, Hellos, Answers

(* The hub answers, and clears a requirement that is proven. *)
LEMMA HubAnswersKeeps ==
  ASSUME IInv, NEW p \in Phone, HubAnswersHello(p)
  PROVE  IInv'
<1>1. Types /\ Guarded /\ Clean /\ WireTypes
  BY DEF IInv, Types
<1> DEFINE hello == toHub[p]
<1> DEFINE answer == HubHello(p, hello)
<1> DEFINE plan == PlanOf(hello, answer)
<1> DEFINE stage == IF plan.kind = "exchange" \/ plan.pushFirst THEN "push" ELSE "proceed"
<1>2. session.phone = p /\ session.stage = "hello" /\ toHub[p].kind = "hello" /\ p \in phones
  BY DEF HubAnswersHello, Heard
<1>3. hello \in Hellos /\ (p \notin joined => hello.last = 0)
  BY <1>1, <1>2, HubKinds DEF WireTypes, Guarded, HelloTrue
<1>4. /\ answer \in Answers /\ answer \in ForPhone(Written, issued) /\ answer.kind = "answer"
      /\ Owing(p) /\ hello.last = 0 => answer.mustReset /\ answer.firstReset
  BY <1>1, <1>3, HubHelloIs
<1> HIDE DEF answer
<1>5. plan \in RoundPlan
  BY <1>3, <1>4, RoundPlanIs
<1> HIDE DEF plan
<1>6. stage \in {"push", "proceed"}
  OBVIOUS
<1>7. /\ required' = IF answer.mustReset THEN required ELSE [required EXCEPT ![p] = NoReset]
      /\ toPhone' = [toPhone EXCEPT ![p] = answer]
      /\ session' = [phone |-> p, hello |-> hello, plan |-> plan, stage |-> stage]
      /\ toHub' = [toHub EXCEPT ![p] = Quiet]
      /\ UNCHANGED <<data, hubOf, finished, phones, issued, at, own, made, lost, history>>
  BY DEF HubAnswersHello, answer, plan
<1> HIDE DEF hello, stage
<1>8. /\ session' \in Serving /\ session'.phone = p /\ session'.hello = hello
      /\ session'.stage = stage
  BY <1>3, <1>5, <1>6, <1>7 DEF Serving
<1>9. Quiet \in ForHub(Written) /\ Quiet.kind = "none"
  BY QuietIs
<1>10. toHub'[p] = Quiet /\ toPhone'[p] = answer /\ at'[p] = at[p]
  BY <1>1, <1>7 DEF WireTypes
<1>11. Wired
  BY <1>1, <1>4, <1>7, <1>8, <1>9 DEF Wired, WireTypes
<1>12. Only(p)
  BY <1>1, <1>7, <1>8 DEF Only, WireTypes
<1>13. at[p] # "pairing"
  BY <1>1, <1>2 DEF Guarded, PairsFirst
<1>14. p \in hubOf \ joined => Owing(p)
  BY <1>1, <1>2 DEF Guarded, Owes, Types, PeerTypes
<1>15. Carried(answer) = {}
  BY <1>4, PhoneKinds
<1>16. Truthful(p)
  BY <1>3, <1>4, <1>8, <1>9, <1>10, <1>13, <1>14, <1>15 DEF Truthful
<1>17. p \in hubOf \ joined => required' = required
  BY <1>3, <1>4, <1>7, <1>14
<1>18. DataTypes' /\ PastTypes' /\ Written' = Written
  BY <1>1, <1>7, DataStays
<1>19. PeerTypes'
  <2>1. issued \in Nat
    BY <1>1, RoundAssumption DEF Types, PeerTypes
  <2>2. NoReset \in [id : 0..issued, first : 0..issued]
    BY <2>1 DEF NoReset
  <2> QED
    BY <1>1, <1>7, <2>2 DEF Types, PeerTypes
<1>20. WireTypes'
  BY <1>7, <1>11, <1>18 DEF WireTypes, Wired
<1>21. \A q \in Phone \ {p} : required'[q] = required[q]
  BY <1>1, <1>7 DEF Types, PeerTypes
<1>22. Unproven'
  BY <1>1, <1>7 DEF Guarded, Unproven, history
<1>23. PairsFirst'
  <2>1. ASSUME NEW q \in Phone, at'[q] = "pairing"
        PROVE  q \notin hubOf' /\ session'.phone # q /\ (q \in phones' => Owing(q)')
    <3>1. q # p /\ at[q] = "pairing"
      BY <1>7, <1>13, <2>1
    <3> QED
      BY <1>1, <1>7, <1>8, <1>21, <3>1 DEF Guarded, PairsFirst, Owing
  <2> QED
    BY <2>1 DEF PairsFirst
<1>24. Owes'
  <2>1. ASSUME NEW q \in (hubOf \cap phones) \ joined
        PROVE  Owing(q)'
    <3>1. q \in Phone /\ Owing(q)
      BY <1>1 DEF Guarded, Owes, Types, PeerTypes
    <3>2. required'[q] = required[q]
      BY <1>17, <1>21, <3>1
    <3> QED
      BY <3>1, <3>2 DEF Owing
  <2> QED
    BY <1>7, <2>1 DEF Owes, history
<1>25. HelloTrue' /\ AnswerTrue'
  <2>1. ASSUME NEW q \in Phone \ joined, session'.phone = q
        PROVE  /\ toHub'[q].kind = "hello" => toHub'[q].last = 0
               /\ session'.stage # "hello" => session'.hello.last = 0
    BY <1>8, <1>16, <2>1 DEF Truthful
  <2>2. ASSUME NEW q \in hubOf \ joined, at[q] = "hello", toPhone'[q].kind = "answer"
        PROVE  toPhone'[q].firstReset
    <3>1. CASE q = p
      BY <1>7, <1>16, <2>2, <3>1 DEF Truthful
    <3>2. CASE q # p
      BY <1>1, <1>12, <2>2, <3>2 DEF Only, Guarded, AnswerTrue, Types, PeerTypes
    <3> QED
      BY <3>1, <3>2
  <2> QED
    BY <1>7, <2>1, <2>2 DEF HelloTrue, AnswerTrue, history
<1>26. Guarded'
  BY <1>22, <1>23, <1>24, <1>25 DEF Guarded
<1>27. HubTakesNoPrivateData' /\ JoinedClean' /\ PushClean' /\ TakenClean'
  BY <1>1, <1>7, <1>12, <1>16, TruthfulClean
     DEF Clean, HubTakesNoPrivateData, JoinedClean, data, history
<1> QED
  BY <1>18, <1>19, <1>20, <1>26, <1>27 DEF IInv, Types, Clean

-----------------------------------------------------------------------------
(* The phone's messages.                                                   *)

(* A hello that a round goes on from, while the session stays as it is. *)
LEMMA HelloStays ==
  ASSUME Guarded, NEW p \in Phone \ joined, session.phone = p
  PROVE  session.stage # "hello" => session.hello.last = 0
  BY DEF Guarded, HelloTrue

(* A phone that sends no data and reads what it was sent. *)
LEMMA PhoneSends ==
  ASSUME IInv, NEW p \in Phone, NEW m \in Said, NEW place \in {"idle", "hello", "full"},
         toHub' = [toHub EXCEPT ![p] = m], toPhone' = [toPhone EXCEPT ![p] = Quiet],
         at' = [at EXCEPT ![p] = place], own' = own \/ own' = [own EXCEPT ![p] = Quiet],
         UNCHANGED <<data, peers, session, made, lost, history>>
  PROVE  IInv'
<1>1. Types /\ Guarded /\ Clean /\ WireTypes
  BY DEF IInv, Types
<1>2. /\ Quiet \in Said /\ Quiet \in ForPhone(Written, issued) /\ Quiet.kind = "none"
      /\ Carried(Quiet) = {}
  BY QuietIs
<1>3. m \in ForHub(Written) /\ m.kind \notin {"hello", "push"}
  BY DEF Said, ForHub
<1>4. at'[p] = place /\ toHub'[p] = m /\ toPhone'[p] = Quiet
  BY <1>1 DEF WireTypes
<1>5. Wired
  BY <1>1, <1>2, <1>3 DEF Wired, WireTypes
<1>6. Only(p)
  BY <1>1 DEF Only, WireTypes
<1>7. Truthful(p)
  BY <1>1, <1>2, <1>3, <1>4, HelloStays DEF Truthful
<1> QED
  BY <1>5, <1>6, <1>7, MessageStep

(* A preview, or a reset that sends nothing. *)
LEMMA PhoneReadsKeeps ==
  ASSUME IInv, NEW p \in Phone, PhonePreviews(p) \/ PhoneProceeds(p)
  PROVE  IInv'
<1>1. CASE PhonePreviews(p)
  <2>1. [kind |-> "done"] \in Said
    BY DEF Said
  <2> QED
    BY <1>1, <2>1, PhoneSends DEF PhonePreviews
<1>2. CASE PhoneProceeds(p)
  <2>1. [kind |-> "proceed"] \in Said
    BY DEF Said
  <2> QED
    BY <1>2, <2>1, PhoneSends DEF PhoneProceeds
<1> QED
  BY <1>1, <1>2

(* Only a phone that was reset since it paired pushes. *)
LEMMA PhonePushesKeeps ==
  ASSUME IInv, NEW p \in Phone, PhonePushes(p)
  PROVE  IInv'
<1>1. Types /\ Guarded /\ Clean /\ WireTypes
  BY DEF IInv, Types
<1> DEFINE m == [kind |-> "push", lines |-> Missing(log[p], toPhone[p].summary)]
<1> DEFINE place == IF PlanOf(own[p], toPhone[p]).kind = "exchange" THEN "reply" ELSE "full"
<1>2. /\ at[p] = "hello" /\ toPhone[p].kind = "answer" /\ p \in hubOf /\ ~toPhone[p].firstReset
      /\ toHub' = [toHub EXCEPT ![p] = m] /\ toPhone' = [toPhone EXCEPT ![p] = Quiet]
      /\ at' = [at EXCEPT ![p] = place]
      /\ UNCHANGED <<data, peers, own, session, made, lost, history>>
  BY DEF PhonePushes
<1>3. p \in joined
  BY <1>1, <1>2 DEF Guarded, AnswerTrue
<1>4. log[p] \subseteq Written /\ log[p] \cap private = {}
  BY <1>1, <1>3, Devices DEF Types, DataTypes, Clean, JoinedClean
<1>5. m.lines \subseteq log[p] /\ m.kind = "push"
  BY DEF Missing
<1>6. m \in ForHub(Written)
  <2>1. Missing(log[p], toPhone[p].summary) \subseteq Written
    BY <1>4 DEF Missing
  <2> QED
    BY <2>1 DEF ForHub, Pushes
<1>7. place \in {"reply", "full"}
  OBVIOUS
<1> HIDE DEF m, place
<1>8. /\ Quiet \in Said /\ Quiet \in ForPhone(Written, issued) /\ Quiet.kind = "none"
      /\ Carried(Quiet) = {}
  BY QuietIs
<1>9. at'[p] = place /\ toHub'[p] = m /\ toPhone'[p] = Quiet
  BY <1>1, <1>2 DEF WireTypes
<1>10. Wired
  BY <1>1, <1>2, <1>6, <1>7, <1>8 DEF Wired, WireTypes
<1>11. Only(p)
  BY <1>1, <1>2 DEF Only, WireTypes
<1>12. m.lines \cap private = {}
  BY <1>4, <1>5
<1>13. Truthful(p)
  BY <1>3, <1>7, <1>8, <1>9, <1>12 DEF Truthful
<1> QED
  BY <1>2, <1>10, <1>11, <1>13, MessageStep

(* The phone's side ends; what it sent stays under way. *)
LEMMA PhoneStopsKeeps ==
  ASSUME IInv, NEW p \in Phone, PhoneStops(p)
  PROVE  IInv'
<1>1. Types /\ Guarded /\ Clean /\ WireTypes
  BY DEF IInv, Types
<1>2. /\ at' = [at EXCEPT ![p] = "idle"] /\ own' = [own EXCEPT ![p] = Quiet]
      /\ toPhone' = [toPhone EXCEPT ![p] = Quiet]
      /\ UNCHANGED <<data, peers, session, toHub, made, lost, history>>
  BY DEF PhoneStops
<1>3. Quiet \in Said /\ Quiet \in ForPhone(Written, issued)
  BY QuietIs
<1>4. at'[p] = "idle"
  BY <1>1, <1>2 DEF WireTypes
<1>5. Wired
  BY <1>1, <1>2, <1>3 DEF Wired, WireTypes
<1>6. Only(p)
  BY <1>1, <1>2 DEF Only, WireTypes
<1>7. Truthful(p)
  BY <1>1, <1>2, <1>4 DEF Truthful, Guarded, HelloTrue, Clean, PushClean
<1> QED
  BY <1>2, <1>5, <1>6, <1>7, MessageStep

-----------------------------------------------------------------------------
(* The hub's messages.                                                     *)

(* A session that goes on after the push, or without one. *)
LEMMA SessionGoesOn ==
  ASSUME WireTypes, NEW p \in Phone, session.phone = p, session.stage # "hello",
         session' = [session EXCEPT !.stage = AfterPush[session.plan.kind]]
  PROVE  /\ session' \in Serving /\ session'.phone = p /\ session'.hello = session.hello
         /\ session'.stage # "hello"
<1>1. session \in Serving
  BY SessionIs
<1>2. session.plan.kind \in {"exchange", "reset", "repair"}
  BY <1>1 DEF Serving, RoundPlan
<1>3. AfterPush[session.plan.kind] \in {"reply", "full", "repair"}
  BY <1>2 DEF AfterPush
<1>4. session' = [phone |-> session.phone, hello |-> session.hello, plan |-> session.plan,
                  stage |-> AfterPush[session.plan.kind]]
  BY <1>1 DEF Serving
<1> QED
  BY <1>1, <1>3, <1>4 DEF Serving

(* The hub goes on without a push. *)
LEMMA HubProceedsKeeps ==
  ASSUME IInv, NEW p \in Phone, HubProceeds(p)
  PROVE  IInv'
<1>1. Types /\ Guarded /\ Clean /\ WireTypes
  BY DEF IInv, Types
<1>2. /\ session.phone = p /\ session.stage = "proceed"
      /\ toHub' = [toHub EXCEPT ![p] = Quiet]
      /\ session' = [session EXCEPT !.stage = AfterPush[session.plan.kind]]
      /\ UNCHANGED <<data, peers, at, own, toPhone, made, lost, history>>
  BY DEF HubProceeds, Heard
<1>3. /\ session' \in Serving /\ session'.phone = p /\ session'.hello = session.hello
      /\ session'.stage # "hello"
  BY <1>1, <1>2, SessionGoesOn
<1>4. Quiet \in ForHub(Written) /\ Quiet.kind = "none"
  BY QuietIs
<1>5. toHub'[p] = Quiet /\ at[p] # "pairing"
  BY <1>1, <1>2 DEF WireTypes, Guarded, PairsFirst
<1>6. Wired
  BY <1>1, <1>2, <1>3, <1>4 DEF Wired, WireTypes
<1>7. Only(p)
  BY <1>1, <1>2, <1>3 DEF Only, WireTypes
<1>8. Truthful(p)
  BY <1>1, <1>2, <1>3, <1>4, <1>5, HelloStays
     DEF Truthful, Guarded, AnswerTrue, Clean, TakenClean, Carried
<1> QED
  BY <1>2, <1>6, <1>7, <1>8, MessageStep

(* The hub sends lines of its log, and is done with the round. *)
LEMMA HubSends ==
  ASSUME IInv, NEW p \in Phone, session.phone = p,
         NEW m \in Replies(Written) \cup Fulls(Written, issued), m.lines \subseteq log[Hub],
         toPhone' = [toPhone EXCEPT ![p] = m], session' = Idle,
         UNCHANGED <<data, peers, at, own, toHub, made, lost, history>>
  PROVE  IInv'
<1>1. Types /\ Guarded /\ Clean /\ WireTypes
  BY DEF IInv, Types
<1>2. m \in ForPhone(Written, issued) /\ m.kind \in {"reply", "full"}
  BY DEF ForPhone, Replies, Fulls
<1>3. Carried(m) \cap private = {}
  BY <1>1, <1>2 DEF Carried, Clean, HubTakesNoPrivateData
<1>4. toPhone'[p] = m /\ at[p] # "pairing"
  BY <1>1 DEF WireTypes, Guarded, PairsFirst
<1>5. session'.phone = 0 /\ session'.phone # p
  BY Devices DEF Idle
<1>6. Wired
  BY <1>1, <1>2 DEF Wired, WireTypes
<1>7. Only(p)
  BY <1>1, <1>5 DEF Only, WireTypes
<1>8. Truthful(p)
  BY <1>2, <1>3, <1>4, <1>5 DEF Truthful
<1> QED
  BY <1>6, <1>7, <1>8, MessageStep

(* A reply, and the full log with the id of the reset it belongs to. *)
LEMMA HubSendsKeeps ==
  ASSUME IInv, NEW p \in Phone, HubReplies(p) \/ HubSendsFullLog(p)
  PROVE  IInv'
<1>1. log[Hub] \subseteq Written /\ required[p].id \in 0..issued
  BY Devices DEF IInv, Types, DataTypes, PeerTypes
<1>2. CASE HubReplies(p)
  <2> DEFINE m == [kind |-> "reply", lines |-> Missing(log[Hub], session.hello.summary),
                   all |-> log[Hub]]
  <2>1. Missing(log[Hub], session.hello.summary) \subseteq log[Hub]
    BY DEF Missing
  <2>2. m \in Replies(Written) /\ m.lines \subseteq log[Hub]
    BY <1>1, <2>1 DEF Replies
  <2>3. /\ session.phone = p /\ toPhone' = [toPhone EXCEPT ![p] = m] /\ session' = Idle
        /\ UNCHANGED <<data, peers, at, own, toHub, made, lost, history>>
    BY <1>2 DEF HubReplies
  <2> HIDE DEF m
  <2> QED
    BY <2>2, <2>3, HubSends
<1>3. CASE HubSendsFullLog(p)
  <2> DEFINE m == [kind |-> "full", lines |-> log[Hub], id |-> required[p].id]
  <2>1. m \in Fulls(Written, issued) /\ m.lines \subseteq log[Hub]
    BY <1>1 DEF Fulls
  <2>2. /\ session.phone = p /\ toPhone' = [toPhone EXCEPT ![p] = m] /\ session' = Idle
        /\ UNCHANGED <<data, peers, at, own, toHub, made, lost, history>>
    BY <1>3 DEF HubSendsFullLog
  <2> HIDE DEF m
  <2> QED
    BY <2>1, <2>2, HubSends
<1> QED
  BY <1>2, <1>3

(* The hub's side ends. *)
LEMMA HubStopsKeeps ==
  ASSUME IInv, HubStops
  PROVE  IInv'
<1>1. Types /\ Guarded /\ Clean /\ WireTypes
  BY DEF IInv, Types
<1>2. /\ session # Idle /\ toHub' = [toHub EXCEPT ![session.phone] = Quiet] /\ session' = Idle
      /\ UNCHANGED <<data, peers, at, own, toPhone, made, lost, history>>
  BY DEF HubStops
<1>3. PICK p \in Phone : session.phone = p
  BY <1>1, <1>2 DEF WireTypes, Begun, Serving
<1>4. Quiet \in ForHub(Written) /\ Quiet.kind = "none"
  BY QuietIs
<1>5. session'.phone = 0 /\ session'.phone # p
  BY <1>2, Devices DEF Idle
<1>6. toHub'[p] = Quiet /\ at[p] # "pairing"
  BY <1>1, <1>2, <1>3 DEF WireTypes, Guarded, PairsFirst
<1>7. Wired
  BY <1>1, <1>2, <1>3, <1>4 DEF Wired, WireTypes
<1>8. Only(p)
  BY <1>1, <1>2, <1>3, <1>5 DEF Only, WireTypes
<1>9. Truthful(p)
  BY <1>1, <1>2, <1>5, <1>6 DEF Truthful, Guarded, AnswerTrue, Clean, TakenClean, Carried
<1> QED
  BY <1>2, <1>7, <1>8, <1>9, MessageStep

-----------------------------------------------------------------------------
(* A batch is taken.                                                       *)

(* What the entries of written lines are. *)
LEMMA AboutIs ==
  ASSUME NEW L, L \subseteq Written, NEW r
  PROVE  About(L, r) \in SUBSET M!Entry
<1>1. \A x \in L : x.entry \in M!Entry
  BY DEF Written, Line
<1> QED
  BY <1>1 DEF About

(* Applying a batch keeps the data well formed and adds only its lines. *)
LEMMA ApplyTypes ==
  ASSUME Types, NEW d \in Device, NEW batch, batch \subseteq Written,
         NEW stored, stored \subseteq batch, ApplyStoring(d, batch, stored)
  PROVE  /\ log' \in [Device -> SUBSET Written]
         /\ disk' \in [Device -> [Row -> M!Content \cup {M!Absent}]]
         /\ clock' \in [Device -> 0..MaxTime]
         /\ log'[d] \subseteq log[d] \cup batch /\ \A e \in Device \ {d} : log'[e] = log[e]
<1> DEFINE new == Unknown(d, batch)
<1> DEFINE rows == [r \in Row |-> M!RowAfter(disk[d][r], About(log[d] \cup new, r),
                                             About(new, r), FALSE)]
<1>1. /\ log' = [log EXCEPT ![d] = @ \cup stored]
      /\ clock' = [clock EXCEPT ![d] = ClockAfter(@, batch)]
  BY DEF ApplyStoring
<1>2. disk' = [disk EXCEPT ![d] = rows]
  BY DEF ApplyStoring, Types, DataTypes
<1>3. /\ log[d] \cup batch \subseteq Written /\ clock[d] \in 0..MaxTime
      /\ log[d] \cup stored \subseteq Written
  BY DEF Types, DataTypes
<1>4. \A r \in Row : disk[d][r] \in M!Content \cup {M!Absent}
  BY DEF Types, DataTypes
<1>5. new \subseteq Written /\ log[d] \cup new \subseteq Written
  BY <1>3 DEF Unknown
<1> HIDE DEF new
<1>6. ASSUME NEW r \in Row
      PROVE  M!RowAfter(disk[d][r], About(log[d] \cup new, r), About(new, r), FALSE)
             \in M!Content \cup {M!Absent}
  <2>1. About(log[d] \cup new, r) \in SUBSET M!Entry
    BY <1>5, AboutIs
  <2>2. disk[d][r] \in M!Content \cup {M!Absent}
    BY <1>4
  <2> QED
    BY ONLY <2>1, <2>2, RowTypes
<1>7. rows \in [Row -> M!Content \cup {M!Absent}]
  BY <1>6
<1> HIDE DEF rows
<1>8. ClockAfter(clock[d], batch) \in 0..MaxTime
  BY <1>3, ClockTypes
<1> QED
  BY <1>1, <1>2, <1>3, <1>7, <1>8 DEF Types, DataTypes

(* A batch that is taken is stored whole or up to some entry. *)
LEMMA TakenTypes ==
  ASSUME Types, NEW d \in Device, NEW batch, batch \subseteq Written,
         Apply(d, batch) \/ ApplyStops(d, batch)
  PROVE  /\ log' \in [Device -> SUBSET Written]
         /\ disk' \in [Device -> [Row -> M!Content \cup {M!Absent}]]
         /\ clock' \in [Device -> 0..MaxTime]
         /\ log'[d] \subseteq log[d] \cup batch /\ \A e \in Device \ {d} : log'[e] = log[e]
<1>1. \E stored \in SUBSET batch : ApplyStoring(d, batch, stored)
  <2>1. Unknown(d, batch) \subseteq batch
    BY DEF Unknown
  <2>2. CASE Apply(d, batch)
    BY <2>1, <2>2 DEF Apply
  <2>3. CASE ApplyStops(d, batch)
    BY <2>1, <2>3 DEF ApplyStops
  <2> QED
    BY <2>2, <2>3
<1>2. PICK stored \in SUBSET batch : ApplyStoring(d, batch, stored)
  BY <1>1
<1>3. stored \subseteq batch
  BY <1>2
<1> QED
  BY ONLY Types, d \in Device, batch \subseteq Written, <1>2, <1>3, ApplyTypes

(* The hub takes a push, which carries nothing private, whole or in part. *)
LEMMA HubTakesKeeps ==
  ASSUME IInv, NEW p \in Phone, HubTakesPush(p) \/ HubPushStops(p)
  PROVE  IInv'
<1>1. Types /\ Guarded /\ Clean /\ WireTypes
  BY DEF IInv, Types
<1> DEFINE L == toHub[p].lines
<1>2. /\ session.phone = p /\ session.stage = "push" /\ toHub[p].kind = "push"
      /\ Apply(Hub, L) \/ ApplyStops(Hub, L)
      /\ toHub' = [toHub EXCEPT ![p] = Quiet]
      /\ \/ session' = [session EXCEPT !.stage = AfterPush[session.plan.kind]]
         \/ session' = Idle
      /\ lost' = lost \/ (lost < cast.losses /\ lost' = lost + 1)
      /\ UNCHANGED <<problems, peers, at, own, toPhone, made, cast, joined, private>>
  BY DEF HubTakesPush, HubPushStops, Heard, Fails, history
<1>3. L \subseteq Written /\ L \cap private = {}
  BY <1>1, <1>2, HubKinds DEF WireTypes, Clean, PushClean
<1> HIDE DEF L
<1>4. /\ log' \in [Device -> SUBSET Written]
      /\ disk' \in [Device -> [Row -> M!Content \cup {M!Absent}]]
      /\ clock' \in [Device -> 0..MaxTime]
      /\ log'[Hub] \subseteq log[Hub] \cup L /\ \A e \in Device \ {Hub} : log'[e] = log[e]
  BY <1>1, <1>2, <1>3, TakenTypes, Devices
<1>5. DataTypes' /\ Written' = Written
  BY <1>1, <1>2, <1>4, DataTypesSame DEF Types, DataTypes
<1>6. PastTypes'
  <2>1. lost' \in 0..cast.losses
    BY <1>1, <1>2, RoundAssumption DEF Types, PastTypes
  <2> QED
    BY <1>1, <1>2, <2>1, NothingMade DEF Types, PastTypes
<1>7. PeerTypes' /\ issued' = issued
  BY <1>1, <1>2 DEF Types, PeerTypes, peers
<1>8. /\ session' \in {Idle} \cup Serving
      /\ \/ /\ session'.phone = p /\ session'.hello = session.hello
            /\ session'.stage # "hello"
         \/ session'.phone = 0 /\ session'.phone # p
  <2>1. CASE session' = [session EXCEPT !.stage = AfterPush[session.plan.kind]]
    BY <1>1, <1>2, <2>1, SessionGoesOn
  <2>2. CASE session' = Idle
    BY <2>2, Devices DEF Idle
  <2> QED
    BY <1>2, <2>1, <2>2
<1>9. Quiet \in ForHub(Written) /\ Quiet.kind = "none"
  BY QuietIs
<1>10. toHub'[p] = Quiet /\ at[p] # "pairing"
  BY <1>1, <1>2 DEF WireTypes, Guarded, PairsFirst
<1>11. WireTypes'
  BY <1>1, <1>2, <1>5, <1>7, <1>8, <1>9 DEF WireTypes
<1>12. Only(p)
  BY <1>1, <1>2, <1>8 DEF Only, WireTypes
<1>13. Truthful(p)
  BY <1>1, <1>2, <1>8, <1>9, <1>10, HelloStays
     DEF Truthful, Guarded, AnswerTrue, Clean, TakenClean, Carried
<1>14. Guarded'
  BY <1>1, <1>2, <1>12, <1>13, TruthfulGuarded DEF peers
<1>15. PushClean' /\ TakenClean'
  BY <1>1, <1>2, <1>12, <1>13, TruthfulClean
<1>16. HubTakesNoPrivateData' /\ JoinedClean'
  <2>1. \A q \in joined : q \in Device \ {Hub}
    BY <1>1, Devices DEF Types, PastTypes
  <2> QED
    BY <1>1, <1>2, <1>3, <1>4, <2>1 DEF Clean, HubTakesNoPrivateData, JoinedClean
<1> QED
  BY <1>5, <1>6, <1>7, <1>11, <1>14, <1>15, <1>16 DEF IInv, Types, Clean

(* The phone takes a reply, which came from the hub's log, whole or in part. *)
LEMMA PhoneTakesKeeps ==
  ASSUME IInv, NEW p \in Phone, PhoneTakesReply(p) \/ PhoneReplyStops(p)
  PROVE  IInv'
<1>1. Types /\ Guarded /\ Clean /\ WireTypes
  BY DEF IInv, Types
<1> DEFINE L == toPhone[p].lines
<1>2. /\ at[p] = "reply" /\ toPhone[p].kind = "reply"
      /\ Apply(p, L) \/ ApplyStops(p, L)
      /\ toPhone' = [toPhone EXCEPT ![p] = Quiet]
      /\ at' = [at EXCEPT ![p] = "idle"] /\ own' = [own EXCEPT ![p] = Quiet]
      /\ lost' = lost \/ (lost < cast.losses /\ lost' = lost + 1)
      /\ UNCHANGED <<problems, peers, session, toHub, made, cast, joined, private>>
  BY DEF PhoneTakesReply, PhoneReplyStops, Fails, history
<1>3. L \subseteq Written /\ L \cap private = {}
  BY <1>1, <1>2, PhoneKinds DEF WireTypes, Clean, TakenClean
<1> HIDE DEF L
<1>4. /\ log' \in [Device -> SUBSET Written]
      /\ disk' \in [Device -> [Row -> M!Content \cup {M!Absent}]]
      /\ clock' \in [Device -> 0..MaxTime]
      /\ log'[p] \subseteq log[p] \cup L /\ \A e \in Device \ {p} : log'[e] = log[e]
  BY <1>1, <1>2, <1>3, TakenTypes, Devices
<1>5. DataTypes' /\ Written' = Written
  BY <1>1, <1>2, <1>4, DataTypesSame DEF Types, DataTypes
<1>6. PastTypes'
  <2>1. lost' \in 0..cast.losses
    BY <1>1, <1>2, RoundAssumption DEF Types, PastTypes
  <2> QED
    BY <1>1, <1>2, <2>1, NothingMade DEF Types, PastTypes
<1>7. PeerTypes' /\ issued' = issued
  BY <1>1, <1>2 DEF Types, PeerTypes, peers
<1>8. Quiet \in Said /\ Quiet \in ForPhone(Written, issued)
  BY QuietIs
<1>9. at'[p] = "idle"
  BY <1>1, <1>2 DEF WireTypes
<1>10. WireTypes'
  BY <1>1, <1>2, <1>5, <1>7, <1>8 DEF WireTypes
<1>11. Only(p)
  BY <1>1, <1>2 DEF Only, WireTypes
<1>12. Truthful(p)
  BY <1>1, <1>2, <1>9 DEF Truthful, Guarded, HelloTrue, Clean, PushClean
<1>13. Guarded'
  BY <1>1, <1>2, <1>11, <1>12, TruthfulGuarded DEF peers
<1>14. PushClean' /\ TakenClean'
  BY <1>1, <1>2, <1>11, <1>12, TruthfulClean
<1>15. HubTakesNoPrivateData' /\ JoinedClean'
  <2>1. Hub \in Device \ {p} /\ \A q \in joined : q \in Device
    BY <1>1, Devices DEF Types, PastTypes
  <2> QED
    BY <1>1, <1>2, <1>3, <1>4, <2>1 DEF Clean, HubTakesNoPrivateData, JoinedClean
<1> QED
  BY <1>5, <1>6, <1>7, <1>10, <1>13, <1>14, <1>15 DEF IInv, Types, Clean

-----------------------------------------------------------------------------
(* A repair.                                                               *)

(* New requirements keep the first pairings that are still unproven. *)
LEMMA RequiredAfterRepair ==
  ASSUME Types, RequireResets \/ UNCHANGED <<required, issued>>
  PROVE  /\ issued \in Nat /\ issued' \in 0..MaxResets /\ issued <= issued'
         /\ required' \in [Phone -> [id : 0..issued', first : 0..issued']]
         /\ \A q \in Phone : Owing(q) => Owing(q)'
<1>1. issued \in 0..MaxResets /\ issued \in Nat
  BY RoundAssumption DEF Types, PeerTypes
<1>2. CASE UNCHANGED <<required, issued>>
  BY <1>1, <1>2 DEF Types, PeerTypes, Owing
<1>3. CASE RequireResets
  <2>1. /\ issued' = issued + 1
        /\ required' = [p \in Phone |-> IF p \in phones THEN AfterRepair(required[p], issued + 1)
                                        ELSE required[p]]
    BY <1>3 DEF RequireResets
  <2>2. issued' \in 0..MaxResets /\ issued <= issued' /\ issued + 1 # 0
    BY <1>1, <1>3, RoundAssumption DEF RequireResets
  <2>3. [id : 0..issued, first : 0..issued] \subseteq [id : 0..issued', first : 0..issued']
    BY <1>1, <2>1
  <2>4. ASSUME NEW q \in Phone
        PROVE  /\ required'[q] \in [id : 0..issued', first : 0..issued']
               /\ Owing(q) => required'[q].id # 0 /\ required'[q].first # 0
    <3>1. required[q] \in [id : 0..issued, first : 0..issued]
      BY DEF Types, PeerTypes
    <3>2. CASE q \in phones
      <4>1. required'[q] = [id |-> issued + 1, first |-> required[q].first]
        BY <2>1, <3>2 DEF AfterRepair
      <4>2. issued + 1 \in 0..issued' /\ required[q].first \in 0..issued'
        BY <1>1, <2>1, <3>1
      <4> QED
        BY <2>2, <4>1, <4>2 DEF Owing
    <3>3. CASE q \notin phones
      <4>1. required'[q] = required[q]
        BY <2>1, <3>3
      <4> QED
        BY <2>3, <3>1, <4>1 DEF Owing
    <3> QED
      BY <3>2, <3>3
  <2>5. required' \in [Phone -> [id : 0..issued', first : 0..issued']]
    BY <2>1, <2>4
  <2> QED
    BY <1>1, <2>2, <2>4, <2>5 DEF Owing
<1> QED
  BY <1>2, <1>3

(* A repair, done or not, keeps the invariant. *)
LEMMA RepairStep ==
  ASSUME IInv, NEW p \in Phone, session.phone = p, session.stage = "repair",
         Writes(Hub), problems' \in [Device -> SUBSET Problem],
         RequireResets \/ UNCHANGED <<required, issued>>, lost' \in 0..cast.losses,
         \/ session' = [session EXCEPT !.stage = "full"] /\ toHub' = toHub
         \/ session' = Idle /\ toHub' = [toHub EXCEPT ![p] = Quiet],
         UNCHANGED <<hubOf, finished, phones, at, own, toPhone, history>>
  PROVE  IInv'
<1>1. Types /\ Guarded /\ Clean /\ WireTypes
  BY DEF IInv, Types
<1>2. /\ issued \in Nat /\ issued' \in 0..MaxResets /\ issued <= issued'
      /\ required' \in [Phone -> [id : 0..issued', first : 0..issued']]
      /\ \A q \in Phone : Owing(q) => Owing(q)'
  BY <1>1, RequiredAfterRepair
<1>3. made \in Nat /\ made' \in Nat /\ made <= made'
  BY <1>1, RoundAssumption DEF Types, PastTypes, Writes
<1>4. session \in Serving
  BY <1>1, SessionIs
<1>5. \/ session' \in Serving /\ session'.phone = p /\ session'.hello = session.hello
      \/ session' = Idle /\ session'.phone = 0
  <2>1. CASE session' = [session EXCEPT !.stage = "full"]
    <3>1. session' = [phone |-> session.phone, hello |-> session.hello, plan |-> session.plan,
                      stage |-> "full"]
      BY <1>4, <2>1 DEF Serving
    <3> QED
      BY <1>4, <3>1 DEF Serving
  <2>2. CASE session' = Idle
    BY <2>2 DEF Idle
  <2> QED
    BY <2>1, <2>2
<1>6. toHub' \in [Phone -> ForHub(Written')] /\ toPhone \in [Phone -> ForPhone(Written', issued')]
  <2>1. toHub \in [Phone -> ForHub(Written')] /\ toPhone \in [Phone -> ForPhone(Written', issued')]
    BY <1>1, <1>2, <1>3, WireGrows
  <2>2. Quiet \in ForHub(Written')
    BY QuietIs
  <2> QED
    BY <2>1, <2>2
<1>7. DataTypes'
  BY <1>1, DataTypesLater, Devices DEF Types
<1>8. PastTypes'
  BY <1>1, PastTypesLater DEF Types, PastTypes, Writes, history
<1>9. PeerTypes'
  <2>1. 0..issued \subseteq 0..issued'
    BY <1>2
  <2>2. finished' \in [Phone -> 0..issued']
    BY <1>1, <2>1 DEF Types, PeerTypes
  <2> QED
    BY <1>1, <1>2, <2>2 DEF Types, PeerTypes
<1>10. WireTypes'
  BY <1>1, <1>5, <1>6 DEF WireTypes
<1>11. \A q \in Phone : session'.phone = q => q = p
  BY <1>5, Devices
<1>12. toHub'[p] = toHub[p] \/ toHub'[p] = Quiet
  BY <1>1 DEF WireTypes
<1>13. Quiet.kind = "none"
  BY DEF Quiet
<1>14. Unproven'
  BY <1>1 DEF Guarded, Unproven, history
<1>15. PairsFirst'
  BY <1>1, <1>2, <1>11 DEF Guarded, PairsFirst
<1>16. Owes'
  BY <1>1, <1>2 DEF Guarded, Owes, history, Types, PeerTypes
<1>17. HelloTrue'
  <2>1. ASSUME NEW q \in Phone \ joined, session'.phone = q
        PROVE  /\ toHub'[q].kind = "hello" => toHub'[q].last = 0
               /\ session'.stage # "hello" => session'.hello.last = 0
    <3>1. q = p /\ session'.hello = session.hello
      BY <1>5, <1>11, <2>1, Devices
    <3>2. session.hello.last = 0 /\ (toHub[q].kind = "hello" => toHub[q].last = 0)
      BY <1>1, <2>1, <3>1 DEF Guarded, HelloTrue
    <3> QED
      BY <1>12, <1>13, <3>1, <3>2
  <2> QED
    BY <2>1 DEF HelloTrue, history
<1>18. AnswerTrue'
  BY <1>1 DEF Guarded, AnswerTrue, history
<1>19. made' \in Nat /\ made <= made' /\ private' = private /\ joined' = joined
  BY <1>3 DEF history
<1>20. HubTakesNoPrivateData' /\ JoinedClean'
  BY <1>1, <1>19, LogsClean, Devices
<1>21. PushClean'
  <2>1. ASSUME NEW q \in Phone, session'.phone = q, toHub'[q].kind = "push"
        PROVE  toHub'[q].lines \cap private = {}
    <3>1. q = p /\ toHub'[q] = toHub[q]
      BY <1>11, <1>12, <1>13, <2>1
    <3> QED
      BY <1>1, <2>1, <3>1 DEF Clean, PushClean
  <2> QED
    BY <1>19, <2>1 DEF PushClean
<1>22. TakenClean'
  BY <1>1, <1>19 DEF Clean, TakenClean, Carried
<1> QED
  BY <1>7, <1>8, <1>9, <1>10, <1>14, <1>15, <1>16, <1>17, <1>18, <1>20, <1>21, <1>22
     DEF IInv, Types, Guarded, Clean

(* The hub repairs its log, or stops on the way. *)
LEMMA RepairKeeps ==
  ASSUME IInv, NEW p \in Phone, HubRepairs(p) \/ HubRepairStops(p)
  PROVE  IInv'
<1>1. Types /\ DataTypes /\ PastTypes
  BY DEF IInv, Types
<1>2. Hub \in Device /\ clock[Hub] \in 0..MaxTime
  BY <1>1, Devices DEF DataTypes
<1>3. RecordBaseline(Hub, clock[Hub]) => Writes(Hub)
  BY <1>1, <1>2, BaselineWrites
<1>4. CASE HubRepairs(p)
  <2>1. problems' \in [Device -> SUBSET Problem] /\ lost' \in 0..cast.losses
    BY <1>1, <1>4 DEF HubRepairs, DataTypes, PastTypes
  <2>2. /\ session.phone = p /\ session.stage = "repair" /\ RequireResets
        /\ RecordBaseline(Hub, clock[Hub])
        /\ session' = [session EXCEPT !.stage = "full"] /\ toHub' = toHub
        /\ UNCHANGED <<hubOf, finished, phones, at, own, toPhone, history>>
    BY <1>4 DEF HubRepairs
  <2> QED
    BY <1>3, <2>1, <2>2, RepairStep
<1>5. CASE HubRepairStops(p)
  <2>1. /\ session.phone = p /\ session.stage = "repair"
        /\ lost < cast.losses /\ lost' = lost + 1
        /\ problems' = [problems EXCEPT ![Hub] = (@ \ {"damaged"}) \cup {"repair_unfinished"}]
        /\ session' = Idle /\ toHub' = [toHub EXCEPT ![p] = Quiet]
        /\ UNCHANGED <<hubOf, finished, phones, at, own, toPhone, history>>
    BY <1>5 DEF HubRepairStops, Fails
  <2>2. \/ UNCHANGED <<log, disk, clock, made>>
        \/ RecordBaseline(Hub, clock[Hub])
    BY <1>5 DEF HubRepairStops
  <2>3. RequireResets \/ UNCHANGED <<required, issued>>
    BY <1>5 DEF HubRepairStops
  <2>4. problems' \in [Device -> SUBSET Problem]
    BY <1>1, <2>1 DEF DataTypes, Problem
  <2>5. lost' \in 0..cast.losses
    BY <1>1, <2>1, RoundAssumption DEF PastTypes
  <2>6. UNCHANGED <<log, disk, clock, made>> => Writes(Hub)
    BY <1>1, <1>2, NothingWritten DEF DataTypes
  <2>7. Writes(Hub)
    BY <1>3, <2>2, <2>6
  <2> QED
    BY <2>1, <2>3, <2>4, <2>5, <2>7, RepairStep
<1> QED
  BY <1>4, <1>5

-----------------------------------------------------------------------------
(* A reset of a phone.                                                     *)

(* What a reset leaves after its first k steps. *)
LEMMA ResetTypes ==
  ASSUME Types, NEW p \in Phone, NEW k \in 1..LastStep, toPhone[p].kind = "full", ResetUpTo(p, k)
  PROVE  /\ problems' \in [Device -> SUBSET Problem]
         /\ disk' \in [Device -> [Row -> M!Content \cup {M!Absent}]]
         /\ log' \in [Device -> SUBSET Written]
         /\ clock' \in [Device -> 0..MaxTime]
         /\ finished' \in [Phone -> 0..issued]
         /\ \A d \in Device \ {p} : log'[d] = log[d]
         /\ log'[p] \in {log[p], {}, toPhone[p].lines}
         /\ k >= 8 => log'[p] = toPhone[p].lines
         /\ \A q \in Phone \ {p} : finished'[q] = finished[q]
         /\ k < 8 => finished'[p] = finished[p]
<1> DEFINE full == toPhone[p].lines
<1> DEFINE id == toPhone[p].id
<1>1. full \subseteq Written /\ id \in 0..issued
  BY PhoneKinds DEF Types, WireTypes
<1>2. p \in Device /\ k \in Nat
  BY Devices DEF LastStep
<1> DEFINE rows == IF k < 3 THEN disk[p] ELSE IF k < 5 THEN NoRows ELSE ResetRows(p, full)
<1> DEFINE lines == IF k < 4 THEN log[p] ELSE IF k < 6 THEN {} ELSE full
<1> DEFINE time == IF k < 5 THEN clock[p] ELSE ClockAfter(clock[p], full)
<1> DEFINE last == IF k >= 8 /\ p \in hubOf /\ id # 0 THEN id ELSE finished[p]
<1>3. /\ problems' = [problems EXCEPT ![p] = ProblemsAfter(@, k)]
      /\ disk' = [disk EXCEPT ![p] = rows] /\ log' = [log EXCEPT ![p] = lines]
      /\ clock' = [clock EXCEPT ![p] = time] /\ finished' = [finished EXCEPT ![p] = last]
  <2>1. /\ disk \in [Device -> [Row -> M!Content \cup {M!Absent}]]
        /\ log \in [Device -> SUBSET Written] /\ clock \in [Device -> 0..MaxTime]
        /\ finished \in [Phone -> 0..issued]
    BY DEF Types, DataTypes, PeerTypes
  <2> QED
    BY <1>2, <2>1 DEF ResetUpTo
<1>4. ProblemsAfter(problems[p], k) \subseteq Problem
  BY <1>2 DEF ProblemsAfter, Problem, Types, DataTypes
<1>5. rows \in [Row -> M!Content \cup {M!Absent}]
  <2>1. NoRows \in [Row -> M!Content \cup {M!Absent}]
    BY DEF NoRows
  <2>2. ASSUME NEW r \in Row
        PROVE  M!RowAfter(M!Absent, About(full, r), About(full, r), FALSE)
               \in M!Content \cup {M!Absent}
    <3>1. About(full, r) \in SUBSET M!Entry
      BY <1>1, AboutIs
    <3>2. M!Absent \in M!Content \cup {M!Absent}
      OBVIOUS
    <3> QED
      BY ONLY <3>1, <3>2, RowTypes
  <2>3. ResetRows(p, full) \in [Row -> M!Content \cup {M!Absent}]
    BY <2>2 DEF ResetRows
  <2>4. disk[p] \in [Row -> M!Content \cup {M!Absent}]
    BY <1>2 DEF Types, DataTypes
  <2> HIDE DEF full
  <2> QED
    BY <2>1, <2>3, <2>4
<1>6. lines \subseteq Written /\ lines \in {log[p], {}, full} /\ (k >= 8 => lines = full)
  BY <1>1, <1>2 DEF Types, DataTypes
<1>7. time \in 0..MaxTime
  <2>1. clock[p] \in 0..MaxTime
    BY <1>2 DEF Types, DataTypes
  <2>2. ClockAfter(clock[p], full) \in 0..MaxTime
    BY <1>1, <2>1, ClockTypes
  <2> QED
    BY <2>1, <2>2
<1>8. last \in 0..issued /\ (k < 8 => last = finished[p])
  BY <1>1, <1>2 DEF Types, PeerTypes
<1> HIDE DEF full, rows, lines, time, last
<1>9. log' \in [Device -> SUBSET Written] /\ log'[p] = lines
      /\ \A d \in Device \ {p} : log'[d] = log[d]
  BY <1>2, <1>3, <1>6 DEF Types, DataTypes
<1>10. problems' \in [Device -> SUBSET Problem]
  BY <1>2, <1>3, <1>4 DEF Types, DataTypes
<1>11. disk' \in [Device -> [Row -> M!Content \cup {M!Absent}]]
  BY <1>2, <1>3, <1>5 DEF Types, DataTypes
<1>12. clock' \in [Device -> 0..MaxTime]
  BY <1>2, <1>3, <1>7 DEF Types, DataTypes
<1>13. finished' \in [Phone -> 0..issued] /\ finished'[p] = last
       /\ \A q \in Phone \ {p} : finished'[q] = finished[q]
  BY <1>3, <1>8 DEF Types, PeerTypes
<1> QED
  BY <1>6, <1>8, <1>9, <1>10, <1>11, <1>12, <1>13 DEF full

(* A reset, done or not, keeps the invariant. *)
LEMMA ResetKeeps ==
  ASSUME IInv, NEW p \in Phone, PhoneResets(p) \/ PhoneResetStops(p)
  PROVE  IInv'
<1>1. Types /\ Guarded /\ Clean /\ WireTypes
  BY DEF IInv, Types
<1>2. /\ at[p] = "full" /\ toPhone[p].kind = "full" /\ p \in hubOf
      /\ at' = [at EXCEPT ![p] = "idle"] /\ own' = [own EXCEPT ![p] = Quiet]
      /\ toPhone' = [toPhone EXCEPT ![p] = Quiet]
      /\ UNCHANGED <<hubOf, phones, required, issued, session, toHub, made, cast, private>>
  BY DEF PhoneResets, PhoneResetStops
<1>3. lost' \in 0..cast.losses
  <2>1. lost' = lost \/ (lost < cast.losses /\ lost' = lost + 1)
    BY DEF PhoneResets, PhoneResetStops, Fails
  <2> QED
    BY <1>1, <2>1, RoundAssumption DEF Types, PastTypes
<1>4. PICK k \in 1..LastStep :
        ResetUpTo(p, k) /\ joined' = IF k >= 8 THEN joined \cup {p} ELSE joined
  <2>1. CASE PhoneResets(p)
    <3>1. ResetUpTo(p, 9) /\ joined' = joined \cup {p} /\ 9 \in 1..LastStep
      BY <2>1 DEF PhoneResets, LastStep
    <3> QED
      BY <3>1
  <2>2. CASE PhoneResetStops(p)
    <3>1. PICK k \in 1 .. LastStep - 1 :
            ResetUpTo(p, k) /\ joined' = IF k >= 8 THEN joined \cup {p} ELSE joined
      BY <2>2 DEF PhoneResetStops
    <3>2. k \in 1..LastStep
      BY DEF LastStep
    <3> QED
      BY <3>1, <3>2
  <2> QED
    BY <2>1, <2>2
<1>5. /\ problems' \in [Device -> SUBSET Problem]
      /\ disk' \in [Device -> [Row -> M!Content \cup {M!Absent}]]
      /\ log' \in [Device -> SUBSET Written]
      /\ clock' \in [Device -> 0..MaxTime]
      /\ finished' \in [Phone -> 0..issued]
      /\ \A d \in Device \ {p} : log'[d] = log[d]
      /\ log'[p] \in {log[p], {}, toPhone[p].lines}
      /\ k >= 8 => log'[p] = toPhone[p].lines
      /\ \A q \in Phone \ {p} : finished'[q] = finished[q]
      /\ k < 8 => finished'[p] = finished[p]
  BY <1>1, <1>2, <1>4, ResetTypes
<1>6. (joined' = joined /\ k < 8) \/ (joined' = joined \cup {p} /\ k >= 8)
  BY <1>4 DEF LastStep
<1>7. joined \subseteq joined' /\ joined' \subseteq Phone
  BY <1>1, <1>6 DEF Types, PastTypes
<1>8. PastTypes' /\ Written' = Written
  BY <1>1, <1>2, <1>3, <1>7, NothingMade DEF Types, PastTypes
<1>9. DataTypes'
  BY <1>2, <1>5, DataTypesSame
<1>10. PeerTypes'
  BY <1>1, <1>2, <1>5 DEF Types, PeerTypes
<1>11. /\ Quiet \in Said /\ Quiet \in ForPhone(Written, issued) /\ Quiet.kind = "none"
  BY QuietIs
<1>12. WireTypes'
  BY <1>1, <1>2, <1>8, <1>11 DEF WireTypes
<1>13. at'[p] = "idle" /\ \A q \in Phone \ {p} : at'[q] = at[q] /\ toPhone'[q] = toPhone[q]
  BY <1>1, <1>2 DEF WireTypes
<1>14. \A q \in Phone : Owing(q)' <=> Owing(q)
  BY <1>2 DEF Owing
<1>15. Unproven'
  BY <1>1, <1>2, <1>5, <1>6 DEF Guarded, Unproven
<1>16. PairsFirst'
  BY <1>1, <1>2, <1>13, <1>14 DEF Guarded, PairsFirst
<1>17. Owes'
  BY <1>1, <1>2, <1>7, <1>14 DEF Guarded, Owes, Types, PeerTypes
<1>18. HelloTrue'
  BY <1>1, <1>2, <1>7 DEF Guarded, HelloTrue
<1>19. AnswerTrue'
  BY <1>1, <1>2, <1>7, <1>13 DEF Guarded, AnswerTrue, Types, PeerTypes
<1>20. Guarded'
  BY <1>15, <1>16, <1>17, <1>18, <1>19 DEF Guarded
<1>21. toPhone[p].lines \cap private = {}
  BY <1>1, <1>2, PhoneKinds DEF Clean, TakenClean, WireTypes
<1>22. HubTakesNoPrivateData' /\ JoinedClean'
  <2>1. Hub \in Device \ {p} /\ \A q \in joined : q \in Device
    BY <1>1, Devices DEF Types, PastTypes
  <2>2. log'[Hub] \cap private = {}
    BY <1>1, <1>5, <2>1 DEF Clean, HubTakesNoPrivateData
  <2>3. p \in joined' => log'[p] \cap private = {}
    BY <1>1, <1>5, <1>6, <1>21 DEF Clean, JoinedClean
  <2>4. ASSUME NEW q \in joined', q # p PROVE log'[q] \cap private = {}
    BY <1>1, <1>5, <1>6, <2>1, <2>4 DEF Clean, JoinedClean
  <2> QED
    BY <1>2, <2>2, <2>3, <2>4 DEF HubTakesNoPrivateData, JoinedClean
<1>23. PushClean'
  BY <1>1, <1>2 DEF Clean, PushClean
<1>24. TakenClean'
  BY <1>1, <1>2, <1>13 DEF Clean, TakenClean, Carried
<1> QED
  BY <1>8, <1>9, <1>10, <1>12, <1>20, <1>22, <1>23, <1>24 DEF IInv, Types, Clean

-----------------------------------------------------------------------------
(* Restarts.                                                               *)

(* A restart brings a device's clock back to what its log shows, and may   *)
(* record a baseline.                                                      *)
LEMMA RestartWrites ==
  ASSUME Types, NEW d \in Device, Restart(d)
  PROVE  Writes(d) /\ problems' \in [Device -> SUBSET Problem]
<1>1. DataTypes /\ PastTypes
  BY DEF Types
<1>2. Recovered(d) \in 0..MaxTime
  <2>1. TimesIn(log[d]) \in SUBSET (0..MaxTime)
    BY <1>1, TimesBounded DEF DataTypes
  <2>2. Largest(TimesIn(log[d])) \in 0..MaxTime
    BY <2>1, LargestIs, RoundAssumption
  <2> QED
    BY <1>1, <2>2 DEF Recovered, DataTypes
<1>3. CASE "no_baseline" \in problems[d] /\ d \notin hubOf
  <2>1. RecordBaseline(d, Recovered(d))
        /\ problems' = [problems EXCEPT ![d] = @ \ {"no_baseline"}]
    BY <1>3 DEF Restart
  <2>2. problems' \in [Device -> SUBSET Problem]
    BY <1>1, <2>1 DEF DataTypes
  <2> QED
    BY <1>1, <1>2, <2>1, <2>2, BaselineWrites
<1>4. CASE ~("no_baseline" \in problems[d] /\ d \notin hubOf)
  <2>1. /\ problems' = [problems EXCEPT ![d] =
             IF "no_baseline" \in @ THEN @ \cup {"baseline_refused"} ELSE @]
        /\ clock' = [clock EXCEPT ![d] = Recovered(d)]
        /\ UNCHANGED <<log, disk, made>>
    BY <1>4 DEF Restart
  <2>2. problems' \in [Device -> SUBSET Problem]
    BY <1>1, <2>1 DEF DataTypes, Problem
  <2>3. clock' \in [Device -> 0..MaxTime]
    BY <1>1, <1>2, <2>1 DEF DataTypes
  <2>4. log' = [log EXCEPT ![d] = log'[d]] /\ log'[d] \subseteq log[d]
    BY <1>1, <2>1 DEF DataTypes
  <2> QED
    BY <1>1, <2>1, <2>2, <2>3, <2>4, NothingWritten
<1> QED
  BY <1>3, <1>4

(* A process starts again, and its round is gone. *)
LEMMA RestartKeeps ==
  ASSUME IInv, NEW d \in Device, Restart(d)
  PROVE  IInv'
<1>1. Types /\ Guarded /\ Clean /\ WireTypes
  BY DEF IInv, Types
<1>2. Writes(d) /\ problems' \in [Device -> SUBSET Problem]
  BY <1>1, RestartWrites
<1>3. UNCHANGED <<peers, lost, cast>> /\ private' = private /\ joined' = joined
  BY DEF Restart
<1>4. made \in Nat /\ made' \in Nat /\ made <= made' /\ issued \in Nat /\ issued' = issued
  BY <1>1, <1>2, <1>3, RoundAssumption DEF Types, PastTypes, PeerTypes, Writes, peers
<1>5. DataTypes'
  BY <1>1, <1>2, DataTypesLater DEF Types
<1>6. PastTypes'
  BY <1>1, <1>2, <1>3, PastTypesLater DEF Types, PastTypes, Writes
<1>7. PeerTypes'
  BY <1>1, <1>3 DEF Types, PeerTypes, peers
<1>8. toHub \in [Phone -> ForHub(Written')] /\ toPhone \in [Phone -> ForPhone(Written', issued')]
  BY <1>1, <1>4, WireGrows
<1>9. /\ Quiet \in Said /\ Quiet \in ForHub(Written') /\ Quiet \in ForPhone(Written', issued')
      /\ Quiet.kind = "none"
  BY QuietIs
<1>10. HubTakesNoPrivateData' /\ JoinedClean'
  BY <1>1, <1>2, <1>3, LogsClean
<1>11. \A q \in Phone : Owing(q)' <=> Owing(q)
  BY <1>3 DEF Owing, peers
<1>12. Unproven' /\ Owes'
  BY <1>1, <1>3, <1>11 DEF Guarded, Unproven, Owes, peers, Types, PeerTypes
<1>13. CASE d = Hub
  <2>1. session' = Idle /\ toHub' = [p \in Phone |-> Quiet] /\ UNCHANGED <<at, own, toPhone>>
    BY <1>13 DEF Restart
  <2>2. \A q \in Phone : session'.phone # q
    BY <2>1, Devices DEF Idle
  <2>3. WireTypes'
    BY <1>1, <1>8, <1>9, <2>1 DEF WireTypes
  <2>4. PairsFirst' /\ HelloTrue' /\ AnswerTrue'
    BY <1>1, <1>3, <1>11, <2>1, <2>2 DEF Guarded, PairsFirst, HelloTrue, AnswerTrue, peers
  <2>5. PushClean'
    BY <2>2 DEF PushClean
  <2>6. TakenClean'
    BY <1>1, <1>3, <2>1 DEF Clean, TakenClean, Carried
  <2> QED
    BY <1>5, <1>6, <1>7, <1>10, <1>12, <2>3, <2>4, <2>5, <2>6 DEF IInv, Types, Guarded, Clean
<1>14. CASE d # Hub
  <2>1. /\ at' = [at EXCEPT ![d] = "idle"] /\ own' = [own EXCEPT ![d] = Quiet]
        /\ toPhone' = [toPhone EXCEPT ![d] = Quiet]
        /\ UNCHANGED <<session, toHub>>
    BY <1>14 DEF Restart
  <2>2. d \in Phone
    BY <1>14 DEF Device
  <2>3. at'[d] = "idle" /\ \A q \in Phone \ {d} : at'[q] = at[q] /\ toPhone'[q] = toPhone[q]
    BY <1>1, <2>1, <2>2 DEF WireTypes
  <2>4. WireTypes'
    BY <1>1, <1>8, <1>9, <2>1 DEF WireTypes
  <2>5. PairsFirst'
    BY <1>1, <1>3, <1>11, <2>1, <2>3 DEF Guarded, PairsFirst, peers
  <2>6. HelloTrue'
    BY <1>1, <1>3, <2>1 DEF Guarded, HelloTrue
  <2>7. AnswerTrue'
    BY <1>1, <1>3, <2>3 DEF Guarded, AnswerTrue, peers, Types, PeerTypes
  <2>8. PushClean'
    BY <1>1, <1>3, <2>1 DEF Clean, PushClean
  <2>9. TakenClean'
    BY <1>1, <1>3, <2>3 DEF Clean, TakenClean, Carried
  <2> QED
    BY <1>5, <1>6, <1>7, <1>10, <1>12, <2>4, <2>5, <2>6, <2>7, <2>8, <2>9
       DEF IInv, Types, Guarded, Clean
<1> QED
  BY <1>13, <1>14

-----------------------------------------------------------------------------
(* The results.                                                            *)

(* At first all logs are empty, and the paired phones finished reset 1. *)
LEMMA InvInit ==
  ASSUME Init
  PROVE  IInv
<1>1. /\ cast \in Casts /\ cast.paired \subseteq Phone /\ cast.losses \in Nat
  BY RoundAssumption DEF Init
<1>2. MaxTime \in Nat /\ MaxResets \in Nat \ {0}
  BY RoundAssumption
<1>3. DataTypes
  <2>1. NoRows \in [Row -> M!Content \cup {M!Absent}]
    BY DEF NoRows
  <2>2. 0 \in 0..MaxTime
    BY <1>2
  <2> QED
    BY <2>1, <2>2 DEF Init, DataTypes
<1>4. PeerTypes
  <2>1. issued \in 0..MaxResets /\ 0 \in 0..issued
        /\ (cast.paired # {} => 1 \in 0..issued)
    BY <1>2 DEF Init
  <2>2. finished \in [Phone -> 0..issued]
    BY <2>1 DEF Init
  <2>3. NoReset \in [id : 0..issued, first : 0..issued]
    BY <2>1 DEF NoReset
  <2> QED
    BY <1>1, <2>1, <2>2, <2>3 DEF Init, PeerTypes
<1>5. /\ Quiet \in Said /\ Quiet \in ForHub(Written) /\ Quiet \in ForPhone(Written, issued)
      /\ Quiet.kind = "none" /\ Carried(Quiet) = {}
  BY QuietIs
<1>6. WireTypes
  BY <1>5 DEF Init, WireTypes
<1>7. PastTypes
  BY <1>1, <1>2 DEF Init, PastTypes
<1>8. \A q \in Phone : session.phone # q
  BY Devices DEF Init, Idle
<1>9. Guarded
  BY <1>8 DEF Init, Guarded, Unproven, PairsFirst, Owes, HelloTrue, AnswerTrue
<1>10. Clean
  BY <1>8 DEF Init, Clean, HubTakesNoPrivateData, JoinedClean, PushClean, TakenClean
<1> QED
  BY <1>3, <1>4, <1>6, <1>7, <1>9, <1>10 DEF IInv, Types

(* Every step keeps the invariant. *)
LEMMA InvNext ==
  ASSUME IInv, [Next]_vars
  PROVE  IInv'
<1>1. CASE UNCHANGED vars
  <2>1. UNCHANGED <<log, disk, clock, problems>> /\ made' = made /\ lost' = lost
        /\ UNCHANGED <<peers, wire, history>>
    BY <1>1 DEF vars, data
  <2>2. Written' = Written
    BY <2>1 DEF Written
  <2>3. Types'
    BY <2>1, <2>2 DEF IInv, Types, DataTypes, PeerTypes, WireTypes, PastTypes, peers, wire, history
  <2>4. Guarded'
    BY <2>1, GuardedStays DEF IInv, history
  <2>5. Clean'
    BY <2>1 DEF IInv, Clean, HubTakesNoPrivateData, JoinedClean, PushClean, TakenClean, Carried,
                wire, history
  <2> QED
    BY <2>3, <2>4, <2>5 DEF IInv
<1>2. ASSUME NEW d \in Present, Edit(d) \/ EditUnlogged(d) \/ LineDamaged(d) \/ Restart(d)
      PROVE  IInv'
  <2>1. d \in Device
    BY Devices DEF IInv, Types
  <2> QED
    BY <1>2, <2>1, EditKeeps, FaultKeeps, RestartKeeps
<1>3. CASE HubStops
  BY <1>3, HubStopsKeeps
<1>4. ASSUME NEW p \in Phone, MarkerLost(p)
      PROVE  IInv'
  BY <1>4, Devices, FaultKeeps
<1>5. ASSUME NEW p \in Phone,
             \/ HubPairs(p) \/ PhonePairs(p) \/ PhoneUnpairs(p) \/ HubUnpairs(p)
             \/ StartRound(p) \/ HubAnswersHello(p)
      PROVE  IInv'
  BY <1>5, HubPairsKeeps, PhonePairsKeeps, UnpairKeeps, StartRoundKeeps, HubAnswersKeeps
<1>6. ASSUME NEW p \in Phone,
             \/ PhonePreviews(p) \/ PhonePushes(p) \/ PhoneProceeds(p)
             \/ HubTakesPush(p) \/ HubPushStops(p) \/ HubReplies(p)
             \/ PhoneTakesReply(p) \/ PhoneReplyStops(p)
      PROVE  IInv'
  BY <1>6, PhoneReadsKeeps, PhonePushesKeeps, HubTakesKeeps, HubSendsKeeps, PhoneTakesKeeps
<1>7. ASSUME NEW p \in Phone,
             \/ HubProceeds(p) \/ HubRepairs(p) \/ HubRepairStops(p) \/ HubSendsFullLog(p)
             \/ PhoneResets(p) \/ PhoneResetStops(p) \/ PhoneStops(p)
      PROVE  IInv'
  BY <1>7, HubProceedsKeeps, RepairKeeps, HubSendsKeeps, ResetKeeps, PhoneStopsKeeps
<1> QED
  BY <1>1, <1>2, <1>3, <1>4, <1>5, <1>6, <1>7 DEF Next

(* The lines that were shown and not stored, and the devices that started  *)
(* behind.                                                                 *)
NotedTypes == owed \in [Device -> SUBSET Line] /\ behind \subseteq Device

(* What a failed batch leaves owed are lines of the batch. *)
LEMMA OwedTypes ==
  ASSUME NotedTypes, NEW d \in Device, NEW batch, batch \subseteq Line, ApplyStops(d, batch)
  PROVE  owed' \in [Device -> SUBSET Line]
<1>1. PICK stored : owed' = [owed EXCEPT ![d] = @ \cup (Unknown(d, batch) \ stored)]
  BY DEF ApplyStops
<1>2. Unknown(d, batch) \subseteq Line
  BY DEF Unknown
<1> QED
  BY <1>1, <1>2 DEF NotedTypes

(* No step notes anything else. *)
LEMMA NotedNext ==
  ASSUME IInv, NotedTypes, [Next]_vars
  PROVE  NotedTypes'
<1>1. Types /\ WireTypes /\ Written \subseteq Line
  BY DEF IInv, Types, Written
<1>2. CASE UNCHANGED <<owed, behind>>
  BY <1>2 DEF NotedTypes
<1>3. ASSUME NEW p \in Phone, HubPushStops(p)
      PROVE  NotedTypes'
  <2>1. toHub[p].lines \subseteq Line
    BY <1>1, <1>3, HubKinds DEF HubPushStops, Heard, WireTypes
  <2>2. ApplyStops(Hub, toHub[p].lines) /\ behind' = behind
    BY <1>3 DEF HubPushStops
  <2>3. owed' \in [Device -> SUBSET Line]
    BY <2>1, <2>2, OwedTypes, Devices
  <2> QED
    BY <2>2, <2>3 DEF NotedTypes
<1>4. ASSUME NEW p \in Phone, PhoneReplyStops(p)
      PROVE  NotedTypes'
  <2>1. toPhone[p].lines \subseteq Line
    BY <1>1, <1>4, PhoneKinds DEF PhoneReplyStops, WireTypes
  <2>2. ApplyStops(p, toPhone[p].lines) /\ behind' = behind
    BY <1>4 DEF PhoneReplyStops
  <2>3. owed' \in [Device -> SUBSET Line]
    BY <2>1, <2>2, OwedTypes, Devices
  <2> QED
    BY <2>2, <2>3 DEF NotedTypes
<1>5. ASSUME NEW p \in Phone, PhoneResets(p) \/ PhoneResetStops(p)
      PROVE  NotedTypes'
  <2>1. behind' = behind /\ \E k \in 1..LastStep : ResetUpTo(p, k)
    BY <1>5 DEF PhoneResets, PhoneResetStops, LastStep
  <2>2. PICK k \in 1..LastStep : owed' = [owed EXCEPT ![p] = IF k < 3 THEN @ ELSE {}]
    BY <2>1 DEF ResetUpTo
  <2> QED
    BY <2>1, <2>2 DEF NotedTypes
<1>6. ASSUME NEW d \in Present, Restart(d)
      PROVE  NotedTypes'
  <2>1. d \in Device
    BY <1>1, RoundAssumption, Devices DEF Present, Types, PastTypes
  <2>2. owed' = owed /\ behind' \in {behind, behind \cup {d}}
    BY <1>6 DEF Restart
  <2> QED
    BY <2>1, <2>2 DEF NotedTypes
<1>7. ASSUME NEW d \in Present, Edit(d) \/ EditUnlogged(d) \/ LineDamaged(d)
      PROVE  UNCHANGED <<owed, behind>>
  BY <1>7 DEF Edit, EditUnlogged, LineDamaged, history
<1>8. ASSUME NEW p \in Phone,
             \/ MarkerLost(p)
             \/ HubPairs(p) \/ PhonePairs(p) \/ PhoneUnpairs(p) \/ HubUnpairs(p)
             \/ StartRound(p) \/ HubAnswersHello(p)
             \/ PhonePreviews(p) \/ PhonePushes(p) \/ PhoneProceeds(p)
      PROVE  UNCHANGED <<owed, behind>>
  BY <1>8 DEF MarkerLost, HubPairs, PhonePairs, PhoneUnpairs, HubUnpairs, StartRound,
              HubAnswersHello, PhonePreviews, PhonePushes, PhoneProceeds, history
<1>9. ASSUME NEW p \in Phone,
             \/ HubTakesPush(p) \/ HubReplies(p) \/ PhoneTakesReply(p)
             \/ HubProceeds(p) \/ HubRepairs(p) \/ HubRepairStops(p) \/ HubSendsFullLog(p)
             \/ PhoneStops(p)
      PROVE  UNCHANGED <<owed, behind>>
  BY <1>9 DEF HubTakesPush, HubReplies, PhoneTakesReply, HubProceeds, HubRepairs, HubRepairStops,
              HubSendsFullLog, PhoneStops, history
<1>10. CASE HubStops
  BY <1>2, <1>10 DEF HubStops, history
<1>11. CASE UNCHANGED vars
  BY <1>2, <1>11 DEF vars, history
<1> QED
  BY <1>2, <1>3, <1>4, <1>5, <1>6, <1>7, <1>8, <1>9, <1>10, <1>11 DEF Next

(* What is written, recorded and under way is well formed, and what keeps  *)
(* a newly paired phone's own lines from the hub holds, in every state.    *)
THEOREM SyncInvariant == Spec => [](IInv /\ NotedTypes)
<1>1. Init => IInv /\ NotedTypes
  BY InvInit DEF Init, NotedTypes
<1>2. IInv /\ NotedTypes /\ [Next]_vars => (IInv /\ NotedTypes)'
  BY InvNext, NotedNext
<1> QED
  BY <1>1, <1>2, PTL DEF Spec

(* The well formed states are those of the type invariant. *)
LEMMA InvMeansTypes ==
  ASSUME IInv, NotedTypes
  PROVE  TypeOK
<1>1. Written \subseteq Line
  BY DEF Written
<1>2. DataTypes /\ PeerTypes /\ WireTypes /\ PastTypes
  BY DEF IInv, Types
<1>3. required \in [Phone -> Requirement]
  <2>1. [id : 0..issued, first : 0..issued] \subseteq Requirement
    BY <1>2, RoundAssumption DEF PeerTypes, Requirement
  <2> QED
    BY <1>2, <2>1 DEF PeerTypes
<1>4. session # Idle => session.phone \in Phone
  BY <1>2 DEF WireTypes, Begun, Serving
<1> QED
  BY <1>1, <1>2, <1>3, <1>4
     DEF TypeOK, DataTypes, PeerTypes, WireTypes, PastTypes, NotedTypes, Problem

(* Every variable keeps its type: no stamp passes its bound, and every     *)
(* requirement and every finished reset is an id that was issued.          *)
THEOREM TypeCorrect == Spec => []TypeOK
<1>1. IInv /\ NotedTypes => TypeOK
  BY InvMeansTypes
<1> QED
  BY <1>1, SyncInvariant, PTL

(* The hub never takes a line that a phone alone held before its pairing   *)
(* or entered between the pairing and its reset, however many phones pair  *)
(* and unpair, whatever faults, repairs, restarts and lost connections     *)
(* come in between.                                                        *)
THEOREM PrivateDataStays == Spec => []HubTakesNoPrivateData
<1>1. IInv => HubTakesNoPrivateData
  BY DEF IInv, Clean
<1> QED
  BY <1>1, SyncInvariant, PTL

=============================================================================

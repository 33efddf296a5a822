--------------------------- MODULE ChangeLogProofs ---------------------------
(***************************************************************************)
(* The safety invariants of ChangeLog, proved for every role, every clock  *)
(* width, every bound and every set of remote entries.                     *)
(***************************************************************************)
EXTENDS ChangeLog, WellFoundedInduction, TLAPS

-----------------------------------------------------------------------------
(* Sets of numbers                                                         *)

(* A nonempty set of natural numbers has a least element. *)
LEMMA NatLeast ==
  ASSUME NEW T \in SUBSET Nat, T # {}
  PROVE  \E n \in T : \A m \in T : n <= m
<1>1. PICK n \in T : \A m \in T : ~(<<m, n>> \in OpToRel(<, Nat))
  BY WFMin, NatLessThanWellFounded
<1>2. \A m \in T : ~(m < n)
  BY <1>1 DEF OpToRel
<1> QED
  BY <1>2

(* A bounded one has a greatest element. *)
LEMMA GreatestUpTo ==
  ASSUME NEW N \in Nat, NEW T \in SUBSET (0..N), T # {}
  PROVE  \E n \in T : \A m \in T : m <= n
<1> DEFINE U == {N - t : t \in T}
<1>1. \A t \in T : t \in Nat /\ N - t \in Nat
  OBVIOUS
<1>2. U \in SUBSET Nat /\ U # {}
  BY <1>1
<1>3. PICK u \in U : \A v \in U : u <= v
  BY <1>2, NatLeast
<1>4. PICK t \in T : u = N - t
  OBVIOUS
<1>5. \A m \in T : N - t <= N - m
  BY <1>3, <1>4
<1> QED
  BY <1>1, <1>5

-----------------------------------------------------------------------------
(* The clock                                                               *)

(* A nonempty set of stamps has a latest one. *)
LEMMA LatestExists ==
  ASSUME NEW S \in SUBSET Stamp, S # {}
  PROVE  /\ Latest(S) \in S
         /\ \A t \in S : AtMost(t, Latest(S))
<1> USE HlcAssumption
<1> DEFINE M == {s.ms : s \in S}
<1>1. M \in SUBSET (0..MaxMs) /\ M # {}
  BY DEF Stamp
<1>2. PICK m \in M : \A n \in M : n <= m
  BY <1>1, GreatestUpTo
<1> DEFINE C == {s.counter : s \in {t \in S : t.ms = m}}
<1>3. C \in SUBSET (0..MaxCounter) /\ C # {}
  BY <1>2 DEF Stamp
<1>4. PICK c \in C : \A d \in C : d <= c
  BY <1>3, GreatestUpTo
<1>5. PICK s \in S : s.ms = m /\ s.counter = c
  BY <1>4
<1>6. \A t \in S : AtMost(t, s)
  <2> TAKE t \in S
  <2>1. t.ms <= m /\ t.ms \in Int /\ m \in Int
    BY <1>1, <1>2 DEF Stamp
  <2>2. CASE t.ms < m
    BY <2>2, <1>5 DEF AtMost, Before
  <2>3. CASE t.ms = m
    <3>1. t.counter <= c /\ t.counter \in Int /\ c \in Int
      BY <1>3, <1>4, <2>3 
    <3>2. CASE t.counter < c
      BY <3>2, <2>3, <1>5 DEF AtMost, Before
    <3>3. CASE t.counter = c
      <4>1. t = s
        BY <3>3, <2>3, <1>5 DEF Stamp
      <4> QED
        BY <4>1 DEF AtMost
    <3> QED
      BY <3>1, <3>2, <3>3
  <2> QED
    BY <2>1, <2>2, <2>3
<1>7. \E r \in S : \A t \in S : AtMost(t, r)
  BY <1>6
<1> QED
  BY <1>7 DEF Latest

(* Before is a total order on stamps, with NoStamp below them all. *)
LEMMA BeforeOrder ==
  ASSUME NEW s \in OptStamp, NEW t \in OptStamp, NEW u \in OptStamp
  PROVE  /\ s = t \/ Before(s, t) \/ Before(t, s)
         /\ ~Before(s, s)
         /\ Before(s, t) => ~Before(t, s)
         /\ Before(s, t) /\ Before(t, u) => Before(s, u)
         /\ s \in Stamp => Before(NoStamp, s)
         /\ AtMost(s, t) /\ Before(t, u) => Before(s, u)
         /\ AtMost(s, t) /\ AtMost(t, u) => AtMost(s, u)
<1>1. \A x \in OptStamp : x.ms \in Int /\ x.counter \in Int
                        /\ x = [ms |-> x.ms, counter |-> x.counter]
  BY HlcAssumption DEF OptStamp, Stamp, NoStamp
<1>2. s \in Stamp => s.ms >= 0
  BY HlcAssumption DEF Stamp
<1>3. NoStamp.ms = -1
  BY DEF NoStamp
<1> QED
  BY <1>1, <1>2, <1>3 DEF Before, AtMost

(* Below the last millisecond, a new stamp is a stamp and past the last one. *)
LEMMA AfterIsLater ==
  ASSUME NEW last \in OptStamp, last.ms < MaxMs, NEW wall \in 0..MaxMs
  PROVE  After(last, wall) \in Stamp /\ Before(last, After(last, wall))
<1> USE HlcAssumption
<1>1. last.ms \in Int /\ last.counter \in 0..MaxCounter
  BY DEF OptStamp, Stamp, NoStamp
<1>2. CASE wall > last.ms
  BY <1>1, <1>2 DEF After, Before, Stamp
<1>3. CASE ~(wall > last.ms)
  <2>1. last.ms \in 0..MaxMs
    BY <1>1, <1>3
  <2> QED
    BY <1>1, <1>3, <2>1 DEF After, Before, Stamp, Bump
<1> QED
  BY <1>2, <1>3

(* Taking in a remote stamp moves the clock past it and past the last one. *)
LEMMA ObservedIsLater ==
  ASSUME NEW last \in OptStamp, last.ms < MaxMs,
         NEW remote \in Stamp, remote.ms < MaxMs,
         NEW wall \in 0..MaxMs
  PROVE  /\ ObservedAt(last, remote, wall) \in Stamp
         /\ Before(last, ObservedAt(last, remote, wall))
         /\ Before(remote, ObservedAt(last, remote, wall))
<1> USE HlcAssumption
<1>1. last.ms \in Int /\ last.counter \in 0..MaxCounter
  BY DEF OptStamp, Stamp, NoStamp
<1>2. remote.ms \in 0..MaxMs /\ remote.counter \in 0..MaxCounter
  BY DEF Stamp
<1>3. CASE wall > last.ms /\ wall > remote.ms
  BY <1>1, <1>2, <1>3 DEF ObservedAt, Before, Stamp
<1>4. CASE ~(wall > last.ms /\ wall > remote.ms)
  <2> DEFINE ahead == Later(last, remote)
  <2>1. ObservedAt(last, remote, wall) = Bump(ahead.ms, ahead.counter)
    BY <1>4 DEF ObservedAt
  <2>2. ahead.ms \in 0..MaxMs /\ ahead.ms < MaxMs /\ ahead.counter \in 0..MaxCounter
    BY <1>1, <1>2 DEF Later, Before
  <2>3. AtMost(last, ahead) /\ AtMost(remote, ahead)
    BY <1>1, <1>2 DEF Later, Before, AtMost, OptStamp, Stamp, NoStamp
  <2> HIDE DEF ahead
  <2>4. Bump(ahead.ms, ahead.counter) \in Stamp
        /\ Before(ahead, Bump(ahead.ms, ahead.counter))
    BY <2>2 DEF Bump, Stamp, Before
  <2> QED
    BY <1>1, <1>2, <2>1, <2>2, <2>3, <2>4 DEF AtMost, Before, Stamp
<1> QED
  BY <1>3, <1>4

-----------------------------------------------------------------------------
(* The inductive invariant                                                 *)

(* An open handle that finds an unterminated last line knows of it. *)
TailKnown == open /\ UnfinishedTail => needsNewline

(* No two own entries share a stamp, in the file or on the other side. *)
OwnKeysUnique ==
  /\ \A e, f \in entries : SameKey(e, f) /\ e.device = Self => e = f
  /\ \A e, f \in sent : SameKey(e, f) => e = f
  /\ \A e \in sent : e.device = Self

(* Nothing says that own entries may be missing from the file. *)
Whole == corrupt = {} /\ marker \cap {"reset_pending", "repair_unfinished"} = {}

(* Then the file has all that was sent, and what was sent is a prefix. *)
SentStored == Whole => sent \subseteq entries

SentPrefix ==
  Whole => \A e \in entries, f \in sent :
             e.device = Self /\ AtMost(e.stamp, f.stamp) => e \in sent

(* At most one change waits for its entry.  A reset and a repair run with  *)
(* their marker down, on an open log and between two changes.              *)
PhaseFacts ==
  /\ \A c, d \in pending : c = d
  /\ phase # "idle" => open /\ pending = {}
  /\ phase \in {"marked", "emptied", "filled"} => "reset_pending" \in marker
  /\ phase \in {"rewritten", "baselined"} => "repair_unfinished" \in marker
  /\ phase \in {"emptied", "filled"} => corrupt = {} /\ ~UnfinishedTail
  /\ phase = "emptied" => entries = {}
  /\ phase = "filled" => {e \in entries : e.device = Self} = sent

(* LossIsFlagged without its last excuse, an unterminated line that parses. *)
LossFlagged ==
  corrupt = {} /\ ~tornTail /\ marker = {} =>
    \A c \in saved \ (pending \cup excused) :
       \E e \in entries : e.device = Self /\ e.change = c

IInv ==
  /\ TypeOK /\ TailKnown /\ ClockCoversFile /\ OwnKeysUnique
  /\ SentStored /\ SentPrefix /\ PhaseFacts /\ LossFlagged
-----------------------------------------------------------------------------
(* What any append leaves behind, whether it completes or fails. *)

Grown(batch) ==
  /\ entries \subseteq entries' /\ entries' \subseteq entries \cup batch
  /\ corrupt \subseteq corrupt' /\ corrupt' \subseteq corrupt \cup {NoStamp}
  /\ tornTail' \in BOOLEAN /\ wholeTail' \subseteq entries'
  /\ corrupt' = {} /\ ~tornTail' => ~tornTail

(* What a write leaves is what was there and lines of the batch. *)
LEMMA WrittenGrows ==
  ASSUME TypeOK, OwnLine, NEW batch, NEW done \in SUBSET batch, NEW rest,
         Written(batch, done, rest)
  PROVE  /\ Grown(batch)
         /\ done \subseteq entries'
         /\ UnfinishedTail' => rest # "clean"
<1>1. First(batch \ done) \subseteq batch
  BY DEF First
<1>2. First(batch \ done) \subseteq batch \ done
  BY DEF First
<1> QED
  BY <1>1, <1>2 DEF Written, OwnLine, Grown, TypeOK, UnfinishedTail

(* An append, whole or cut, leaves the file as the invariant wants it. *)
LEMMA AppendGrows ==
  ASSUME TypeOK, TailKnown, open, NEW batch,
         WriteLines(batch) \/ WriteFails(batch)
  PROVE  /\ Grown(batch)
         /\ UnfinishedTail' => needsNewline'
         /\ needsNewline' \in BOOLEAN
         /\ WriteLines(batch) => batch \subseteq entries'
<1>1. OwnLine
  BY DEF TailKnown, OwnLine
<1>2. CASE WriteLines(batch) /\ batch = {}
  BY <1>2 DEF WriteLines, file, Grown, TypeOK, TailKnown, UnfinishedTail
<1>3. CASE WriteLines(batch) /\ batch # {}
  <2>1. Written(batch, batch, "clean") /\ needsNewline' = FALSE
    BY <1>3 DEF WriteLines
  <2> QED
    BY <1>1, <2>1, WrittenGrows
<1>4. CASE WriteFails(batch)
  <2>1. needsNewline' = TRUE /\ batch # {}
    BY <1>4 DEF WriteFails
  <2>2. CASE UNCHANGED file
    BY <2>1, <2>2 DEF file, Grown, TypeOK, WriteLines, Written
  <2>3. CASE \E done \in SUBSET batch, rest \in {"clean", "torn", "whole"} :
               Written(batch, done, rest)
    <3>1. PICK done \in SUBSET batch, rest \in {"clean", "torn", "whole"} :
                 Written(batch, done, rest)
      BY <2>3
    <3>2. Grown(batch)
      BY <1>1, <3>1, WrittenGrows
    <3> QED
      BY <2>1, <3>2 DEF WriteLines
  <2> QED
    BY <1>4, <2>2, <2>3 DEF WriteFails, Prefixes
<1> QED
  BY <1>2, <1>3, <1>4

(* A clock that moved past the batch covers the file that holds it. *)
LEMMA ClockCoversGrown ==
  ASSUME TypeOK, open, ClockCoversFile, NEW batch \in SUBSET Entry, Grown(batch),
         clock' \in Stamp, Before(clock, clock'),
         \A e \in batch : AtMost(e.stamp, clock')
  PROVE  ClockCoversFile'
<1> SUFFICES ASSUME NEW s \in StampsInFile'
             PROVE  AtMost(s, clock')
  BY DEF ClockCoversFile
<1>1. CASE s \in StampsInFile
  <2>1. AtMost(s, clock) /\ s \in OptStamp /\ clock \in OptStamp
    BY <1>1 DEF ClockCoversFile, StampsInFile, TypeOK, Entry, OptStamp
  <2>2. Before(s, clock')
    BY <2>1, BeforeOrder DEF OptStamp
  <2> QED
    BY <2>2 DEF AtMost
<1>2. CASE s \notin StampsInFile
  <2>1. PICK e \in batch : s = e.stamp
    BY <1>2 DEF StampsInFile, Grown
  <2> QED
    BY <2>1
<1> QED
  BY <1>1, <1>2

(* New entries of other devices, or one own entry past everything in the   *)
(* file, disturb nothing that was sent.                                    *)
LEMMA GrownKeepsSent ==
  ASSUME TypeOK, OwnKeysUnique, SentStored, SentPrefix,
         NEW batch \in SUBSET Entry, Grown(batch),
         \A e \in batch : e.device = Self =>
            batch = {e} /\ \A s \in StampsInFile : Before(s, e.stamp),
         marker \subseteq marker', sent' = sent
  PROVE  OwnKeysUnique' /\ SentStored' /\ SentPrefix'
<1>1. Whole' => Whole
  BY DEF Whole, Grown
<1>2. \A e \in entries : e.stamp \in OptStamp /\ e.stamp \in StampsInFile
  BY DEF TypeOK, Entry, StampsInFile, OptStamp
<1>3. \A e \in batch : e.stamp \in OptStamp
  BY DEF Entry, OptStamp
<1>4. OwnKeysUnique'
  <2>1. ASSUME NEW e \in entries', NEW f \in entries', SameKey(e, f), e.device = Self
        PROVE  e = f
    <3>1. CASE e \in entries /\ f \in entries
      BY <2>1, <3>1 DEF OwnKeysUnique
    <3>2. CASE e \notin entries /\ f \notin entries
      BY <2>1, <3>2 DEF Grown
    <3>3. CASE e \notin entries /\ f \in entries
      <4>1. Before(f.stamp, e.stamp)
        BY <1>2, <2>1, <3>3 DEF Grown
      <4> QED
        BY <1>2, <2>1, <3>3, <4>1, BeforeOrder DEF SameKey
    <3>4. CASE e \in entries /\ f \notin entries
      <4>1. Before(e.stamp, f.stamp)
        BY <1>2, <2>1, <3>4 DEF Grown, SameKey
      <4> QED
        BY <1>2, <2>1, <3>4, <4>1, BeforeOrder DEF SameKey
    <3> QED
      BY <3>1, <3>2, <3>3, <3>4
  <2> QED
    BY <2>1 DEF OwnKeysUnique
<1>5. SentStored'
  BY <1>1 DEF SentStored, Grown
<1>6. SentPrefix'
  <2> SUFFICES ASSUME Whole', NEW e \in entries', NEW f \in sent,
                      e.device = Self, AtMost(e.stamp, f.stamp)
               PROVE  e \in sent
    BY DEF SentPrefix
  <2>1. f \in entries
    BY <1>1 DEF SentStored
  <2>2. CASE e \in entries
    BY <1>1, <2>2 DEF SentPrefix
  <2>3. CASE e \notin entries
    <3>1. e \in batch /\ Before(f.stamp, e.stamp)
      BY <1>2, <2>1, <2>3 DEF Grown
    <3>2. FALSE
      BY <1>2, <1>3, <2>1, <3>1, BeforeOrder DEF AtMost
    <3> QED
      BY <3>2
  <2> QED
    BY <2>2, <2>3
<1> QED
  BY <1>4, <1>5, <1>6

(* The stamp of the next own entry is past every stamp in the file. *)
LEMMA NextStampIsNew ==
  ASSUME TypeOK, open, ClockCoversFile, Headroom, NEW wall \in Wall
  PROVE  /\ After(clock, wall) \in Stamp
         /\ Before(clock, After(clock, wall))
         /\ \A s \in StampsInFile : Before(s, After(clock, wall))
<1>1. wall \in 0..MaxMs /\ clock \in OptStamp /\ clock.ms < MaxMs
  BY LogAssumption, HlcAssumption DEF Wall, TypeOK, Headroom
<1>2. After(clock, wall) \in Stamp /\ Before(clock, After(clock, wall))
  BY <1>1, AfterIsLater
<1>3. \A s \in StampsInFile : AtMost(s, clock) /\ s \in OptStamp
  BY DEF ClockCoversFile, StampsInFile, TypeOK, Entry, OptStamp
<1> QED
  BY <1>1, <1>2, <1>3, BeforeOrder DEF OptStamp

(* Taking in a batch moves the clock past itself and past the batch. *)
LEMMA ObserveAllIsLater ==
  ASSUME TypeOK, Headroom, NEW batch \in SUBSET Entry, batch # {}, ObserveAll(batch)
  PROVE  /\ clock' \in Stamp /\ Before(clock, clock')
         /\ \A e \in batch : AtMost(e.stamp, clock')
<1> DEFINE S == {e.stamp : e \in batch}
<1> DEFINE newest == Latest(S)
<1>1. S \in SUBSET Stamp /\ S # {}
  BY DEF Entry
<1>2. newest \in Stamp /\ \A t \in S : AtMost(t, newest)
  BY <1>1, LatestExists
<1>3. PICK wall \in Wall : newest.ms < MaxMs /\ clock' = ObservedAt(clock, newest, wall)
  BY DEF ObserveAll
<1>4. wall \in 0..MaxMs /\ clock \in OptStamp /\ clock.ms < MaxMs
  BY LogAssumption, HlcAssumption DEF Wall, TypeOK, Headroom
<1>5. clock' \in Stamp /\ Before(clock, clock') /\ Before(newest, clock')
  BY <1>2, <1>3, <1>4, ObservedIsLater
<1>6. ASSUME NEW e \in batch PROVE AtMost(e.stamp, clock')
  <2>1. e.stamp \in OptStamp /\ newest \in OptStamp /\ clock' \in OptStamp
    BY <1>1, <1>2, <1>5 DEF OptStamp
  <2>2. AtMost(e.stamp, newest)
    BY <1>2
  <2>3. Before(e.stamp, clock')
    BY <1>5, <2>1, <2>2, BeforeOrder
  <2> QED
    BY <2>3 DEF AtMost
<1> QED
  BY <1>5, <1>6

-----------------------------------------------------------------------------
(* The invariant holds initially and every action preserves it.            *)

(* An empty log keeps the invariant. *)
LEMMA InitIInv == Init => IInv
<1> SUFFICES ASSUME Init PROVE IInv
  OBVIOUS
<1> USE DEF Init
<1>1. TypeOK
  <2>1. 0 \in 0..MaxDamage
    BY LogAssumption
  <2> QED
    BY <2>1 DEF TypeOK, OptStamp, Phase
<1> QED
  BY <1>1 DEF IInv, TailKnown, ClockCoversFile, OwnKeysUnique, SentStored,
              SentPrefix, PhaseFacts, LossFlagged, UnfinishedTail

(* Opening takes the clock past every stamp a scan can read. *)
LEMMA OpenStep == ASSUME IInv, Open PROVE IInv'
<1> USE DEF IInv, Open, file, user
<1>1. StampsInFile \in SUBSET Stamp
  BY DEF TypeOK, Entry, StampsInFile, OptStamp
<1>2. StampsInFile # {} => clock' \in Stamp /\ \A s \in StampsInFile : AtMost(s, clock')
  BY <1>1, LatestExists DEF MaxStamp
<1>3. clock' \in OptStamp
  BY <1>2 DEF MaxStamp, Latest, OptStamp
<1>4. TypeOK' /\ PhaseFacts' /\ TailKnown'
  BY <1>3 DEF TypeOK, PhaseFacts, TailKnown, UnfinishedTail
<1>5. ClockCoversFile'
  BY <1>2 DEF ClockCoversFile, StampsInFile
<1>6. OwnKeysUnique' /\ SentStored' /\ SentPrefix' /\ LossFlagged'
  BY DEF OwnKeysUnique, SentStored, SentPrefix, LossFlagged, Whole
<1> QED
  BY <1>4, <1>5, <1>6

(* A save promises an entry and touches no line. *)
LEMMA SaveStep == ASSUME IInv, Save PROVE IInv'
<1> USE DEF IInv, Save, file, handle
<1>1. TypeOK' /\ PhaseFacts' /\ TailKnown'
  BY DEF TypeOK, PhaseFacts, TailKnown, UnfinishedTail
<1>2. ClockCoversFile'
  BY DEF ClockCoversFile, StampsInFile
<1>3. OwnKeysUnique' /\ SentStored' /\ SentPrefix' /\ LossFlagged'
  BY DEF OwnKeysUnique, SentStored, SentPrefix, LossFlagged, Whole
<1> QED
  BY <1>1, <1>2, <1>3

(* The pending change, as NewEntry picks it. *)
Waiting == CHOOSE c \in pending : TRUE

(* The next change to record is one that waits. *)
LEMMA WaitingType ==
  ASSUME TypeOK, pending # {}
  PROVE  Waiting \in pending /\ Waiting \in Nat
<1>1. Waiting \in pending
  BY DEF Waiting
<1>2. pending \subseteq Nat
  BY LogAssumption DEF TypeOK, Change
<1> QED
  BY <1>1, <1>2

(* The entry of the pending change is an entry. *)
LEMMA NewEntryType ==
  ASSUME TypeOK, pending # {}, NEW stamp \in Stamp
  PROVE  /\ NewEntry(stamp) = OwnEntry(stamp, Waiting)
         /\ NewEntry(stamp) \in Entry
         /\ NewEntry(stamp).stamp = stamp /\ NewEntry(stamp).device = Self
         /\ NewEntry(stamp).change = Waiting
<1>1. NewEntry(stamp) = OwnEntry(stamp, Waiting)
  BY DEF NewEntry, Waiting
<1> QED
  BY <1>1, WaitingType, LogAssumption DEF OwnEntry, Entry

(* The file and the handle after an own entry was appended, or tried. *)
LEMMA OwnAppend ==
  ASSUME IInv, open, Headroom, NEW wall \in Wall, NEW c \in Nat,
         Grown({OwnEntry(After(clock, wall), c)}),
         marker \subseteq marker', sent' = sent
  PROVE  /\ entries' \subseteq Entry /\ corrupt' \subseteq OptStamp
         /\ clock' = After(clock, wall) => clock' \in OptStamp /\ ClockCoversFile'
         /\ OwnKeysUnique' /\ SentStored' /\ SentPrefix'
<1> DEFINE stamp == After(clock, wall)
           e == OwnEntry(stamp, c)
<1> USE DEF IInv
<1>1. stamp \in Stamp /\ Before(clock, stamp) /\ \A s \in StampsInFile : Before(s, stamp)
  BY NextStampIsNew
<1>2. e \in Entry /\ e.stamp = stamp /\ e.device = Self
  BY <1>1, LogAssumption DEF OwnEntry, Entry
<1> HIDE DEF e
<1>3. {e} \in SUBSET Entry /\ \A f \in {e} : f = e
  BY <1>2
<1>4. Grown({e})
  BY DEF e
<1>5. OwnKeysUnique' /\ SentStored' /\ SentPrefix'
  BY <1>1, <1>2, <1>3, <1>4, GrownKeepsSent
<1>6. clock' = stamp => clock' \in OptStamp /\ ClockCoversFile'
  BY <1>1, <1>2, <1>3, <1>4, ClockCoversGrown DEF AtMost, OptStamp
<1>7. entries' \subseteq Entry /\ corrupt' \subseteq OptStamp
  BY <1>3, <1>4 DEF Grown, TypeOK, OptStamp
<1> QED
  BY <1>5, <1>6, <1>7

(* What every way to append the pending change preserves. *)
LEMMA PendingAppend ==
  ASSUME IInv, open, pending # {}, Headroom, NEW wall \in Wall,
         Grown({NewEntry(After(clock, wall))}),
         marker \subseteq marker', sent' = sent
  PROVE  /\ entries' \subseteq Entry /\ corrupt' \subseteq OptStamp
         /\ clock' = After(clock, wall) => clock' \in OptStamp /\ ClockCoversFile'
         /\ OwnKeysUnique' /\ SentStored' /\ SentPrefix'
<1> USE DEF IInv
<1>1. NewEntry(After(clock, wall)) = OwnEntry(After(clock, wall), Waiting)
  BY NextStampIsNew, NewEntryType
<1> QED
  BY <1>1, WaitingType, OwnAppend

(* A change that leaves pending is in the file, excused, or its loss shows. *)
LEMMA PendingAccounted ==
  ASSUME IInv, open, pending # {}, Headroom, NEW wall \in Wall,
         Grown({NewEntry(After(clock, wall))}),
         saved' = saved, pending' = {}, marker \subseteq marker',
         \/ NewEntry(After(clock, wall)) \in entries' /\ excused \subseteq excused'
         \/ excused' = excused \cup pending
         \/ tornTail' \/ corrupt' # {} \/ marker' # {}
  PROVE  LossFlagged'
<1> USE DEF IInv
<1>1. SUFFICES ASSUME corrupt' = {} /\ ~tornTail' /\ marker' = {},
                      NEW d \in saved, d \notin excused'
               PROVE  \E f \in entries' : f.device = Self /\ f.change = d
  BY DEF LossFlagged
<1> DEFINE e == NewEntry(After(clock, wall))
<1>2. e.device = Self /\ e.change = Waiting
  BY NextStampIsNew, NewEntryType
<1> HIDE DEF e
<1>3. CASE d \in pending
  <2>1. e \in entries'
    BY <1>1, <1>3 DEF e
  <2>2. d = Waiting
    BY <1>3, WaitingType DEF PhaseFacts
  <2> QED
    BY <1>2, <2>1, <2>2
<1>4. CASE d \notin pending
  <2>1. corrupt = {} /\ ~tornTail /\ marker = {} /\ d \notin excused
    BY <1>1 DEF Grown
  <2>2. PICK f \in entries : f.device = Self /\ f.change = d
    BY <1>4, <2>1 DEF LossFlagged
  <2> QED
    BY <2>2 DEF Grown
<1> QED
  BY <1>3, <1>4

(* A record is past everything in the file, so its key is new. *)
LEMMA RecordStep == ASSUME IInv, Record PROVE IInv'
<1> USE DEF IInv, Record
<1>1. PICK wall \in Wall : /\ clock' = After(clock, wall)
                           /\ WriteLines({NewEntry(After(clock, wall))})
  OBVIOUS
<1> DEFINE e == NewEntry(After(clock, wall))
<1>2. /\ Grown({e}) /\ {e} \subseteq entries'
      /\ (UnfinishedTail' => needsNewline') /\ needsNewline' \in BOOLEAN
  BY <1>1, AppendGrows
<1>3. /\ entries' \subseteq Entry /\ corrupt' \subseteq OptStamp
      /\ clock' \in OptStamp /\ ClockCoversFile'
      /\ OwnKeysUnique' /\ SentStored' /\ SentPrefix'
  BY <1>1, <1>2, PendingAppend
<1>4. TypeOK' /\ TailKnown'
  BY <1>2, <1>3 DEF TypeOK, Grown, TailKnown
<1>5. PhaseFacts'
  BY DEF PhaseFacts
<1>6. LossFlagged'
  BY <1>2, PendingAccounted
<1> QED
  BY <1>3, <1>4, <1>5, <1>6

(* A failed append spends its stamp and leaves the mark where it can. *)
LEMMA RecordFailsStep == ASSUME IInv, RecordFails PROVE IInv'
<1> USE DEF IInv, RecordFails
<1>1. PICK wall \in Wall : /\ clock' = After(clock, wall)
                           /\ WriteFails({NewEntry(After(clock, wall))})
  OBVIOUS
<1> DEFINE e == NewEntry(After(clock, wall))
<1>2. /\ Grown({e})
      /\ (UnfinishedTail' => needsNewline') /\ needsNewline' \in BOOLEAN
  BY <1>1, AppendGrows
<1>3. /\ marker \subseteq marker' /\ marker' \subseteq Reason
      /\ marker' \ marker \subseteq {"append_failed"}
      /\ excused \subseteq excused' /\ excused' \subseteq excused \cup pending
  BY DEF MarkAppendFailed, TypeOK, Reason
<1>4. /\ entries' \subseteq Entry /\ corrupt' \subseteq OptStamp
      /\ clock' \in OptStamp /\ ClockCoversFile'
      /\ OwnKeysUnique' /\ SentStored' /\ SentPrefix'
  BY <1>1, <1>2, <1>3, PendingAppend
<1>5. TypeOK' /\ TailKnown'
  BY <1>2, <1>3, <1>4 DEF TypeOK, Grown, TailKnown
<1>6. PhaseFacts'
  BY <1>3 DEF PhaseFacts
<1>7. LossFlagged'
  <2>1. CASE marker' # {}
    BY <2>1, <1>2, <1>3, PendingAccounted
  <2>2. CASE marker' = {} /\ (entries' # entries \/ tornTail')
    <3>1. e \in entries' \/ tornTail'
      BY <1>2, <2>2 DEF Grown
    <3> QED
      BY <3>1, <1>2, <1>3, PendingAccounted
  <2>3. CASE marker' = {} /\ entries' = entries /\ ~tornTail'
    <3>1. excused' = excused \cup pending
      BY <2>3 DEF MarkAppendFailed
    <3> QED
      BY <3>1, <1>2, <1>3, PendingAccounted
  <2> QED
    BY <2>1, <2>2, <2>3
<1> QED
  BY <1>4, <1>5, <1>6, <1>7

(* A refused append spends its stamp as well. *)
LEMMA RecordRefusedStep == ASSUME IInv, RecordRefused PROVE IInv'
<1> USE DEF IInv, RecordRefused, file
<1>1. PICK wall \in Wall : clock' = After(clock, wall)
  OBVIOUS
<1> DEFINE e == NewEntry(After(clock, wall))
<1>2. Grown({e})
  BY DEF Grown, TypeOK
<1>3. /\ marker \subseteq marker' /\ marker' \subseteq Reason
      /\ marker' \ marker \subseteq {"append_failed"}
      /\ excused \subseteq excused' /\ excused' \subseteq excused \cup pending
  BY DEF MarkAppendFailed, TypeOK, Reason
<1>4. /\ clock' \in OptStamp /\ ClockCoversFile'
      /\ OwnKeysUnique' /\ SentStored' /\ SentPrefix'
  BY <1>1, <1>2, <1>3, PendingAppend
<1>5. TypeOK' /\ TailKnown'
  BY <1>3, <1>4 DEF TypeOK, TailKnown, UnfinishedTail
<1>6. PhaseFacts'
  BY <1>3 DEF PhaseFacts
<1>7. LossFlagged'
  <2>1. CASE marker' # {} \/ tornTail'
    BY <2>1, <1>2, <1>3, PendingAccounted
  <2>2. CASE marker' = {} /\ ~tornTail'
    <3>1. excused' = excused \cup pending
      BY <2>2 DEF MarkAppendFailed
    <3> QED
      BY <3>1, <1>2, <1>3, PendingAccounted
  <2> QED
    BY <2>1, <2>2
<1> QED
  BY <1>4, <1>5, <1>6, <1>7

(* A crash loses the handle, and with it every claim about the clock. *)
LEMMA CrashStep == ASSUME IInv, Crash PROVE IInv'
<1> USE DEF IInv, Crash, file
<1>1. TypeOK'
  BY DEF TypeOK, OptStamp, Phase
<1>2. TailKnown' /\ ClockCoversFile' /\ PhaseFacts'
  BY DEF TailKnown, ClockCoversFile, PhaseFacts
<1>3. OwnKeysUnique' /\ SentStored' /\ SentPrefix'
  BY DEF OwnKeysUnique, SentStored, SentPrefix, Whole
<1>4. LossFlagged'
  BY DEF LossFlagged
<1> QED
  BY <1>1, <1>2, <1>3, <1>4

(* A crash in an append leaves a tail that the next open sees. *)
LEMMA CrashInAppendStep == ASSUME IInv, CrashInAppend PROVE IInv'
<1> USE DEF IInv, CrashInAppend
<1>1. PICK wall \in Wall, done \in {TRUE, FALSE}, rest \in {"clean", "torn", "whole"} :
         LET e == NewEntry(After(clock, wall))
         IN Written({e}, IF done THEN {e} ELSE {}, rest)
  OBVIOUS
<1> DEFINE e == NewEntry(After(clock, wall))
           landed == IF done THEN {e} ELSE {}
<1>2. landed \in SUBSET {e} /\ Written({e}, landed, rest) /\ OwnLine
  BY <1>1 DEF TailKnown, OwnLine
<1>3. Grown({e})
  BY <1>2, WrittenGrows
<1>4. /\ entries' \subseteq Entry /\ corrupt' \subseteq OptStamp
      /\ OwnKeysUnique' /\ SentStored' /\ SentPrefix'
  BY <1>3, PendingAppend
<1>5. excused \subseteq excused' /\ excused' \subseteq excused \cup pending
  OBVIOUS
<1>6. TypeOK'
  BY <1>3, <1>4, <1>5 DEF TypeOK, Grown, OptStamp
<1>7. TailKnown' /\ ClockCoversFile' /\ PhaseFacts'
  BY DEF TailKnown, ClockCoversFile, PhaseFacts
<1>8. LossFlagged'
  <2>1. CASE entries' = entries /\ ~tornTail'
    <3>1. excused' = excused \cup pending
      BY <2>1
    <3> QED
      BY <3>1, <1>3, PendingAccounted
  <2>2. CASE entries' # entries \/ tornTail'
    <3>1. e \in entries' \/ tornTail'
      BY <1>3, <2>2 DEF Grown
    <3> QED
      BY <3>1, <1>3, <1>5, PendingAccounted
  <2> QED
    BY <2>1, <2>2
<1> QED
  BY <1>4, <1>6, <1>7, <1>8

(* A remote entry is an entry of another device. *)
LEMMA RemoteEntryType ==
  RemoteEntry \subseteq Entry /\ \A e \in RemoteEntry : e.device # Self
BY LogAssumption

(* Observing only raises the clock. *)
LEMMA ObserveRemoteStep == ASSUME IInv, ObserveRemote PROVE IInv'
<1> USE DEF IInv, ObserveRemote, file, user
<1>1. PICK e \in RemoteEntry : ObserveAll({e})
  OBVIOUS
<1>2. {e} \in SUBSET Entry /\ {e} # {}
  BY RemoteEntryType
<1>3. clock' \in Stamp /\ Before(clock, clock')
  BY <1>1, <1>2, ObserveAllIsLater
<1>4. Grown({}) /\ {} \in SUBSET Entry
  BY DEF Grown, TypeOK
<1>5. ClockCoversFile'
  BY <1>3, <1>4, ClockCoversGrown
<1>6. TypeOK' /\ TailKnown' /\ PhaseFacts'
  BY <1>3 DEF TypeOK, OptStamp, TailKnown, PhaseFacts, UnfinishedTail
<1>7. OwnKeysUnique' /\ SentStored' /\ SentPrefix' /\ LossFlagged'
  BY DEF OwnKeysUnique, SentStored, SentPrefix, Whole, LossFlagged
<1> QED
  BY <1>5, <1>6, <1>7

(* Remote entries are stored under a clock that covers them. *)
LEMMA StoreRemoteStep == ASSUME IInv, StoreRemote PROVE IInv'
<1> USE DEF IInv, StoreRemote, user
<1>1. PICK batch \in SUBSET (RemoteEntry \ entries) : StoreBatch(batch)
  OBVIOUS
<1>2. batch \in SUBSET Entry /\ batch # {} /\ \A e \in batch : e.device # Self
  BY <1>1, RemoteEntryType DEF StoreBatch
<1>3. ObserveAll(batch) /\ (WriteLines(batch) \/ WriteFails(batch))
  BY <1>1 DEF StoreBatch
<1>4. /\ clock' \in Stamp /\ Before(clock, clock')
      /\ \A e \in batch : AtMost(e.stamp, clock')
  BY <1>2, <1>3, ObserveAllIsLater
<1>5. /\ Grown(batch) /\ (UnfinishedTail' => needsNewline')
      /\ needsNewline' \in BOOLEAN
  BY <1>3, AppendGrows
<1>6. ClockCoversFile'
  BY <1>2, <1>4, <1>5, ClockCoversGrown
<1>7. OwnKeysUnique' /\ SentStored' /\ SentPrefix'
  BY <1>2, <1>5, GrownKeepsSent
<1>8. TypeOK' /\ TailKnown'
  BY <1>2, <1>4, <1>5 DEF TypeOK, OptStamp, Grown, TailKnown
<1>9. PhaseFacts' /\ LossFlagged'
  BY <1>5 DEF PhaseFacts, LossFlagged, Grown
<1> QED
  BY <1>6, <1>7, <1>8, <1>9

(* What is sent is all there is above the summary, so it extends the       *)
(* prefix.                                                                 *)
LEMMA SendStep == ASSUME IInv, Send PROVE IInv'
<1> USE DEF IInv, Send, file, handle, user
<1> DEFINE S == {e.stamp : e \in sent}
           held == Latest(S)
           new == {e \in entries : e.device = Self /\ Before(held, e.stamp)}
<1>1. sent' = sent \cup new
  OBVIOUS
<1>2. S \in SUBSET Stamp
  BY DEF TypeOK, Entry
<1>3. \A f \in sent : held \in S /\ AtMost(f.stamp, held)
  BY <1>2, LatestExists
<1>4. held \in OptStamp
  BY <1>2, LatestExists DEF Latest, OptStamp
<1>5. \A e \in entries \cup sent : e.stamp \in Stamp /\ e.stamp \in OptStamp
  BY DEF TypeOK, Entry, OptStamp
<1> HIDE DEF held, S
<1>6. TypeOK' /\ TailKnown' /\ PhaseFacts'
  BY <1>1 DEF TypeOK, TailKnown, PhaseFacts, UnfinishedTail
<1>7. ClockCoversFile' /\ LossFlagged'
  BY DEF ClockCoversFile, StampsInFile, LossFlagged
<1>8. OwnKeysUnique'
  <2>1. ASSUME NEW e \in new, NEW f \in sent PROVE ~SameKey(e, f) /\ ~SameKey(f, e)
    <3>1. Before(f.stamp, e.stamp)
      BY <1>3, <1>4, <1>5, BeforeOrder
    <3> QED
      BY <1>5, <3>1, BeforeOrder DEF SameKey
  <2> QED
    BY <1>1, <2>1 DEF OwnKeysUnique
<1>9. SentStored'
  BY <1>1 DEF SentStored, Whole
<1>10. SentPrefix'
  <2> SUFFICES ASSUME Whole, NEW e \in entries, NEW f \in sent',
                      e.device = Self, AtMost(e.stamp, f.stamp), e \notin new
               PROVE  e \in sent
    BY <1>1 DEF SentPrefix, Whole
  <2>1. CASE f \in sent
    BY <2>1 DEF SentPrefix
  <2>2. CASE f \notin sent
    <3>1. ~Before(held, e.stamp)
      OBVIOUS
    <3>2. AtMost(e.stamp, held)
      BY <1>4, <1>5, <3>1, BeforeOrder DEF AtMost
    <3>3. sent # {}
      <4>1. sent = {} => held = NoStamp
        BY DEF held, S, Latest
      <4> QED
        BY <1>5, <3>1, <4>1, BeforeOrder DEF OptStamp
    <3>4. PICK g \in sent : g.stamp = held
      BY <1>3, <3>3 DEF S
    <3> QED
      BY <3>2, <3>4 DEF SentPrefix
  <2> QED
    BY <2>1, <2>2
<1> QED
  BY <1>6, <1>7, <1>8, <1>9, <1>10

(* The reset is marked before anything is taken away. *)
LEMMA ResetMarkStep == ASSUME IInv, ResetMark PROVE IInv'
<1> USE DEF IInv, ResetMark, file, handle, user
<1>1. TypeOK' /\ TailKnown' /\ PhaseFacts'
  BY DEF TypeOK, Reason, Phase, TailKnown, PhaseFacts, UnfinishedTail
<1>2. ClockCoversFile' /\ LossFlagged' /\ OwnKeysUnique'
  BY DEF ClockCoversFile, StampsInFile, LossFlagged, OwnKeysUnique
<1>3. SentStored' /\ SentPrefix'
  BY DEF SentStored, SentPrefix, Whole
<1> QED
  BY <1>1, <1>2, <1>3

(* The log is emptied under the mark. *)
LEMMA ResetEmptyStep == ASSUME IInv, ResetEmpty PROVE IInv'
<1> USE DEF IInv, ResetEmpty, user
<1>1. "reset_pending" \in marker
  BY DEF PhaseFacts
<1>2. TypeOK' /\ TailKnown' /\ PhaseFacts'
  BY DEF TypeOK, Phase, TailKnown, PhaseFacts, UnfinishedTail
<1>3. ClockCoversFile' /\ LossFlagged' /\ OwnKeysUnique'
  BY <1>1 DEF ClockCoversFile, StampsInFile, LossFlagged, OwnKeysUnique
<1>4. SentStored' /\ SentPrefix'
  BY <1>1 DEF SentStored, SentPrefix, Whole
<1> QED
  BY <1>2, <1>3, <1>4

(* The hub's entries go in under a clock that observed them. *)
LEMMA ResetFillStep == ASSUME IInv, ResetFill PROVE IInv'
<1> USE DEF IInv, ResetFill, user
<1>1. PICK others \in SUBSET RemoteEntry :
        /\ IF sent \cup others = {} THEN UNCHANGED clock ELSE ObserveAll(sent \cup others)
        /\ \/ WriteLines(sent \cup others) /\ phase' = "filled"
           \/ WriteFails(sent \cup others) /\ phase' = "idle"
  OBVIOUS
<1> DEFINE batch == sent \cup others
<1>2. batch \in SUBSET Entry /\ \A e \in others : e.device # Self
  BY RemoteEntryType DEF TypeOK
<1>3. /\ "reset_pending" \in marker /\ entries = {}
      /\ corrupt = {} /\ ~UnfinishedTail
  BY DEF PhaseFacts
<1> HIDE DEF batch
<1>4. /\ Grown(batch) /\ (UnfinishedTail' => needsNewline')
      /\ needsNewline' \in BOOLEAN /\ (WriteLines(batch) => batch \subseteq entries')
  BY <1>1, AppendGrows DEF batch
<1>5. clock' \in OptStamp /\ ClockCoversFile'
  <2>1. CASE batch = {}
    <3>1. UNCHANGED clock
      BY <1>1, <2>1 DEF batch
    <3>2. StampsInFile' = {}
      BY <1>3, <1>4, <2>1 DEF Grown, StampsInFile
    <3> QED
      BY <3>1, <3>2 DEF TypeOK, ClockCoversFile
  <2>2. CASE batch # {}
    <3>1. ObserveAll(batch)
      BY <1>1, <2>2 DEF batch
    <3>2. /\ clock' \in Stamp /\ Before(clock, clock')
          /\ \A e \in batch : AtMost(e.stamp, clock')
      BY <1>2, <2>2, <3>1, ObserveAllIsLater
    <3> QED
      BY <1>2, <1>4, <3>2, ClockCoversGrown DEF OptStamp
  <2> QED
    BY <2>1, <2>2
<1>6. TypeOK' /\ TailKnown'
  <2>1. entries' \subseteq Entry /\ corrupt' \subseteq OptStamp
    BY <1>2, <1>4 DEF TypeOK, Grown, OptStamp
  <2>2. phase' \in Phase
    BY <1>1 DEF Phase
  <2> QED
    BY <1>4, <1>5, <2>1, <2>2 DEF TypeOK, Grown, TailKnown
<1>7. \A e \in entries' : e.device = Self => e \in sent
  BY <1>2, <1>3, <1>4 DEF batch, Grown
<1>8. OwnKeysUnique'
  BY <1>7 DEF OwnKeysUnique, SameKey
<1>9. PhaseFacts'
  <2>1. CASE WriteLines(batch) /\ phase' = "filled"
    <3>1. corrupt' = {} /\ ~UnfinishedTail'
      BY <1>3, <2>1 DEF WriteLines, Written, OwnLine, UnfinishedTail, file
    <3>2. sent \subseteq entries'
      BY <1>4, <2>1 DEF batch
    <3>3. {e \in entries' : e.device = Self} = sent'
      BY <1>7, <3>2 DEF OwnKeysUnique
    <3> QED
      BY <1>3, <2>1, <3>1, <3>3 DEF PhaseFacts
  <2>2. CASE phase' = "idle"
    BY <2>2 DEF PhaseFacts
  <2> QED
    BY <1>1, <2>1, <2>2 DEF batch
<1>10. SentStored' /\ SentPrefix' /\ LossFlagged'
  BY <1>3 DEF SentStored, SentPrefix, Whole, LossFlagged
<1> QED
  BY <1>5, <1>6, <1>8, <1>9, <1>10

(* The mark goes when the log holds what was sent. *)
LEMMA ResetDoneStep == ASSUME IInv, ResetDone PROVE IInv'
<1> USE DEF IInv, ResetDone, file, handle
<1>1. {e \in entries : e.device = Self} = sent
  BY DEF PhaseFacts
<1>2. TypeOK' /\ TailKnown' /\ PhaseFacts'
  BY DEF TypeOK, Phase, TailKnown, PhaseFacts, UnfinishedTail
<1>3. ClockCoversFile' /\ LossFlagged' /\ OwnKeysUnique'
  BY DEF ClockCoversFile, StampsInFile, LossFlagged, OwnKeysUnique
<1>4. SentStored' /\ SentPrefix'
  BY <1>1 DEF SentStored, SentPrefix
<1> QED
  BY <1>2, <1>3, <1>4

(* The rewrite keeps the readable lines under the mark. *)
LEMMA RepairRewriteStep == ASSUME IInv, RepairRewrite PROVE IInv'
<1> USE DEF IInv, RepairRewrite, user
<1>1. TypeOK' /\ TailKnown' /\ PhaseFacts'
  BY DEF TypeOK, Reason, Phase, TailKnown, PhaseFacts, UnfinishedTail
<1>2. ClockCoversFile' /\ LossFlagged' /\ OwnKeysUnique'
  BY DEF ClockCoversFile, StampsInFile, LossFlagged, OwnKeysUnique
<1>3. SentStored' /\ SentPrefix'
  BY DEF SentStored, SentPrefix, Whole
<1> QED
  BY <1>1, <1>2, <1>3

(* The fresh baseline is stamped past what is left. *)
LEMMA RepairBaselineStep == ASSUME IInv, RepairBaseline PROVE IInv'
<1> USE DEF IInv, RepairBaseline, user
<1>1. PICK wall \in Wall :
        /\ clock' = After(clock, wall)
        /\ \/ WriteLines({OwnEntry(After(clock, wall), Baseline)}) /\ phase' = "baselined"
           \/ WriteFails({OwnEntry(After(clock, wall), Baseline)}) /\ phase' = "idle"
  OBVIOUS
<1>2. "repair_unfinished" \in marker /\ pending = {}
  BY DEF PhaseFacts
<1> DEFINE batch == {OwnEntry(After(clock, wall), Baseline)}
<1>3. /\ Grown(batch) /\ (UnfinishedTail' => needsNewline')
      /\ needsNewline' \in BOOLEAN
  BY <1>1, AppendGrows
<1>4. /\ entries' \subseteq Entry /\ corrupt' \subseteq OptStamp
      /\ clock' \in OptStamp /\ ClockCoversFile'
      /\ OwnKeysUnique' /\ SentStored' /\ SentPrefix'
  BY <1>1, <1>3, OwnAppend DEF Baseline
<1>5. TypeOK' /\ TailKnown'
  BY <1>1, <1>3, <1>4 DEF TypeOK, Phase, Grown, TailKnown
<1>6. PhaseFacts' /\ LossFlagged'
  BY <1>1, <1>2 DEF PhaseFacts, LossFlagged
<1> QED
  BY <1>4, <1>5, <1>6

(* The mark goes when every table is recorded anew. *)
LEMMA RepairDoneStep == ASSUME IInv, RepairDone PROVE IInv'
<1> USE DEF IInv, RepairDone, file, handle
<1>1. TypeOK' /\ TailKnown' /\ PhaseFacts'
  BY DEF TypeOK, Phase, TailKnown, PhaseFacts, UnfinishedTail
<1>2. ClockCoversFile' /\ LossFlagged' /\ OwnKeysUnique'
  BY DEF ClockCoversFile, StampsInFile, LossFlagged, OwnKeysUnique
<1>3. SentStored' /\ SentPrefix'
  BY DEF SentStored, SentPrefix
<1> QED
  BY <1>1, <1>2, <1>3

(* A damaged line stays a problem that a scan reports. *)
LEMMA DamageStep == ASSUME IInv, Damage PROVE IInv'
<1> USE DEF IInv, Damage, handle, user
<1>1. PICK e \in entries \ wholeTail, probe \in BOOLEAN :
        /\ entries' = entries \ {e}
        /\ corrupt' = corrupt \cup {IF probe THEN e.stamp ELSE NoStamp}
  OBVIOUS
<1>2. corrupt' # {} /\ e.stamp \in Stamp /\ corrupt' \subseteq OptStamp
  BY <1>1 DEF TypeOK, Entry, OptStamp
<1>3. damaged' \in 0..MaxDamage
  BY LogAssumption DEF TypeOK
<1>4. TypeOK' /\ TailKnown' /\ PhaseFacts'
  BY <1>1, <1>2, <1>3 DEF TypeOK, TailKnown, PhaseFacts, UnfinishedTail
<1>5. ClockCoversFile'
  BY <1>1 DEF ClockCoversFile, StampsInFile
<1>6. OwnKeysUnique'
  BY <1>1 DEF OwnKeysUnique
<1>7. SentStored' /\ SentPrefix' /\ LossFlagged'
  BY <1>2 DEF SentStored, SentPrefix, Whole, LossFlagged
<1> QED
  BY <1>4, <1>5, <1>6, <1>7

(* Nothing happens. *)
LEMMA StutterStep == ASSUME IInv, UNCHANGED vars PROVE IInv'
BY DEF IInv, vars, file, handle, user, TypeOK, TailKnown, ClockCoversFile,
       OwnKeysUnique, SentStored, SentPrefix, PhaseFacts, LossFlagged,
       UnfinishedTail, StampsInFile, Whole

(* The inductive invariant: what the file, the handle, the marker and the  *)
(* other side's copy have to do with one another, at every moment.         *)
THEOREM InductiveInvariant == Spec => []IInv
<1>1. IInv /\ [Next]_vars => IInv'
  <2> SUFFICES ASSUME IInv, [Next]_vars PROVE IInv'
    OBVIOUS
  <2> QED
    BY OpenStep, SaveStep, RecordStep, RecordFailsStep, RecordRefusedStep,
       CrashStep, CrashInAppendStep, ObserveRemoteStep, StoreRemoteStep,
       SendStep, ResetMarkStep, ResetEmptyStep, ResetFillStep, ResetDoneStep,
       RepairRewriteStep, RepairBaselineStep, RepairDoneStep, DamageStep,
       StutterStep DEF Next
<1> QED
  BY <1>1, InitIInv, PTL DEF Spec

(* Type correctness of the log, for every value of the constants. *)
THEOREM TypeCorrect == Spec => []TypeOK
<1>1. IInv => TypeOK
  BY DEF IInv
<1> QED
  BY <1>1, InductiveInvariant, PTL

(* An open log's clock covers every stamp its file shows, so a restart, a  *)
(* damaged line or a wall clock set back never makes it issue a stamp that *)
(* the file already holds.                                                 *)
THEOREM ClockAlwaysCovers == Spec => []ClockCoversFile
<1>1. IInv => ClockCoversFile
  BY DEF IInv
<1> QED
  BY <1>1, InductiveInvariant, PTL

(* A reliable log and the other side agree on what each key of this device *)
(* stands for.                                                             *)
THEOREM KeysNeverReused == Spec => []OneChangePerKey
<1>1. IInv => OneChangePerKey
  <2> SUFFICES ASSUME IInv, Reliable PROVE
        \A e, f \in entries \cup sent : SameKey(e, f) /\ e.device = Self => e = f
    BY DEF OneChangePerKey
  <2>1. sent \subseteq entries
    BY DEF IInv, SentStored, Whole, Reliable
  <2> QED
    BY <2>1 DEF IInv, OwnKeysUnique
<1> QED
  BY <1>1, InductiveInvariant, PTL

(* What the other side holds of a reliable log is a prefix of its own      *)
(* entries, which is what lets a summary name one stamp per device.        *)
THEOREM SentStaysPrefix == Spec => []SentIsPrefix
<1>1. IInv => SentIsPrefix
  BY DEF IInv, SentPrefix, SentIsPrefix, Whole, Reliable
<1> QED
  BY <1>1, InductiveInvariant, PTL

(* No saved change is lost from a log that calls itself reliable, beyond   *)
(* the losses LossIsFlagged names.                                         *)
THEOREM LossAlwaysFlagged == Spec => []LossIsFlagged
<1>1. IInv => LossIsFlagged
  BY DEF IInv, LossFlagged, LossIsFlagged, Reliable, UnfinishedTail
<1> QED
  BY <1>1, InductiveInvariant, PTL

=============================================================================

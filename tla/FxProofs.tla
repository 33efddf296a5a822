------------------------------ MODULE FxProofs ------------------------------
(***************************************************************************)
(* The properties of Fx, proved for every calendar, publisher, delay and   *)
(* age limit, and for any number of lookups beside each other.             *)
(***************************************************************************)
EXTENDS Fx, WellFoundedInduction, TLAPS

(* A nonempty set of natural numbers has a least element. *)
LEMMA NatLeast ==
  ASSUME NEW T \in SUBSET Nat, T # {}
  PROVE  \E n \in T : \A m \in T : n <= m
<1>1. PICK n \in T : \A m \in T : ~(<<m, n>> \in OpToRel(<, Nat))
  BY WFMin, NatLessThanWellFounded
<1>2. \A m \in T : ~(m < n)
  BY <1>1 DEF OpToRel
<1> QED
  BY <1>2

(* A bounded one has a greatest element. *)
LEMMA GreatestUpTo ==
  ASSUME NEW N \in Nat, NEW T \in SUBSET (0..N), T # {}
  PROVE  \E n \in T : \A m \in T : m <= n
<1> DEFINE U == {N - t : t \in T}
<1>1. \A t \in T : t \in Nat /\ N - t \in Nat
  OBVIOUS
<1>2. U \in SUBSET Nat /\ U # {}
  BY <1>1
<1>3. PICK u \in U : \A v \in U : u <= v
  BY <1>2, NatLeast
<1>4. PICK t \in T : u = N - t
  OBVIOUS
<1>5. \A m \in T : N - t <= N - m
  BY <1>3, <1>4
<1> QED
  BY <1>1, <1>5

OptDay == Day \cup {None}
Hours == 0 .. MaxHour

(* Days of the calendar and their extremes. *)
LEMMA Calendar ==
  /\ MaxHour \in Nat /\ LastDay \in Nat
  /\ Day \subseteq Nat /\ OptDay \subseteq Nat /\ None \notin Day
BY FxAssumption DEF MaxHour, Day, None, OptDay

(* What Largest chooses: a member, or None for the empty set. *)
LEMMA LargestIn ==
  ASSUME NEW S \in SUBSET Day
  PROVE  /\ Largest(S) \in OptDay
         /\ S = {} <=> Largest(S) = None
         /\ S # {} => Largest(S) \in S
         /\ \A y \in S : y <= Largest(S)
<1>1. CASE S = {}
  BY <1>1 DEF Largest, OptDay
<1>2. CASE S # {}
  <2>1. S \in SUBSET (0 .. LastDay) /\ LastDay \in Nat
    BY Calendar DEF Day
  <2>2. \E x \in S : \A y \in S : y <= x
    BY <2>1, <1>2, GreatestUpTo
  <2>3. Largest(S) \in S /\ \A y \in S : y <= Largest(S)
    BY <2>2, <1>2 DEF Largest
  <2> QED
    BY <2>3, <1>2, Calendar DEF OptDay
<1> QED
  BY <1>1, <1>2

(* What Least chooses: a member that no other one is below. *)
LEMMA LeastIn ==
  ASSUME NEW S \in SUBSET Nat, S # {}
  PROVE  Least(S) \in S /\ \A y \in S : Least(S) <= y
<1>1. \E x \in S : \A y \in S : x <= y
  BY NatLeast
<1> QED
  BY <1>1 DEF Least

(* What UpTo chooses: a member no later than d that none of those          *)
(* outranks.                                                               *)
LEMMA UpToIn ==
  ASSUME NEW S \in SUBSET Day, NEW d \in Day
  PROVE  /\ UpTo(S, d) \in OptDay /\ UpTo(S, d) <= d
         /\ UpTo(S, d) # None => UpTo(S, d) \in S
         /\ \A y \in S : y <= d => y <= UpTo(S, d)
<1> DEFINE T == {x \in S : x <= d}
<1>1. T \in SUBSET Day
  OBVIOUS
<1>2. /\ Largest(T) \in OptDay /\ (T = {} <=> Largest(T) = None)
      /\ T # {} => Largest(T) \in T
      /\ \A y \in T : y <= Largest(T)
  BY <1>1, LargestIn
<1>3. UpTo(S, d) = Largest(T)
  BY DEF UpTo
<1> HIDE DEF T
<1>4. Largest(T) <= d /\ (Largest(T) # None => Largest(T) \in S)
  <2>1. CASE T = {}
    BY <2>1, <1>2, Calendar DEF None
  <2>2. CASE T # {}
    BY <2>2, <1>2 DEF T
  <2> QED
    BY <2>1, <2>2
<1>5. \A y \in S : y <= d => y <= Largest(T)
  BY <1>2 DEF T
<1> QED
  BY <1>2, <1>3, <1>4, <1>5, Zenon

(* More tables never move the newest one up to a date back. *)
LEMMA UpToGrows ==
  ASSUME NEW S \in SUBSET Day, NEW T \in SUBSET Day, S \subseteq T, NEW d \in Day
  PROVE  UpTo(S, d) <= UpTo(T, d)
<1>1. CASE UpTo(S, d) = None
  <2>1. UpTo(T, d) \in OptDay
    BY UpToIn
  <2> QED
    <3>1. UpTo(T, d) \in Nat
      BY <2>1, Calendar
    <3>2. UpTo(S, d) = 0
      BY <1>1 DEF None
    <3> QED
      BY <3>1, <3>2
<1>2. CASE UpTo(S, d) # None
  BY <1>2, UpToIn
<1> QED
  BY <1>1, <1>2

(* The member that fits is the one UpTo chooses. *)
LEMMA UpToIs ==
  ASSUME NEW S \in SUBSET Day, NEW d \in Day, NEW x \in S, x <= d,
         \A y \in S : y <= d => y <= x
  PROVE  UpTo(S, d) = x
<1>1. x <= UpTo(S, d) /\ UpTo(S, d) \in OptDay
  BY UpToIn
<1>2. UpTo(S, d) # None
  BY <1>1, Calendar DEF None
<1>3. UpTo(S, d) \in S /\ UpTo(S, d) <= d
  BY <1>2, UpToIn
<1>4. UpTo(S, d) <= x
  BY <1>3
<1>5. x \in Nat /\ UpTo(S, d) \in Nat
  BY <1>3, Calendar
<1> QED
  BY <1>1, <1>4, <1>5

(* A fallback is a cached table from before the day. *)
LEMMA NearestEarlierIn ==
  ASSUME NEW cache \in Cache, NEW d \in Day
  PROVE  /\ NearestEarlier(cache, d) \in OptDay
         /\ NearestEarlier(cache, d) # None =>
              NearestEarlier(cache, d) \in cache.rates /\ NearestEarlier(cache, d) < d
         /\ \A y \in cache.rates : y < d => y <= NearestEarlier(cache, d)
<1> DEFINE T == {r \in cache.rates : r < d}
<1>1. T \in SUBSET Day /\ NearestEarlier(cache, d) = Largest(T)
  BY DEF Cache, NearestEarlier
<1>2. /\ Largest(T) \in OptDay /\ (T = {} <=> Largest(T) = None)
      /\ T # {} => Largest(T) \in T
      /\ \A y \in T : y <= Largest(T)
  BY <1>1, LargestIn
<1> HIDE DEF T
<1>3. Largest(T) # None => Largest(T) \in cache.rates /\ Largest(T) < d
  BY <1>2 DEF T
<1>4. \A y \in cache.rates : y < d => y <= Largest(T)
  BY <1>2 DEF T
<1> QED
  BY <1>1, <1>2, <1>3, <1>4

-----------------------------------------------------------------------------
(* The calendar's hours, and how late a table may be.                      *)

(* Days never run backwards and never skip one within an hour. *)
LEMMA DayOfSteps ==
  ASSUME NEW g \in Nat, NEW h \in Nat
  PROVE  /\ DayOf(h) \in Nat \ {0} /\ DayOf(0) = 1
         /\ g <= h => DayOf(g) <= DayOf(h)
         /\ DayOf(h + 1) <= DayOf(h) + 1
<1> USE FxAssumption
<1>1. h \div HoursPerDay \in Nat /\ (h + 1) \div HoursPerDay <= h \div HoursPerDay + 1
  OBVIOUS
<1>2. (h + 1) \div HoursPerDay \in Nat /\ g \div HoursPerDay \in Nat
  OBVIOUS
<1>3. g <= h => g \div HoursPerDay <= h \div HoursPerDay
  OBVIOUS
<1>4. 0 \div HoursPerDay = 0
  OBVIOUS
<1> QED
  BY <1>1, <1>2, <1>3, <1>4 DEF DayOf

(* An answer that is stored within the hour after it came and is old enough *)
(* to be aliased came when every table of its date was out.                *)
LEMMA OldEnough ==
  ASSUME NEW at \in Nat, NEW now \in Nat, at <= now, now <= at + 1,
         NEW today \in DayOf(at) .. DayOf(now), NEW d \in Day, today - d >= AliasAge
  PROVE  DayOf(at) > d + MaxDelay
<1>1. DayOf(at) \in Nat /\ DayOf(now) \in Nat /\ d \in Nat
  BY DayOfSteps, Calendar
<1>2. DayOf(now) <= DayOf(at) + 1
  <2>1. CASE now = at
    BY <2>1, <1>1
  <2>2. CASE now = at + 1
    BY <2>2, DayOfSteps
  <2> QED
    BY <2>1, <2>2
<1> QED
  BY <1>1, <1>2, FxAssumption

-----------------------------------------------------------------------------
(* Caches.                                                                 *)

(* A cache, the file or a lookup's snapshot, that says nothing but truths  *)
(* when the tables shown are out: CacheIsTrue of any of them.              *)
CacheTrue(cache, shown) ==
  /\ cache \in Cache /\ cache.rates \subseteq shown
  /\ \A d \in Day : cache.alias[d] # None => cache.alias[d] = UpTo(Published, d)

(* A cache that grew: no table is gone and no alias has changed.           *)
Grown(old, new) ==
  /\ old.rates \subseteq new.rates
  /\ \A d \in Day : old.alias[d] # None => new.alias[d] = old.alias[d]

SameLatest(old, new) == new.latest = old.latest /\ new.fetchedAt = old.fetchedAt

(* A cache that is true answers with a published table that is at least as *)
(* late as the best one known.                                             *)
LEMMA CachedForIsRight ==
  ASSUME NEW shown \in SUBSET Published, NEW known \in SUBSET Published,
         NEW cache, CacheTrue(cache, shown), NEW d \in Day, CachedFor(cache, d) # None
  PROVE  CachedFor(cache, d) \in shown /\ CachedFor(cache, d) \in UpTo(known, d) .. d
<1>1. Published \subseteq Day /\ Published \in SUBSET Day /\ known \in SUBSET Day
  BY FxAssumption
<1>2. UpTo(known, d) <= d /\ UpTo(known, d) <= UpTo(Published, d) /\ UpTo(Published, d) <= d
  BY <1>1, UpToIn, UpToGrows
<1>3. UpTo(known, d) \in Nat /\ UpTo(Published, d) \in Nat /\ d \in Nat
  BY <1>1, UpToIn, Calendar
<1>4. CASE d \in cache.rates
  BY <1>4, <1>2, <1>3 DEF CachedFor, CacheTrue
<1>5. CASE d \notin cache.rates
  <2>1. CachedFor(cache, d) = cache.alias[d] /\ cache.alias[d] \in cache.rates
    BY <1>5 DEF CachedFor
  <2>2. cache.alias[d] = UpTo(Published, d)
    BY <2>1 DEF CacheTrue, CachedFor
  <2> QED
    BY <2>1, <2>2, <1>2, <1>3 DEF CacheTrue
<1> QED
  BY <1>4, <1>5

(* A table is stored, with an alias only where the table is the right one. *)
LEMMA WithTableIsTrue ==
  ASSUME NEW shown \in SUBSET Published, NEW cache, CacheTrue(cache, shown),
         NEW table \in shown, NEW d \in Day, NEW today,
         ShouldAlias(d, table, today) => table = UpTo(Published, d)
  PROVE  /\ CacheTrue(WithTable(cache, table, d, today), shown)
         /\ Grown(cache, WithTable(cache, table, d, today))
         /\ SameLatest(cache, WithTable(cache, table, d, today))
<1> DEFINE new == WithTable(cache, table, d, today)
<1>1. table \in Day
  BY FxAssumption
<1>2. cache \in Cache
  BY DEF CacheTrue
<1>3. /\ new.rates = cache.rates \cup {table}
      /\ new.latest = cache.latest /\ new.fetchedAt = cache.fetchedAt
      /\ new.alias = IF ShouldAlias(d, table, today) THEN [cache.alias EXCEPT ![d] = table]
                     ELSE cache.alias
  BY <1>2 DEF WithTable, Cache
<1>4. new.alias \in [Day -> Day \cup {None}]
  BY <1>1, <1>2, <1>3 DEF Cache
<1>5. new \in Cache
  BY <1>1, <1>2, <1>4 DEF WithTable, Cache
<1>6. \A e \in Day : new.alias[e] = cache.alias[e]
                     \/ (e = d /\ ShouldAlias(d, table, today) /\ new.alias[e] = table)
  BY <1>2, <1>3 DEF Cache
<1> HIDE DEF new
<1>7. \A e \in Day : new.alias[e] # None => new.alias[e] = UpTo(Published, e)
  BY <1>6 DEF CacheTrue
<1>8. \A e \in Day : cache.alias[e] # None => new.alias[e] = cache.alias[e]
  BY <1>6 DEF CacheTrue
<1>9. CacheTrue(new, shown) /\ Grown(cache, new) /\ SameLatest(cache, new)
  BY <1>3, <1>5, <1>7, <1>8 DEF CacheTrue, Grown, SameLatest
<1> QED
  BY <1>9 DEF new

(* A range is stored: an alias from a range that has every table from its  *)
(* floor up to the date names the right one.                               *)
LEMMA WithRangeIsTrue ==
  ASSUME NEW shown \in SUBSET Published, NEW cache, CacheTrue(cache, shown),
         NEW days \in SUBSET shown, NEW dates \in SUBSET Day, NEW floor \in OptDay, NEW today,
         \A d \in dates : today - d >= AliasAge =>
           \A p \in Published : floor <= p /\ p <= d => p \in days
  PROVE  /\ CacheTrue(WithRange(cache, days, dates, floor, today), shown)
         /\ Grown(cache, WithRange(cache, days, dates, floor, today))
         /\ SameLatest(cache, WithRange(cache, days, dates, floor, today))
<1> DEFINE grown == [cache EXCEPT !.rates = @ \cup days]
           open == {d \in dates : d \notin grown.rates /\ cache.alias[d] = None}
           new == WithRange(cache, days, dates, floor, today)
<1>1. cache \in Cache /\ days \subseteq Day /\ Published \in SUBSET Day
  BY FxAssumption DEF CacheTrue
<1>2. /\ grown \in Cache /\ grown.rates = cache.rates \cup days
      /\ grown.alias = cache.alias /\ SameLatest(cache, grown)
  BY <1>1 DEF Cache, SameLatest
<1>3. new = [grown EXCEPT !.alias = [d \in Day |->
               IF d \in open THEN RangeAlias(grown, d, floor, today) ELSE @[d]]]
  BY <1>2 DEF WithRange
<1> HIDE DEF grown
<1>4. \A d \in open : RangeAlias(grown, d, floor, today) \in OptDay
  <2>1. \A d \in open : d \in Day
    OBVIOUS
  <2> QED
    BY <2>1, <1>2, NearestEarlierIn DEF RangeAlias, OptDay
<1>5. \A d \in open : RangeAlias(grown, d, floor, today) # None =>
                        RangeAlias(grown, d, floor, today) = UpTo(Published, d)
  <2> SUFFICES ASSUME NEW d \in open, RangeAlias(grown, d, floor, today) # None
               PROVE  RangeAlias(grown, d, floor, today) = UpTo(Published, d)
    OBVIOUS
  <2> DEFINE e == NearestEarlier(grown, d)
  <2>1. /\ e # None /\ e >= floor /\ ShouldAlias(d, e, today)
        /\ RangeAlias(grown, d, floor, today) = e
    BY DEF RangeAlias
  <2>2. d \in Day /\ d \in dates /\ d \notin grown.rates
    OBVIOUS
  <2>3. e \in grown.rates /\ e < d /\ \A y \in grown.rates : y < d => y <= e
    BY <2>1, <2>2, <1>2, NearestEarlierIn
  <2>4. grown.rates \subseteq Published
    BY <1>2 DEF CacheTrue
  <2>5. e \in Nat /\ floor \in Nat /\ d \in Nat /\ Published \subseteq Nat
    BY <2>2, <2>3, <2>4, <1>1, Calendar
  <2>6. ASSUME NEW p \in Published, p <= d
        PROVE  p <= e
    <3>1. CASE p < floor
      BY <3>1, <2>1, <2>5
    <3>2. CASE floor <= p
      <4>1. p \in days
        BY <3>2, <2>1, <2>2, <2>6 DEF ShouldAlias
      <4>2. p \in grown.rates /\ p # d
        BY <4>1, <2>2, <1>2
      <4> QED
        BY <4>2, <2>3, <2>5, <2>6
    <3> QED
      BY <3>1, <3>2, <2>5
  <2> QED
    BY <2>1, <2>2, <2>3, <2>4, <2>5, <2>6, <1>1, UpToIs
<1> HIDE DEF open
<1>6. /\ new.rates = cache.rates \cup days /\ SameLatest(cache, new)
      /\ new.alias = [d \in Day |-> IF d \in open THEN RangeAlias(grown, d, floor, today)
                                    ELSE cache.alias[d]]
  BY <1>1, <1>2, <1>3 DEF Cache, SameLatest
<1>7. new \in Cache
  <2>1. new.alias \in [Day -> OptDay]
    BY <1>1, <1>4, <1>6 DEF Cache, OptDay
  <2> QED
    BY <2>1, <1>1, <1>2, <1>3, <1>6 DEF Cache, OptDay
<1> HIDE DEF new
<1>8. \A d \in Day : new.alias[d] # None => new.alias[d] = UpTo(Published, d)
  BY <1>5, <1>6 DEF CacheTrue
<1>9. \A d \in Day : cache.alias[d] # None => new.alias[d] = cache.alias[d]
  BY <1>6 DEF open
<1>10. CacheTrue(new, shown) /\ Grown(cache, new) /\ SameLatest(cache, new)
  BY <1>6, <1>7, <1>8, <1>9 DEF CacheTrue, Grown
<1> QED
  BY <1>10 DEF new

-----------------------------------------------------------------------------
(* Lookups.                                                                *)

Slot == OptDay \X (Currency \cup {0})
OutType == UNION {[D -> OutcomeType] : D \in SUBSET Slot}

Job ==
  [kind : {"on", "keys", "months", "latest"}, live : BOOLEAN, previous : OptDay,
   step : {"load", "read", "range", "merge", "work"}, snap : Cache,
   days : SUBSET Day, dates : SUBSET Day, floor : OptDay, at : Hours, same : BOOLEAN,
   ref : Reference \cup {None}, known : SUBSET Day, out : OutType]

(* Two steps within the hour a request may last. *)
Recent(at, now) == at <= now /\ now <= at + 1

(* What an item says at hour now, with the tables shown and the newest one *)
(* at each hour: of a date, answers are right and what is in flight would  *)
(* be the right alias if its date was old enough; of the current period,   *)
(* what came is the newest.                                                *)
ItemTrue(o, live, date, known, now, shown, news) ==
  /\ o.how = "got" => o.day \in shown /\ Recent(o.at, now)
  /\ o.how \in Answers /\ ~live => o.day \in shown
  /\ o.how \in {"got", "hit", "fetched"} /\ ~live => o.day \in UpTo(known, date) .. date
  /\ o.how = "fallback" /\ ~live => o.day < date
  /\ o.how = "got" /\ ~live /\ DayOf(o.at) > date + MaxDelay => o.day = UpTo(Published, date)
  /\ o.how = "got" /\ live => \A h \in Hours : h <= o.at => news[h] <= o.day
  /\ o.how = "hit" /\ live => o.at <= now /\ (o.at >= Staleness => o.day >= news[o.at - Staleness])

ItemsTrue(j, now, shown, news) ==
  \A i \in DOMAIN j.out :
    ItemTrue(j.out[i], IsLive(j, i), DateOf(j, i), j.known, now, shown, news)

(* Every item that is not of the current period has a date. *)
Dated(j) ==
  \A i \in DOMAIN j.out : /\ ~IsLive(j, i) => DateOf(j, i) \in Day
                          /\ j.kind = "keys" => i[1] # None

(* A range that was answered has every table from its floor on. *)
RangeTrue(j, now, shown) ==
  j.step = "merge" =>
    /\ j.days \subseteq shown /\ Recent(j.at, now)
    /\ \A d \in j.dates : DayOf(j.at) > d + MaxDelay =>
         \A p \in Published : j.floor <= p /\ p <= d => p \in j.days

(* A table of months has each currency, and fails one whole. *)
MonthsWhole(j) ==
  j.kind = "months" =>
    /\ \A n \in Currency : \E i \in DOMAIN j.out : i[2] = n
    /\ \A i, k \in DOMAIN j.out :
         i[2] = k[2] /\ j.out[i].how = "failed" => j.out[k].how = "failed"

JobTrue(j, now, shown, news) ==
  /\ j \in Job /\ j.known \subseteq shown
  /\ Dated(j) /\ CacheTrue(j.snap, shown) /\ RangeTrue(j, now, shown)
  /\ ItemsTrue(j, now, shown, news) /\ MonthsWhole(j)

(* The two ways to say that outcomes are typed. *)
LEMMA OutTypeIs ==
  /\ \A D \in SUBSET Slot : \A o \in [D -> OutcomeType] : o \in OutType
  /\ \A o \in OutType : DOMAIN o \in SUBSET Slot /\ o \in [DOMAIN o -> OutcomeType]
BY DEF OutType

(* The outcomes that carry no day. *)
LEMMA FixedOutcomes ==
  /\ Open \in OutcomeType /\ Failed \in OutcomeType
  /\ Open.how = "open" /\ Failed.how = "failed"
<1>1. 0 \in Hours
  BY Calendar DEF Hours
<1> QED
  BY <1>1 DEF Open, Failed, OutcomeType, Hours, None

(* Nothing is claimed of an item that has no answer. *)
LEMMA NoClaim ==
  ASSUME NEW o, o.how \in {"open", "loaded", "failed"},
         NEW live, NEW date, NEW known, NEW now, NEW shown, NEW news
  PROVE  ItemTrue(o, live, date, known, now, shown, news)
BY DEF ItemTrue, Answers

(* What an outcome made of an answer is. *)
LEMMA OutcomeIs ==
  ASSUME NEW j \in Job, NEW i \in DOMAIN j.out, NEW how \in Answers, NEW day \in OptDay,
         hour \in Hours
  PROVE  /\ Outcome(j, i, how, day) \in OutcomeType
         /\ \/ Outcome(j, i, how, day).how = "failed"
            \/ /\ Outcome(j, i, how, day).how = how /\ Outcome(j, i, how, day).day = day
               /\ Outcome(j, i, how, day).at = IF IsLive(j, i) THEN hour ELSE 0
               /\ day # None
<1>1. j.out[i] \in OutcomeType
  BY OutTypeIs DEF Job
<1>2. CASE ~Crosses(day, i[2])
  BY <1>2, FixedOutcomes DEF Outcome
<1>3. CASE Crosses(day, i[2])
  <2>1. day # None
    BY <1>3 DEF Crosses
  <2>2. Outcome(j, i, how, day) =
          [j.out[i] EXCEPT !.how = how, !.day = day, !.at = IF IsLive(j, i) THEN hour ELSE 0]
    BY <1>3 DEF Outcome
  <2>3. 0 \in Hours
    BY Calendar DEF Hours
  <2> QED
    BY <1>1, <2>1, <2>2, <2>3 DEF OutcomeType, OptDay, Hours, Answers
<1> QED
  BY <1>2, <1>3

(* Settling an item that was not settled keeps a lookup true. *)
LEMMA SettleIsTrue ==
  ASSUME NEW j, NEW now, NEW shown, NEW news, JobTrue(j, now, shown, news),
         NEW i \in DOMAIN j.out, ~Settled(j.out[i]), NEW o \in OutcomeType,
         ItemTrue(o, IsLive(j, i), DateOf(j, i), j.known, now, shown, news)
  PROVE  /\ JobTrue(Settle(j, i, o), now, shown, news)
         /\ Settle(j, i, o) = [j EXCEPT !.out = Settle(j, i, o).out]
<1> DEFINE new == Settle(j, i, o)
           out == [k \in DOMAIN j.out |->
                     IF k = i \/ (o.how = "failed" /\ j.kind = "months" /\ k[2] = i[2])
                     THEN o ELSE j.out[k]]
<1>1. j \in Job /\ j.out \in OutType
  BY DEF JobTrue, Job
<1>2. new = [j EXCEPT !.out = out] /\ new.out = out
  BY <1>1 DEF Settle, Job
<1>3. out \in OutType /\ DOMAIN out = DOMAIN j.out
  BY <1>1, OutTypeIs
<1> HIDE DEF out, new
<1>4. new \in Job
  BY <1>1, <1>2, <1>3 DEF Job
<1>5. /\ new.kind = j.kind /\ new.live = j.live /\ new.previous = j.previous
      /\ new.step = j.step /\ new.snap = j.snap /\ new.days = j.days /\ new.dates = j.dates
      /\ new.floor = j.floor /\ new.at = j.at /\ new.known = j.known
  BY <1>1, <1>2 DEF Job
<1>6. \A k \in DOMAIN j.out : IsLive(new, k) = IsLive(j, k) /\ DateOf(new, k) = DateOf(j, k)
  BY <1>5 DEF IsLive, DateOf
<1>7. Dated(new) /\ RangeTrue(new, now, shown) /\ CacheTrue(new.snap, shown)
  BY <1>2, <1>3, <1>5, <1>6 DEF JobTrue, Dated, RangeTrue
<1>8. ItemsTrue(new, now, shown, news)
  <2> SUFFICES ASSUME NEW k \in DOMAIN j.out
               PROVE  ItemTrue(out[k], IsLive(j, k), DateOf(j, k), j.known, now, shown, news)
    BY <1>2, <1>3, <1>5, <1>6 DEF ItemsTrue
  <2>1. CASE k = i
    BY <2>1 DEF out
  <2>2. CASE k # i /\ out[k] = j.out[k]
    BY <2>2 DEF JobTrue, ItemsTrue
  <2>3. CASE k # i /\ out[k] # j.out[k]
    <3>1. out[k].how = "failed"
      BY <2>3 DEF out
    <3> QED
      BY <3>1, NoClaim
  <2> QED
    BY <2>1, <2>2, <2>3
<1>9. MonthsWhole(new)
  <2> SUFFICES ASSUME j.kind = "months", NEW k \in DOMAIN j.out, NEW l \in DOMAIN j.out,
                      k[2] = l[2], out[k].how = "failed"
               PROVE  out[l].how = "failed"
    BY <1>2, <1>3, <1>5 DEF MonthsWhole, JobTrue
  <2>1. j.out[i].how # "failed"
    BY DEF Settled
  <2>2. j.out[k].how = "failed" => k[2] # i[2]
    BY <2>1 DEF JobTrue, MonthsWhole
  <2>3. CASE j.out[k].how = "failed"
    <3>1. j.out[l].how = "failed" /\ l[2] # i[2]
      BY <2>2, <2>3 DEF JobTrue, MonthsWhole
    <3> QED
      BY <3>1 DEF out
  <2>4. CASE j.out[k].how # "failed"
    BY <2>4 DEF out
  <2> QED
    BY <2>3, <2>4
<1>10. new.known \subseteq shown
  BY <1>5 DEF JobTrue
<1>11. JobTrue(new, now, shown, news) /\ new = [j EXCEPT !.out = new.out]
  BY <1>2, <1>4, <1>7, <1>8, <1>9, <1>10 DEF JobTrue
<1> QED
  BY <1>11 DEF new

(* A lookup that keeps its items stays true with a true snapshot and range. *)
LEMMA FrameIsTrue ==
  ASSUME NEW j, NEW now, NEW shown, NEW news, JobTrue(j, now, shown, news), NEW k \in Job,
         k.kind = j.kind, k.live = j.live, k.previous = j.previous, k.known = j.known,
         k.out = j.out, CacheTrue(k.snap, shown), RangeTrue(k, now, shown)
  PROVE  JobTrue(k, now, shown, news)
<1>1. \A i : IsLive(k, i) = IsLive(j, i) /\ DateOf(k, i) = DateOf(j, i)
  BY DEF IsLive, DateOf
<1>2. Dated(k) /\ ItemsTrue(k, now, shown, news) /\ MonthsWhole(k)
  BY <1>1 DEF JobTrue, Dated, ItemsTrue, MonthsWhole
<1> QED
  BY <1>2 DEF JobTrue

(* Forgetting that the parse is still the same makes no lookup untrue. *)
LEMMA SameIsTrue ==
  ASSUME NEW j, NEW now, NEW shown, NEW news, JobTrue(j, now, shown, news)
  PROVE  JobTrue([j EXCEPT !.same = FALSE], now, shown, news)
<1> DEFINE k == [j EXCEPT !.same = FALSE]
<1>1. j \in Job
  BY DEF JobTrue
<1>2. /\ k \in Job /\ k.kind = j.kind /\ k.live = j.live /\ k.previous = j.previous
      /\ k.known = j.known /\ k.out = j.out /\ k.snap = j.snap /\ k.step = j.step
      /\ k.days = j.days /\ k.dates = j.dates /\ k.floor = j.floor /\ k.at = j.at
  BY <1>1 DEF Job
<1> HIDE DEF k
<1>3. CacheTrue(k.snap, shown) /\ RangeTrue(k, now, shown)
  BY <1>2 DEF JobTrue, RangeTrue
<1>4. JobTrue(k, now, shown, news)
  BY <1>2, <1>3, FrameIsTrue
<1> QED
  BY <1>4 DEF k

(* More tables shown: what was true stays true. *)
LEMMA ShownMore ==
  ASSUME NEW shown, NEW more, shown \subseteq more, NEW now, NEW news
  PROVE  /\ \A cache : CacheTrue(cache, shown) => CacheTrue(cache, more)
         /\ \A j : JobTrue(j, now, shown, news) => JobTrue(j, now, more, news)
<1>1. \A cache : CacheTrue(cache, shown) => CacheTrue(cache, more)
  BY DEF CacheTrue
<1>2. ASSUME NEW j, JobTrue(j, now, shown, news)
      PROVE  JobTrue(j, now, more, news)
  <2>1. ItemsTrue(j, now, more, news)
    BY <1>2 DEF JobTrue, ItemsTrue, ItemTrue
  <2>2. RangeTrue(j, now, more)
    BY <1>2 DEF JobTrue, RangeTrue
  <2> QED
    BY <1>1, <1>2, <2>1, <2>2 DEF JobTrue
<1> QED
  BY <1>1, <1>2

(* An hour later: no request is older than that. *)
LEMMA HourLater ==
  ASSUME NEW j, NEW now \in Hours, NEW shown, NEW news \in [Hours -> OptDay], NEW x,
         JobTrue(j, now, shown, news), now + 1 \in Hours,
         j.step = "merge" => ~(j.at < now),
         \A i \in DOMAIN j.out : ~(InFlight(j.out[i]) /\ j.out[i].at < now)
  PROVE  JobTrue(j, now + 1, shown, [news EXCEPT ![now + 1] = x])
<1> DEFINE later == [news EXCEPT ![now + 1] = x]
<1>1. now \in Nat /\ Hours \subseteq Nat /\ Staleness \in Nat
  BY FxAssumption, Calendar DEF Hours
<1>2. \A h \in Hours : h <= now => later[h] = news[h]
  BY <1>1
<1>3. j \in Job
  BY DEF JobTrue
<1>4. RangeTrue(j, now + 1, shown)
  <2>1. j.at \in Nat
    BY <1>1, <1>3 DEF Job
  <2>2. j.step = "merge" => Recent(j.at, now + 1)
    BY <2>1, <1>1 DEF JobTrue, RangeTrue, Recent
  <2> QED
    BY <2>2 DEF JobTrue, RangeTrue
<1>5. ItemsTrue(j, now + 1, shown, later)
  <2> SUFFICES ASSUME NEW i \in DOMAIN j.out
               PROVE  ItemTrue(j.out[i], IsLive(j, i), DateOf(j, i), j.known,
                               now + 1, shown, later)
    BY DEF ItemsTrue
  <2> DEFINE o == j.out[i]
  <2>1. o.at \in Hours /\ o.at \in Nat
    BY <1>1, <1>3, OutTypeIs DEF Job, OutcomeType, Hours
  <2>2. ItemTrue(o, IsLive(j, i), DateOf(j, i), j.known, now, shown, news)
    BY DEF JobTrue, ItemsTrue
  <2>3. o.how = "got" => ~(o.at < now)
    BY DEF InFlight
  <2> HIDE DEF o, later
  <2>4. o.how = "got" => Recent(o.at, now + 1)
    BY <2>1, <2>2, <2>3, <1>1 DEF ItemTrue, Recent
  <2>5. o.how = "got" /\ IsLive(j, i) => \A h \in Hours : h <= o.at => later[h] <= o.day
    <3> SUFFICES ASSUME o.how = "got", IsLive(j, i), NEW h \in Hours, h <= o.at
                 PROVE  later[h] <= o.day
      OBVIOUS
    <3>1. h <= now
      BY <2>1, <2>2, <1>1 DEF ItemTrue, Recent
    <3> QED
      BY <3>1, <2>2, <1>2 DEF ItemTrue
  <2>6. o.how = "hit" /\ IsLive(j, i) =>
          o.at <= now + 1 /\ (o.at >= Staleness => o.day >= later[o.at - Staleness])
    <3> SUFFICES ASSUME o.how = "hit", IsLive(j, i)
                 PROVE  o.at <= now + 1 /\ (o.at >= Staleness => o.day >= later[o.at - Staleness])
      OBVIOUS
    <3>1. o.at <= now /\ (o.at >= Staleness => o.day >= news[o.at - Staleness])
      BY <2>2 DEF ItemTrue
    <3>2. o.at >= Staleness => o.at - Staleness \in Hours /\ o.at - Staleness <= now
      BY <3>1, <2>1, <1>1, Calendar DEF Hours
    <3> QED
      BY <3>1, <3>2, <1>1, <1>2, <2>1
  <2>7. ItemTrue(o, IsLive(j, i), DateOf(j, i), j.known, now + 1, shown, later)
    BY <2>2, <2>4, <2>5, <2>6 DEF ItemTrue
  <2> QED
    BY <2>7 DEF o
<1> QED
  BY <1>4, <1>5 DEF JobTrue

-----------------------------------------------------------------------------
(* The inductive invariant.                                                *)

(* The entry of the newest rate is no older than the hour before its store. *)
LatestTrue(cache, now, news) ==
  /\ cache.fetchedAt <= now
  /\ \A h \in Hours : h < cache.fetchedAt => news[h] <= cache.latest

(* No table is later than MaxDelay. *)
Timely == \A p \in Published \ visible : DayOf(hour) <= p + MaxDelay

NewestTrue ==
  /\ newest \in [Hours -> OptDay]
  /\ \A h \in Hours : h <= hour => newest[h] <= Largest(visible)

FileTrue == CacheTrue(file, visible) /\ LatestTrue(file, hour, newest)

LookupsTrue ==
  /\ job \in [Client -> Job \cup {Idle}]
  /\ \A c \in Client : job[c] # Idle => JobTrue(job[c], hour, visible, newest)

IInv ==
  /\ hour \in Hours /\ visible \in SUBSET Published /\ reference \in Reference
  /\ NewestTrue /\ Timely /\ FileTrue /\ MemoIsCurrent /\ LookupsTrue

Proceeds == IInv' /\ Grown(file, file')

(* A step that leaves the file alone. *)
LEMMA ContinueProceeds ==
  ASSUME IInv, NEW c \in Client, NEW j,
         j = Idle \/ JobTrue(j, hour, visible, newest),
         Continue(c, j), UNCHANGED <<world, file>>, reference' \in Reference,
         memo' \subseteq {file}
  PROVE  Proceeds
<1>1. UNCHANGED <<hour, visible, newest, file>>
  BY DEF world
<1>2. j \in Job \cup {Idle}
  BY DEF JobTrue
<1>3. LookupsTrue'
  <2>1. job' \in [Client -> Job \cup {Idle}] /\ \A d \in Client : job'[d] = IF d = c THEN j ELSE job[d]
    BY <1>2 DEF Continue, IInv, LookupsTrue
  <2>2. \A d \in Client : job'[d] # Idle => JobTrue(job'[d], hour', visible', newest')
    BY <2>1, <1>1 DEF IInv, LookupsTrue
  <2> QED
    BY <2>1, <2>2 DEF LookupsTrue
<1>4. NewestTrue' /\ Timely' /\ FileTrue' /\ MemoIsCurrent'
  BY <1>1 DEF IInv, NewestTrue, Timely, FileTrue, MemoIsCurrent
<1>5. Grown(file, file')
  BY <1>1 DEF Grown
<1> QED
  BY <1>1, <1>3, <1>4, <1>5 DEF IInv, Proceeds

(* A step that saves the file. *)
LEMMA SaveProceeds ==
  ASSUME IInv, NEW c \in Client, NEW j, NEW cache,
         JobTrue(j, hour, visible, newest),
         CacheTrue(cache, visible), LatestTrue(cache, hour, newest), Grown(file, cache),
         SaveFile(c, j, cache), UNCHANGED <<world, settings>>
  PROVE  Proceeds
<1>1. UNCHANGED <<hour, visible, newest, reference>>
  BY DEF world, settings
<1>2. file' = cache /\ memo' = {}
  BY DEF SaveFile
<1>3. LookupsTrue'
  <2>1. \A d \in Client : job'[d] = IF d = c THEN j ELSE IF job[d] = Idle THEN Idle
                                    ELSE [job[d] EXCEPT !.same = FALSE]
    BY DEF SaveFile
  <2>2. \A d \in Client : job'[d] # Idle => JobTrue(job'[d], hour, visible, newest)
    <3> SUFFICES ASSUME NEW d \in Client, job'[d] # Idle
                 PROVE  JobTrue(job'[d], hour, visible, newest)
      OBVIOUS
    <3>1. CASE d = c
      BY <3>1, <2>1
    <3>2. CASE d # c
      <4>1. job[d] # Idle /\ job'[d] = [job[d] EXCEPT !.same = FALSE]
        BY <3>2, <2>1
      <4>2. JobTrue(job[d], hour, visible, newest)
        BY <4>1 DEF IInv, LookupsTrue
      <4> QED
        BY <4>1, <4>2, SameIsTrue
    <3> QED
      BY <3>1, <3>2
  <2>3. \A d \in Client : job'[d] \in Job \cup {Idle}
    BY <2>2 DEF JobTrue
  <2>4. job' \in [Client -> Job \cup {Idle}]
    BY <2>3 DEF SaveFile
  <2> QED
    BY <2>2, <2>4, <1>1 DEF LookupsTrue
<1>4. NewestTrue' /\ Timely' /\ FileTrue' /\ MemoIsCurrent'
  BY <1>1, <1>2 DEF IInv, NewestTrue, Timely, FileTrue, MemoIsCurrent
<1> QED
  BY <1>1, <1>2, <1>3, <1>4 DEF IInv, Proceeds

(* A lookup under way, by the invariant. *)
LEMMA LookupIs ==
  ASSUME IInv, NEW c \in Client, job[c] # Idle
  PROVE  job[c] \in Job /\ JobTrue(job[c], hour, visible, newest)
BY DEF IInv, LookupsTrue, JobTrue

(* A step that only moves a lookup on, with its items as they are. *)
LEMMA FrameProceeds ==
  ASSUME IInv, NEW c \in Client, job[c] # Idle, NEW k \in Job,
         k.kind = job[c].kind, k.live = job[c].live, k.previous = job[c].previous,
         k.known = job[c].known, k.out = job[c].out,
         CacheTrue(k.snap, visible), RangeTrue(k, hour, visible),
         Continue(c, k), UNCHANGED <<world, file, settings>>, memo' \subseteq {file}
  PROVE  Proceeds
<1>1. JobTrue(k, hour, visible, newest)
  BY LookupIs, FrameIsTrue
<1>2. reference' \in Reference
  BY DEF IInv, settings
<1> QED
  BY <1>1, <1>2, ContinueProceeds

(* A step that settles an item and leaves the file alone. *)
LEMMA SettleProceeds ==
  ASSUME IInv, NEW c \in Client, job[c] # Idle, NEW i \in DOMAIN job[c].out,
         ~Settled(job[c].out[i]), NEW o \in OutcomeType,
         ItemTrue(o, IsLive(job[c], i), DateOf(job[c], i), job[c].known,
                  hour, visible, newest),
         Continue(c, Settle(job[c], i, o)), UNCHANGED <<world, file, memo, settings>>
  PROVE  Proceeds
<1>1. JobTrue(Settle(job[c], i, o), hour, visible, newest)
  BY LookupIs, SettleIsTrue
<1>2. reference' \in Reference /\ memo' \subseteq {file}
  BY DEF IInv, settings, MemoIsCurrent
<1> QED
  BY <1>1, <1>2, ContinueProceeds

-----------------------------------------------------------------------------
(* One lemma for each action.                                              *)

(* An empty cache and no lookup say nothing untrue. *)
LEMMA InitTrue == Init => IInv
<1> SUFFICES ASSUME Init PROVE IInv
  OBVIOUS
<1> USE DEF Init
<1>1. hour \in Hours /\ hour = 0
  BY Calendar DEF Hours
<1>2. visible \in SUBSET Published
  OBVIOUS
<1>3. reference \in Reference
  <2>1. Reference \in SUBSET Nat /\ Reference # {}
    BY FxAssumption
  <2> QED
    BY <2>1, LeastIn
<1>4. NewestTrue
  <2>1. newest \in [Hours -> OptDay]
    BY DEF Hours, OptDay
  <2>2. \A h \in Hours : newest[h] = 0
    BY DEF Hours, None
  <2>3. Largest(visible) = 0
    BY DEF Largest, None
  <2> QED
    <3>1. \A h \in Hours : newest[h] <= Largest(visible)
      <4> HIDE DEF Init
      <4> QED
        BY <2>2, <2>3
    <3> QED
      BY <2>1, <3>1 DEF NewestTrue
<1>5. Timely
  <2>1. DayOf(0) = 1
    BY DayOfSteps
  <2>2. \A p \in Published : p \in Nat /\ p >= 1
    BY FxAssumption, Calendar DEF Day
  <2> QED
    BY <1>1, <2>1, <2>2, FxAssumption DEF Timely
<1>6. FileTrue
  <2>1. EmptyCache \in Cache
    BY Calendar DEF EmptyCache, Cache
  <2>2. CacheTrue(EmptyCache, visible)
    BY <2>1 DEF EmptyCache, CacheTrue
  <2>3. EmptyCache.fetchedAt = 0
    BY DEF EmptyCache
  <2>4. LatestTrue(EmptyCache, hour, newest)
    BY <1>1, <2>3 DEF LatestTrue, Hours
  <2> QED
    BY <2>2, <2>4 DEF FileTrue
<1>7. MemoIsCurrent /\ LookupsTrue
  BY DEF MemoIsCurrent, LookupsTrue
<1> QED
  BY <1>1, <1>2, <1>3, <1>4, <1>5, <1>6, <1>7 DEF IInv

(* One more published table makes nothing untrue. *)
LEMMA PublishProceeds == ASSUME IInv, Publish PROVE Proceeds
<1> USE DEF Publish
<1>1. UNCHANGED <<hour, newest, file, memo, reference, job>>
  BY DEF settings
<1>2. Published \in SUBSET Day /\ Published \in SUBSET Nat
  BY FxAssumption, Calendar
<1>3. Published \ visible \in SUBSET Nat /\ Published \ visible # {}
  BY <1>2
<1>4. Least(Published \ visible) \in Published \ visible
  BY <1>3, LeastIn
<1>5. visible' \in SUBSET Published /\ visible \subseteq visible'
  BY <1>4 DEF IInv
<1>6. NewestTrue'
  <2>1. visible \in SUBSET Day /\ visible' \in SUBSET Day
    BY <1>2, <1>5
  <2>2. Largest(visible) <= Largest(visible') /\ Largest(visible) \in Nat /\ Largest(visible') \in Nat
    <3>1. Largest(visible) \in OptDay /\ Largest(visible') \in OptDay
      BY <2>1, LargestIn
    <3>2. Largest(visible) \in Nat /\ Largest(visible') \in Nat
      BY <3>1, Calendar
    <3>3. CASE visible = {}
      BY <3>2, <3>3, LargestIn DEF None, Largest
    <3>4. CASE visible # {}
      BY <3>2, <3>4, <2>1, <1>5, LargestIn
    <3> QED
      BY <3>2, <3>3, <3>4
  <2>3. \A h \in Hours : newest[h] \in Nat
    BY Calendar DEF IInv, NewestTrue
  <2> QED
    BY <1>1, <2>2, <2>3 DEF IInv, NewestTrue
<1>7. Timely'
  BY <1>1, <1>5 DEF IInv, Timely
<1>8. FileTrue' /\ LookupsTrue' /\ MemoIsCurrent'
  <2>1. CacheTrue(file, visible')
    BY <1>5, ShownMore DEF IInv, FileTrue
  <2>2. \A c \in Client : job[c] # Idle => JobTrue(job[c], hour, visible', newest)
    BY <1>5, ShownMore DEF IInv, LookupsTrue
  <2> QED
    BY <1>1, <2>1, <2>2 DEF IInv, FileTrue, LookupsTrue, MemoIsCurrent
<1> QED
  BY <1>1, <1>5, <1>6, <1>7, <1>8 DEF IInv, Proceeds, Grown

(* The passing of an hour makes nothing untrue. *)
LEMMA NextHourProceeds == ASSUME IInv, NextHour PROVE Proceeds
<1> USE DEF NextHour
<1>1. UNCHANGED <<visible, file, memo, reference, job>> /\ hour' = hour + 1
  BY DEF settings
<1>2. hour \in Hours /\ hour' \in Hours /\ Hours \subseteq Nat
  BY <1>1, Calendar DEF IInv, Hours
<1>3. newest' = [newest EXCEPT ![hour + 1] = Largest(visible)] /\ newest \in [Hours -> OptDay]
  BY DEF IInv, NewestTrue
<1>4. Largest(visible) \in OptDay
  <2>1. visible \in SUBSET Day
    BY FxAssumption DEF IInv
  <2> QED
    BY <2>1, LargestIn
<1>5. \A h \in Hours : h <= hour => newest'[h] = newest[h]
  BY <1>2, <1>3
<1>6. NewestTrue'
  <2>1. newest' \in [Hours -> OptDay]
    BY <1>3, <1>4
  <2>2. newest'[hour + 1] = Largest(visible) /\ Largest(visible) \in Nat
    BY <1>1, <1>2, <1>3, <1>4, Calendar
  <2>3. \A h \in Hours : h <= hour + 1 => h <= hour \/ h = hour + 1
    BY <1>2
  <2>4. \A h \in Hours : h <= hour + 1 => newest'[h] <= Largest(visible)
    BY <2>2, <2>3, <1>5 DEF IInv, NewestTrue
  <2> QED
    BY <2>1, <2>4, <1>1 DEF NewestTrue
<1>7. Timely'
  BY <1>1 DEF Timely
<1>8. FileTrue'
  <2>1. file.fetchedAt \in Nat /\ file.fetchedAt <= hour
    BY <1>2 DEF IInv, FileTrue, LatestTrue, CacheTrue, Cache, Hours
  <2>2. LatestTrue(file, hour', newest')
    <3>1. \A h \in Hours : h < file.fetchedAt => h <= hour
      BY <2>1, <1>2
    <3>2. \A h \in Hours : h < file.fetchedAt => newest'[h] <= file.latest
      BY <3>1, <1>5 DEF IInv, FileTrue, LatestTrue
    <3>3. file.fetchedAt <= hour'
      BY <2>1, <1>1, <1>2
    <3> QED
      BY <3>2, <3>3 DEF LatestTrue
  <2> QED
    BY <2>2, <1>1 DEF IInv, FileTrue
<1>9. LookupsTrue'
  <2>1. ASSUME NEW c \in Client, job[c] # Idle
        PROVE  JobTrue(job[c], hour + 1, visible, newest')
    <3>1. JobTrue(job[c], hour, visible, newest)
      BY <2>1, LookupIs
    <3>2. ~(job[c].step = "merge" /\ job[c].at < hour)
      BY <2>1 DEF InFlightSince
    <3>3. \A i \in DOMAIN job[c].out : ~(InFlight(job[c].out[i]) /\ job[c].out[i].at < hour)
      BY <2>1 DEF InFlightSince
    <3>4. hour + 1 \in Hours
      BY <1>1, <1>2
    <3>5. JobTrue(job[c], hour + 1, visible, [newest EXCEPT ![hour + 1] = Largest(visible)])
      <4> HIDE DEF NextHour
      <4> QED
        BY <3>1, <3>2, <3>3, <3>4, <1>2, <1>3, HourLater
    <3> QED
      BY <3>5, <1>3
  <2> QED
    BY <2>1, <1>1 DEF IInv, LookupsTrue
<1> QED
  BY <1>1, <1>2, <1>6, <1>7, <1>8, <1>9 DEF IInv, Proceeds, Grown, MemoIsCurrent

(* The reference currency touches no rate. *)
LEMMA SetReferenceProceeds == ASSUME IInv, SetReference PROVE Proceeds
BY DEF IInv, SetReference, world, Proceeds, Grown, NewestTrue, Timely, FileTrue,
       MemoIsCurrent, LookupsTrue

(* Nothing happens, nothing becomes untrue. *)
LEMMA StutterProceeds == ASSUME IInv, UNCHANGED vars PROVE Proceeds
BY DEF IInv, vars, world, settings, Proceeds, Grown, NewestTrue, Timely, FileTrue,
       MemoIsCurrent, LookupsTrue

(* A lookup starts with nothing it could be wrong about. *)
LEMMA NewJobIsTrue ==
  ASSUME IInv, NEW r \in Request, HasDates(r)
  PROVE  JobTrue(NewJob(r), hour, visible, newest)
<1> DEFINE j == NewJob(r)
<1>1. /\ r.kind \in {"on", "keys", "months", "latest"} /\ r.want \in SUBSET Day
      /\ r.live \in BOOLEAN
      /\ r.kind = "latest" => r.live
      /\ r.kind = "months" => r.want # {}
  BY FxAssumption
<1>2. visible \in SUBSET Day /\ reference \in Reference /\ 0 \in Hours
  BY FxAssumption, Calendar DEF IInv, Hours
<1>3. PreviousMonthEnd \in OptDay
  <2>1. Completed(MonthEnd) \in SUBSET Day
    BY FxAssumption DEF Completed
  <2> QED
    BY <2>1, LargestIn DEF PreviousMonthEnd
<1>4. EmptyCache \in Cache /\ CacheTrue(EmptyCache, visible)
  BY <1>2 DEF EmptyCache, Cache, CacheTrue, Hours
<1>5. Items(r) \in SUBSET Slot
  <2>1. CASE r.kind = "latest"
    BY <2>1 DEF Items, Slot, OptDay
  <2>2. CASE r.kind = "months"
    BY <1>1, <2>2 DEF Items, Slot, OptDay, Completed
  <2>3. CASE r.kind \in {"on", "keys"}
    BY <1>1, <2>3 DEF Items, Slot, OptDay
  <2> QED
    BY <1>1, <2>1, <2>2, <2>3
<1>6. /\ j.kind = r.kind /\ j.live = r.live /\ j.previous = PreviousMonthEnd
      /\ j.snap = EmptyCache /\ j.known = visible /\ j.step # "merge"
      /\ j.out = [i \in Items(r) |-> Open]
  BY DEF NewJob
<1>7. j \in Job
  <2>1. [i \in Items(r) |-> Open] \in OutType
    BY <1>5, FixedOutcomes, OutTypeIs
  <2> QED
    BY <2>1, <1>1, <1>2, <1>3, <1>4 DEF NewJob, Job, OptDay
<1> HIDE DEF j
<1>8. Dated(j)
  <2> SUFFICES ASSUME NEW i \in Items(r)
               PROVE  /\ ~IsLive(j, i) => DateOf(j, i) \in Day
                      /\ j.kind = "keys" => i[1] # None
    BY <1>6 DEF Dated
  <2>1. CASE r.kind \in {"on", "keys"}
    <3>1. i[1] \in Day
      BY <1>1, <2>1 DEF Items
    <3> QED
      BY <3>1, Calendar DEF DateOf
  <2>2. CASE r.kind = "latest"
    BY <1>1, <1>6, <2>2 DEF Items, IsLive
  <2>3. CASE r.kind = "months" /\ i[1] # None
    <3>1. i[1] \in Day
      BY <1>1, <2>3 DEF Items, Completed
    <3> QED
      BY <3>1, <1>6, <2>3 DEF DateOf
  <2>4. CASE r.kind = "months" /\ i[1] = None
    <3>1. ReachesCurrent(r.want)
      BY <1>1, <2>4, Calendar DEF Items, Completed
    <3>2. PreviousMonthEnd \in Day
      BY <3>1, <2>4, <1>3 DEF HasDates, OptDay
    <3> QED
      BY <3>2, <1>6, <2>4 DEF DateOf
  <2> QED
    BY <1>1, <2>1, <2>2, <2>3, <2>4
<1>9. MonthsWhole(j)
  <2> SUFFICES ASSUME r.kind = "months", NEW n \in Currency
               PROVE  \E i \in Items(r) : i[2] = n
    BY <1>6, FixedOutcomes DEF MonthsWhole
  <2>1. Largest(r.want) \in r.want /\ Largest(r.want) \in Nat
    BY <1>1, LargestIn, Calendar
  <2>2. CASE ReachesCurrent(r.want)
    <3>1. <<None, n>> \in Items(r)
      BY <2>2 DEF Items
    <3> QED
      BY <3>1
  <2>3. CASE ~ReachesCurrent(r.want)
    <3>1. Today \in Nat
      BY DayOfSteps, Calendar DEF Today, IInv, Hours
    <3>2. Largest(r.want) \in Completed(r.want)
      BY <2>1, <2>3, <3>1 DEF ReachesCurrent, Completed
    <3>3. <<Largest(r.want), n>> \in Items(r)
      BY <3>2 DEF Items
    <3> QED
      BY <3>3
  <2> QED
    BY <2>2, <2>3
<1>10. ItemsTrue(j, hour, visible, newest)
  BY <1>6, FixedOutcomes, NoClaim DEF ItemsTrue
<1>11. JobTrue(j, hour, visible, newest)
  BY <1>4, <1>6, <1>7, <1>8, <1>9, <1>10 DEF JobTrue, RangeTrue
<1> QED
  BY <1>11 DEF j

(* A request begins. *)
LEMMA BeginProceeds == ASSUME IInv, NEW c \in Client, Begin(c) PROVE Proceeds
<1>1. PICK r \in Request : HasDates(r) /\ Continue(c, NewJob(r))
  BY DEF Begin
<1>2. JobTrue(NewJob(r), hour, visible, newest)
  BY <1>1, NewJobIsTrue
<1>3. UNCHANGED <<world, file>> /\ reference' \in Reference /\ memo' \subseteq {file}
  BY DEF Begin, settings, IInv, MemoIsCurrent
<1> QED
  BY <1>1, <1>2, <1>3, ContinueProceeds

(* The cache is read, from the memo or from the file. *)
LEMMA LoadProceeds ==
  ASSUME IInv, NEW c \in Client, LoadHit(c) \/ LoadMiss(c) \/ LoadRead(c)
  PROVE  Proceeds
<1> DEFINE j == job[c]
<1>1. j # Idle /\ CacheTrue(file, visible) /\ memo \subseteq {file}
  BY DEF LoadHit, LoadMiss, LoadRead, Idle, IInv, FileTrue, MemoIsCurrent
<1>2. j \in Job /\ JobTrue(j, hour, visible, newest)
  BY <1>1, LookupIs
<1>3. UNCHANGED <<world, file, settings>> /\ memo' \subseteq {file}
  BY <1>1 DEF LoadHit, LoadMiss, LoadRead
<1>4. CASE Continue(c, Loaded(j, file))
  <2> DEFINE k == Loaded(j, file)
  <2>1. /\ k \in Job /\ k.kind = j.kind /\ k.live = j.live /\ k.previous = j.previous
        /\ k.known = j.known /\ k.out = j.out /\ k.snap = file /\ k.step # "merge"
    BY <1>1, <1>2 DEF Loaded, Job, CacheTrue
  <2> HIDE DEF k
  <2>2. CacheTrue(k.snap, visible) /\ RangeTrue(k, hour, visible)
    BY <1>1, <2>1 DEF RangeTrue
  <2>3. Continue(c, k)
    BY <1>4 DEF k
  <2> QED
    BY <1>1, <1>3, <2>1, <2>2, <2>3, FrameProceeds
<1>5. CASE Continue(c, [j EXCEPT !.step = "read", !.same = TRUE])
  <2> DEFINE k == [j EXCEPT !.step = "read", !.same = TRUE]
  <2>1. /\ k \in Job /\ k.kind = j.kind /\ k.live = j.live /\ k.previous = j.previous
        /\ k.known = j.known /\ k.out = j.out /\ k.snap = j.snap /\ k.step # "merge"
    BY <1>2 DEF Job
  <2> HIDE DEF k
  <2>2. CacheTrue(k.snap, visible) /\ RangeTrue(k, hour, visible)
    BY <1>2, <2>1 DEF RangeTrue, JobTrue
  <2>3. Continue(c, k)
    BY <1>5 DEF k
  <2> QED
    BY <1>1, <1>3, <2>1, <2>2, <2>3, FrameProceeds
<1> QED
  BY <1>1, <1>4, <1>5 DEF LoadHit, LoadMiss, LoadRead

(* A cache that cannot be read fails all that was asked. *)
LEMMA LoadFailsProceeds == ASSUME IInv, NEW c \in Client, LoadFails(c) PROVE Proceeds
<1> DEFINE j == job[c]
           out == [i \in DOMAIN j.out |-> Failed]
           k == [j EXCEPT !.step = "work", !.same = FALSE, !.out = out]
<1>1. j # Idle
  BY DEF LoadFails, Idle
<1>2. j \in Job /\ JobTrue(j, hour, visible, newest)
  BY <1>1, LookupIs
<1>3. out \in OutType
  BY <1>2, OutTypeIs, FixedOutcomes DEF Job
<1>4. Continue(c, k) /\ UNCHANGED <<world, file, memo, settings>>
  BY <1>2 DEF LoadFails, Job
<1>5. /\ k \in Job /\ k.kind = j.kind /\ k.live = j.live /\ k.previous = j.previous
      /\ k.known = j.known /\ k.out = out /\ k.snap = j.snap /\ k.step # "merge"
  BY <1>2, <1>3 DEF Job
<1> HIDE DEF k
<1>6. \A i : IsLive(k, i) = IsLive(j, i) /\ DateOf(k, i) = DateOf(j, i)
  BY <1>5 DEF IsLive, DateOf
<1>7. DOMAIN out = DOMAIN j.out /\ \A i \in DOMAIN out : out[i].how = "failed"
  BY FixedOutcomes
<1> HIDE DEF out
<1>8. Dated(k) /\ MonthsWhole(k)
  BY <1>2, <1>5, <1>6, <1>7 DEF JobTrue, Dated, MonthsWhole
<1>9. ItemsTrue(k, hour, visible, newest)
  BY <1>5, <1>7, NoClaim DEF ItemsTrue
<1>10. JobTrue(k, hour, visible, newest)
  BY <1>2, <1>5, <1>8, <1>9 DEF JobTrue, RangeTrue
<1>11. reference' \in Reference /\ memo' \subseteq {file}
  BY <1>4 DEF IInv, settings, MemoIsCurrent
<1> QED
  BY <1>4, <1>10, <1>11, ContinueProceeds

(* A range that needs no request changes nothing. *)
LEMMA PrewarmSkipsProceeds == ASSUME IInv, NEW c \in Client, PrewarmSkips(c) PROVE Proceeds
<1> DEFINE j == job[c]
           k == [j EXCEPT !.step = "work"]
<1>1. j # Idle /\ Continue(c, k) /\ UNCHANGED <<world, file, memo, settings>>
  BY DEF PrewarmSkips, Idle
<1>2. j \in Job /\ JobTrue(j, hour, visible, newest)
  BY <1>1, LookupIs
<1>3. /\ k \in Job /\ k.kind = j.kind /\ k.live = j.live /\ k.previous = j.previous
      /\ k.known = j.known /\ k.out = j.out /\ k.snap = j.snap /\ k.step # "merge"
  BY <1>2 DEF Job
<1> HIDE DEF k
<1>4. CacheTrue(k.snap, visible) /\ RangeTrue(k, hour, visible) /\ memo' \subseteq {file}
  BY <1>1, <1>2, <1>3 DEF RangeTrue, JobTrue, IInv, MemoIsCurrent
<1> QED
  BY <1>1, <1>3, <1>4, FrameProceeds

(* The answer goes out and the lookup is over. *)
LEMMA ReturnProceeds == ASSUME IInv, NEW c \in Client, Return(c) PROVE Proceeds
<1>1. /\ Continue(c, Idle) /\ UNCHANGED <<world, file>> /\ reference' \in Reference
      /\ memo' \subseteq {file}
  BY DEF Return, IInv, settings, MemoIsCurrent
<1> QED
  BY <1>1, ContinueProceeds

(* The range request: at an hour past the delay of a date, every table from *)
(* the floor up to the date is shown, and so among the days of the answer. *)
LEMMA RangeAnsweredProceeds == ASSUME IInv, NEW c \in Client, RangeAnswered(c) PROVE Proceeds
<1> DEFINE j == job[c]
           open == Unresolved(j.snap, PrewarmDates(j))
           min == RangeMin(j.snap, open)
           dates == {d \in open : min <= d /\ d <= Today}
           days == {p \in visible : min <= p /\ p <= Largest(open)}
           k == [j EXCEPT !.step = "merge", !.days = days, !.dates = dates,
                          !.floor = min, !.at = hour]
<1>1. /\ j # Idle /\ Continue(c, k) /\ UNCHANGED <<world, file, memo, settings>>
      /\ dates # {}
  BY DEF RangeAnswered, Idle
<1>2. j \in Job /\ JobTrue(j, hour, visible, newest) /\ j.snap.rates \in SUBSET Day
  BY <1>1, LookupIs DEF Job, Cache
<1>3. open \in SUBSET Day
  <2>1. PrewarmDates(j) \subseteq Day
    BY <1>2 DEF PrewarmDates, JobTrue, Dated
  <2> QED
    BY <2>1 DEF Unresolved
<1>4. open # {}
  BY <1>1
<1> HIDE DEF open
<1>5. min \in Day
  <2>1. Least(open) \in Day
    <3>1. open \in SUBSET Nat
      BY <1>3, Calendar
    <3> QED
      BY <3>1, <1>3, <1>4, LeastIn
  <2>2. j.snap.rates # {} => Least(j.snap.rates) \in Day
    <3>1. j.snap.rates \in SUBSET Nat
      BY <1>2, Calendar
    <3> QED
      BY <3>1, <1>2, LeastIn
  <2> DEFINE S == {Least(open), SeriesStart}
                  \cup (IF j.snap.rates = {} THEN {} ELSE {Least(j.snap.rates)})
  <2>3. S \in SUBSET Day /\ S # {}
    BY <2>1, <2>2, FxAssumption
  <2>4. min = Largest(S)
    BY DEF RangeMin
  <2> HIDE DEF S
  <2> QED
    BY <2>3, <2>4, LargestIn
<1> HIDE DEF min
<1>6. visible \in SUBSET Day /\ visible \in SUBSET Published /\ Published \in SUBSET Nat
  BY FxAssumption, Calendar DEF IInv
<1>7. hour \in Hours /\ hour \in Nat
  BY Calendar DEF IInv, Hours
<1>8. /\ k \in Job /\ k.kind = j.kind /\ k.live = j.live /\ k.previous = j.previous
      /\ k.known = j.known /\ k.out = j.out /\ k.snap = j.snap
      /\ k.days = days /\ k.dates = dates /\ k.floor = min /\ k.at = hour
  BY <1>2, <1>3, <1>5, <1>6, <1>7 DEF Job, OptDay
<1> HIDE DEF k
<1>9. RangeTrue(k, hour, visible)
  <2>1. ASSUME NEW d \in dates, DayOf(hour) > d + MaxDelay, NEW p \in Published, min <= p, p <= d
        PROVE  p \in days
    <3>1. d \in open /\ d \in Nat /\ p \in Nat /\ Largest(open) \in Nat /\ d <= Largest(open)
      BY <1>3, <1>6, LargestIn, Calendar
    <3>2. DayOf(hour) \in Nat /\ MaxDelay \in Nat
      BY <1>7, DayOfSteps, FxAssumption
    <3>3. p \in visible
      BY <2>1, <3>1, <3>2 DEF IInv, Timely
    <3> QED
      BY <2>1, <3>1, <3>3
  <2>2. Recent(hour, hour)
    BY <1>7 DEF Recent
  <2> QED
    BY <2>1, <2>2, <1>8 DEF RangeTrue
<1>10. CacheTrue(k.snap, visible) /\ memo' \subseteq {file}
  BY <1>1, <1>2, <1>8 DEF JobTrue, IInv, MemoIsCurrent
<1> QED
  BY <1>1, <1>8, <1>9, <1>10, FrameProceeds

(* The tables of a range are merged, whether the save worked or not. *)
LEMMA RangeMergedProceeds ==
  ASSUME IInv, NEW c \in Client, RangeStored(c) \/ RangeNotStored(c)
  PROVE  Proceeds
<1> DEFINE j == job[c]
<1>1. j # Idle /\ j.step = "merge" /\ UNCHANGED <<world, settings>>
  BY DEF RangeStored, RangeNotStored, Idle
<1>2. j \in Job /\ JobTrue(j, hour, visible, newest)
  BY <1>1, LookupIs
<1>3. /\ j.days \in SUBSET visible /\ j.dates \in SUBSET Day /\ j.floor \in OptDay
      /\ visible \in SUBSET Published /\ j.at \in Nat /\ hour \in Nat /\ Recent(j.at, hour)
  BY <1>1, <1>2, Calendar DEF IInv, JobTrue, RangeTrue, Job, Hours
<1>4. PICK today \in DayOf(j.at) .. Today :
        \/ SaveFile(c, AfterMerge(c, today), Merged(c, file, today))
        \/ Continue(c, AfterMerge(c, today)) /\ UNCHANGED <<file, memo>>
  BY DEF RangeStored, RangeNotStored
<1>5. \A d \in j.dates : today - d >= AliasAge =>
        \A p \in Published : j.floor <= p /\ p <= d => p \in j.days
  <2>1. \A d \in j.dates : today - d >= AliasAge => DayOf(j.at) > d + MaxDelay
    BY <1>3, <1>4, OldEnough DEF Recent, Today
  <2> QED
    BY <2>1, <1>1, <1>2 DEF JobTrue, RangeTrue
<1>6. ASSUME NEW cache, CacheTrue(cache, visible)
      PROVE  /\ CacheTrue(Merged(c, cache, today), visible)
             /\ Grown(cache, Merged(c, cache, today))
             /\ SameLatest(cache, Merged(c, cache, today))
  BY <1>3, <1>5, <1>6, WithRangeIsTrue DEF Merged
<1> DEFINE k == AfterMerge(c, today)
<1>7. CacheTrue(Merged(c, j.snap, today), visible)
  BY <1>2, <1>6 DEF JobTrue
<1>8. /\ k \in Job /\ k.kind = j.kind /\ k.live = j.live /\ k.previous = j.previous
      /\ k.known = j.known /\ k.out = j.out /\ k.snap = Merged(c, j.snap, today)
      /\ k.step # "merge"
  <2>1. 0 \in Hours /\ None \in OptDay
    BY Calendar DEF Hours, OptDay
  <2> QED
    BY <2>1, <1>2, <1>7 DEF AfterMerge, Job, CacheTrue
<1> HIDE DEF k
<1>9. JobTrue(k, hour, visible, newest)
  BY <1>2, <1>7, <1>8, FrameIsTrue DEF RangeTrue
<1>10. CASE SaveFile(c, k, Merged(c, file, today))
  <2>1. CacheTrue(file, visible) /\ LatestTrue(file, hour, newest)
    BY DEF IInv, FileTrue
  <2>2. LatestTrue(Merged(c, file, today), hour, newest)
    BY <2>1, <1>6 DEF LatestTrue, SameLatest
  <2> QED
    BY <1>1, <1>6, <1>9, <1>10, <2>1, <2>2, SaveProceeds
<1>11. CASE Continue(c, k) /\ UNCHANGED <<file, memo>>
  <2>1. reference' \in Reference /\ memo' \subseteq {file}
    BY <1>1, <1>11 DEF IInv, settings, MemoIsCurrent
  <2> QED
    BY <1>1, <1>9, <1>11, <2>1, ContinueProceeds
<1> QED
  BY <1>4, <1>10, <1>11 DEF k

(* An answer of a dated item is right when its table is. *)
LEMMA AnsweredIsTrue ==
  ASSUME IInv, NEW j \in Job, NEW i \in DOMAIN j.out, ~IsLive(j, i),
         NEW how \in Answers, NEW day \in OptDay,
         day # None => /\ day \in visible
                       /\ how \in {"hit", "fetched"} =>
                            day \in UpTo(j.known, DateOf(j, i)) .. DateOf(j, i)
                       /\ how = "fallback" => day < DateOf(j, i)
  PROVE  /\ Outcome(j, i, how, day) \in OutcomeType
         /\ ItemTrue(Outcome(j, i, how, day), FALSE, DateOf(j, i), j.known,
                     hour, visible, newest)
<1> DEFINE o == Outcome(j, i, how, day)
<1>1. hour \in Hours
  BY DEF IInv
<1>2. o \in OutcomeType /\ (o.how = "failed" \/ (o.how = how /\ o.day = day /\ day # None))
  BY <1>1, OutcomeIs
<1> HIDE DEF o
<1>3. CASE o.how = "failed"
  <2>1. ItemTrue(o, FALSE, DateOf(j, i), j.known, hour, visible, newest)
    BY <1>3 DEF ItemTrue, Answers
  <2> QED
    BY <1>2, <2>1 DEF o
<1>4. CASE o.how = how /\ o.day = day /\ day # None
  <2>1. ItemTrue(o, FALSE, DateOf(j, i), j.known, hour, visible, newest)
    BY <1>4 DEF ItemTrue, Answers
  <2> QED
    BY <1>2, <2>1 DEF o
<1> QED
  BY <1>2, <1>3, <1>4

(* What a snapshot answers of a dated item, and what it falls back to. *)
LEMMA SnapshotIsTrue ==
  ASSUME IInv, NEW j, JobTrue(j, hour, visible, newest), NEW i \in DOMAIN j.out, ~IsLive(j, i)
  PROVE  LET hit == CachedFor(j.snap, DateOf(j, i))
             earlier == NearestEarlier(j.snap, DateOf(j, i))
         IN /\ hit \in OptDay /\ earlier \in OptDay
            /\ hit # None => hit \in visible /\ hit \in UpTo(j.known, DateOf(j, i)) .. DateOf(j, i)
            /\ earlier # None => earlier \in visible /\ earlier < DateOf(j, i)
<1> DEFINE d == DateOf(j, i)
<1>1. d \in Day /\ CacheTrue(j.snap, visible) /\ j.snap \in Cache
  BY DEF JobTrue, Dated, CacheTrue
<1>2. visible \in SUBSET Published /\ j.known \in SUBSET Published
  BY DEF IInv, JobTrue
<1>3. CachedFor(j.snap, d) \in OptDay
  BY <1>1 DEF CachedFor, Cache, OptDay
<1>4. CachedFor(j.snap, d) # None =>
        CachedFor(j.snap, d) \in visible /\ CachedFor(j.snap, d) \in UpTo(j.known, d) .. d
  BY <1>1, <1>2, CachedForIsRight
<1>5. /\ NearestEarlier(j.snap, d) \in OptDay
      /\ NearestEarlier(j.snap, d) # None =>
           NearestEarlier(j.snap, d) \in visible /\ NearestEarlier(j.snap, d) < d
  BY <1>1, NearestEarlierIn DEF CacheTrue
<1> QED
  BY <1>3, <1>4, <1>5

(* One date is answered from the snapshot. *)
LEMMA SnapshotHitProceeds ==
  ASSUME IInv, NEW c \in Client, job[c] # Idle, NEW i \in DOMAIN job[c].out,
         Turn(job[c], i), SnapshotHit(c, i)
  PROVE  Proceeds
<1> DEFINE j == job[c]
           o == Outcome(j, i, "hit", CachedFor(j.snap, DateOf(j, i)))
<1>1. j \in Job /\ JobTrue(j, hour, visible, newest)
  BY LookupIs
<1>2. /\ ~IsLive(j, i) /\ ~Settled(j.out[i])
      /\ Continue(c, Settle(j, i, o)) /\ UNCHANGED <<world, file, memo, settings>>
  BY DEF SnapshotHit, Turn
<1>3. o \in OutcomeType /\ ItemTrue(o, FALSE, DateOf(j, i), j.known, hour, visible, newest)
  BY <1>1, <1>2, SnapshotIsTrue, AnsweredIsTrue DEF Answers
<1>4. IsLive(j, i) = FALSE
  BY <1>2 DEF IsLive
<1> HIDE DEF o
<1> QED
  BY <1>2, <1>3, <1>4, SettleProceeds

(* All dates that the snapshot has are answered from it at once. *)
LEMMA SnapshotHitsProceeds == ASSUME IInv, NEW c \in Client, SnapshotHits(c) PROVE Proceeds
<1> DEFINE j == job[c]
           hits == {i \in DOMAIN j.out : j.out[i] = Open /\ ~Missed(j, i)}
           out == [i \in DOMAIN j.out |->
                     IF i \in hits THEN Outcome(j, i, "hit", CachedFor(j.snap, i[1]))
                     ELSE j.out[i]]
           k == [j EXCEPT !.out = out]
<1>1. j # Idle /\ j.kind = "keys" /\ UNCHANGED <<world, file, memo, settings>>
  BY DEF SnapshotHits, Idle
<1>2. j \in Job /\ JobTrue(j, hour, visible, newest)
  BY <1>1, LookupIs
<1>3. Continue(c, k)
  BY <1>2 DEF SnapshotHits, Job
<1>4. \A i \in DOMAIN j.out : /\ IsLive(j, i) = FALSE /\ DateOf(j, i) = i[1]
                              /\ j.out[i] \in OutcomeType
  BY <1>1, <1>2, OutTypeIs DEF JobTrue, Dated, IsLive, DateOf, Job
<1>5. \A i \in DOMAIN j.out : /\ out[i] \in OutcomeType
                              /\ ItemTrue(out[i], FALSE, i[1], j.known, hour, visible, newest)
  <2> SUFFICES ASSUME NEW i \in DOMAIN j.out
               PROVE  /\ out[i] \in OutcomeType
                      /\ ItemTrue(out[i], FALSE, i[1], j.known, hour, visible, newest)
    OBVIOUS
  <2>1. CASE i \in hits
    <3>1. out[i] = Outcome(j, i, "hit", CachedFor(j.snap, DateOf(j, i)))
      BY <2>1, <1>4
    <3> HIDE DEF out
    <3> QED
      BY <3>1, <1>2, <1>4, SnapshotIsTrue, AnsweredIsTrue DEF Answers
  <2>2. CASE i \notin hits
    <3>1. out[i] = j.out[i]
      BY <2>2
    <3> HIDE DEF out
    <3> QED
      BY <3>1, <1>2, <1>4 DEF JobTrue, ItemsTrue
  <2> QED
    BY <2>1, <2>2
<1>6. DOMAIN out = DOMAIN j.out /\ out \in OutType
  BY <1>2, <1>5, OutTypeIs DEF Job
<1> HIDE DEF out
<1>7. /\ k \in Job /\ k.kind = j.kind /\ k.live = j.live /\ k.previous = j.previous
      /\ k.known = j.known /\ k.out = out /\ k.snap = j.snap /\ k.step = j.step
      /\ k.days = j.days /\ k.dates = j.dates /\ k.floor = j.floor /\ k.at = j.at
  BY <1>2, <1>6 DEF Job
<1> HIDE DEF k
<1>8. \A i : IsLive(k, i) = IsLive(j, i) /\ DateOf(k, i) = DateOf(j, i)
  BY <1>7 DEF IsLive, DateOf
<1>9. ItemsTrue(k, hour, visible, newest)
  BY <1>4, <1>5, <1>6, <1>7, <1>8 DEF ItemsTrue
<1>10. Dated(k) /\ RangeTrue(k, hour, visible) /\ MonthsWhole(k)
  BY <1>1, <1>2, <1>6, <1>7, <1>8 DEF JobTrue, Dated, RangeTrue, MonthsWhole
<1>11. JobTrue(k, hour, visible, newest)
  BY <1>2, <1>7, <1>9, <1>10 DEF JobTrue
<1>12. reference' \in Reference /\ memo' \subseteq {file}
  BY <1>1 DEF IInv, settings, MemoIsCurrent
<1> QED
  BY <1>1, <1>3, <1>11, <1>12, ContinueProceeds

(* The newest table up to a date is, past the delay, the right one for ever. *)
LEMMA FetchesProceeds ==
  ASSUME IInv, NEW c \in Client, job[c] # Idle, NEW i \in DOMAIN job[c].out,
         Turn(job[c], i), Fetches(c, i)
  PROVE  Proceeds
<1> DEFINE j == job[c]
           d == DateOf(j, i)
           day == UpTo(visible, d)
           o == [Open EXCEPT !.how = "got", !.day = day, !.at = hour]
<1>1. j \in Job /\ JobTrue(j, hour, visible, newest)
  BY LookupIs
<1>2. /\ IsLive(j, i) = FALSE /\ ~Settled(j.out[i]) /\ day # None
      /\ Continue(c, Settle(j, i, o)) /\ UNCHANGED <<world, file, memo, settings>>
  BY DEF Fetches, Asks, Missed, IsLive, Turn
<1>3. d \in Day /\ j.known \subseteq visible
  BY <1>1, <1>2 DEF JobTrue, Dated
<1>4. visible \in SUBSET Day /\ Published \in SUBSET Day /\ visible \in SUBSET Published
  BY FxAssumption DEF IInv
<1>5. day \in visible /\ day <= d /\ day \in OptDay /\ UpTo(j.known, d) <= day
      /\ UpTo(j.known, d) \in OptDay
  BY <1>2, <1>3, <1>4, UpToIn, UpToGrows
<1>6. day \in UpTo(j.known, d) .. d
  <2>1. day \in Nat /\ d \in Nat /\ UpTo(j.known, d) \in Nat
    BY <1>3, <1>5, Calendar
  <2> QED
    BY <2>1, <1>5
<1>7. hour \in Hours /\ hour \in Nat
  BY Calendar DEF IInv, Hours
<1>8. DayOf(hour) > d + MaxDelay => day = UpTo(Published, d)
  <2> SUFFICES ASSUME DayOf(hour) > d + MaxDelay PROVE day = UpTo(Published, d)
    OBVIOUS
  <2>1. DayOf(hour) \in Nat /\ MaxDelay \in Nat /\ d \in Nat /\ Published \subseteq Nat
    BY <1>3, <1>4, <1>7, DayOfSteps, FxAssumption, Calendar
  <2>2. \A p \in Published : p <= d => p \in visible
    BY <2>1 DEF IInv, Timely
  <2>3. \A p \in Published : p <= d => p <= day
    BY <2>2, <1>3, <1>4, UpToIn
  <2>4. day \in Published
    BY <1>4, <1>5
  <2> HIDE DEF day
  <2>5. UpTo(Published, d) = day
    BY <2>3, <2>4, <1>3, <1>4, <1>5, UpToIs
  <2> QED
    BY <2>5
<1> HIDE DEF day, d
<1>9. o \in OutcomeType /\ o.how = "got" /\ o.day = day /\ o.at = hour
  BY <1>5, <1>7, FixedOutcomes DEF OutcomeType, OptDay, Hours
<1> HIDE DEF o
<1>10. ItemTrue(o, FALSE, d, j.known, hour, visible, newest)
  <2>1. Recent(hour, hour)
    BY <1>7 DEF Recent
  <2> QED
    BY <2>1, <1>5, <1>6, <1>8, <1>9 DEF ItemTrue, Answers
<1> QED
  BY <1>2, <1>9, <1>10, SettleProceeds DEF d

(* A fetched table and its alias are saved. *)
LEMMA StoresProceeds ==
  ASSUME IInv, NEW c \in Client, job[c] # Idle, NEW i \in DOMAIN job[c].out,
         Turn(job[c], i), Stores(c, i)
  PROVE  Proceeds
<1> DEFINE j == job[c]
           d == DateOf(j, i)
           table == j.out[i].day
           at == j.out[i].at
           done == Settle(j, i, Outcome(j, i, "fetched", table))
<1>1. j \in Job /\ JobTrue(j, hour, visible, newest) /\ j.out[i] \in OutcomeType
  BY LookupIs, OutTypeIs DEF Job
<1>2. /\ j.out[i].how = "got" /\ IsLive(j, i) = FALSE /\ ~Settled(j.out[i])
      /\ UNCHANGED <<world, settings>>
  BY DEF Stores, InFlight, IsLive, Turn
<1>3. PICK today \in DayOf(at) .. Today :
        SaveFile(c, IF j.kind = "months"
                    THEN [done EXCEPT !.snap = WithTable(@, table, d, today)] ELSE done,
                 WithTable(file, table, d, today))
  BY DEF Stores, Reloaded
<1>4. ItemTrue(j.out[i], FALSE, d, j.known, hour, visible, newest)
  BY <1>1, <1>2 DEF JobTrue, ItemsTrue
<1>5. /\ table \in visible /\ Recent(at, hour) /\ table \in UpTo(j.known, d) .. d
      /\ DayOf(at) > d + MaxDelay => table = UpTo(Published, d)
  BY <1>2, <1>4 DEF ItemTrue
<1>6. d \in Day /\ visible \in SUBSET Published /\ at \in Nat /\ hour \in Nat /\ table \in OptDay
  BY <1>1, <1>2, Calendar DEF JobTrue, Dated, IInv, OutcomeType, OptDay, Hours
<1>7. ShouldAlias(d, table, today) => table = UpTo(Published, d)
  BY <1>3, <1>5, <1>6, OldEnough DEF ShouldAlias, Recent, Today
<1>8. ASSUME NEW cache, CacheTrue(cache, visible)
      PROVE  /\ CacheTrue(WithTable(cache, table, d, today), visible)
             /\ Grown(cache, WithTable(cache, table, d, today))
             /\ SameLatest(cache, WithTable(cache, table, d, today))
  BY <1>5, <1>6, <1>7, <1>8, WithTableIsTrue
<1>9. /\ Outcome(j, i, "fetched", table) \in OutcomeType
      /\ ItemTrue(Outcome(j, i, "fetched", table), FALSE, d, j.known, hour, visible, newest)
  BY <1>1, <1>2, <1>5, <1>6, AnsweredIsTrue DEF Answers
<1>10. JobTrue(done, hour, visible, newest)
  <2> DEFINE o == Outcome(j, i, "fetched", table)
  <2>1. /\ o \in OutcomeType
        /\ ItemTrue(o, IsLive(j, i), DateOf(j, i), j.known, hour, visible, newest)
    BY <1>2, <1>9
  <2> HIDE DEF o
  <2>2. JobTrue(Settle(j, i, o), hour, visible, newest)
    BY <1>1, <1>2, <2>1, SettleIsTrue
  <2> QED
    BY <2>2 DEF o
<1> HIDE DEF done, table, at, d
<1> DEFINE k == IF j.kind = "months"
                THEN [done EXCEPT !.snap = WithTable(@, table, d, today)] ELSE done
<1>11. JobTrue(k, hour, visible, newest)
  <2>1. CASE j.kind = "months"
    <3>1. done \in Job /\ CacheTrue(done.snap, visible) /\ RangeTrue(done, hour, visible)
      BY <1>10 DEF JobTrue
    <3>2. CacheTrue(WithTable(done.snap, table, d, today), visible)
      BY <3>1, <1>8
    <3>3. /\ k \in Job /\ k.kind = done.kind /\ k.live = done.live /\ k.previous = done.previous
          /\ k.known = done.known /\ k.out = done.out
          /\ k.snap = WithTable(done.snap, table, d, today) /\ k.step = done.step
          /\ k.days = done.days /\ k.dates = done.dates /\ k.floor = done.floor
          /\ k.at = done.at
      BY <2>1, <3>1, <3>2 DEF Job, CacheTrue
    <3> HIDE DEF k
    <3>4. CacheTrue(k.snap, visible) /\ RangeTrue(k, hour, visible)
      BY <3>1, <3>2, <3>3 DEF RangeTrue
    <3> QED
      BY <1>10, <3>3, <3>4, FrameIsTrue
  <2>2. CASE j.kind # "months"
    BY <2>2, <1>10
  <2> QED
    BY <2>1, <2>2
<1>12. SaveFile(c, k, WithTable(file, table, d, today))
  BY <1>3 DEF done, table, d
<1>13. CacheTrue(file, visible) /\ LatestTrue(file, hour, newest)
  BY DEF IInv, FileTrue
<1>14. LatestTrue(WithTable(file, table, d, today), hour, newest)
  BY <1>8, <1>13 DEF LatestTrue, SameLatest
<1> HIDE DEF k
<1> QED
  BY <1>2, <1>8, <1>11, <1>12, <1>13, <1>14, SaveProceeds

(* A table that cannot be saved, or a task that is lost, fails its date. *)
LEMMA FailureProceeds ==
  ASSUME IInv, NEW c \in Client, job[c] # Idle, NEW i \in DOMAIN job[c].out,
         Turn(job[c], i), StoreFails(c, i) \/ TaskLost(c, i)
  PROVE  Proceeds
<1>1. /\ Continue(c, Settle(job[c], i, Failed)) /\ ~Settled(job[c].out[i])
      /\ UNCHANGED <<world, file, memo, settings>>
  BY DEF StoreFails, TaskLost, Turn
<1>2. ItemTrue(Failed, IsLive(job[c], i), DateOf(job[c], i), job[c].known,
               hour, visible, newest)
  BY FixedOutcomes, NoClaim
<1> QED
  BY <1>1, <1>2, FixedOutcomes, SettleProceeds

(* A date the publisher does not answer falls back to an earlier table. *)
LEMMA DegradesProceeds ==
  ASSUME IInv, NEW c \in Client, job[c] # Idle, NEW i \in DOMAIN job[c].out,
         Turn(job[c], i), Degrades(c, i)
  PROVE  Proceeds
<1> DEFINE j == job[c]
           o == Fallback(j, i)
<1>1. j \in Job /\ JobTrue(j, hour, visible, newest)
  BY LookupIs
<1>2. /\ IsLive(j, i) = FALSE /\ ~Settled(j.out[i])
      /\ Continue(c, Settle(j, i, o)) /\ UNCHANGED <<world, file, memo, settings>>
  BY DEF Degrades, Asks, Missed, IsLive, Turn
<1>3. o \in OutcomeType /\ ItemTrue(o, FALSE, DateOf(j, i), j.known, hour, visible, newest)
  BY <1>1, <1>2, SnapshotIsTrue, AnsweredIsTrue DEF Answers, Fallback
<1> HIDE DEF o
<1> QED
  BY <1>2, <1>3, SettleProceeds

(* A cached newest rate is fresh: its entry was stored within Staleness.   *)
LEMMA LiveHitProceeds ==
  ASSUME IInv, NEW c \in Client, job[c] # Idle, NEW i \in DOMAIN job[c].out,
         Turn(job[c], i), LiveHit(c, i)
  PROVE  Proceeds
<1> DEFINE j == job[c]
           answer == Outcome(j, i, "hit", file.latest)
           o == [answer EXCEPT !.ref = RateReference(j)]
<1>1. j \in Job /\ file \in Cache /\ hour \in Hours /\ reference \in Reference
  BY LookupIs DEF IInv, FileTrue, CacheTrue
<1>2. /\ FreshLatest(file) = file.latest
      /\ hour - file.fetchedAt \in 0 .. Staleness - 1
  BY DEF LiveHit, FreshLatest
<1>3. /\ IsLive(j, i) = TRUE /\ ~Settled(j.out[i])
      /\ Continue(c, Settle(j, i, o)) /\ UNCHANGED <<world, file, memo, settings>>
  BY <1>2 DEF LiveHit, AsksLive, IsLive, Turn
<1>4. file.latest \in OptDay
  BY <1>1 DEF Cache, OptDay
<1>5. /\ answer \in OutcomeType
      /\ \/ answer.how = "failed"
         \/ answer.how = "hit" /\ answer.day = file.latest /\ answer.at = hour
  BY <1>1, <1>3, <1>4, OutcomeIs DEF Answers
<1> HIDE DEF answer
<1>6. /\ o \in OutcomeType /\ o.how = answer.how /\ o.day = answer.day /\ o.at = answer.at
  BY <1>1, <1>5 DEF OutcomeType, RateReference
<1>7. hour >= Staleness => file.latest >= newest[hour - Staleness]
  <2> SUFFICES ASSUME hour >= Staleness PROVE file.latest >= newest[hour - Staleness]
    OBVIOUS
  <2>1. hour \in Nat /\ file.fetchedAt \in Nat /\ Staleness \in Nat /\ MaxHour \in Nat
    BY <1>1, FxAssumption, Calendar DEF Hours, Cache
  <2>2. hour - Staleness \in Hours /\ hour - Staleness < file.fetchedAt
    BY <1>1, <1>2, <2>1 DEF Hours
  <2>3. newest[hour - Staleness] <= file.latest
    BY <2>2 DEF IInv, FileTrue, LatestTrue
  <2>4. newest[hour - Staleness] \in Nat /\ file.latest \in Nat
    BY <2>2, <1>4, Calendar DEF IInv, NewestTrue
  <2> QED
    BY <2>3, <2>4
<1>8. hour <= hour
  BY <1>1, Calendar DEF Hours
<1> HIDE DEF o
<1>9. ItemTrue(o, TRUE, DateOf(j, i), j.known, hour, visible, newest)
  BY <1>5, <1>6, <1>7, <1>8 DEF ItemTrue, Answers
<1> QED
  BY <1>3, <1>6, <1>9, SettleProceeds

(* The newest rate in the cache is too old. *)
LEMMA LiveMissProceeds ==
  ASSUME IInv, NEW c \in Client, job[c] # Idle, NEW i \in DOMAIN job[c].out,
         Turn(job[c], i), LiveMiss(c, i)
  PROVE  Proceeds
<1> DEFINE j == job[c]
           o == [Open EXCEPT !.how = "loaded", !.ref = RateReference(j),
                             !.day = NewestCached(file)]
<1>1. /\ ~Settled(j.out[i]) /\ Continue(c, Settle(j, i, o))
      /\ UNCHANGED <<world, file, memo, settings>>
  BY DEF LiveMiss, Turn
<1>2. NewestCached(file) \in OptDay
  <2>1. file.rates \in SUBSET Day
    BY DEF IInv, FileTrue, CacheTrue, Cache
  <2> QED
    BY <2>1, LargestIn DEF NewestCached
<1>3. o \in OutcomeType /\ o.how = "loaded"
  BY <1>2, FixedOutcomes DEF OutcomeType, OptDay, RateReference, IInv
<1> HIDE DEF o
<1>4. ItemTrue(o, IsLive(j, i), DateOf(j, i), j.known, hour, visible, newest)
  BY <1>3 DEF ItemTrue, Answers
<1> QED
  BY <1>1, <1>3, <1>4, SettleProceeds

(* The newest rate is fetched. *)
LEMMA LiveFetchesProceeds ==
  ASSUME IInv, NEW c \in Client, job[c] # Idle, NEW i \in DOMAIN job[c].out,
         Turn(job[c], i), LiveFetches(c, i)
  PROVE  Proceeds
<1> DEFINE j == job[c]
           day == Largest(visible)
           o == [j.out[i] EXCEPT !.how = "got", !.day = day, !.at = hour]
<1>1. /\ IsLive(j, i) = TRUE /\ ~Settled(j.out[i]) /\ visible # {}
      /\ Continue(c, Settle(j, i, o)) /\ UNCHANGED <<world, file, memo, settings>>
  BY DEF LiveFetches, AsksLive, IsLive, Turn
<1>2. j.out[i] \in OutcomeType /\ hour \in Hours /\ hour \in Nat
  BY LookupIs, OutTypeIs, Calendar DEF Job, IInv, Hours
<1>3. day \in visible /\ day \in OptDay
  <2>1. visible \in SUBSET Day
    BY FxAssumption DEF IInv
  <2> QED
    BY <2>1, <1>1, LargestIn
<1> HIDE DEF day
<1>4. o \in OutcomeType /\ o.how = "got" /\ o.day = day /\ o.at = hour
  BY <1>2, <1>3 DEF OutcomeType, OptDay, Hours
<1> HIDE DEF o
<1>5. Recent(hour, hour) /\ \A h \in Hours : h <= hour => newest[h] <= day
  BY <1>2 DEF Recent, IInv, NewestTrue, day
<1>6. ItemTrue(o, TRUE, DateOf(j, i), j.known, hour, visible, newest)
  BY <1>3, <1>4, <1>5 DEF ItemTrue, Answers
<1> QED
  BY <1>1, <1>4, <1>6, SettleProceeds

(* The newest rate is saved. *)
LEMMA LiveStoresProceeds ==
  ASSUME IInv, NEW c \in Client, job[c] # Idle, NEW i \in DOMAIN job[c].out,
         Turn(job[c], i), LiveStores(c, i)
  PROVE  Proceeds
<1> DEFINE j == job[c]
           day == j.out[i].day
           o == Outcome(j, i, "fetched", day)
           new == WithLatest(file, day)
<1>1. j \in Job /\ JobTrue(j, hour, visible, newest) /\ j.out[i] \in OutcomeType
  BY LookupIs, OutTypeIs DEF Job
<1>2. /\ IsLive(j, i) = TRUE /\ j.out[i].how = "got" /\ ~Settled(j.out[i])
      /\ SaveFile(c, Settle(j, i, o), new) /\ UNCHANGED <<world, settings>>
  BY DEF LiveStores, AsksLive, IsLive, Turn, Reloaded
<1>3. ItemTrue(j.out[i], TRUE, DateOf(j, i), j.known, hour, visible, newest)
  BY <1>1, <1>2 DEF JobTrue, ItemsTrue
<1>4. /\ day \in visible /\ Recent(j.out[i].at, hour)
      /\ \A h \in Hours : h <= j.out[i].at => newest[h] <= day
  BY <1>2, <1>3 DEF ItemTrue
<1>5. day \in Day /\ day \in OptDay /\ hour \in Hours /\ hour \in Nat /\ j.out[i].at \in Nat
  BY <1>1, <1>4, FxAssumption, Calendar DEF OutcomeType, OptDay, IInv, Hours
<1>6. o \in OutcomeType /\ (o.how = "failed" \/ o.how = "fetched")
  BY <1>1, <1>5, OutcomeIs DEF Answers
<1> HIDE DEF o, day
<1>7. ItemTrue(o, TRUE, DateOf(j, i), j.known, hour, visible, newest)
  BY <1>6 DEF ItemTrue, Answers
<1>8. JobTrue(Settle(j, i, o), hour, visible, newest)
  BY <1>1, <1>2, <1>6, <1>7, SettleIsTrue
<1>9. file \in Cache /\ CacheTrue(file, visible)
  BY DEF IInv, FileTrue, CacheTrue
<1>10. /\ new \in Cache /\ new.rates = file.rates \cup {day} /\ new.alias = file.alias
       /\ new.latest = day /\ new.fetchedAt = hour
  BY <1>5, <1>9 DEF WithLatest, Cache, Hours
<1> HIDE DEF new
<1>11. CacheTrue(new, visible) /\ Grown(file, new)
  BY <1>4, <1>9, <1>10 DEF CacheTrue, Grown, day
<1>12. LatestTrue(new, hour, newest)
  <2>1. \A h \in Hours : h < hour => h <= j.out[i].at
    BY <1>4, <1>5, Calendar DEF Recent, Hours
  <2>2. \A h \in Hours : h < hour => newest[h] <= day
    BY <2>1, <1>4
  <2>3. hour <= hour
    BY <1>5
  <2> QED
    BY <2>2, <2>3, <1>10 DEF LatestTrue
<1> QED
  BY <1>2, <1>8, <1>11, <1>12, SaveProceeds

(* The newest rate falls back to a cached one. *)
LEMMA LiveDegradesProceeds ==
  ASSUME IInv, NEW c \in Client, job[c] # Idle, NEW i \in DOMAIN job[c].out,
         Turn(job[c], i), LiveDegrades(c, i)
  PROVE  Proceeds
<1> DEFINE j == job[c]
           o == Outcome(j, i, "fallback", j.out[i].day)
<1>1. j \in Job /\ j.out[i].day \in OptDay /\ hour \in Hours
  BY LookupIs, OutTypeIs DEF Job, OutcomeType, OptDay, IInv
<1>2. /\ IsLive(j, i) = TRUE /\ ~Settled(j.out[i])
      /\ Continue(c, Settle(j, i, o)) /\ UNCHANGED <<world, file, memo, settings>>
  BY DEF LiveDegrades, AsksLive, IsLive, Turn
<1>3. o \in OutcomeType /\ (o.how = "failed" \/ o.how = "fallback")
  BY <1>1, OutcomeIs DEF Answers
<1> HIDE DEF o
<1>4. ItemTrue(o, TRUE, DateOf(j, i), j.known, hour, visible, newest)
  BY <1>3 DEF ItemTrue, Answers
<1> QED
  BY <1>2, <1>3, <1>4, SettleProceeds

-----------------------------------------------------------------------------
(* Any step of a lookup. *)
LEMMA LookupProceeds == ASSUME IInv, NEW c \in Client, LookupStep(c) PROVE Proceeds
<1>1. CASE job[c].step = "work" /\ \E i \in DOMAIN job[c].out : ItemStep(c, i)
  <2>1. PICK i \in DOMAIN job[c].out : ItemStep(c, i)
    BY <1>1
  <2>2. job[c] # Idle
    BY <1>1 DEF Idle
  <2> QED
    BY <2>1, <2>2, SnapshotHitProceeds, FetchesProceeds, StoresProceeds, FailureProceeds,
       DegradesProceeds, LiveHitProceeds, LiveMissProceeds, LiveFetchesProceeds,
       LiveStoresProceeds, LiveDegradesProceeds DEF ItemStep
<1> QED
  BY <1>1, LoadProceeds, LoadFailsProceeds, PrewarmSkipsProceeds, RangeAnsweredProceeds,
     RangeMergedProceeds, SnapshotHitsProceeds, ReturnProceeds DEF LookupStep

(* Any step. *)
LEMMA StepProceeds == ASSUME IInv, [Next]_vars PROVE Proceeds
BY PublishProceeds, NextHourProceeds, SetReferenceProceeds, BeginProceeds, LookupProceeds,
   StutterProceeds DEF Next

(* The inductive invariant: every cache and every lookup under way says     *)
(* only what stays true, given how late the publisher may be.              *)
THEOREM RatesInvariant == Spec => []IInv
<1>1. IInv /\ [Next]_vars => IInv'
  BY StepProceeds DEF Proceeds
<1> QED
  BY <1>1, InitTrue, PTL DEF Spec

(* A stored table was published, and an alias names the table that is the  *)
(* right one for its date for ever, for every publisher that is at most    *)
(* MaxDelay late.                                                          *)
THEOREM CacheStaysTrue == Spec => []CacheIsTrue
<1>1. IInv => CacheIsTrue
  BY DEF IInv, FileTrue, CacheTrue, CacheIsTrue
<1> QED
  BY <1>1, RatesInvariant, PTL

(* The memo of the last parse is never older than the file. *)
THEOREM MemoStaysCurrent == Spec => []MemoIsCurrent
<1>1. IInv => MemoIsCurrent
  BY DEF IInv
<1> QED
  BY <1>1, RatesInvariant, PTL

(* No save loses a table or an alias, whatever lookups run beside it.      *)
THEOREM NothingIsForgotten == Spec => NothingForgotten
<1>1. IInv /\ [Next]_vars =>
        [/\ file.rates \subseteq file'.rates
         /\ \A d \in Day : file.alias[d] # None => file'.alias[d] = file.alias[d]]_vars
  BY StepProceeds DEF Proceeds, Grown
<1> QED
  BY <1>1, RatesInvariant, PTL DEF Spec, NothingForgotten

(* Every dated answer is the right table or an honest fallback, and a table *)
(* of months has a currency for every month or reports it.                 *)
THEOREM AnswersStayTrue == Spec => []AnswersAreTrue
<1>1. IInv => AnswersAreTrue
  <2> SUFFICES ASSUME IInv, NEW c \in Client, job[c] # Idle
      PROVE  /\ job[c].kind = "months" /\ Finished(c) =>
                  \A n \in Currency : n \in Unavailable(job[c]) <=> RatesShown(job[c], n) = {}
             /\ \A i \in DOMAIN job[c].out :
                  job[c].out[i].how \in Answers /\ ~IsLive(job[c], i) =>
                    /\ job[c].out[i].day \in visible
                    /\ IF job[c].out[i].how = "fallback"
                       THEN job[c].out[i].day < DateOf(job[c], i)
                       ELSE job[c].out[i].day \in
                              UpTo(job[c].known, DateOf(job[c], i)) .. DateOf(job[c], i)
    BY DEF AnswersAreTrue
  <2> DEFINE j == job[c]
  <2>1. JobTrue(j, hour, visible, newest)
    BY LookupIs
  <2>2. ASSUME j.kind = "months", Finished(c), NEW n \in Currency
        PROVE  n \in Unavailable(j) <=> RatesShown(j, n) = {}
    <3>1. /\ \E i \in DOMAIN j.out : i[2] = n
          /\ \A i, k \in DOMAIN j.out :
               i[2] = k[2] /\ j.out[i].how = "failed" => j.out[k].how = "failed"
      BY <2>1, <2>2 DEF JobTrue, MonthsWhole
    <3>2. \A i \in DOMAIN j.out : j.out[i].how \in Answers \/ j.out[i].how = "failed"
      BY <2>2 DEF Finished, Settled
    <3>3. "failed" \notin Answers
      BY DEF Answers
    <3>4. n \in Unavailable(j) <=> \E i \in DOMAIN j.out : i[2] = n /\ j.out[i].how = "failed"
      BY DEF Unavailable
    <3>5. RatesShown(j, n) = {} <=> \A i \in DOMAIN j.out : i[2] = n => j.out[i].how \notin Answers
      BY DEF RatesShown
    <3> HIDE DEF j
    <3> QED
      BY <3>1, <3>2, <3>3, <3>4, <3>5
  <2>3. ASSUME NEW i \in DOMAIN j.out, j.out[i].how \in Answers, ~IsLive(j, i)
        PROVE  /\ j.out[i].day \in visible
               /\ IF j.out[i].how = "fallback" THEN j.out[i].day < DateOf(j, i)
                  ELSE j.out[i].day \in UpTo(j.known, DateOf(j, i)) .. DateOf(j, i)
    BY <2>1, <2>3 DEF JobTrue, ItemsTrue, ItemTrue, Answers
  <2> QED
    BY <2>2, <2>3
<1> QED
  BY <1>1, RatesInvariant, PTL

(* A newest rate taken from the cache was the newest within Staleness.     *)
THEOREM LiveStaysRecent == Spec => []LiveIsRecent
<1>1. IInv => LiveIsRecent
  BY LookupIs DEF LiveIsRecent, JobTrue, ItemsTrue, ItemTrue
<1> QED
  BY <1>1, RatesInvariant, PTL

=============================================================================

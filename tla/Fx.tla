--------------------------------- MODULE Fx ---------------------------------
(* The exchange rate cache of fx.rs: one JSON file shared by every lookup  *)
(* of the process, a memo of its last parse, a publisher that has rates    *)
(* for some days only and publishes them late, and lookups that load the   *)
(* cache, ask the network and store what came, beside each other.          *)
(*                                                                         *)
(* A rate table is named by the day it was published for. A request that   *)
(* fails, an offline process and a spent network budget all lead to the    *)
(* same branch and are one choice, Degrades.                               *)
EXTENDS Integers, FiniteSets

CONSTANTS
  Client,        \* lookups that may run beside each other
  LastDay,       \* bound: the last day of the calendar
  HoursPerDay,
  Published,     \* the days that get a table, sooner or later
  MaxDelay,      \* a table appears at most this many days after its day
  SeriesStart,   \* FX_SERIES_START
  AliasAge,      \* ALIAS_MIN_AGE_DAYS
  Staleness,     \* LATEST_STALENESS_THRESHOLD_SECS, in hours
  Chunk,         \* concurrent single fetches of one batch
  Request,       \* the lookups that may be asked for
  MonthEnd,      \* last days of months
  Currency,      \* currencies looked up beside the reference currency
  Quotes,        \* Quotes[d]: the currencies a table names
  Reference,     \* what the user may set as reference currency
  MaxSwitches,   \* bound: changes of the reference currency
  MaxLookups     \* bound: lookups begun

Day == 1 .. LastDay
None == 0

ASSUME FxAssumption ==
  /\ LastDay \in Nat \ {0} /\ HoursPerDay \in Nat \ {0} /\ Staleness \in Nat
  /\ Chunk \in Nat \ {0} /\ MaxSwitches \in Nat /\ MaxLookups \in Nat
  /\ Published \subseteq Day /\ MonthEnd \subseteq Day /\ SeriesStart \in Day
  /\ MaxDelay \in Nat /\ AliasAge \in Nat /\ MaxDelay + 1 < AliasAge
  /\ Reference \subseteq Nat \ {None} /\ Reference # {}
  /\ Request \subseteq [kind : {"on", "keys", "months", "latest"},
                        want : SUBSET Day, live : BOOLEAN]
  /\ \A r \in Request : /\ r.kind = "latest" => r.live
                        /\ r.kind = "months" => r.want # {}

VARIABLES
  hour,      \* hours since the calendar began
  visible,   \* the tables the publisher shows by now
  newest,    \* history: the newest visible table when each hour began
  file,      \* fx_rates.json
  memo,      \* FX_SNAPSHOT_MEMO, while the file still has the identity it names
  reference, \* reference_currency of currency.json
  switches,  \* changes of it so far
  job,       \* one lookup per client
  begun      \* lookups begun so far

world == <<hour, visible, newest>>
settings == <<reference, switches>>
vars == <<world, file, memo, settings, job, begun>>

Largest(S) == IF S = {} THEN None ELSE CHOOSE x \in S : \A y \in S : y <= x
Least(S) == CHOOSE x \in S : \A y \in S : x <= y
UpTo(S, d) == Largest({x \in S : x <= d})

DayOf(h) == h \div HoursPerDay + 1
Today == DayOf(hour)
MaxHour == LastDay * HoursPerDay - 1

-----------------------------------------------------------------------------
(* The cache and what can be read from it without the network.             *)

EmptyCache == [rates |-> {}, alias |-> [d \in Day |-> None],
               latest |-> None, fetchedAt |-> 0]

(* nearest_earlier: strictly before the date. newest_cached.               *)
NearestEarlier(cache, d) == Largest({r \in cache.rates : r < d})
NewestCached(cache) == Largest(cache.rates)

(* cached_rate_for: the date itself, or the table its alias names.         *)
CachedFor(cache, d) ==
  IF d \in cache.rates THEN d
  ELSE IF cache.alias[d] \in cache.rates THEN cache.alias[d] ELSE None

(* Mutant of ShouldAlias: an alias is trusted at any age.                  *)
ShouldAliasAny(requested, returned, today) == returned # requested

(* should_alias_as *)
ShouldAlias(requested, returned, today) ==
  returned # requested /\ today - requested >= AliasAge

(* Mutant of FreshLatest: the age of the entry is not looked at.           *)
FreshLatestForever(cache) == IF cache.latest \in cache.rates THEN cache.latest ELSE None

(* fresh_latest_from_cache: an entry from the future counts as stale.      *)
FreshLatest(cache) ==
  IF cache.latest \in cache.rates /\ hour - cache.fetchedAt \in 0 .. Staleness - 1
  THEN cache.latest ELSE None

(* store_historical_rates on a reloaded cache: a table, and maybe an alias *)
(* of the requested date.                                                  *)
WithTable(cache, table, requested, today) ==
  [cache EXCEPT !.rates = @ \cup {table},
                !.alias = IF ShouldAlias(requested, table, today)
                          THEN [@ EXCEPT ![requested] = table] ELSE @]

(* store_latest_rates *)
WithLatest(cache, table) ==
  [cache EXCEPT !.rates = @ \cup {table}, !.latest = table, !.fetchedAt = hour]

(* Mutant of RangeAlias: an alias may name a table from before the range.  *)
RangeAliasAnywhere(cache, d, min, today) ==
  LET earlier == NearestEarlier(cache, d)
  IN IF earlier # None /\ ShouldAlias(d, earlier, today) THEN earlier ELSE None

(* The table a range proves to be the right one for a day without its own: *)
(* one from before the range may have a successor the cache does not know. *)
RangeAlias(cache, d, min, today) ==
  LET earlier == NearestEarlier(cache, d)
  IN IF earlier # None /\ earlier >= min /\ ShouldAlias(d, earlier, today)
     THEN earlier ELSE None

(* merge_range_into_cache *)
WithRange(cache, days, keyDates, min, today) ==
  LET grown == [cache EXCEPT !.rates = @ \cup days]
      open == {d \in keyDates : d \notin grown.rates /\ cache.alias[d] = None}
  IN [grown EXCEPT !.alias = [d \in Day |->
       IF d \in open THEN RangeAlias(grown, d, min, today) ELSE @[d]]]

-----------------------------------------------------------------------------
(* The range request of a batch (the first half of ensure_range_cached).   *)

(* clamp_range_min, and the start of the series. *)
RangeMin(cache, unresolved) ==
  Largest({Least(unresolved), SeriesStart}
          \cup (IF cache.rates = {} THEN {} ELSE {Least(cache.rates)}))

Unresolved(cache, dates) == {d \in dates : CachedFor(cache, d) = None}

(* is_fetchable_date *)
Fetchable(d) == SeriesStart <= d /\ d <= Today

-----------------------------------------------------------------------------
(* Lookups.  A lookup resolves items <<slot, currency>>: a slot is a date, *)
(* or None for the current period; the currency is 0 where one table       *)
(* serves all currencies of the date (single lookups and keyed batches).   *)

Idle == [step |-> "idle"]
Open == [how |-> "open", day |-> None, at |-> 0, ref |-> None]
Failed == [Open EXCEPT !.how = "failed"]
Answers == {"hit", "fetched", "fallback"}
Settled(o) == o.how \in Answers \cup {"failed"}
InFlight(o) == o.how = "got"

(* year_rate_dates: the month ends before today back completed months, the *)
(* latest of them the current period, if the year reaches it.              *)
Completed(year) == {d \in year : d < Today}
PreviousMonthEnd == Largest(Completed(MonthEnd))
ReachesCurrent(year) == Largest(year) >= Today

Items(r) ==
  CASE r.kind = "latest" -> {<<None, 0>>}
    [] r.kind = "months" ->
         (Completed(r.want) \cup (IF ReachesCurrent(r.want) THEN {None} ELSE {})) \X Currency
    [] OTHER -> r.want \X {0}

IsLive(j, i) == i[1] = None /\ j.live
DateOf(j, i) == IF i[1] = None THEN j.previous ELSE i[1]

(* prewarm_dates, or the key dates of a batch. *)
PrewarmDates(j) == {DateOf(j, i) : i \in {k \in DOMAIN j.out : ~IsLive(j, k)}}

Missed(j, i) == ~IsLive(j, i) /\ CachedFor(j.snap, DateOf(j, i)) = None

(* The order of the items, and whose turn it is: a keyed batch works on    *)
(* Chunk dates at a time, every other lookup on one item.                  *)
Before(i, k) == i[2] < k[2] \/ (i[2] = k[2] /\ i[1] < k[1])
Place(j, i) ==
  Cardinality({k \in DOMAIN j.out : j.out[k].how # "hit" /\ Before(k, i)})
    \div (IF j.kind = "keys" THEN Chunk ELSE 1)
Turn(j, i) ==
  /\ ~Settled(j.out[i])
  /\ \A k \in DOMAIN j.out : Place(j, k) < Place(j, i) => Settled(j.out[k])

(* cross_to_reference: a table converts the currencies it names, and one   *)
(* for all currencies leaves that to its keys.                             *)
Crosses(day, currency) == day # None /\ (currency = 0 \/ currency \in Quotes[day])

(* What an item comes to: a table that names its currency, or a failure. A  *)
(* table of months drops a currency whole when one of its rates is missing. *)
Outcome(j, i, how, day) ==
  IF ~Crosses(day, i[2]) THEN Failed
  ELSE [j.out[i] EXCEPT !.how = how, !.day = day, !.at = IF IsLive(j, i) THEN hour ELSE 0]

(* No answer: the nearest earlier table of the snapshot, if there is one.  *)
Fallback(j, i) == Outcome(j, i, "fallback", NearestEarlier(j.snap, DateOf(j, i)))

(* Mutant of Settle: a failure costs its currency the one month.           *)
SettleAlone(j, i, o) == [j EXCEPT !.out[i] = o]

Settle(j, i, o) ==
  [j EXCEPT !.out = [k \in DOMAIN @ |->
     IF k = i \/ (o.how = "failed" /\ j.kind = "months" /\ k[2] = i[2]) THEN o ELSE @[k]]]

-----------------------------------------------------------------------------
Init ==
  /\ hour = 0 /\ visible = {} /\ newest = [h \in 0 .. MaxHour |-> None]
  /\ file = EmptyCache /\ memo = {}
  /\ reference = Least(Reference) /\ switches = 0 /\ begun = 0
  /\ job = [c \in Client |-> Idle]

(* The publisher shows its next table, on its day or later. *)
Publish ==
  /\ Published \ visible # {}
  /\ Least(Published \ visible) <= Today
  /\ visible' = visible \cup {Least(Published \ visible)}
  /\ UNCHANGED <<hour, newest, file, memo, settings, job, begun>>

InFlightSince(h) ==
  \E c \in Client : /\ job[c] # Idle
                    /\ \/ job[c].step = "merge" /\ job[c].at < h
                       \/ \E i \in DOMAIN job[c].out :
                            InFlight(job[c].out[i]) /\ job[c].out[i].at < h

(* An hour passes. REQUEST_TIMEOUT is far shorter, so a request sees one   *)
(* full hour begin at most; and no table is later than MaxDelay.           *)
NextHour ==
  /\ hour < MaxHour /\ ~InFlightSince(hour)
  /\ \A p \in Published \ visible : DayOf(hour + 1) <= p + MaxDelay
  /\ hour' = hour + 1
  /\ newest' = [newest EXCEPT ![hour + 1] = Largest(visible)]
  /\ UNCHANGED <<visible, file, memo, settings, job, begun>>

(* set_currency_settings *)
SetReference ==
  /\ switches < MaxSwitches /\ switches' = switches + 1
  /\ reference' \in Reference \ {reference}
  /\ UNCHANGED <<world, file, memo, job, begun>>

Continue(c, j) == job' = [job EXCEPT ![c] = j]

(* A batch as it begins.  What the publisher shows by then is history.     *)
NewJob(r) ==
  [kind |-> r.kind, live |-> r.live, previous |-> PreviousMonthEnd,
   step |-> IF r.kind = "latest" THEN "work" ELSE "load",
   snap |-> EmptyCache, days |-> {}, dates |-> {}, floor |-> None, at |-> 0, same |-> FALSE,
   ref |-> IF r.kind = "months" /\ r.live THEN reference ELSE None, known |-> visible,
   out |-> [i \in Items(r) |-> Open]]

(* year_rate_dates fails for no month this calendar is about: a table of  *)
(* months needs the one that ended last.                                   *)
HasDates(r) == r.kind = "months" => ~ReachesCurrent(r.want) \/ PreviousMonthEnd # None

(* rate_on, rates_for_keys_lenient, monthly_rates_lenient, live_rate. *)
Begin(c) ==
  \E r \in Request :
    /\ job[c] = Idle /\ begun < MaxLookups /\ HasDates(r)
    /\ Continue(c, NewJob(r))
    /\ begun' = begun + 1 /\ UNCHANGED <<world, file, memo, settings>>

(* load_snapshot *)
Loaded(j, cache) ==
  [j EXCEPT !.snap = cache, !.same = FALSE,
            !.step = IF j.kind = "on" THEN "work" ELSE "range"]

(* The memo has the file's identity. *)
LoadHit(c) ==
  /\ job[c].step = "load"
  /\ \E cache \in memo : Continue(c, Loaded(job[c], cache))
  /\ UNCHANGED <<world, file, memo, settings, begun>>

(* It does not: the file's identity is taken first and its content later.  *)
LoadMiss(c) ==
  /\ job[c].step = "load" /\ memo = {}
  /\ Continue(c, [job[c] EXCEPT !.step = "read", !.same = TRUE])
  /\ UNCHANGED <<world, file, memo, settings, begun>>

(* The memo is stored under the identity taken before the read. *)
LoadRead(c) ==
  /\ job[c].step = "read"
  /\ Continue(c, Loaded(job[c], file))
  /\ memo' = IF job[c].same THEN {file} ELSE {}
  /\ UNCHANGED <<world, file, settings, begun>>

(* The file cannot be read: every item is reported as unavailable. *)
LoadFails(c) ==
  /\ job[c].step \in {"load", "read"}
  /\ Continue(c, [job[c] EXCEPT !.step = "work", !.same = FALSE,
                                !.out = [i \in DOMAIN @ |-> Failed]])
  /\ UNCHANGED <<world, file, memo, settings, begun>>

(* Mutant of SaveFile: a save keeps the identity the memo goes by.         *)
SaveFileSameIdentity(c, j, cache) ==
  /\ file' = cache
  /\ job' = [job EXCEPT ![c] = j]
  /\ UNCHANGED memo

(* save_cache, under cache_write_lock: the file gets a new identity, which *)
(* neither the memo nor an identity taken before names.                    *)
SaveFile(c, j, cache) ==
  /\ file' = cache /\ memo' = {}
  /\ job' = [d \in Client |->
              IF d = c THEN j
              ELSE IF job[d] = Idle THEN Idle ELSE [job[d] EXCEPT !.same = FALSE]]

-----------------------------------------------------------------------------
(* ensure_range_cached and persist_range.                                  *)

(* Nothing to ask for, offline, or no usable answer. *)
PrewarmSkips(c) ==
  /\ job[c].step = "range"
  /\ Continue(c, [job[c] EXCEPT !.step = "work"])
  /\ UNCHANGED <<world, file, memo, settings, begun>>

RangeAnswered(c) ==
  LET j == job[c]
      open == Unresolved(j.snap, PrewarmDates(j))
      min == RangeMin(j.snap, open)
      dates == {d \in open : min <= d /\ d <= Today}
      days == {p \in visible : min <= p /\ p <= Largest(open)}
  IN /\ j.step = "range" /\ dates # {} /\ days # {}
     /\ Continue(c, [j EXCEPT !.step = "merge", !.days = days, !.dates = dates,
                               !.floor = min, !.at = hour])
     /\ UNCHANGED <<world, file, memo, settings, begun>>

Merged(c, cache, today) ==
  WithRange(cache, job[c].days, job[c].dates, job[c].floor, today)

AfterMerge(c, today) ==
  [job[c] EXCEPT !.step = "work", !.snap = Merged(c, @, today),
                 !.days = {}, !.dates = {}, !.floor = None, !.at = 0]

(* The days go into the snapshot and into the reloaded file. *)
RangeStored(c) ==
  /\ job[c].step = "merge"
  /\ \E today \in DayOf(job[c].at) .. Today :
       SaveFile(c, AfterMerge(c, today), Merged(c, file, today))
  /\ UNCHANGED <<world, settings, begun>>

(* A file that cannot be read or written is ignored. *)
RangeNotStored(c) ==
  /\ job[c].step = "merge"
  /\ \E today \in DayOf(job[c].at) .. Today :
       Continue(c, AfterMerge(c, today))
  /\ UNCHANGED <<world, file, memo, settings, begun>>

-----------------------------------------------------------------------------
(* Dated items: resolve_eur_rates_on, SnapBatch::resolve and the tasks of  *)
(* fetch_missing_dates make the same choices.                              *)

(* Phase A of a keyed batch: every date the snapshot answers. *)
SnapshotHits(c) ==
  LET j == job[c]
      hits == {i \in DOMAIN j.out : j.out[i] = Open /\ ~Missed(j, i)}
  IN /\ j.step = "work" /\ j.kind = "keys" /\ hits # {}
     /\ Continue(c, [j EXCEPT !.out = [i \in DOMAIN @ |->
          IF i \in hits THEN Outcome(j, i, "hit", CachedFor(j.snap, i[1])) ELSE @[i]]])
     /\ UNCHANGED <<world, file, memo, settings, begun>>

(* The other lookups ask the snapshot when an item's turn comes. *)
SnapshotHit(c, i) ==
  LET j == job[c]
  IN /\ j.out[i] = Open /\ ~IsLive(j, i) /\ ~Missed(j, i) /\ j.kind # "keys"
     /\ Continue(c, Settle(j, i, Outcome(j, i, "hit", CachedFor(j.snap, DateOf(j, i)))))
     /\ UNCHANGED <<world, file, memo, settings, begun>>

Asks(c, i) == job[c].out[i] = Open /\ Missed(job[c], i)

(* fetch_historical: the newest table on or before the date. *)
Fetches(c, i) ==
  LET j == job[c]
      day == UpTo(visible, DateOf(j, i))
  IN /\ Asks(c, i) /\ day # None
     /\ j.kind = "keys" => Fetchable(i[1])
     /\ Continue(c, Settle(j, i, [Open EXCEPT !.how = "got", !.day = day, !.at = hour]))
     /\ UNCHANGED <<world, file, memo, settings, begun>>

(* Mutant of Reloaded: what a lookup stores is added to what it loaded.    *)
ReloadedSnapshot(c) == job[c].snap

(* store_historical_rates reloads the cache under the lock. *)
Reloaded(c) == file

(* A table of months also remembers what it fetched in its own snapshot.   *)
Stores(c, i) ==
  \E today \in DayOf(job[c].out[i].at) .. Today :
    LET j == job[c]
        With(cache) == WithTable(cache, j.out[i].day, DateOf(j, i), today)
        done == Settle(j, i, Outcome(j, i, "fetched", j.out[i].day))
    IN /\ InFlight(j.out[i]) /\ ~IsLive(j, i)
       /\ SaveFile(c, IF j.kind = "months" THEN [done EXCEPT !.snap = With(@)] ELSE done,
                   With(Reloaded(c)))
       /\ UNCHANGED <<world, settings, begun>>

(* The table came and could not be stored: the item fails. *)
StoreFails(c, i) ==
  /\ InFlight(job[c].out[i])
  /\ Continue(c, Settle(job[c], i, Failed))
  /\ UNCHANGED <<world, file, memo, settings, begun>>

(* No answer came. *)
Degrades(c, i) ==
  LET j == job[c]
  IN /\ Asks(c, i)
     /\ Continue(c, Settle(j, i, Fallback(j, i)))
     /\ UNCHANGED <<world, file, memo, settings, begun>>

(* A task of a batch that panicked. *)
TaskLost(c, i) ==
  /\ Asks(c, i) /\ job[c].kind = "keys"
  /\ Continue(c, Settle(job[c], i, Failed))
  /\ UNCHANGED <<world, file, memo, settings, begun>>

-----------------------------------------------------------------------------
(* The newest rate: resolve_latest_eur_rates, reached by live_rate, which  *)
(* reads the reference currency anew.                                      *)

(* live_rate reads the setting itself. It is kept where the answer also    *)
(* names a reference currency, one read earlier.                           *)
RateReference(j) == IF j.ref = None THEN None ELSE reference

AsksLive(c, i, how) == IsLive(job[c], i) /\ job[c].out[i].how = how

LiveHit(c, i) ==
  LET j == job[c]
  IN /\ AsksLive(c, i, "open") /\ FreshLatest(file) # None
     /\ Continue(c, Settle(j, i, [Outcome(j, i, "hit", FreshLatest(file)) EXCEPT !.ref = RateReference(j)]))
     /\ UNCHANGED <<world, file, memo, settings, begun>>

(* Nothing fresh: what the cache has is kept for the case of no answer.    *)
LiveMiss(c, i) ==
  /\ AsksLive(c, i, "open") /\ FreshLatest(file) = None
  /\ Continue(c, Settle(job[c], i, [Open EXCEPT !.how = "loaded", !.ref = RateReference(job[c]),
                                                !.day = NewestCached(file)]))
  /\ UNCHANGED <<world, file, memo, settings, begun>>

LiveFetches(c, i) ==
  LET o == job[c].out[i]
  IN /\ AsksLive(c, i, "loaded") /\ visible # {}
     /\ Continue(c, Settle(job[c], i, [o EXCEPT !.how = "got", !.day = Largest(visible),
                                                !.at = hour]))
     /\ UNCHANGED <<world, file, memo, settings, begun>>

LiveStores(c, i) ==
  LET j == job[c]
      o == j.out[i]
  IN /\ AsksLive(c, i, "got")
     /\ SaveFile(c, Settle(j, i, Outcome(j, i, "fetched", o.day)),
                 WithLatest(Reloaded(c), o.day))
     /\ UNCHANGED <<world, settings, begun>>

LiveDegrades(c, i) ==
  LET o == job[c].out[i]
  IN /\ AsksLive(c, i, "loaded")
     /\ Continue(c, Settle(job[c], i, Outcome(job[c], i, "fallback", o.day)))
     /\ UNCHANGED <<world, file, memo, settings, begun>>

Finished(c) ==
  /\ job[c].step = "work" /\ \A i \in DOMAIN job[c].out : Settled(job[c].out[i])

(* get_monthly_fx_rates_handler: the currencies it reports as unavailable, *)
(* and the rates it shows of one.                                          *)
Unavailable(j) == {i[2] : i \in {k \in DOMAIN j.out : j.out[k].how = "failed"}}
RatesShown(j, currency) == {i \in DOMAIN j.out : i[2] = currency /\ j.out[i].how \in Answers}

(* The answer is returned to the handler that asked. *)
Return(c) ==
  /\ Finished(c) /\ Continue(c, Idle)
  /\ UNCHANGED <<world, file, memo, settings, begun>>

(* The steps of the item whose turn it is. *)
ItemStep(c, i) ==
  /\ Turn(job[c], i)
  /\ \/ SnapshotHit(c, i) \/ Fetches(c, i) \/ Stores(c, i) \/ StoreFails(c, i)
     \/ Degrades(c, i) \/ TaskLost(c, i)
     \/ LiveHit(c, i) \/ LiveMiss(c, i) \/ LiveFetches(c, i) \/ LiveStores(c, i)
     \/ LiveDegrades(c, i)

LookupStep(c) ==
  \/ LoadHit(c) \/ LoadMiss(c) \/ LoadRead(c) \/ LoadFails(c)
  \/ PrewarmSkips(c) \/ RangeAnswered(c) \/ RangeStored(c) \/ RangeNotStored(c)
  \/ SnapshotHits(c) \/ Return(c)
  \/ job[c].step = "work" /\ \E i \in DOMAIN job[c].out : ItemStep(c, i)

Next ==
  \/ Publish \/ NextHour \/ SetReference
  \/ \E c \in Client : Begin(c) \/ LookupStep(c)

Spec == Init /\ [][Next]_vars

-----------------------------------------------------------------------------
(* Properties.                                                             *)

Cache == [rates : SUBSET Day, alias : [Day -> Day \cup {None}],
          latest : Day \cup {None}, fetchedAt : 0 .. MaxHour]

OutcomeType == [how : {"open", "loaded", "got", "failed"} \cup Answers,
                day : Day \cup {None}, at : 0 .. MaxHour, ref : Reference \cup {None}]

JobOK(j) ==
  /\ j.kind \in {"on", "keys", "months", "latest"}
  /\ j.step \in {"load", "read", "range", "merge", "work"}
  /\ j.snap \in Cache /\ j.days \subseteq Day /\ j.dates \subseteq Day
  /\ \A i \in DOMAIN j.out : j.out[i] \in OutcomeType
  /\ \A i \in DOMAIN j.out : j.out[i].how \in Answers \cup {"got"} => j.out[i].day # None

(* Every variable stays in its type, and an answer names a table.          *)
TypeOK ==
  /\ hour \in 0 .. MaxHour /\ visible \subseteq Published
  /\ newest \in [0 .. MaxHour -> Day \cup {None}]
  /\ file \in Cache /\ \A cache \in memo : cache \in Cache
  /\ reference \in Reference /\ switches \in 0 .. MaxSwitches /\ begun \in 0 .. MaxLookups
  /\ \A c \in Client : job[c] # Idle => JobOK(job[c])

(* What the file says is true for ever: a stored table was published, and  *)
(* an alias names the table that is the right one for its date whatever is *)
(* published later (should_alias_as, merge_range_into_cache).              *)
CacheIsTrue ==
  /\ file.rates \subseteq visible
  /\ \A d \in Day : file.alias[d] # None => file.alias[d] = UpTo(Published, d)

(* The memo never serves what the file no longer says, also when a save    *)
(* comes between the two halves of a load (load_snapshot).                 *)
MemoIsCurrent == memo \subseteq {file}

(* An answer that is not a fallback is the right table: not older than the *)
(* newest one published for the date when the lookup began, and never from *)
(* after the date. A fallback is a published table of an earlier day. And a *)
(* table of months has a currency for every month or reports it.           *)
AnswersAreTrue ==
  \A c \in Client : job[c] # Idle =>
    /\ job[c].kind = "months" /\ Finished(c) =>
         \A n \in Currency : n \in Unavailable(job[c]) <=> RatesShown(job[c], n) = {}
    /\ \A i \in DOMAIN job[c].out :
      LET o == job[c].out[i]
          date == DateOf(job[c], i)
      IN o.how \in Answers /\ ~IsLive(job[c], i) =>
           /\ o.day \in visible
           /\ IF o.how = "fallback" THEN o.day < date
              ELSE o.day \in UpTo(job[c].known, date) .. date

(* A newest rate taken from the cache without asking was the newest one    *)
(* within Staleness of the answer, however long its store was delayed.     *)
LiveIsRecent ==
  \A c \in Client : job[c] # Idle =>
    \A i \in DOMAIN job[c].out :
      LET o == job[c].out[i]
      IN o.how = "hit" /\ IsLive(job[c], i) /\ o.at >= Staleness =>
           o.day >= newest[o.at - Staleness]

(* No save loses what another lookup stored: tables and aliases stay.      *)
NothingForgotten ==
  [][/\ file.rates \subseteq file'.rates
     /\ \A d \in Day : file.alias[d] # None => file'.alias[d] = file.alias[d]]_vars

=============================================================================

# A verification development of FinGuard's backend

FinGuard keeps a household's finances as Parquet files on every device and syncs a
desktop (the *hub*) with phones over the local network. Nothing central decides what is
true: each device appends every change to its own change log, and devices merge each
other's logs. This directory holds TLA+ models of the backend, the TLC runs that check them
and TLAPS proofs about them. All file names below are under `src/backend/src/` unless they
say otherwise.

## 1. The system

| Part | Code | State it keeps | Operations | Module |
|---|---|---|---|---|
| Hybrid logical clock | `sync.rs` 118-222 | a stamp: millisecond and counter | `next`, `observe`, `after`, `observed_at`, `bump` | `Hlc` |
| Change log | `sync.rs` 606-1540 | `changelog.jsonl`, the open handle (`LogState`: file, `last_stamp`, `needs_newline`), the `log_incomplete` marker | open, append, append a remote batch, read, empty for a reset, rewrite for a repair, mark, clear | `ChangeLog` |
| Recorded edits | `df_operations.rs` | the Parquet files | add, edit, rename, delete of rows and cells, each saved and then recorded; recurring templates plan, apply and reinstate a month | `Replicas`, `NetWorth`, `Ledger` |
| Merge decision | `merge.rs` | none: a pure function of log and batch | `plan_merge`, `generated_row_stays_deleted` | `Merge` |
| Merge application | `merge_apply.rs` | files, log, settings | `apply_remote_batch` | `Replicas`, `NetWorth`, `Ledger` |
| Sync exchange | `sync_exchange.rs` | messages of a round; log health | hello, plan, push, reply, full log, phone reset, hub repair, pairing on each side | `SyncRound` |
| Peers | `sync_peers.rs` | the peers file: role, required reset, completed reset | record, remove, update | `SyncRound`, `Link` |
| Rounds of the service | `sync_service.rs` | the session slot, the two session loops | `sync_now`, `pair`, `hub_session`, `unpair` | `SyncRound`, `Link` |
| Secure channel | `sync_net.rs`, `sync_keys.rs` | handshakes, frames, key files | open, both handshakes, refuse, report, read and write a message | `Link` |
| Pairing codes and listener | `sync_service.rs` 189-553 | the active code and its failures; the port, the last heartbeat | issue, begin and finish an attempt; heartbeat, accept loop | `HubService` |
| Baseline | `sync_baseline.rs` | the baseline markers with the skipped files | startup baseline, fresh baseline, settings baseline | `Startup`, `SyncRound` |
| Settings | `config.rs`, `merge_apply.rs` | mappings, known categories, currencies | saved, recorded and merged like rows | `Ledger`, `Startup` |
| Row id migration | `row_id_migration.rs` | rewritten Parquet files, a backup | one run at startup | `Startup` |
| Backups and the date repair | `dbs_backup.rs`, `expense_date_repair.rs` | copies, rewritten expenses | copy, repair and record | `Startup` |
| Currency rates | `fx.rs` | the cache file, the memo of its last parse | single, keyed, monthly and newest lookups | `Fx` |
| API and charts | `api.rs`, `plots.rs` | pages | the handlers that change data; pages, line and pie | `NetWorth`, `Ledger`, `Fx` |
| Write lock | `write_lock.rs` | one process-wide lock | every save, merge, reset and repair holds it | taken for granted |
| Discovery, expressions, paths, frontend, mobile shell | `sync_discovery.rs`, `expr.rs`, `paths.rs`, `src/frontend`, `src/mobile` | announcements, pages | | not modelled |

How they interact. A start first gives row ids to old files, then records what the folder
already holds, then the settings, and then serves. A request handler takes the write lock, saves
its files and calls the *record* hook, which appends a line per change to the log. A round is a
fixed exchange of messages over one encrypted connection; each side takes its steps from the log and
the peers file as they are at that moment, and applies what it receives through
`apply_remote_batch`, which writes files and then log lines. A log that may have lost
something says so (a damaged line, an unfinished line, the incomplete marker, the baseline
marker), and then the round is not an exchange: a phone *resets* (drops its data and log for
the hub's whole log), a hub *repairs* (keeps the readable lines, records its rows again and
requires a reset of every phone). Charts ask `fx.rs` for rates, which share one cache file.

What is hard here:

* **Failure half way.** A save without its append; an append cut anywhere in a line; a merge
  that wrote some files, or all files and some lines; a reset of nine steps, a repair of
  five and a start of three, each of which may stop after any step and is taken up again.
* **Time.** Wall clocks go back, run ahead, and are forgotten by a restart, which rebuilds the
  clock from the file alone. A rate table is published days late, and an alias is for ever.
* **Order.** Cells, rows, deletes and generated rows from several devices reach a device
  in batches of different shape; the result may not depend on the batches.
* **Interleaving.** Both users edit between the steps of a round; the hello that a decision
  rests on is old when the decision is made; a step outlives the session that began it. Two
  lookups load the same cache, wait for the network and store.
* **Proof across connections.** The hub asks for a reset, the connection drops, the reset
  happens or not, another repair begins: the hub clears its requirement only on the id of a
  reset from a log issued after it.

What makes each part correct:

* *Clock and log*: stamps only grow; a log whose health is clean describes the data and holds, of every
  device, a prefix of its changes.
* *Merge*: equal logs give equal rows; an edit beats what its author saw; a user's delete beats a
  generated row; a batch that failed half way is accepted again.
* *Rounds and pairing*: a phone's data from before its pairing never reaches the hub; a phone the hub requires
  nothing of holds no history the hub has lost; whatever failed, a phone that keeps syncing gets
  back in step.
* *Link*: nobody waits for a message nobody will send, or gets one it does not expect; done on the phone is
  done on the hub; a reason to stop arrives.
* *Service*: one session at a time, a code pairs one phone, the port is open while the page wants it.
* *Tables*: both files of an asset stay together, charts and pages count each asset once, income is the
  sum, a month's templates are applied once.
* *Start*: everything that was there before the log reaches it, no peer's edit is outranked, originals are kept.
* *Rates*: every answer is the table that is right for its date, or an honest fallback.

`PROJECT.json` lists under "hazards" the lines where each of these could go wrong.

## 2. The modules

```
Hlc   <--EXTENDS--  ChangeLog  <--EXTENDS--  MCChangeLog (TLC), ChangeLogProofs (TLAPS)
Histories <--INSTANCE-- Replicas (which implements it)
Merge <--EXTENDS--  Replicas   <--EXTENDS--  MCReplicas (TLC), ReplicasProofs (TLAPS)
Merge <--INSTANCE-- SyncRound  <--EXTENDS--  MCSyncRound (TLC), SyncRoundProofs (TLAPS)
Merge <--INSTANCE-- NetWorth   <--EXTENDS--  MCNetWorth (TLC), NetWorthProofs (TLAPS)
Merge <--INSTANCE-- Ledger     <--EXTENDS--  Startup <--EXTENDS-- MCStartup (TLC), StartupProofs (TLAPS)
Sheets <--EXTENDS-- NetWorth, Ledger
                    Link       <--EXTENDS--  MCLink (TLC), LinkProofs (TLAPS)
                    HubService <--EXTENDS--  MCHubService (TLC), HubServiceProofs (TLAPS)
                    Fx         <--EXTENDS--  MCFx (TLC), FxProofs (TLAPS)
```

The state machines look at the same logs from several distances. `ChangeLog` has one device and
every byte-level accident; `Replicas` has several devices, every kind of row and merges that
fail part way, on logs that are otherwise sound; `SyncRound` has pairing and the messages of
rounds, where a log is a set of entries with a list of problems; `NetWorth` and `Ledger` have the
tables themselves, with the handlers that write them, over a merge of whole logs; `Startup` puts the starts of a
process around `Ledger`. What one shows the next takes
for granted: `ChangeLog` shows that a log with no problem has lost nothing and that keys are
unique, which is how the others number entries; `Replicas` shows that applying
a batch is right however it is cut, so `SyncRound` applies one in a step. `Link` is the wire
under `SyncRound`: there a message arrives or the round ends, which `Link` takes apart into handshakes,
refusals, closed connections and abandoned calls. `HubService` is the memory of the hub's process, from
which both take that one session runs at a time. `Fx` stands alone.

### Hlc

`Stamp` is `Hlc` with the width of its two integers as constants: `MaxMs` for i64 and `MaxCounter`
for u32. `Bump` carries into the millisecond where the counter would overflow and saturates there, like
`bump`; `After` and `ObservedAt` are `Hlc::after` and `Hlc::observed_at` with the wall clock as a parameter.

### ChangeLog

One device's log. `role`, phone or hub, is chosen at the start and never changes: only a phone resets and only a hub
repairs. `entries`, `corrupt`, `tornTail`, `wholeTail` are what a scan of the file
finds: readable lines, unreadable lines as the stamp their `StampProbe` reads (or none), and a
last line without a newline, which either parses or does not. `open`, `clock`, `needsNewline` are
`LogState`; a crash forgets them and `Open` rebuilds them with `MaxStamp`. `Save` and `Record` are apart because a
crash falls between them. `Written` says what `write_lines` leaves when it stops at a line
boundary, inside a line or just before its newline, and that a line which starts behind an
unterminated one is lost together with it; that no line ever does is `TailKnown`, not an assumption.
`RecordFails` spends the stamp first, as `write_entry` does, and `MarkAppendFailed` is best effort, as in
`record_with_origin`. `ResetMark` to `ResetDone` and `RepairRewrite` to `RepairDone` are the
phases of `reset_phone_from_hub` and `repair_hub_log` that touch the log, with a crash between any two.
`sent` is what the other side holds of this device's changes, by the rule of `entries_missing_from`.
The fresh baseline is one line where the code writes several in one `write_lines`.

### Merge

The operators of `merge.rs`: `RowWinner` with `HeldBack` (a generated upsert never beats the newest
delete), `CellWinner`, `Unplaceable`, `Applied` (the outcome of an entry), and `RowAfter`, which is
`RowState::action` followed by `apply_row_action`. A value is the key of the entry that set it, so a row
says column by column which change it shows. `Described(S, fixed)` is the row a set of entries stands
for; it is the reference that `RowAfter` is compared with, one batch after the other.

### Replicas

Devices with a log, rows and a clock (`log`, `disk`, `clock`). `Add`, `EditRow`, `EditCell`, `Delete`,
`RecurringApply` and `Reinstate` are the handlers of `df_operations.rs`; `Merge` is `apply_remote_batch` with
either what the summary lacks or the whole log; `MergeFailsInFiles` and `MergeFailsInLog` stop it after any
subset of the files or after any prefix of the lines. `Restart` rebuilds the clock. Rows come in four kinds:
a user's row, a row a recurring template derives (`DerivedRow`), a row of a table that merges cell by cell
(`CellRow`), and such a row that exists without entries (`FixedRow`, the cashflow categories). `world` picks, once and for
a whole behaviour, the devices that take part and the rows they edit, so that one run covers several small worlds.

### Histories

What exchanging changes promises, without rows, clocks, summaries or files: `heard` is the keys each device has. A device makes a
change with a stamp past all it has heard of and all it has made (`Make`), or hears of some another one has, of each origin in order and without a gap
(`Hear`). `Replicas` implements it with `heard` as the keys of its logs; its failed applies, retries and whole logs are all `Hear`.

### SyncRound

The hub and its phones. `hubOf`/`finished` are the phones' peer records, `phones`/`required`
the hub's; `issued` numbers the reset ids. `at`/`own` is the phone's side of a round with the hello it
sent, `session` the hub's; `toHub`/`toPhone` carry one message each way. Each action is one step of
`phone_round_steps` or `hub_round_steps` with the function of `sync_exchange.rs` that it calls:

| Action | Code |
|---|---|
| `StartRound`, `HubAnswersHello` | `phone_hello`, `hub_answer_hello` with `plan_round` (`PlanOf`) |
| `PhonePreviews` | `phone_reset_preview`, the round the user has not confirmed |
| `PhonePushes`, `HubTakesPush` | `phone_push`, `hub_apply_push` |
| `HubReplies`, `PhoneTakesReply` | `hub_reply`, `phone_apply_reply` |
| `PhoneProceeds`, `HubProceeds`, `HubSendsFullLog` | the reset branch, `hub_full_log` |
| `HubRepairs`, `HubRepairStops` | `repair_hub_log`, whole or stopped after the rewrite, the baseline or the requirement |
| `PhoneResets`, `PhoneResetStops` | `reset_phone_from_hub`, whole or stopped after any of its nine steps |
| `HubPairs`, `PhonePairs`, `PhoneUnpairs`, `HubUnpairs` | `pair_with_phone`, `pair_with_hub`, `unpair` on either side |
| `Edit`, `EditUnlogged`, `LineDamaged`, `MarkerLost`, `Restart`, `PhoneStops`, `HubStops` | the user, faults, process restarts with the startup baseline, rounds that end early |

`cast` picks, once and for a whole behaviour, which phones start paired, which pair and unpair, how many changes are made, and how many faults
happen and where. `joined` and `private` are history: `joined` is the phones a reset made copies of the hub since they paired, `private` every line
that a phone alone held when it paired (`HeldOnlyBy`: what another device holds or another phone is sending comes to the hub anyway) or
made between its pairing and that reset.
The guards of the code stay where they are: `hub_apply_push` refuses on the *stored* requirement and
not on the plan, `hub_reply` re-reads the hub's health, and so on.

Abstractions: one whole-row table (the other kinds are `Replicas`' subject); a row's content goes by its
entry's name; all resets one repair requires share an id, where the code draws one per phone; a repair's
baseline is one step; a damaged line's stamp still counts as passed on a restart (its probe reads it or
the wall clock has moved on). Without that last one, a damaged line with no readable stamp together
with a wall clock that went back lets a restarted device reuse a stamp another device has seen; `ChangeLog`
shows that the log reports itself unreliable all the while.

### HubService

What `sync_service.rs` keeps in the hub's memory. `shown` and `code` are `PairCodeSlot` (an issue is its number, and its
digits may come twice); `busy` is `SESSION_BUSY`; `conn` is each connection's task; `heard`, `listening`, `starting` are
`HubState`, `binding` counts the heartbeats between their two locks and `sockets` the bound ports.

| Action | Code |
|---|---|
| `NewPairCode`, `Expire`, `Status` | `new_pair_code`, the end of `PAIR_CODE_LIFETIME`, `listener_status` with `PairCodeSlot::current` |
| `Connect`, `AttemptBegins`, `AttemptWithoutCode` | `accept_loop`, `PairAttemptCodes::begin_attempt` |
| `AttemptSucceeds`, `AttemptFails` | `AttemptGuard`: success, or a drop for any reason |
| `StartRecording`, `RecordingEnds`, `LimitReached`, `DetachedEnds` | `hub_pairing` and its blocking step, which outlives `SESSION_LIMIT` |
| `RoundBegins`, `Ends` | the round branch of `hub_session`; any other end of a connection |
| `HeartbeatKeeps`, `HeartbeatBinds`, `BindSucceeds`, `BindFails` | `heartbeat` before and after the bind |
| `GraceEnds`, `LoopCloses`, `Restart` | the deadline, `accept_loop` closing, a new process |

A heartbeat whose request is dropped while it binds is not an action: the address is already parsed, so that bind
returns without yielding. The eight permits of the accept loop are left out.

### Link

The connections between one phone and the hub, message by message. Each call of the phone (`pair`, `sync_now`) opens a
connection; the hub serves each in a task of its own, so what an abandoned call left behind runs beside the next.
`phone.at` and `hub[c].at` say what a side waits for; `toHub` and `toPhone` are the messages under way.

| Action | Code |
|---|---|
| `PhonePairs`, `PhoneSyncs`, `PhoneGoesOn`, `AfterGo` | `pair`, `sync_now`, `connect_pair`, `connect_sync`: the opening and the client's side of both handshakes |
| `HubOpensCall`, `HubBeginsAttempt`, `HubAnswersOne`, `HubReadsThree`, `HubAnswersSync` | `accept`, `accept_pair`, `accept_sync`, with the refusals `send_refusal` sends |
| `PhoneIdentifies`, `HubNames`, `HubHearsIdentity`, `HubRecords`, `PhoneHearsDone`, `PhoneFinishes` | `hub_pairing` and the phone's pairing: who records the other, and when |
| `PhoneHearsHello`, `PhoneHearsReport`, `PhoneHearsLast`, `HubAnswersHello`, `HubTakesPush`, `HubHearsProceed`, `HubHearsStop`, `HubFinishes` | `phone_round_steps`, `hub_round_steps` for each plan |
| `PhoneFails`, `HubFails`, `PhoneIsTold`, `HubIsTold` | `report_to_peer` and its reading on the other side |
| `PhoneIsCut`, `HubIsCut`, `PhoneGivesUp`, `HubGivesUp` | the read errors and time limits of `sync_net.rs`, `SESSION_LIMIT`, a dropped request |
| `LateRecord` | a blocking step that ends after its task is gone |
| `Unpair`, `Damage`, `Remove`, `Code`, `OtherPhone`, `Cut` | `unpair`; a key or peers file that cannot be read and its removal; the page's code; another session; the network |

Abstractions: a key opens what was made for it; the plan of a round is any (`SyncRound` decides it); chunks are put together below;
what is sent on a connection that one side has closed with something unread may take with it what the other side had not read yet.

### Sheets, NetWorth

`Sheets` is what the code does to a table in memory: by name (`df_operations.rs`, where every row of that name
changes) and by row id (`merge_apply.rs`). `NetWorth` has the investments with their prices, the liquidity
and the credits of a year on several devices. A request is one action per handler (`AddInvestment` to `SetCredit`), which
works out the whole list of saves and records, and then one step per save or record: `SaveFile`,
`SaveFails` (a file written with `write_parquet` is torn), `RecordEntry`, `RecordFails` (the log is marked, or the
mark fails too) and `Crash`. `Merge` reads the other device's log while a request may be under way there.
`Prepared` is `apply_remote_batch` up to its first write: which rows of which files change, in the order
of the newest applied entry, which decides where a new row is appended. `WithActions` and `WithCells` are what the plan's
actions then do to a file. Two flags say what merges have done: `apart`, that one failed between its files or
read the other log while a request there was under way, so that it may have brought one table of an asset without the other; and
`namesakes`, that one gave a device two assets of one name.
The pages and charts are operators over the files: `ListedLiquidity`, `ListedCredits`, `PriceShown` (the pages, which pair holdings and prices by
position), `ValueRows` (`df_value`, which joins them by name), `NetworthEvolution` and `NetworthAllocation` (`plots.rs`), each for every set of
currencies whose rate is not to be had. A value is the number of the request that set it. The chart's arithmetic is exact.

### Ledger, Startup

`Ledger` has the expenses of a month, the templates, the income and the settings. Its requests are whole: all steps, or
those before the one that fails or is cut off (`Completes`, `LosesRecord`, `CutOff`), since `NetWorth` has the steps.

| Action | Code |
|---|---|
| `AddExpense`, `EditExpense`, `DeleteExpense` | the expense handlers, by row id |
| `AddRecurring`, `DeleteRecurring`, `ApplyRecurring`, `ReinstateRecurring` | the template handlers; `PlanForMonth` is `plan_for_month` with its matching by derived id and by likeness, and the deletes of the log |
| `SetIncomeCell` | `set_cell` and the derived Income row (`RecomputeIncome`) |
| `AddMapping`, `DeleteMapping`, `AddCategory`, `DeleteCategory`, `UpdateCurrencySettings` | the handlers of the settings; `DeleteCategory` looks at the expenses first |
| `Merge`, `MergeFails` | `apply_remote_batch`: everything prepared in memory, files written in `WriteOrder`, settings last, then the log |

`Startup` adds what `main.rs` does before it serves: `MigrateRowIds` (the plan, a backup, the writes), `BaselineChangeLog` (`startup_baseline`
with its causes, its refusal on a paired device and its retry of skipped files) and `SettingsBaseline`, each whole or cut off anywhere; and what
happens around a start: `Stop`, `Restore` (the user puts a file back), `DeleteLog`, `RepairDates` (`repair_expense_dates --apply`)
and `PairAndReset`. A behaviour begins in one of three situations: two paired devices with templates, applied or not
(`InitPaired`); a hub with files from before row ids, with and without settings, some unreadable (`InitLegacy`); a
hub whose expenses have wrong dates, known to the phone or not yet recorded (`InitMisdated`).

A row's amount and text are the number of the request that set them; a fresh id is the table's number and the row's place; a derived id is the
template's id, negated. There is one year folder, and one currency. Only the hub is stopped. A peers file that cannot be read is left out.

### Fx

The cache file `fx_rates.json`, its memo, and lookups beside each other. A table is named by the day it was
published for. `visible` is what the publisher shows; `Publish` adds to it, at most `MaxDelay` days late; `NextHour` is the clock.

| Action | Code |
|---|---|
| `Begin`, `LoadHit`, `LoadMiss`, `LoadRead`, `LoadFails` | the entry points and `load_cache`: the memo by the file's identity, taken before the file is read |
| `PrewarmSkips`, `RangeAnswered`, `RangeStored`, `RangeNotStored` | `ensure_range_cached`, `merge_range_into_cache` |
| `SnapshotHits`, `SnapshotHit`, `Fetches`, `Stores`, `StoreFails`, `Degrades`, `TaskLost` | a dated item: cached, fetched, stored under the lock on a reloaded file, or fallen back |
| `LiveHit`, `LiveMiss`, `LiveFetches`, `LiveStores`, `LiveDegrades` | the newest rate and its staleness |
| `SetReference`, `Return` | the user's reference currency; the end of a lookup |

A failed request, an offline process and a spent network budget are one choice (`Degrades`). What a conversion computes is left out, but not
which tables and currencies it needs. A fetch that answers is given at most an hour's turn (`InFlightSince`), as its time limit does.

## 3. The runs

`E` marks a run that TLC must find violated.

| Run | Asks | Bounds |
|---|---|---|
| `log` | On a phone with its resets and a hub with its repairs: stamps cover the file, no key is reused, what was sent is a prefix, a loss is flagged | 2 changes, a peer's stamp at the counter's limit ahead of the wall clock, 1 damaged line; 1.5 M states |
| `replicas` | Rows match logs, a deleted generated row stays deleted, prefixes per device, no batch is refused for ever, an edit outranks what it saw, and every step is one of `Histories` | a hub and 2 phones with 3 changes of a derived row or of a user's row, or a hub and a phone with 4 changes of a user's and a derived row or of a row of cells and a fixed one; 2 columns, 1 failed apply; 0.25 M |
| `replicas_diverge` E | Is a local winner always on disk, as `merge.rs` says | 3 devices, 4 changes of one derived row |
| `round` | Private data, trusted logs, proven resets and complete replies | a phone that pairs, unpairs and pairs again with 1 change and 2 faults or with 2 changes and 1 fault, or two paired phones of which one never fails, 2 changes and 1 fault; 2 resets; 1.7 M |
| `round_live` | A phone whose user keeps syncing gets in step | 1 phone, 2 changes, 1 fault, 2 resets |
| `round_lost_delete` E | Do equal reliable logs show equal rows after a repair | 1 phone, 3 changes, 1 fault |
| `service` | Pairing codes, the session slot and the listener under concurrent connections | 2 connections, 2 codes with equal or different digits, 3 tries, 1 failed bind, 1 restart; 250 k |
| `link` | Nobody waits for nothing, nothing unexpected, done means done, the reason arrives | 2 calls of the phone, which may run beside what the first left, 2 faults; 1.6 M |
| `fx` | The cache stays true and loses nothing, answers are right or honest | 5 days, tables on 1, 2 and 4, the second without the currency, never late; 2 lookups of any kind, 1 change of the reference currency; 1.4 M |
| `networth` | A log that is not marked tells the tables; every asset is counted once unless two devices gave one name to an asset, on pages and charts alike | 2 devices, 2 names, each of the 3 pages, 3 requests, one under way at a time, 1 failure on the device whose stamps win ties; 0.4 M |
| `networth_prices` E | Does the page show each asset its own price | 2 devices, 3 requests, no failure |
| `startup` | What a start records, refuses, migrates and backs up; templates, income and settings after it | 2 devices, 2 labels, up to 2 requests, 3 starts, 1 failure, 1 deleted log; 0.2 M |

What the properties say:

* `ClockCoversFile`, `OneChangePerKey`: after failed appends, torn lines, crashes, a clock that went back,
  a reset or a repair, the next stamp is new, and no two changes share an order key.
* `SentIsPrefix`, `PrefixPerDevice`: a summary of one stamp per device tells the peer everything.
* `LossIsFlagged`: a log that reports no problem holds every saved change. The exceptions the code
  accepts are kept in `excused`: a crash between the save and the append's first byte, an append whose
  failure could not be marked either, what a reset discarded, what a baseline recorded again.
* `DiskMatchesLog`: the rows are what the log describes, whatever the order and the cut of the batches, and
  again after the retry of a failed one. For a row that a template derives this needs a hub with one phone: with two, a
  delete that comes late takes back a generated upsert that was written over an edit, which is the finding of `replicas_diverge`.
* `DeletedRowStaysDeleted`, `EditOutranksWhatItSaw`, `BatchIsAccepted`: the user's intent and the retry.
  `EditOutranksWhatItSaw` leaves out a device restarted between a failed apply and its retry: the
  clock had passed the batch in memory only, so an edit made then can lose to a value it was made upon.
* `HistoriesAreKept`: `Replicas` implements `Histories`, so nothing a device has heard is forgotten or made up, and its own
  changes are stamped past everything it has heard, restart between a failed apply and its retry included: what it has *heard* is its log, not its files.
* `HubTakesNoPrivateData`: what a phone alone held before its pairing, or made between pairing and reset, never reaches the hub.
* `ReliableLogDescribesRows`: of a device that takes part in exchanges, a log without problems describes
  the rows, also after a reset or a repair stopped at any step. A phone that is not paired, or owes a reset,
  is left out: a stopped reset, a lost mark, an unpairing and a restart in a row can leave it with a log
  that describes rows it lacks, but it replaces both before it exchanges anything.
* `ProvenMeansSameHistory`: the hub's requirement ids. Once none is left, the two histories differ only by
  what each side added.
* `ReplyCompletesPhone`: the reply is complete although the summary it answers is older than the log.
* `EventuallyInSync`: no combination of requirement, mark and refusal locks a phone out.
* `SlotIsOneSession`, `CodePairsOnce`, `TriesBounded`: no way a connection can end leaks the session slot, and because
  an attempt holds the slot a code pairs one phone and is tried three times at most, although neither is checked when
  an attempt ends.
* `WithdrawnForCause`: an attempt that ends after its code was replaced neither uses up the new code nor costs it a try.
* `OneListener`, `KeepsListening`: heartbeats that overlap a bind or the accept loop's end never bind twice, and while
  they come the port ends up open, after failed binds too.
* `NobodyWaitsForNothing`: on a connection that holds, in any plan and whatever failed, two sides that wait have
  a message to read. `NothingUnexpected`: and it is one the reader goes on with, or a reason to stop.
* `PhoneDoneMeansHubDone`: a call that ends well on the phone ended well on the hub, and the hub a phone has on record
  had recorded that phone before, whatever was abandoned, unpaired, removed or recorded late.
* `ReasonReachesPhone`: where the hub says why it stops, the phone never sees just a closed connection, as long as the connection holds.
  A busy hub is the exception: it refuses right behind its last handshake message, which the phone answers with its hello.
* `CacheIsTrue`: a table in the cache was published, and an alias names the table that is right for its date for ever.
  `AnswersAreTrue`: a hit or fetched answer is the right table of its date, a fallback an earlier published one; a table of months has
  every month of a currency or names it unavailable. `LiveIsRecent`: a newest rate from the cache was
  the newest within the staleness threshold. `MemoIsCurrent`, `NothingForgotten`: no reader sees an old cache under
  the new identity, and no save loses what another stored.
* `LogTellsTables`, `LogTellsLedger`: a log that is not marked tells what the files hold: two rows of one name, updates refused half
  way, merges, income, settings, and after a start also what was there before the log. A crash between a save and its
  record (`astray`) and a merge that was cut off and not yet repeated are the exceptions the code accepts. In `LogTellsTables` the second ends
as soon as the device has heard everything.
* `AssetIsValuedOnce`: an asset has its two rows or none on every settled device, and the charts, which join the two tables by name, count it once and at its own
  price, whatever was renamed, deleted and merged, unless two devices each gave one name to an asset (`namesakes`). Whether or not they did, line and pie agree with each
  other and with the pages whichever rates are missing, and settled devices show the same. Excluded is a merge that took the tables of an asset apart (`apart`).
* `ApplyTwiceAddsNothing`, `NoTemplateMasksAnother`: planning a month again adds nothing, and what becomes of one
  template does not depend on the rows another one generated, also of two with the same name.
* `IncomeIsSum`: the derived income row is the sum, whoever set the parts and wherever they were merged.
* `AssetSharesItsId`, `OriginalsAreKept`: after any number of cut-off migrations, with files that were unreadable meanwhile, an asset has one id
  in both files, and a copy has every file as it was.
* `RepairIsForGood`: once the date repair went through, no device that has its entries shows a wrong date again, list, spending and
  category totals count every expense, and a copy has every misdated row as it was.
* `StartOutranksNoPeer`: a start never stamps anew a row that a peer has changed.

Why the bounds are enough to be interesting. Stamps in `log` reach the carry of the counter and a
remote stamp past it, and two changes with a peer's line let a torn or failed line stand before a good one. Conflicts over
a row take at most three changes (base, winner, loser) and a fourth lets an older one win again, which
is how `replicas_diverge` fails. In the `round*` runs one fault brings a log to unreliable and a second one
stops the recovery; two resets let a requirement be replaced while its proof is under way. In `service` two connections
compete, and a second code replaces the first in the middle of an attempt. In `link` the second call meets what the first left, and
two faults abandon a call and then disturb the next; the proof covers any number of both. In `fx` a gap day, a table without the currency and a day after the last table are all asked for,
a year of months reaches the current period, and two lookups overlap at every step; `MaxDelay` is 0 and `AliasAge` 2, the tightest
values its proof allows, and the proof covers the rest. In `networth` three requests make, change and delete an asset on either side of a merge. In `startup` three starts
are a cut-off one, its repetition and one after something was put back or deleted. Each property is
also run against a mutant of the code (`PROJECT.json`, "mutants") and is violated there within the same bounds.

`TypeOK` of `ChangeLog`, `Replicas`, `SyncRound`, `HubService`, `Fx`, `NetWorth` and `Startup` holds in these runs too but is not among their
properties; those of `ChangeLog`, `HubService` and `SyncRound` are proved, and the types of the others are part of their inductive
invariants. (Where a stamp has a width, in `ChangeLog`, the type says that no step leaves it.)

Symmetry: the two columns of `replicas`, the two lookups of `fx`, the names of `networth` and the labels of `startup` are model values
that nothing compares but for equality; where the code takes rows in an order, the model takes the file's.

Fairness. In `service` the page sends its heartbeats and a bind returns (weak fairness of `Heartbeat` and of the two ends
of a bind); another program gives the port free at some point, which the bound on failed binds says. In `round_live` the user keeps starting rounds and confirms the reset a round asks for
(strong fairness of `StartRound`, `PhonePushes`, `PhoneProceeds`: other sessions and interruptions may
disable them now and then); a step whose message is there is taken, and a side whose peer is gone gives up,
since every wait in `sync_net.rs` has a time limit (weak fairness of `RoundStep`, `PhoneStops`, `HubStops`); and from some
point on no round is cut short by the network or a restart (`<>[][~Interrupted]_vars`). The last is an assumption
about the world: on a connection that always fails nothing syncs. Edits and faults are finite by their bounds.

`CHECK_DEADLOCK FALSE` appears where a bound on stamps, changes, requests, calls or days brings the model to rest; `log` and
`service` check for deadlock.

## 4. What is proved

The modules that choose maxima begin with two lemmas of their own, that a nonempty set of naturals has a least element and a
bounded one a greatest. `ChangeLogProofs` first proves about stamps, for every width: the order is total (`BeforeOrder`), a finite set of stamps
has a latest (`LatestExists`), and the next stamp is later than the last at every wall clock reading
(`AfterIsLater`, `ObservedIsLater`) as long as the last is below the final millisecond (`Headroom`: there
`bump` saturates and the code's promise ends too).

`ChangeLogProofs` then proves, for both roles and every device id, set of remote entries and bound,
`TypeOK`, `ClockCoversFile`, `OneChangePerKey`, `SentIsPrefix` and `LossIsFlagged` as invariants of `ChangeLog`'s
`Spec`. The assumptions are `HlcAssumption` and `LogAssumption` (naturals, remote entries carry other device ids).
The argument is one inductive invariant, `IInv`:

* `OneChangePerKey` needs the clock to be past every stamp the file shows, so `ClockCoversFile` is part of it;
  and since that holds of an *open* log, an unterminated line must not be glued to the next, so `TailKnown` is.
* Both that and `SentIsPrefix` are claimed of a reliable log only. Inductively they hold of more: `OwnKeysUnique` of
  the file and of `sent` always, `SentStored` and `SentPrefix` while nothing says lines may be missing
  (`Whole`: no corrupt line and no reset or repair under way).
* `LossFlagged` is `LossIsFlagged` without counting an unterminated but readable line as a problem, because a restart
  that closes that line makes the log reliable again.
* `PhaseFacts` ties the steps of a reset and of a repair to the marker on disk.

Every action has its lemma (`RecordFailsStep`, `ResetFillStep`, ...) on `Grown`, which says what any write leaves behind.

`HubServiceProofs` proves every safety property of `HubService`: `TypeOK`, `SlotIsOneSession`, `CodePairsOnce`,
`TriesBounded` and `OneListener` as invariants and `WithdrawnForCause` as an action property, for any number of
connections, codes and tries (`ServiceAssumption`: at least one try). Its `IInv` adds what no single property says:

* `TriesCounted`: every attempt begun with the active code has failed and was counted, but for the one that runs. A
  failure counts only at the end of its attempt, so `TriesBounded` needs that the slot admits one attempt at a time.
* `UsedUp`: an issue that paired is not the active one and nobody tries it, which is why a code pairs once although
  the end of an attempt checks nothing.
* `FailuresHappened`: the active code's failures are failures with its digits since it was shown.

`FxProofs` proves all five properties of `Fx` for every calendar, publisher, age limit, chunk size and any number of lookups of any kind.
The one assumption that matters is `MaxDelay + 1 < AliasAge`: no table is later than the age at which the code trusts an
alias, with a day to spare for an answer that was under way at midnight. The code's age is seven days, which `ALIAS_MIN_AGE_DAYS` calls "comfortably
beyond any plausible publication delay": the proof says how much beyond it has to be. The argument:

* `OldEnough`: an answer is stored within the hour after it came, so if its date is old enough for an alias when it is stored, every table of
  up to that date was out when it came; no later table can make the alias wrong.
* `CacheTrue` (of the cache and of each lookup's snapshot of it) is monotone in `visible`: what was true when it was read
  stays true (`CachedForIsRight`, `WithTableIsTrue`, `WithRangeIsTrue`).
* `LookupsTrue` says of a lookup under way, by step, what its answers so far claim (`ItemsTrue`), what a range answer that is not yet stored has seen
  (`RangeTrue`), that the dates it works on are in the calendar (`Dated`), and that a table of months drops a currency whole (`MonthsWhole`).
* `Timely` and `NewestTrue` tie `visible` and the history `newest` to the clock; `LatestTrue` is what `LiveIsRecent` needs of the file.

Every step lemma proves `Proceeds`, which is `IInv'` and that the file has only grown, so that `NothingForgotten` follows from the same lemmas.

`ReplicasProofs` proves all six properties of `Replicas`, for any set of devices, rows and columns, any number of changes and
of failed applies (`ReplicaAssumption`: finitely many devices, derived rows are not merged by cells, entries for cells come
from tables that are). It first settles what entries decide: a nonempty set of entries has one newest (`NewestExists`), a row has one winner
(`RowWinnerIs`), a column one winning cell (`CellWinnerIs`). The argument about files is one relation:

* `Shows(row, L, T)`: where the entry that decides among all entries `T` is in the log `L` next to the file, the row shows it, and
  so does each column. While what decides is not in the log, nothing is said, because an apply that stopped part way may have put the row
  ahead of the log, and the user may have edited the row since. `NewestOnDisk` claims this of every device with `T` everything there is; `LogOnDisk` with `T`
  the device's own log, while no apply has failed.
* `MergeShows` is the lemma about `plan_row` and `apply_row_action`: a row that shows its log shows log and batch afterwards, among any `T` that decide
  no differently (`Agree`). Entries that no template made always agree (`PlainAgree`). With generated ones a late delete can take a winner back, and that is
  where `OnePhone` comes in: a batch between two devices brings all there is.
* For a delete made on one side of two (`DeleteElsewhere`) the proof needs `GeneratedAfterPeer`: a device generates a row over its own
  user's upsert only because its file heard something later from the other one. TLC found the third device that breaks this.
* `PrefixPerDevice` and `Stamped` (a device has all its own entries, and its clock is past its log) give that a batch is enough (`BatchIsEnough`) whether it was
  chosen by summary or is the whole log, and that nothing an apply stores part of has a gap.
* `DiskCovered` gives `EditOutranksWhatItSaw`; `OwnDeleteWins` gives `DeletedRowStaysDeleted` for any number of phones.

`EditOf` and `MergeOf` are the two shapes every step but a restart has, and each part of `IInv` has one lemma for each.

`ReplicasKeepHistories` is the refinement, `Spec => HistoriesAreKept`, with `Heard` as the mapping. An edit is a `Make` (`EditMakes`): the guard on the
clock gives a stamp past the log, and `PrefixPerDevice` that the device's own newest entry is in it. An apply is a `Hear` (`MergeHears`): that it
leaves no gap, cut off or not, is `PrefixPerDevice` after the step, so the refinement needs the invariant on both sides of it. A restart is a stutter.

`LinkProofs` proves all four properties of `Link`, for any number of calls and of faults, so that what the run shows of two calls holds of
a hub that serves whatever tasks earlier calls have left behind. None of the four is inductive; what makes them so is in `IInv`:

* `Lockstep`: while a connection holds and both sides live, the two are in one of the 27 turns of `PairingTurn` and `SyncTurn`: where each waits and exactly
  what is on its way. A turn with nothing on its way is one in which the hub works, which is `NobodyWaitsForNothing`.
* `PhoneFits` and `HubFits` say what may still be read when one side has ended or the connection broke, which no turn describes; at most two messages
  wait for the phone and one for the hub. They give `NothingUnexpected`.
* `Tidings` and `Reason`: a last word ("done", a reply, a full log) is under way only when the hub's task has ended well, and a reason only behind
  everything the phone has sent. With `Ends` they give `ReasonReachesPhone` and the first half of `PhoneDoneMeansHubDone`.
* `Keys`: the identity the phone reads is of the task that will record it, and a record a dropped call will still write (`late`) is of a key under
  which the hub has recorded the phone. It gives the second half, through unpairing and new keys.
* `Fresh`: a connection that was not opened yet is empty, so a new call starts in the first turn.

A step of the hub concerns the phone only on the phone's own connection (`HubElsewhere`); there it goes on (`HubGoesOnWell`) or ends (`HubStopsWell`),
and a step of the phone goes on (`GoesOnKeeps`) or ends its call (`LastOfPhone`).

`SyncRoundProofs` proves `TypeOK` and `HubTakesNoPrivateData` of `SyncRound`, for any number of phones, rows, changes, resets and
faults (`RoundAssumption`: device ids are positive numbers, the rows finitely many). What the hub must never receive is a line in `private`,
and the argument follows such a line through the round:

* `Unproven`, `PairsFirst` and `Owes`: a phone that no reset has joined since its pairing has finished none on record, and the hub, if it
  has the phone on record, requires a reset that begins with this pairing. `RequiredAfterRepair` is the lemma about `RequiredReset`: a repair
  in between gives a new id and keeps the first pairing's.
* `HelloTrue` and `AnswerTrue`: so its hello proves nothing, the hub's answer tells it to push nothing, and it does not.
* `JoinedClean`, `PushClean`, `TakenClean`: a joined phone's log, a push on its way and whatever a phone is about to take hold no private line.
* New lines are about later changes than any line there is (`WrittenGrows`), so what is entered now is in no message and no other log.

The answer's flag alone carries the proof: the hub's own guard in `hub_apply_push` and the phone's incomplete mark are never needed for it, which is
why the loss of the mark does no harm. They are the code's second line of defence.

`StartupProofs` proves `IncomeIsSum`, `OriginalsAreKept`, `StartOutranksNoPeer`, `AssetSharesItsId`, `RepairIsForGood`, `ApplyTwiceAddsNothing` and
`NoTemplateMasksAnother` of `Startup` and `Ledger`, for any number of devices, labels, requests, starts, failures and deleted logs (`LedgerAssumption`, `StartupAssumption`: the categories of income differ, the bounds are naturals). A request, a start and a tool all end in "some of
these saves, some of these records", so the argument is about such lists:

* `SafeSteps(d, steps)`: a list saves an income only as its first step and only with the derived row summed, and any other table with
  row ids only when it was loaded with them. `SafeStepsLeaveFiles`: then whatever part of it is done, sums hold and no file goes back to having no ids.
  `HandlersAreSafe` goes through every handler; merges and resets do the same in `Prepared`.
* `FilesAsTheyWere`: a file that lacked ids is still the original, unchanged, or there is a copy that has it. It needs that no handler writes a
  file that needs ids, which is `CanLoad`, and that a migration takes its copy before its first write, cut off or not.
* `AloneKnowsItself` gives `StartOutranksNoPeer`: until the hub has been paired there are only entries of its own, and a start of a
  device that has been paired records nothing (`BaselineRecords`: `Refuses`, and the settings baseline alike).
* `StartsApart`: only the hub is ever in a start, and nothing else runs on it then, so no request stands between a plan and its writes.
* `RowsAreTyped`: every table of every device holds rows of its kind, and so does every entry. `TypedSteps` says it of the steps of a request, a
  migration, a baseline and a repair, and `WinnersAreTyped` of what a merge writes: what decides a row it brings is an entry about that row.
* `AssetsInv` gives `AssetSharesItsId`, which says nothing of the states in between. While a file of the hub lacks ids (`Lacking`), its two
  files are the only place with assets (`Unsettled`): no log has one, for a file that lacks ids keeps both from being loaded
  (`NothingLoaded`), and no merge brings one. The files have the same names, each name once, and each file has all of its ids or none; one that has
  them is readable, so the other file finds them (`FilledAssets`) whenever a later start takes it up. Once no id is lacking, the names and ids of
  all rows and entries anywhere correspond one to one (`OneToOne(Assets)`): steps move rows and entries about and make no new ones (the requests that
  edit assets are those of `NetWorth`, not of `Ledger`). That a merge, a reset and a baseline do no more is `MergesKeepAssets`, `ResetKeepsAssets` and `BaselinesKeepAssets`; `MigrationOfAssets` says in which order
  a migration that may stop anywhere writes the two files: the prices only after the holdings, if those are filled in the same start.
* `DatesInv` gives `RepairIsForGood`. Either no device and no log has a wrong date (`NothingWrong`), and no handler, merge, migration or baseline makes one
  (`DatedSteps`, `Replaces`: a table that is saved has right rows of the ids recorded and otherwise the rows it had), or the behaviour began with some
  (`SomethingWrong`). Then a row is wrong on a device only while the device has no entry that says it right (`StillWrong`), an entry that says it right or removes it is newer than
  all that say it wrong (`WrongFirst`), and every device that has an entry has the wrong ones (`WrongIsKnown`), so whatever a merge brings decides for a right row
  (`RightsDecide`: by the rows' own merge, where a delete may be held back). The clocks carry `WrongFirst` (`ClocksAhead`, `StampsRise`), and the repair's own
  records do the rest (`Covered`), unless the hub never serves again and nobody hears of them (`HubIsOut`). `Early` is what those beginnings leave to do, one
  start, one request and no deleted log. The argument uses it, so a hub with wrong dates that starts more than once, or whose log is deleted, is not what the
  theorem speaks of.

The last two properties are about `PlanForMonth`, and hold of any month and templates of the right type (`AppliedIsNotDue`, `OthersArePlannedAlike`).
A filter is `RowsAt`, the rows at some positions; `RanksAreNumbers` counts the positions, and `RowsAtPicks` says that what is picked is
exactly the rows at them. Applying writes for each pending template a row with the id derived from it, so none of them is due again, and more rows
make no other template due. A row generated from a template stands for no other one, since its id is not that one's and is a derived one.

`NetWorthProofs` proves all three properties of `NetWorth`, for any set of devices, names, number of requests and of failures, any of them under way on
several devices at once (`NetWorthAssumption`: device ids are naturals, the bounds too, the pages are the three). Its `IInv` is
`Typed`, `StampsTell` (a stamp tells an entry, a device holds all it has written, its clock is not behind its log) and `RequestsAreCoherent`:

* `Tells(L, U, t, sheet)` is the relation of a table to a log `L` among all entries `U` heard of: whatever entry decides and is in `L`, the table shows it,
  row by row and cell by cell, and it has no row nobody told of. What decides is in `U`, so a merge that stored the rows and not yet the entries leaves it true.
* `LogTellsTables` speaks of devices with nothing to do, and is not inductive: between a save and its record a table is ahead of its log. `Coherent(todo, f, L, U, d)`
  says of the steps still to be done that wherever they may stop with no save unrecorded, at whatever stamps, `Tells` holds. `StepIsCoherent` (a step done leaves
  the rest coherent) and `CutOffTells` then cover the step-by-step execution, its failures and crashes once, for every handler.
* A handler's list is made of blocks (`IsBlock`: the saves of some tables, then their records) in which each record says what its save has changed (`WorkIsGood`), and
  blocks follow each other (`MoreIsGood`), since a request with several parts reads what its earlier parts wrote.
* `MergedTells` is the same for `apply_remote_batch`. The plan's actions are in the order of their newest entry; `RanksAreNumbers` shows that the sequence has every
  one of them exactly once. Files that a failed merge did not reach are still told, those it did reach are told among all that was heard.

`NetWorthAssetIsValuedOnce` needs two more invariants. `AssetsInv` is about names: while no merge has made namesakes, each entry that names a holding has a twin that
names the price, one stamp later with the same id and text (`Paired`), in every log; a request that stopped between the two is the one exception (`InPairs`), and it
ends in a mark, or `astray`. Twins are in the same order as each other, so they decide together, and the two tables have the same ids with the same names (`HasMates`); with
each name once, the join by name is the join by id. `MonthsInv` says that every value told is an integer and only a credit's is below zero, so that nothing the pie drops
was part of the line. The sums themselves are folds over sets, recursive underneath, and there is no induction over data: `Adds` says what a function must satisfy on all
subsets to be their sum, `SmallestSubset` that a property that fails has a least set on which it does, and with both `SumExists` and `TotalIs` expand the library's fold
to its choice and show that the choice is the sum. From there on `PieAddsUp` and `PagesAddUp` are arithmetic.

Only model-checked: `LogTellsLedger` of `Startup`; `ReliableLogDescribesRows`, `ProvenMeansSameHistory` and
`ReplyCompletesPhone` of `SyncRound`; and liveness, which is out of the prover's reach. `LogTellsLedger` is true of
a hub with one phone only: with a second one, a generated row that one phone edited and the other deleted and generated again lives on one replica and not on the
next under one and the same log (the scenario of the `replicas_diverge` run), and TLC finds it when the constant has three devices. `ReliableLogDescribesRows`
and `ProvenMeansSameHistory` hold within the run's bounds only, so no proof can be had. With a phone
more and the hub's log damaged twice TLC finds this: the hub's newest line is damaged, a phone has it, and a repair
stops right after the rewrite, which drops the line and its stamp. The hub restarts, takes its clock from what is left, repairs with
a baseline stamped below the dropped line, and then gives a new change the very stamp of the dropped one; a phone in the middle of a reset pushes the
old line, and two changes share a key in the hub's log. It takes a wall clock that stands behind that stamp (set back in between, or the stamp is one
the hub observed from a device that runs ahead). `sync_exchange.rs` 1199 says of the baseline that "its stamps outrank every entry
any phone holds"; after a stopped repair that rests on the wall clock.

## 5. Where the code and its words part

Shown by a run:

* **A local winner that is not on disk** (`merge.rs` 724, `replicas_diverge`). The hub adds a
  generated row and edits it; phone A, which has not heard of the edit, deletes it with a stamp below the edit's; phone B, which knows neither, generates
  the row as well, with the newest stamp. When B's batch reaches the hub before A's delete, B's upsert is
  written over the edit. The delete then holds B's upsert back, the hub's edit is the winner again, and the plan
  writes nothing, because "a local winner is already on disk". From then on the hub shows another row than its own log describes.
* **A delete lost in a repair** (`sync_exchange.rs` 1231, `round_lost_delete`). When a hub's delete was
  saved but not logged, the repair keeps the old upsert and records no tombstone, so every phone reset from
  the repaired log shows the row again while the hub does not, with equal and reliable logs.
* **Prices beside the wrong asset** (`api.rs` 1542, `networth_prices`). The investments page pairs row i of the holdings with row i of the
  prices. A merge appends the rows of each file in the order of their newest applied entry, so after a first sync the two
  files can list the same assets in different orders, and each shows the other's price. The charts join by name and are right.

Met while modelling and left out of what the properties claim:

* **A deleted log** (`sync_baseline.rs` 734). The module's doc calls deleting a log "the obvious first repair for a corrupt one" and has a start record the
  folder again. The marker's counts decide that, so it does not happen when the first baseline had recorded nothing, nor after a re-record that was cut off
  part way (the old marker stands), nor ever for the settings (379). `startup` deletes the log where none of this applies.
* **A settings file that stays unreadable** keeps a paired hub's log marked at every start, although nothing new was lost.
* **The busy hub** (`sync_net.rs` 315) may close before the phone's hello is read, and the phone sees a lost connection instead of the reason.
* **A report of a report** (`sync_service.rs` 1528-1541): the doc says nothing is sent "when the other device reported the failure
  itself"; the code holds back on network errors only. The echo is never read.
* **The repair of expense dates** (`expense_date_repair.rs` 226): a crash between its save and its record leaves rows that a second `--apply` finds in order and
  does not record, though the doc says it finishes the rest. Its entry holds the whole row, so it outranks a phone's concurrent edit of another column.
* **Class B dates** (`api.rs` 532, 1468): the list shows an expense in the month of its file, the spending report in the month of its date; a day the month
  lacks is not listed at all. `RepairIsForGood` shows that the repair ends this, and `RepairsStay` proves it.
* **Rates**: `get_monthly_fx_rates_handler` (`api.rs` 2163) reads the reference currency before the lookup reads it again, so an answer may name the
  old one.
* **Charts**: they collect currencies, wait for rates and read the files again (`api.rs` 2060), so a row of a new currency has no rate; the line
  is null where amounts cancel to zero in every month; the pie drops a part below zero.
* **One name for two assets**: two devices can give an asset each the same name. The charts then get a cross product of
  holdings and prices (`df_operations.rs` 1970), and a rename, which goes by name and changes every row that has it (1504), can tear an asset apart: device 2
  has both assets called `a` and renames them to `b`, while device 1, which has only the first, renames it to `c` in between; of the first asset the
  holding may take one rename and the price the other. This is why `AssetIsValuedOnce` leaves out `namesakes`, not only while they last.
* **The device id** (`sync.rs` 246): two threads of a fresh installation can each make up one, and one of them is forgotten.
* **Category deletes** (`api.rs` 1357): a retry after a half-done delete answers not found. The guard is on the total, so a category whose
  expenses cancel out can be deleted, although the doc (1314) wants none "removed out from under existing expenses".

## 6. What is not modelled, and why

* **Cryptography and chunking** below `Link`: it takes from them that a key opens what was made for it and that a message arrives whole or not at all.
* **Discovery** (`sync_discovery.rs`): it changes no state of the service. The port can be open while nobody announces it.
* **The permits of the accept loop**, the address hint, status pages, protocol versions and malformed messages.
* **Several year folders**: the code takes them one after the other with the same steps; one stands for all. **A peers file that cannot be read** at a start.
* **Column arithmetic, filters and column types** of `df_operations.rs`, the yearly category summaries it writes and nothing reads (254-302).
* **The parser of typed amounts** (`expr.rs`): a pure function over characters, which unit tests reach well.
* **The dry run of the repair tool, links among its folders, the mock data**, and copies of a backup that were cut off.
* **The write lock** is taken for granted: what holds it is one step, or one phase.
* **Folder lookup, errors, diagnostics, payload parsing, host checks, frontend and mobile shell.** A stale full-payload update of an expense (`api.rs` 880) is the page's
  doing: the last writer wins.
* In `startup`: two devices' settings merge under failures only where a start comes before; a merge there is of whole logs (`Replicas` has the parts).

## 7. The plan

1. **Done:** `Hlc`, `ChangeLog`, `HubService`, `Fx`, `Merge` with `Replicas`, `Link`, `SyncRound`, `Sheets` and `NetWorth`, and their proofs;
   `Ledger` and `Startup`, with most of theirs.
2. **Rounds that outlive their session** in `SyncRound`: an apply, a reset or a repair that runs on beside the next session. `Link` has the records of a
   pairing; the data side should keep `ProvenMeansSameHistory`.
3. **Several years in `Startup`**: a baseline cut off between two folders, and a peers file that cannot be read.
4. **An abstract specification of a round**, "a phone and the hub exchange everything or nothing", which `SyncRound` implements where nothing fails.
   (**Done:** `Histories`, which `Replicas` implements.)
5. **Proofs**: `LogTellsLedger` for a hub with one phone.

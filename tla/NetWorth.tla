------------------------------ MODULE NetWorth ------------------------------
(***************************************************************************)
(* The net worth tables of a year on several devices: investments with     *)
(* their prices, liquidity, credits and debts.                             *)
(*                                                                         *)
(* A request changes its tables in memory, saves the files and then        *)
(* records one entry per changed row, all under the write lock, and can    *)
(* fail or be cut off between any two of these steps.  Devices merge each  *)
(* other's entries row by row and cell by cell.                            *)
(***************************************************************************)
EXTENDS Sheets, SequencesExt

CONSTANTS Device,
          Name,          \* the names an asset or an entry can have
          Page,          \* the pages used, of "investments", "liquidity", "credits"
          MaxParts,      \* bound: how many parts of an entry an update gives
          MaxBusy,       \* bound: how many devices have a request under way at once
          MaxRequests,   \* bound: how many requests are made
          Faulty,        \* bound: the devices whose steps may fail
          MaxFailures    \* bound: how many steps fail, crashes included

ASSUME NetWorthAssumption ==
  /\ Device \subseteq Nat /\ Faulty \subseteq Device
  /\ Page \subseteq {"investments", "liquidity", "credits"}
  /\ MaxParts \in Nat /\ MaxBusy \in Nat /\ MaxRequests \in Nat /\ MaxFailures \in Nat

(* asset_name, category and link, a month, and a currency.  A month and a  *)
(* link hold the number of the request that set them.                      *)
Column == {"name", "meta", "month", "currency"}

M == INSTANCE Merge WITH PerCell <- TRUE

Table == {"holdings", "prices", "liquidity", "credits"}

(* The files of a page, in the order save() writes them.  The first one is *)
(* the one whose names a request looks for.                                *)
Files(p) == CASE p = "investments" -> <<"holdings", "prices">>
              [] p = "liquidity" -> <<"liquidity">>
              [] p = "credits" -> <<"credits">>

VARIABLES
  page,      \* the page the devices of this behaviour work on
  disk,      \* disk[d][t]: the rows of a table's file, in order
  torn,      \* torn[d]: the files a failed save has truncated
  log,       \* log[d]: the entries of the change log
  clock,     \* clock[d]: the time of the newest stamp issued or seen
  steps,     \* steps[d]: what the request that holds the write lock still does
  marked,    \* the devices whose log is marked incomplete
  apart,     \* whether a merge brought one table of an asset without the other
  namesakes, \* whether a merge gave a device two assets of one name
  astray,    \* the devices that lost the entries of a saved change, unmarked
  requests,  \* how many requests were made
  failures   \* how many steps have failed

vars == <<page, disk, torn, log, clock, steps, marked, apart, namesakes, astray,
          requests, failures>>

Value == -MaxRequests..MaxRequests

Row == [id : 1..MaxRequests, name : Name, meta : Value, month : Value, currency : Value]

RowId(t, id) == [table |-> t, id |-> id]

Everything == UNION {log[d] : d \in Device}

About(E, x) == {e \in E : e.table = x.table /\ e.id = x.id}

RowOf(id, cells) == [c \in Column \cup {"id"} |-> IF c = "id" THEN id ELSE cells[c]]

Init ==
  /\ page \in Page
  /\ disk = [d \in Device |-> [t \in Table |-> <<>>]]
  /\ torn = [d \in Device |-> {}]
  /\ log = [d \in Device |-> {}]
  /\ clock = [d \in Device |-> 0]
  /\ steps = [d \in Device |-> <<>>]
  /\ marked = {} /\ apart = FALSE /\ namesakes = FALSE /\ astray = {}
  /\ requests = 0 /\ failures = 0

-----------------------------------------------------------------------------
(* What a request does: the tables it leaves in memory, and its steps      *)

Save(t, sheet) == [do |-> "save", table |-> t, sheet |-> sheet]

RecordStep(t, id, op, cells) ==
  [do |-> "record", table |-> t, id |-> id, op |-> op, cells |-> cells]

(* record_asset and record_rows: the same change for each of these ids. *)
RecordAll(t, ids, op, cells) ==
  [i \in DOMAIN ids |-> RecordStep(t, ids[i], op, cells)]

Cell(c, v) == [x \in {c} |-> v]

(* A change made to the tables ts, one or two, of frames f: their sheets   *)
(* become g, all of them are saved, and then records are made of each.     *)
Work(f, ts, g, records) ==
  [frames |-> [t \in Table |-> IF t \in Range(ts) THEN g[t] ELSE f[t]],
   steps |-> [i \in DOMAIN ts |-> Save(ts[i], g[ts[i]])]
             \o (records[ts[1]] \o IF Len(ts) = 1 THEN <<>> ELSE records[ts[2]])]

(* A new row under a fresh id, the same in each of the tables. *)
AddRow(f, ts, n) ==
  LET cells == [c \in Column |-> IF c = "name" THEN n ELSE 0]
  IN Work(f, ts, [t \in Table |-> Append(f[t], RowOf(requests + 1, cells))],
          [t \in Table |-> <<RecordStep(t, requests + 1, "upsert", cells)>>])

(* Mutant of RemoveNamed: the ids are looked for after the change. *)
RemoveNamedFirst(f, ts, n) ==
  LET g == [t \in Table |-> Without(f[t], n)]
  IN Work(f, ts, g, [t \in Table |-> RecordAll(t, RowIdsWhere(g[t], n), "delete", <<>>)])

(* Every row of that name goes.  The ids are taken before the change. *)
RemoveNamed(f, ts, n) ==
  Work(f, ts, [t \in Table |-> Without(f[t], n)],
       [t \in Table |-> RecordAll(t, RowIdsWhere(f[t], n), "delete", <<>>)])

(* Every row of that name gets value v in column c. *)
SetNamed(f, ts, n, c, v) ==
  Work(f, ts, [t \in Table |-> SetWhere(f[t], n, c, v)],
       [t \in Table |-> RecordAll(t, RowIdsWhere(f[t], n), "cell", Cell(c, v))])

Nothing(f) == [frames |-> f, steps |-> <<>>]

-----------------------------------------------------------------------------
(* The requests.  A name that is not there, or is taken, ends a request    *)
(* with nothing changed.                                                   *)

New == requests + 1

Investments == Files("investments")
Holdings == <<"holdings">>
Prices == <<"prices">>
Liquidity == Files("liquidity")
Credits == Files("credits")

Has(f, t, n) == n \in NamesIn(f[t])

(* The lock is free and the files of the page can be loaded. *)
Ready(d, p) ==
  /\ page = p /\ steps[d] = <<>> /\ requests < MaxRequests
  /\ Cardinality({e \in Device : steps[e] # <<>>}) < MaxBusy
  /\ \A i \in DOMAIN Files(p) : Files(p)[i] \notin torn[d]

LargestTime(E) ==
  IF E = {} THEN 0 ELSE CHOOSE t \in {e.key.time : e \in E} : \A e \in E : e.key.time <= t

(* A request of device d sets out to do this work.  The wall clock reads   *)
(* less than the newest stamp of the device, or as much as any stamp.      *)
Request(d, work) ==
  /\ work.steps # <<>>
  /\ \E t \in {clock[d], LargestTime(Everything)} \ 0..(clock[d] - 1) :
       clock' = [clock EXCEPT ![d] = t]
  /\ steps' = [steps EXCEPT ![d] = work.steps]
  /\ requests' = requests + 1
  /\ UNCHANGED <<page, disk, torn, log, marked, apart, namesakes, astray, failures>>

(* The name an update is under once its rename, if any, is done. *)
CanRename(f, t, old, new) == Has(f, t, old) /\ (new # old => ~Has(f, t, new))

Parts(all) == {P \in SUBSET all : Cardinality(P) <= MaxParts}

(* The methods of InvestmentHoldings. *)
AddAsset(f, n) == AddRow(f, Investments, n)

RemoveAsset(f, n) == RemoveNamed(f, Investments, n)

RenameAsset(f, old, new) ==
  IF new = old THEN Nothing(f) ELSE SetNamed(f, Investments, old, "name", new)

SetAssetCategory(f, n) == SetNamed(f, Investments, n, "meta", New)

SetAssetLink(f, n) == SetNamed(f, Investments, n, "meta", New)

(* set_currency: the default of the asset's later prices only. *)
SetAssetCurrency(f, n) == SetNamed(f, Holdings, n, "currency", New)

(* A price is a cell of the prices, and its currency a second one, saved   *)
(* with it.                                                                *)
SetAssetPrice(f, n, withCurrency) ==
  LET ids == RowIdsWhere(f["prices"], n)
      Recorded(c) == RecordAll("prices", ids, "cell", Cell(c, New))
      priced == SetWhere(f["prices"], n, "month", New)
  IN IF ~withCurrency THEN SetNamed(f, Prices, n, "month", New)
     ELSE Work(f, Prices, [t \in Table |-> SetWhere(priced, n, "currency", New)],
               [t \in Table |-> Recorded("month") \o Recorded("currency")])

(* The methods of Liquidity. *)
AddLiquidityAsset(f, n) == AddRow(f, Liquidity, n)

RemoveLiquidityAsset(f, n) == RemoveNamed(f, Liquidity, n)

RenameLiquidity(f, old, new) ==
  IF new = old THEN Nothing(f) ELSE SetNamed(f, Liquidity, old, "name", new)

SetLiquidityCategory(f, n) == SetNamed(f, Liquidity, n, "meta", New)

SetLiquidityCurrency(f, n) == SetNamed(f, Liquidity, n, "currency", New)

SetLiquidityValue(f, n) == SetNamed(f, Liquidity, n, "month", New)

(* The methods of CreditsDebts. *)
AddEntry(f, n) == AddRow(f, Credits, n)

RemoveEntry(f, n) == RemoveNamed(f, Credits, n)

RenameCredit(f, old, new) ==
  IF new = old THEN Nothing(f) ELSE SetNamed(f, Credits, old, "name", new)

SetCreditCurrency(f, n) == SetNamed(f, Credits, n, "currency", New)

(* A debt is a value below zero. *)
SetCreditValue(f, n, v) == SetNamed(f, Credits, n, "month", v)

(* One part after another, those the payload gives: more is the work of    *)
(* this part on the frames the work before it leaves.                      *)
Given(work, wanted, part, more) ==
  IF part \in wanted THEN [frames |-> more.frames, steps |-> work.steps \o more.steps]
  ELSE work

(* The handlers. *)
AddInvestment(d) ==
  /\ Ready(d, "investments")
  /\ \E n \in Name :
       /\ ~Has(disk[d], "holdings", n)
       /\ Request(d, AddAsset(disk[d], n))

(* A part the request has not got to is left out when an earlier one is    *)
(* refused, so the subsets of the parts cover the refusals too.            *)
UpdateInvestment(d) ==
  /\ Ready(d, "investments")
  /\ \E old, new \in Name, wanted \in Parts({"category", "currency", "link"}) :
       /\ CanRename(disk[d], "holdings", old, new)
       /\ LET renamed == RenameAsset(disk[d], old, new)
              filed == Given(renamed, wanted, "category", SetAssetCategory(renamed.frames, new))
              priced == Given(filed, wanted, "currency", SetAssetCurrency(filed.frames, new))
          IN Request(d, Given(priced, wanted, "link", SetAssetLink(priced.frames, new)))

DeleteInvestment(d) ==
  /\ Ready(d, "investments")
  /\ \E n \in Name :
       Request(d, RemoveAsset(disk[d], n))

(* A quantity is a cell of the holdings only. *)
SetQuantity(d) ==
  /\ Ready(d, "investments")
  /\ \E n \in Name :
       /\ Has(disk[d], "holdings", n)
       /\ Request(d, SetNamed(disk[d], Holdings, n, "month", New))

(* The name is looked for in the holdings. *)
SetPrice(d) ==
  /\ Ready(d, "investments")
  /\ \E n \in Name, withCurrency \in BOOLEAN :
       /\ Has(disk[d], "holdings", n)
       /\ Request(d, SetAssetPrice(disk[d], n, withCurrency))

AddLiquidity(d) ==
  /\ Ready(d, "liquidity")
  /\ \E n \in Name :
       /\ ~Has(disk[d], "liquidity", n)
       /\ Request(d, AddLiquidityAsset(disk[d], n))

UpdateLiquidity(d) ==
  /\ Ready(d, "liquidity")
  /\ \E old, new \in Name, wanted \in Parts({"category", "currency"}) :
       /\ CanRename(disk[d], "liquidity", old, new)
       /\ LET renamed == RenameLiquidity(disk[d], old, new)
              filed == Given(renamed, wanted, "category",
                             SetLiquidityCategory(renamed.frames, new))
          IN Request(d, Given(filed, wanted, "currency", SetLiquidityCurrency(filed.frames, new)))

DeleteLiquidity(d) ==
  /\ Ready(d, "liquidity")
  /\ \E n \in Name :
       Request(d, RemoveLiquidityAsset(disk[d], n))

SetLiquidity(d) ==
  /\ Ready(d, "liquidity")
  /\ \E n \in Name :
       /\ Has(disk[d], "liquidity", n)
       /\ Request(d, SetLiquidityValue(disk[d], n))

AddCredit(d) ==
  /\ Ready(d, "credits")
  /\ \E n \in Name :
       /\ ~Has(disk[d], "credits", n)
       /\ Request(d, AddEntry(disk[d], n))

UpdateCredit(d) ==
  /\ Ready(d, "credits")
  /\ \E old, new \in Name, wanted \in Parts({"currency"}) :
       /\ CanRename(disk[d], "credits", old, new)
       /\ LET renamed == RenameCredit(disk[d], old, new)
          IN Request(d, Given(renamed, wanted, "currency",
                              SetCreditCurrency(renamed.frames, new)))

DeleteCredit(d) ==
  /\ Ready(d, "credits")
  /\ \E n \in Name :
       Request(d, RemoveEntry(disk[d], n))

SetCredit(d) ==
  /\ Ready(d, "credits")
  /\ \E n \in Name, v \in {New, -New} :
       /\ Has(disk[d], "credits", n)
       /\ Request(d, SetCreditValue(disk[d], n, v))

-----------------------------------------------------------------------------
(* The steps of the request that holds the lock                            *)

Doing(d, what) == steps[d] # <<>> /\ Head(steps[d]).do = what

(* A save that is done, with the entries of it still to be recorded. *)
Unrecorded(todo) ==
  \E j \in DOMAIN todo :
    /\ todo[j].do = "record"
    /\ \A i \in 1..j - 1 : todo[i].do = "save" => todo[i].table # todo[j].table

(* One more step of device d fails. *)
Fails(d) == d \in Faulty /\ failures < MaxFailures /\ failures' = failures + 1

(* What happens to device d when its request ends before its last step. *)
CutOff(d) ==
  /\ Fails(d)
  /\ astray' = IF Unrecorded(steps[d]) THEN astray \cup {d} ELSE astray
  /\ steps' = [steps EXCEPT ![d] = <<>>]

(* write_parquet truncates the file first: a save cut off in it tears it. *)
Tears(d) ==
  IF Doing(d, "save")
  THEN \/ torn' = [torn EXCEPT ![d] = @ \cup {Head(steps[d]).table}]
       \/ UNCHANGED torn
  ELSE UNCHANGED torn

SaveFile(d) ==
  /\ Doing(d, "save")
  /\ disk' = [disk EXCEPT ![d][Head(steps[d]).table] = Head(steps[d]).sheet]
  /\ steps' = [steps EXCEPT ![d] = Tail(@)]
  /\ UNCHANGED <<page, torn, log, clock, marked, apart, namesakes, astray, requests, failures>>

(* The request answers with the error and leaves the rest undone. *)
SaveFails(d) ==
  /\ Doing(d, "save") /\ CutOff(d) /\ Tears(d)
  /\ UNCHANGED <<page, disk, log, clock, marked, apart, namesakes, requests>>

EntryOf(step, key) ==
  [table |-> step.table, id |-> step.id, key |-> key, op |-> step.op, generated |-> FALSE,
   column |-> IF step.op = "cell" THEN CHOOSE c \in DOMAIN step.cells : TRUE ELSE "name",
   cells |-> step.cells]

RecordEntry(d) ==
  /\ Doing(d, "record")
  /\ clock' = [clock EXCEPT ![d] = @ + 1]
  /\ log' = [log EXCEPT ![d] =
               @ \cup {EntryOf(Head(steps[d]), [time |-> clock'[d], device |-> d])}]
  /\ steps' = [steps EXCEPT ![d] = Tail(@)]
  /\ UNCHANGED <<page, disk, torn, marked, apart, namesakes, astray, requests, failures>>

(* The append fails: the log is marked and the request carries on. *)
RecordFails(d) ==
  /\ Doing(d, "record") /\ Fails(d)
  /\ marked' = marked \cup {d}
  /\ steps' = [steps EXCEPT ![d] = Tail(@)]
  /\ UNCHANGED <<page, disk, torn, log, clock, astray, apart, namesakes, requests>>

(* The process stops.  The next one takes its clock from the log. *)
Crash(d) ==
  /\ steps[d] # <<>> \/ apart
  /\ clock[d] # LargestTime(log[d]) \/ steps[d] # <<>>
  /\ CutOff(d) /\ Tears(d)
  /\ clock' = [clock EXCEPT ![d] = LargestTime(log[d])]
  /\ UNCHANGED <<page, disk, log, marked, apart, namesakes, requests>>

-----------------------------------------------------------------------------
(* apply_remote_batch                                                      *)

(* The rows a batch brings something new for. *)
Touched(d, batch) == {RowId(e.table, e.id) : e \in batch \ log[d]}

(* What plan_merge gathers of a row: all that is known, and what is new. *)
GroupOf(d, batch, x) ==
  [row |-> x, known |-> About(log[d] \cup batch, x), remote |-> About(batch \ log[d], x)]

Grouped(d, batch) == {GroupOf(d, batch, x) : x \in Touched(d, batch)}

AppliedTo(g) == {e \in g.remote : M!Applied(e, g.known, FALSE)}

(* The value the winning cell or upsert gives column c. *)
ShownCell(S, c) == (CHOOSE e \in M!Shown(S, c) : TRUE).cells[c]

(* RowState::action: at most one write, as a function of the row. *)
Deletes(g) == M!Deleted(g.known) \cap g.remote # {}

Rewrites(g) == M!BaseUpsert(g.known) \cap g.remote # {}

SetsCells(g) == M!SetsCells(g.known, g.remote, FALSE)

WonCells(g) ==
  [c \in {k \in Column : M!CellWinner(g.known, k) \cap g.remote # {}} |-> ShownCell(g.known, c)]

HasAction(g) == AppliedTo(g) # {} /\ (Deletes(g) \/ Rewrites(g) \/ SetsCells(g))

NewRow(g) == RowOf(g.row.id, [c \in Column |-> ShownCell(g.known, c)])

(* What the action makes of a row that is there and stays. *)
ApplyRowAction(row, g) ==
  IF Rewrites(g) THEN NewRow(g) ELSE IF SetsCells(g) THEN WithCells(row, WonCells(g)) ELSE row

(* The newest entry of the batch that wins something of a row: plan_merge  *)
(* sorts the actions by it.                                                *)
NewestApplied(g) == (CHOOSE e \in M!Newest(AppliedTo(g)) : TRUE).key

Actions(d, batch) ==
  LET acting == {g \in Grouped(d, batch) : HasAction(g)}
      Earlier(g) == {h \in acting : M!KeyBefore(NewestApplied(h), NewestApplied(g))}
  IN [i \in 1..Cardinality(acting) |-> CHOOSE g \in acting : Cardinality(Earlier(g)) = i - 1]

(* Every action on table t applied in memory, in this order.  No two are   *)
(* about one row: a row that is there changes in place, or goes, and the   *)
(* new ones follow in the order of their actions.                          *)
WithActions(d, batch, t, order) ==
  LET sheet == disk[d][t]
      Group(i) == GroupOf(d, batch, RowId(t, sheet[i].id))
      changed == [i \in DOMAIN sheet |-> ApplyRowAction(sheet[i], Group(i))]
      stay == {i \in DOMAIN sheet : ~Deletes(Group(i))}
      brought == [n \in DOMAIN order |-> NewRow(order[n])]
      added == {n \in DOMAIN order : /\ order[n].row.table = t /\ Rewrites(order[n])
                                     /\ order[n].row.id \notin IdsIn(sheet)}
  IN RowsAt(changed, stay) \o RowsAt(brought, added)

(* Mutant of Prepared: the changed prices are never written. *)
PreparedWithoutPrices(d, batch) ==
  LET order == Actions(d, batch)
  IN [t \in Table |-> IF t = "prices" THEN disk[d][t] ELSE WithActions(d, batch, t, order)]

(* Every action applied in memory, in the plan's order. *)
Prepared(d, batch) ==
  LET order == Actions(d, batch) IN [t \in Table |-> WithActions(d, batch, t, order)]

(* The loaders read the files of the page, and no cell is set on a row     *)
(* that is not there.                                                      *)
Accepted(d, batch) ==
  /\ \A i \in DOMAIN Files(page) : Files(page)[i] \notin torn[d]
  /\ \A g \in Grouped(d, batch) :
       HasAction(g) /\ SetsCells(g) => g.row.id \in IdsIn(disk[d][g.row.table])

(* Two devices exchange while no request of the receiver holds the lock    *)
(* and both logs are reliable.  The sender's log is read without the lock. *)
CanMerge(from, to) ==
  /\ from # to /\ steps[to] = <<>>
  /\ from \notin marked /\ to \notin marked
  /\ ~(log[from] \subseteq log[to])

Observed(d, batch) == IF LargestTime(batch) > clock[d] THEN LargestTime(batch) ELSE clock[d]

Merge(from, to) ==
  /\ CanMerge(from, to) /\ Accepted(to, log[from])
  /\ disk' = [disk EXCEPT ![to] = Prepared(to, log[from])]
  /\ log' = [log EXCEPT ![to] = @ \cup log[from]]
  /\ clock' = [clock EXCEPT ![to] = Observed(to, log[from])]
  /\ apart' = (apart \/ steps[from] # <<>>)
  /\ namesakes' = (namesakes \/ ~NamesAreUnique(disk'[to]["holdings"]))
  /\ UNCHANGED <<page, torn, steps, marked, astray, requests, failures>>

(* A merged file is replaced whole.  What comes after the first file fails *)
(* (the write of the second one, or of a page with one file the append of  *)
(* the entries): the file is in place, and no entry is stored.             *)
MergeFails(from, to) ==
  LET first == Files(page)[1]
  IN /\ Fails(to) /\ CanMerge(from, to) /\ Accepted(to, log[from])
     /\ disk' = [disk EXCEPT ![to][first] = Prepared(to, log[from])[first]]
     /\ clock' = [clock EXCEPT ![to] = Observed(to, log[from])]
     /\ apart' = TRUE
     /\ UNCHANGED <<page, torn, log, steps, marked, namesakes, astray, requests>>

Next ==
  \E d \in Device :
    \/ AddInvestment(d) \/ UpdateInvestment(d) \/ DeleteInvestment(d)
    \/ SetQuantity(d) \/ SetPrice(d)
    \/ AddLiquidity(d) \/ UpdateLiquidity(d) \/ DeleteLiquidity(d) \/ SetLiquidity(d)
    \/ AddCredit(d) \/ UpdateCredit(d) \/ DeleteCredit(d) \/ SetCredit(d)
    \/ SaveFile(d) \/ SaveFails(d) \/ RecordEntry(d) \/ RecordFails(d) \/ Crash(d)
    \/ \E e \in Device : Merge(d, e) \/ MergeFails(d, e)

Spec == Init /\ [][Next]_vars

-----------------------------------------------------------------------------
(* What the pages show                                                     *)

(* get_investments: row i of the holdings with row i of the prices. *)
PriceShown(f, i) == IF i \in DOMAIN f["prices"] THEN {f["prices"][i]} ELSE {}

(* get_liquidity and get_credits_debts: a row is known to the page by its  *)
(* name.                                                                   *)
ListedLiquidity(f) ==
  {[id |-> row.name, category |-> row.meta, currency |-> row.currency, month |-> row.month] :
     row \in Range(f["liquidity"])}

ListedCredits(f) ==
  {[id |-> row.name, currency |-> row.currency, month |-> row.month] :
     row \in Range(f["credits"])}

-----------------------------------------------------------------------------
(* What the charts of a month show.  The rate of a currency is one, or not *)
(* to be had: those currencies are the unavailable.                        *)

(* Mutant of ValueRows: assets and prices are joined by position. *)
ValueRowsInOrder(f) ==
  {<<f["holdings"][i], f["prices"][i]>> : i \in DOMAIN f["holdings"] \cap DOMAIN f["prices"]}

(* df_value: each holding beside every price of its name. *)
ValueRows(f) ==
  {pair \in Range(f["holdings"]) \X Range(f["prices"]) : pair[1].name = pair[2].name}

(* A holding without a price is worth nothing, in its own currency. *)
Unpriced(f) == {h \in Range(f["holdings"]) : ~Has(f, "prices", h.name)}

(* sum_col_converted: the currencies it looks up a rate of, and the sum of *)
(* the rows that have one.                                                 *)
CurrenciesSummed(f, unavailable) ==
  {row.currency : row \in {pair[2] : pair \in ValueRows(f)} \cup Unpriced(f)
                           \cup Range(f["liquidity"]) \cup Range(f["credits"])} \ unavailable

SumConverted(rows, unavailable) ==
  MapThenSumSet(LAMBDA row : row.month, {row \in rows : row.currency \notin unavailable})

(* The categories the charts have a part for; assets may have others. *)
InvestmentCategory == {0, 1}

(* What the assets of a category are worth, in the currency of the price. *)
WorthIn(f, category) ==
  {[of |-> <<pair[1].id, pair[2].id>>, month |-> pair[1].month * pair[2].month,
    currency |-> pair[2].currency] : pair \in {p \in ValueRows(f) : p[1].meta = category}}

(* networth_evolution_line: the parts the net worth is the sum of. *)
NetworthEvolution(f, unavailable) ==
  [investments |-> [c \in InvestmentCategory |-> SumConverted(WorthIn(f, c), unavailable)],
   liquidity |-> SumConverted(Range(f["liquidity"]), unavailable),
   credits |-> SumConverted(Range(f["credits"]), unavailable)]

NetWorthOf(parts) ==
  MapThenSumSet(LAMBDA c : parts.investments[c], InvestmentCategory)
  + parts.liquidity + parts.credits

Slice(name, value) == IF value > 0 THEN {[name |-> name, value |-> value]} ELSE {}

(* Mutant of NetworthAllocation: debts are left out. *)
NetworthAllocationOfCredits(f, unavailable) ==
  LET parts == NetworthEvolution(f, unavailable)
  IN (UNION {Slice(<<"Investments", c>>, parts.investments[c]) : c \in InvestmentCategory})
     \cup Slice(<<"Liquidity">>, parts.liquidity) \cup Slice(<<"Credits">>, parts.credits)

(* networth_allocation_pie: the same parts of one month, debts turned      *)
(* positive, and nothing of a part that is not above zero.                 *)
NetworthAllocation(f, unavailable) ==
  LET parts == NetworthEvolution(f, unavailable)
  IN (UNION {Slice(<<"Investments", c>>, parts.investments[c]) : c \in InvestmentCategory})
     \cup Slice(<<"Liquidity">>, parts.liquidity)
     \cup Slice(<<"Credits">>, parts.credits) \cup Slice(<<"Debts">>, -parts.credits)

(* networth_currencies: those a chart asks the rates of beforehand. *)
NetworthCurrencies(f) ==
  {row.currency : row \in UNION {Range(f[t]) : t \in Table}}

(* The handlers answer with no chart when there is nothing to show and     *)
(* nothing was left out.                                                   *)
EvolutionIsNull(f, unavailable) ==
  NetWorthOf(NetworthEvolution(f, unavailable)) = 0 /\ unavailable = {}

AllocationIsNull(f, unavailable) ==
  NetworthAllocation(f, unavailable) = {} /\ unavailable = {}

-----------------------------------------------------------------------------
TypeOK ==
  /\ page \in Page
  /\ \A d \in Device, t \in Table :
       /\ \A i \in DOMAIN disk[d][t] : disk[d][t][i] \in Row
       /\ IdsAreUnique(disk[d][t])
  /\ torn \in [Device -> SUBSET Table]
  /\ clock \in [Device -> Nat]
  /\ marked \subseteq Device /\ astray \subseteq Device
  /\ apart \in BOOLEAN /\ namesakes \in BOOLEAN
  /\ requests \in 0..MaxRequests /\ failures \in 0..MaxFailures

Idle(d) == steps[d] = <<>>

(* The rows of table t that a log describes. *)
DescribedRows(d, t) ==
  LET E == {e \in log[d] : e.table = t}
      Of(id) == {e \in E : e.id = id}
      there == {id \in {e.id : e \in E} : M!BaseUpsert(Of(id)) # {}}
  IN {RowOf(id, [c \in Column |-> ShownCell(Of(id), c)]) : id \in there}

(* The doc of df_operations.rs says that every method that persists a      *)
(* change also records it.  So whoever replays a log that is not marked    *)
(* finds the rows of the files: also of two rows with one name, of updates *)
(* refused half way, and after merges.                                     *)
LogTellsTables ==
  \A d \in Device \ (marked \cup astray) :
    Idle(d) /\ (failures = 0 \/ ~apart \/ log[d] = Everything) =>
      \A t \in Range(Files(page)) \ torn[d] : Range(disk[d][t]) = DescribedRows(d, t)

(* Nothing is under way or was lost, no merge took the two tables of an    *)
(* asset apart, and d has heard everything.                                *)
Settled(d) ==
  /\ log[d] = Everything /\ torn[d] = {} /\ marked = {} /\ astray = {} /\ ~apart
  /\ \A e \in Device : Idle(e)

(* Each holding with the prices that share its id. *)
OwnRows(f) ==
  {pair \in Range(f["holdings"]) \X Range(f["prices"]) : pair[1].id = pair[2].id}

(* The charts of one request: both have the rates of what they sum, the    *)
(* pie shows the net worth of the line with debts taken off, and neither   *)
(* leaves the page empty where the other shows something.  What they count *)
(* as liquidity and credits is what those pages list, in the currencies    *)
(* that are not unavailable.                                               *)
ChartsAgree(f, unavailable) ==
  LET line == NetworthEvolution(f, unavailable)
      pie == NetworthAllocation(f, unavailable)
  IN /\ CurrenciesSummed(f, unavailable) \subseteq NetworthCurrencies(f) \ unavailable
     /\ MapThenSumSet(LAMBDA s : IF s.name = <<"Debts">> THEN -s.value ELSE s.value, pie)
          = NetWorthOf(line)
     /\ AllocationIsNull(f, unavailable) => EvolutionIsNull(f, unavailable)
     /\ NamesAreUnique(f["liquidity"]) =>
          line.liquidity = SumConverted(ListedLiquidity(f), unavailable)
     /\ NamesAreUnique(f["credits"]) =>
          line.credits = SumConverted(ListedCredits(f), unavailable)

(* An asset has its two rows or none, and the charts, which join the two   *)
(* tables by name, count it once and at its own prices.                    *)
AssetsAreWhole(f) ==
  IdsIn(f["holdings"]) = IdsIn(f["prices"]) /\ ValueRows(f) = OwnRows(f)

(* An asset keeps its two rows or none, whatever was renamed, deleted and  *)
(* merged, and so it is counted once, unless two devices each gave one     *)
(* name to an asset.  The charts agree with each other and with the pages, *)
(* whichever rates are not to be had, and they show the same on every      *)
(* settled device.                                                         *)
AssetIsValuedOnce ==
  \A d \in Device :
    Settled(d) =>
      /\ ~namesakes => AssetsAreWhole(disk[d])
      /\ \A unavailable \in SUBSET NetworthCurrencies(disk[d]) : ChartsAgree(disk[d], unavailable)
      /\ \A e \in Device : Settled(e) =>
           NetworthEvolution(disk[d], {}) = NetworthEvolution(disk[e], {})

(* The first merge of a device, while no request is under way anywhere. *)
FirstMerge(d) == log[d] = {} /\ log'[d] # {} /\ (\A e \in Device : Idle(e))

(* A device whose first merge brings it the investments of another, whose  *)
(* requests are all done, shows beside each asset the asset's own price:   *)
(* get_investments takes row i of the prices for row i of the holdings.    *)
AssetShowsItsOwnPrice ==
  [][\A d \in Device : FirstMerge(d) =>
       \A i \in DOMAIN disk'[d]["holdings"] : \A price \in PriceShown(disk'[d], i) :
         price.id = disk'[d]["holdings"][i].id]_vars

=============================================================================

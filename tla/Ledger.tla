------------------------------- MODULE Ledger -------------------------------
(***************************************************************************)
(* The expenses of a month, the recurring templates, the income and the    *)
(* settings of several devices: what the handlers of api.rs do to them,    *)
(* and what a merge does.                                                  *)
(*                                                                         *)
(* The write lock keeps requests and merges of a device apart, so each is  *)
(* one action: all of its steps, or those before the one at which a file   *)
(* could not be saved or the process stopped.  (NetWorth takes requests    *)
(* step by step, with a log read in between.)                              *)
(***************************************************************************)
EXTENDS Sheets, FiniteSets, SequencesExt

CONSTANTS Device, Hub,
          Label,    \* what an expense or an asset is called and filed under
          Salary, Other, Income,         \* the rows of the cashflow, Income the sum
          ReferenceCurrency, RateMode,   \* the currency settings
          Page      \* the pages used, of DOMAIN TablesOf

ASSUME LedgerAssumption ==
  /\ Device \subseteq Nat /\ Hub \in Device
  /\ Salary # Other /\ Income \notin {Salary, Other}

(* A page, and the tables its requests read and write. *)
TablesOf == [expenses |-> {"expenses", "recurring"},
             categories |-> {"expenses", "categories"},
             settings |-> {"mappings", "currency"},
             cashflow |-> {"income"}]

Settings == {"mappings", "categories", "currency"}

(* The tables whose rows carry row ids. *)
Keyed == {"expenses", "recurring", "holdings", "prices"}

Table == Keyed \cup Settings \cup {"income"}

IncomeCategory == {Salary, Other}

Field == {ReferenceCurrency, RateMode}

(* has_fixed_rows: these rows exist without any entry. *)
Fixed == {"income", "currency"}

Rows == INSTANCE Merge WITH Column <- {"value"}, PerCell <- FALSE
Cells == INSTANCE Merge WITH Column <- {"value"}, PerCell <- TRUE

VARIABLES
  page,      \* the page this behaviour is about
  disk,      \* disk[d][t]: what file t of device d holds
  file,      \* file[d][t]: "readable", "unreadable", or "torn" by a save
  log,       \* log[d]: the entries of the change log
  clock,     \* clock[d]: the time of the newest stamp issued or seen
  marked,    \* the devices whose log is marked incomplete
  astray,    \* the devices that lost the entry of a saved change, unmarked
  serving,   \* the devices whose process serves requests
  marker,    \* marker[d]: the baseline marker beside the log
  paired,    \* the devices with a sync peer
  requests,  \* how many requests may still be made
  failures   \* how many steps may still fail, crashes included

ledgerVars == <<page, disk, file, log, clock, marked, astray, serving, marker, paired,
                requests, failures>>

-----------------------------------------------------------------------------
(* Entries                                                                 *)

RowId(t, id) == [table |-> t, id |-> id]

About(E, x) == {e \in E : e.table = x.table /\ e.id = x.id}

Everything == UNION {log[d] : d \in Device}

LargestTime(E) ==
  IF E = {} THEN 0 ELSE CHOOSE t \in {e.key.time : e \in E} : \A e \in E : e.key.time <= t

(* The content is the row of an upsert, or a cell. *)
Record(t, id, op, generated, content) ==
  [do |-> "record", table |-> t, id |-> id, op |-> op, generated |-> generated,
   content |-> content]

Upsert(t, row) == Record(t, row.id, "upsert", FALSE, row)

Delete(t, id) == Record(t, id, "delete", FALSE, [value |-> 0])

SetCell(t, id, value) == Record(t, id, "cell", FALSE, [value |-> value])

EntryOf(step, key) ==
  [table |-> step.table, id |-> step.id, key |-> key, op |-> step.op,
   generated |-> step.generated, column |-> "value", content |-> step.content]

-----------------------------------------------------------------------------
(* A request: a sequence of saves and records                              *)

Save(t, content) == [do |-> "save", table |-> t, content |-> content]

IsSave(step) == step.do = "save"

(* write_parquet truncates the file first.  write_json renames. *)
Tearable == Keyed \cup {"income"}

NeedsRowIds(sheet) == 0 \in IdsIn(sheet)

(* The loader of t reads the file and finds an id in every row. *)
CanLoad(d, t) ==
  /\ file[d][t] = "readable"
  /\ t \in Keyed => ~NeedsRowIds(disk[d][t])

(* What the wall clock reads: no more than the newest stamp of the device, *)
(* or as much as any stamp.                                                *)
WallClocks(d) == {clock[d], LargestTime(Everything)} \ 0..(clock[d] - 1)

SavesOf(t, steps, done) ==
  {i \in DOMAIN steps : i \in done /\ IsSave(steps[i]) /\ steps[i].table = t}

(* Each file holds what was last saved to it. *)
AfterSaves(f, steps, done) ==
  [t \in Table |-> IF SavesOf(t, steps, done) = {} THEN f[t]
                   ELSE steps[Max(SavesOf(t, steps, done))].content]

(* The records among the steps done get a stamp each. *)
Appends(d, steps, done) ==
  \E t \in WallClocks(d) :
    LET recorded == {i \in done : ~IsSave(steps[i])}
        entries == {EntryOf(steps[i], [time |-> t + i, device |-> d]) : i \in recorded}
    IN /\ log' = [log EXCEPT ![d] = @ \cup entries]
       /\ clock' = [clock EXCEPT ![d] = IF recorded = {} THEN @ ELSE LargestTime(entries)]

(* Device d does the steps done, and tears the files of lost. *)
Performs(d, steps, done, lost) ==
  /\ disk' = [disk EXCEPT ![d] = AfterSaves(@, steps, done)]
  /\ file' = [file EXCEPT ![d] = [t \in Table |->
                IF t \in lost THEN "torn"
                ELSE IF SavesOf(t, steps, done) # {} THEN "readable" ELSE @[t]]]
  /\ Appends(d, steps, done)

(* A step fails, or the process stops at it. *)
Fails == failures > 0 /\ failures' = failures - 1

(* Every step is done. *)
Completes(d, steps) ==
  /\ Performs(d, steps, DOMAIN steps, {})
  /\ UNCHANGED <<marked, astray, serving, failures>>

(* An append fails: the log is marked and the request carries on. *)
LosesRecord(d, steps) ==
  \E i \in DOMAIN steps :
    /\ ~IsSave(steps[i]) /\ Fails
    /\ Performs(d, steps, DOMAIN steps \ {i}, {})
    /\ marked' = marked \cup {d}
    /\ UNCHANGED <<astray, serving>>

(* Saved, and the entry of it is still to be recorded at step n. *)
Unrecorded(steps, n) ==
  \E i \in 1..n - 1, j \in n..Len(steps) :
    IsSave(steps[i]) /\ ~IsSave(steps[j]) /\ steps[i].table = steps[j].table
    /\ \A k \in i + 1..j : ~IsSave(steps[k])

(* The file of step n cannot be saved, and the request answers with the    *)
(* error, or the process stops there.                                      *)
CutOff(d, steps) ==
  \E n \in DOMAIN steps, crash \in BOOLEAN :
    \E lost \in {{}, {steps[n].table}} :
      /\ crash \/ IsSave(steps[n])
      /\ lost # {} => IsSave(steps[n]) /\ steps[n].table \in Tearable
      /\ Fails
      /\ Performs(d, steps, 1..n - 1, lost)
      /\ astray' = IF Unrecorded(steps, n) THEN astray \cup {d} ELSE astray
      /\ serving' = IF crash THEN serving \ {d} ELSE serving
      /\ UNCHANGED marked

(* A request to device d that comes down to these steps. *)
Request(d, steps) ==
  /\ steps # <<>> /\ requests' = requests - 1
  /\ Completes(d, steps) \/ LosesRecord(d, steps) \/ CutOff(d, steps)
  /\ UNCHANGED <<page, marker, paired>>

(* The page has the tables T, and their files can be loaded. *)
Ready(d, T) ==
  T \subseteq TablesOf[page] /\ d \in serving /\ requests > 0 /\ \A t \in T : CanLoad(d, t)

(* Each request brings a number of its own, for the id of a row it adds    *)
(* and for the values it sets.                                             *)
New == requests

-----------------------------------------------------------------------------
(* Expenses                                                                *)

Row(id, label, day, set) == [id |-> id, label |-> label, day |-> day, set |-> set]

(* The dates a row of the month may have: one of its days, or, in rows no  *)
(* handler writes, none, or a day of another month, which this month may   *)
(* not have.                                                               *)
Days == {1, 2}
NoDate == 0
OtherMonth == 3
OtherMonthLate == 4

AddRowWithId(d, row, generated) ==
  <<Save("expenses", Append(disk[d]["expenses"], row)),
    Record("expenses", row.id, "upsert", generated, row)>>

AddExpense(d) ==
  \E label \in Label, day \in Days :
    /\ Ready(d, {"expenses"})
    /\ Request(d, AddRowWithId(d, Row(New, label, day, New), FALSE))

(* require_single_row: an edit or a delete touches one row or none. *)
SingleRow(sheet, id) == Cardinality({i \in DOMAIN sheet : sheet[i].id = id}) = 1

(* The page sends every field of the row back. *)
EditExpense(d) ==
  \E id \in IdsIn(disk[d]["expenses"]), label \in Label, day \in Days :
    /\ Ready(d, {"expenses"}) /\ SingleRow(disk[d]["expenses"], id)
    /\ LET row == Row(id, label, day, New)
       IN Request(d, <<Save("expenses", PutRow(disk[d]["expenses"], row)),
                       Upsert("expenses", row)>>)

DeleteExpense(d) ==
  \E id \in IdsIn(disk[d]["expenses"]) :
    /\ Ready(d, {"expenses"}) /\ SingleRow(disk[d]["expenses"], id)
    /\ Request(d, <<Save("expenses", RemoveRow(disk[d]["expenses"], id)),
                    Delete("expenses", id)>>)

-----------------------------------------------------------------------------
(* Recurring templates                                                     *)

GeneratedRecurringDay == 1

(* derived_recurring_row_id *)
Derived(template) == -template.id

GeneratedRow(template) ==
  Row(Derived(template), template.label, GeneratedRecurringDay, template.set)

AddTemplate(templates, row) ==
  <<Save("recurring", Append(templates, row)), Upsert("recurring", row)>>

RemoveTemplate(templates, id) ==
  <<Save("recurring", RemoveRow(templates, id)), Delete("recurring", id)>>

AddRecurring(d) ==
  \E label \in Label :
    /\ Ready(d, {"recurring"})
    /\ \A i \in DOMAIN disk[d]["recurring"] : disk[d]["recurring"][i].label # label
    /\ Request(d, AddTemplate(disk[d]["recurring"],
                              Row(New, label, GeneratedRecurringDay, New)))

DeleteRecurring(d) ==
  \E id \in IdsIn(disk[d]["recurring"]) :
    /\ Ready(d, {"recurring"})
    /\ Request(d, RemoveTemplate(disk[d]["recurring"], id))

DerivedIds(templates) == {Derived(templates[i]) : i \in DOMAIN templates}

(* Mutant of Matches: any row of that name and day stands for a template. *)
MatchesByName(row, template, templates) ==
  \/ row.id = Derived(template)
  \/ row.label = template.label /\ row.day = template.day

(* Row stands for the template: it is the one generated from it, or it has *)
(* the name and the day and was generated from no other template.          *)
Matches(row, template, templates) ==
  \/ row.id = Derived(template)
  \/ /\ row.label = template.label /\ row.day = template.day
     /\ row.id \notin DerivedIds(templates)

(* The templates whose generated row the user deleted. *)
StaysDeleted(templates, entries) ==
  {i \in DOMAIN templates :
     Rows!GeneratedRowStaysDeleted(About(entries, RowId("expenses", Derived(templates[i]))))}

(* Mutant of PlanForMonth: what was generated before is not looked for. *)
PlanForMonthAnew(expenses, templates, entries) ==
  LET due == {i \in DOMAIN templates : \A k \in DOMAIN expenses :
                expenses[k].id = Derived(templates[i])
                \/ ~Matches(expenses[k], templates[i], templates)}
      stays == due \cap StaysDeleted(templates, entries)
  IN [pending |-> RowsAt(templates, due \ stays), skipped |-> RowsAt(templates, stays)]

(* plan_for_month: the templates a month still needs, and those of them    *)
(* whose generated row the user deleted.                                   *)
PlanForMonth(expenses, templates, entries) ==
  LET due == {i \in DOMAIN templates :
                \A k \in DOMAIN expenses : ~Matches(expenses[k], templates[i], templates)}
      stays == due \cap StaysDeleted(templates, entries)
  IN [pending |-> RowsAt(templates, due \ stays), skipped |-> RowsAt(templates, stays)]

PlanOf(d) == PlanForMonth(disk[d]["expenses"], disk[d]["recurring"], log[d])

(* insert_resolved: the generated rows, saved and recorded one by one. *)
InsertResolved(expenses, templates) ==
  LET Generated(i) == GeneratedRow(templates[i])
      Saved(i) == Save("expenses", expenses \o [j \in 1..i |-> Generated(j)])
      Recorded(i) == Record("expenses", Generated(i).id, "upsert", TRUE, Generated(i))
  IN [n \in 1..2 * Len(templates) |-> IF n % 2 = 1 THEN Saved((n + 1) \div 2)
                                      ELSE Recorded(n \div 2)]

ApplyRecurring(d) ==
  /\ Ready(d, {"expenses", "recurring"})
  /\ Request(d, InsertResolved(disk[d]["expenses"], PlanOf(d).pending))

(* An ordinary row this time: the user asked for it. *)
ReinstateRecurring(d) ==
  \E i \in DOMAIN disk[d]["recurring"] :
    /\ Ready(d, {"expenses", "recurring"})
    /\ LET row == GeneratedRow(disk[d]["recurring"][i])
       IN /\ row.id \notin IdsIn(disk[d]["expenses"])
          /\ Request(d, AddRowWithId(d, row, FALSE))

-----------------------------------------------------------------------------
(* What the pages show of the expenses of the month, all amounts in one    *)
(* currency                                                                *)

(* get_expenses_handler takes the day from the date and the month from the *)
(* request, and passes over what that is not a date of.                    *)
Listed(expenses) ==
  RowsAt(expenses, {i \in DOMAIN expenses : expenses[i].day \notin {NoDate, OtherMonthLate}})

(* facts_from_df: "rows with no date are skipped" *)
Facts(expenses) == RowsAt(expenses, {i \in DOMAIN expenses : expenses[i].day # NoDate})

AmountOf(rows, label) ==
  FoldLeft(LAMBDA sum, row : IF row.label = label THEN sum + row.set ELSE sum, 0, rows)

(* get_monthly_spending_handler files a fact under the month of its date. *)
MonthlySpending(expenses, label) ==
  LET facts == Facts(expenses)
  IN AmountOf(RowsAt(facts, {i \in DOMAIN facts : facts[i].day \in Days}), label)

(* category_totals_across_all_years *)
CategoryTotal(expenses, label) == AmountOf(Facts(expenses), label)

-----------------------------------------------------------------------------
(* Cashflow: income cells, and the sum of them                             *)

IncomeRow == IncomeCategory \cup {Income}

RecomputeIncome(income) ==
  [c \in IncomeRow |-> IF c = Income THEN income[Salary] + income[Other] ELSE income[c]]

WithIncome(income, c, value) == [income EXCEPT ![c] = value]

(* Cashflow::set_income: the derived row is not recorded. *)
SetIncome(income, c, value) ==
  <<Save("income", RecomputeIncome(WithIncome(income, c, value))), SetCell("income", c, value)>>

SetIncomeCell(d) ==
  \E c \in IncomeCategory :
    /\ Ready(d, {"income"})
    /\ Request(d, SetIncome(disk[d]["income"], c, New))

-----------------------------------------------------------------------------
(* Settings                                                                *)

MappingSet(mappings, row) == PutRow(mappings, row)

MappingRemoved(mappings, label) == RemoveRow(mappings, label)

AddMapping(d) ==
  \E label \in Label :
    /\ Ready(d, {"mappings"})
    /\ LET row == [id |-> label, set |-> New]
       IN Request(d, <<Save("mappings", MappingSet(disk[d]["mappings"], row)),
                       Upsert("mappings", row)>>)

DeleteMapping(d) ==
  \E label \in IdsIn(disk[d]["mappings"]) :
    /\ Ready(d, {"mappings"})
    /\ Request(d, <<Save("mappings", MappingRemoved(disk[d]["mappings"], label)),
                    Delete("mappings", label)>>)

CategoryAdded(categories, label) == categories \cup {label}

CategoryRemoved(categories, label) == categories \ {label}

AddCategory(d) ==
  \E label \in Label \ disk[d]["categories"] :
    /\ Ready(d, {"categories"})
    /\ Request(d, <<Save("categories", CategoryAdded(disk[d]["categories"], label)),
                    Upsert("categories", [id |-> label])>>)

(* all_expense_facts skips a month that cannot be read, unless only row    *)
(* ids are missing.                                                        *)
ExpenseFacts(d) == IF file[d]["expenses"] = "readable" THEN disk[d]["expenses"] ELSE <<>>

(* The total of a category is zero: it has no expenses, or amounts (which  *)
(* are not modelled) of at least two that cancel.                          *)
MayTotalZero(d, label) ==
  Cardinality({i \in DOMAIN ExpenseFacts(d) : ExpenseFacts(d)[i].label = label}) # 1

DeleteCategory(d) ==
  \E label \in disk[d]["categories"] :
    /\ Ready(d, {"categories"}) /\ ~NeedsRowIds(ExpenseFacts(d))
    /\ MayTotalZero(d, label)
    /\ Request(d, <<Save("categories", CategoryRemoved(disk[d]["categories"], label)),
                    Delete("categories", label)>>)

(* Both fields are saved.  Those that changed are recorded, or both when   *)
(* the old ones could not be read.                                         *)
UpdateCurrencySettings(d) ==
  \E changed \in SUBSET Field :
    /\ page = "settings" /\ Ready(d, {})
    /\ LET old == disk[d]["currency"]
           new == [f \in Field |-> IF f \in changed THEN New ELSE old[f]]
           told == IF CanLoad(d, "currency") THEN changed ELSE Field
           Tell(f) == IF f \in told THEN <<SetCell("currency", f, new[f])>> ELSE <<>>
       IN Request(d, <<Save("currency", new)>> \o Tell(ReferenceCurrency) \o Tell(RateMode))

-----------------------------------------------------------------------------
(* apply_remote_batch                                                      *)

Known(d, batch, x) == About(log[d] \cup batch, x)
Remote(d, batch, x) == About(batch \ log[d], x)

(* The entry that decides row x of a table, of all those known of it. *)
Winner(S, x) ==
  IF x.table \in Fixed THEN Cells!Shown(S, "value")
  ELSE Rows!RowWinner(S)

Content(winner) == (CHOOSE e \in winner : TRUE).content

(* A row for which the batch brings the winner is written. *)
Written(d, batch) ==
  {x \in {RowId(e.table, e.id) : e \in batch \ log[d]} :
     Winner(Known(d, batch, x), x) \cap Remote(d, batch, x) # {}}

NewestOf(d, batch, x) ==
  (CHOOSE e \in Winner(Known(d, batch, x), x) : TRUE).key

(* In the order of the newest entry that wins each row. *)
Actions(d, batch) ==
  LET dated == {<<x, NewestOf(d, batch, x)>> : x \in Written(d, batch)}
      Earlier(a) == {b \in dated : Rows!KeyBefore(b[2], a[2])}
  IN [i \in 1..Cardinality(dated) |-> (CHOOSE a \in dated : Cardinality(Earlier(a)) = i - 1)[1]]

Deleted(winner) == Rows!Deletes(winner) # {}

(* What the actions of a merge make of each kind of table.  won has the    *)
(* entry that decides each row written, order the rows in the plan's order.*)
(* No two actions are about one row: a row there is changes in place, or   *)
(* goes, and the new ones follow in that order.                            *)
RowsWithWinners(sheet, t, won, order) ==
  LET Touches(id) == RowId(t, id) \in DOMAIN won
      Gone(id) == Touches(id) /\ Deleted(won[RowId(t, id)])
      changed == [i \in DOMAIN sheet |-> IF Touches(sheet[i].id)
                                         THEN Content(won[RowId(t, sheet[i].id)]) ELSE sheet[i]]
      brought == [n \in DOMAIN order |-> Content(won[order[n]])]
      added == {x \in DOMAIN won : x.table = t /\ ~Deleted(won[x]) /\ x.id \notin IdsIn(sheet)}
      new == {n \in DOMAIN order : order[n] \in added}
  IN RowsAt(changed, {i \in DOMAIN sheet : ~Gone(sheet[i].id)}) \o RowsAt(brought, new)

MappingsWithWinners(mappings, won, order) == RowsWithWinners(mappings, "mappings", won, order)

CategoriesWithWinners(categories, won) ==
  LET Won(gone) == {x.id : x \in {y \in DOMAIN won : y.table = "categories"
                                                      /\ Deleted(won[y]) = gone}}
  IN (categories \ Won(TRUE)) \cup Won(FALSE)

(* set_cells, for a table of fixed rows. *)
CellsWithWinners(cells, t, won) ==
  [id \in DOMAIN cells |-> IF RowId(t, id) \in DOMAIN won THEN Content(won[RowId(t, id)]).value
                           ELSE cells[id]]

CurrencyWithWinners(currency, won) == CellsWithWinners(currency, "currency", won)

IncomeWithWinners(income, won) == CellsWithWinners(income, "income", won)

WithWinners(content, t, won, order) ==
  CASE t = "income" -> IncomeWithWinners(content, won)
    [] t = "currency" -> CurrencyWithWinners(content, won)
    [] t = "categories" -> CategoriesWithWinners(content, won)
    [] t = "mappings" -> MappingsWithWinners(content, won, order)
    [] t \in Keyed -> RowsWithWinners(content, t, won, order)

(* Mutant of Finish: the sum of the income is left to the next edit. *)
FinishNothing(f, before) == f

(* Prepared::finish: the sum follows the income cells that changed. *)
Finish(f, before) ==
  [t \in Table |-> IF t = "income" /\ f[t] # before[t] THEN RecomputeIncome(f[t]) ELSE f[t]]

(* The tables that actions are about are loaded, and every action applied  *)
(* to them in memory.                                                      *)
Prepared(f, d, batch) ==
  LET won == [x \in Written(d, batch) |-> Winner(Known(d, batch, x), x)]
      loaded == {x.table : x \in DOMAIN won}
  IN Finish([t \in Table |-> IF t \in loaded THEN WithWinners(f[t], t, won, Actions(d, batch))
                             ELSE f[t]], f)

(* The files in the order they are written: data files as the plan first   *)
(* touches them, then the settings.                                        *)
WriteOrder(d, batch) ==
  LET touched == FoldLeft(LAMBDA ts, x : IF Contains(ts, x.table) THEN ts
                                         ELSE Append(ts, x.table), <<>>, Actions(d, batch))
  IN SelectSeq(touched, LAMBDA t : t \notin Settings)
     \o SelectSeq(<<"mappings", "categories", "currency">>, LAMBDA t : Contains(touched, t))

(* log_health finds nothing wrong. *)
Healthy(d) == d \in serving \ marked /\ marker[d].kind = "present"

(* The loader of t reads these files: InvestmentHoldings::new both of its  *)
(* own, SettingsWriter::load all the settings.                             *)
LoadedWith(t) ==
  CASE t \in {"holdings", "prices"} -> {"holdings", "prices"}
    [] t \in Settings -> Settings
    [] OTHER -> {t}

CanMerge(from, to) ==
  /\ from # to /\ {from, to} \subseteq paired
  /\ Healthy(from) /\ Healthy(to) /\ ~(log[from] \subseteq log[to])
  /\ \A t \in UNION {LoadedWith(x.table) : x \in Written(to, log[from])} : CanLoad(to, t)

Observed(d, batch) ==
  IF LargestTime(batch) > clock[d] THEN LargestTime(batch) ELSE clock[d]

Merge(from, to) ==
  /\ CanMerge(from, to)
  /\ disk' = [disk EXCEPT ![to] = Prepared(@, to, log[from])]
  /\ log' = [log EXCEPT ![to] = @ \cup log[from]]
  /\ clock' = [clock EXCEPT ![to] = Observed(to, log[from])]
  /\ UNCHANGED <<page, file, marked, astray, serving, marker, paired, requests, failures>>

(* The write of a file fails, or the process stops there, or at the first  *)
(* line for the log.  Files are replaced whole.                            *)
MergeFails(from, to) ==
  \E n \in DOMAIN WriteOrder(to, log[from]), crash \in BOOLEAN :
    LET written == ToSet(SubSeq(WriteOrder(to, log[from]), 1, n))
        after == Prepared(disk[to], to, log[from])
    IN /\ CanMerge(from, to) /\ Fails
       /\ disk' = [disk EXCEPT ![to] = [t \in Table |-> IF t \in written THEN after[t] ELSE @[t]]]
       /\ clock' = [clock EXCEPT ![to] = Observed(to, log[from])]
       /\ serving' = IF crash THEN serving \ {to} ELSE serving
       /\ UNCHANGED <<page, file, log, marked, astray, marker, paired, requests>>

Handlers(d) ==
  \/ AddExpense(d) \/ EditExpense(d) \/ DeleteExpense(d)
  \/ AddRecurring(d) \/ DeleteRecurring(d) \/ ApplyRecurring(d) \/ ReinstateRecurring(d)
  \/ SetIncomeCell(d)
  \/ AddMapping(d) \/ DeleteMapping(d) \/ AddCategory(d) \/ DeleteCategory(d)
  \/ UpdateCurrencySettings(d)
  \/ \E e \in Device : Merge(e, d) \/ MergeFails(e, d)

-----------------------------------------------------------------------------
(* Whatever the templates and the month, applying twice adds nothing to    *)
(* applying once: "safe to call more than once for the same month".        *)
ApplyTwiceAddsNothing ==
  \A d \in Device :
    LET pending == PlanOf(d).pending
        once == disk[d]["expenses"] \o [i \in DOMAIN pending |-> GeneratedRow(pending[i])]
    IN PlanForMonth(once, disk[d]["recurring"], log[d]).pending = <<>>

(* What becomes of a template does not depend on whether the month has the *)
(* row generated from another one, also of two templates with one name     *)
(* that two devices added: a row the user deleted is always reported.      *)
NoTemplateMasksAnother ==
  \A d \in Device :
    LET templates == disk[d]["recurring"]
        PlanWithoutRowOf(i) ==
          PlanForMonth(RemoveRow(disk[d]["expenses"], Derived(templates[i])), templates, log[d])
        Others(plan, i) == {t \in ToSet(plan) : t.id # templates[i].id}
    IN \A i \in DOMAIN templates :
         /\ Others(PlanOf(d).pending, i) = Others(PlanWithoutRowOf(i).pending, i)
         /\ Others(PlanOf(d).skipped, i) = Others(PlanWithoutRowOf(i).skipped, i)

(* The Income row of a device is the sum of the incomes it shows, whoever  *)
(* set them and wherever they were merged.                                 *)
IncomeIsSum ==
  \A d \in Device : disk[d]["income"] = RecomputeIncome(disk[d]["income"])

=============================================================================

------------------------------ MODULE Startup ------------------------------
(***************************************************************************)
(* What a process does before it serves the requests of Ledger (main.rs):  *)
(* it gives row ids to files that lack them, records what the folder       *)
(* already holds, and then, on the hub, the settings.  Each step may stop  *)
(* part way and is taken up again by the next start; files that cannot be  *)
(* read are passed over and repaired by the user at any time.              *)
(***************************************************************************)
EXTENDS Ledger

CONSTANTS MaxRequests,  \* bound: requests made in all
          MaxFailures,  \* bound: steps that fail or are cut off by a crash
          MaxStarts     \* bound: starts in all

ASSUME StartupAssumption == {MaxRequests, MaxFailures, MaxStarts} \subseteq Nat

VARIABLES
  boot,            \* boot[d]: the last step of its start that d has done
  settingsMarker,  \* settingsMarker[d]: the marker of the settings baseline
  starts,          \* how many starts there may still be
  removals,        \* how often the user may still delete a log
  repaired,        \* history: the entries of a run of the repair tool that went through
  backups,         \* backups[d]: the copies of the data files that were taken
  originals        \* history: originals[d]: the data files as they were at first

startVars == <<boot, settingsMarker, starts, removals, repaired, backups, originals>>
vars == <<ledgerVars, startVars>>

-----------------------------------------------------------------------------
(* row_id_migration                                                        *)

(* new_row_id: an id of its own for row i of table t. *)
FreshId(t, i) ==
  100 * (CHOOSE n \in 1..4 : <<"expenses", "recurring", "holdings", "prices">>[n] = t) + i

(* ids_by_asset: the ids the rows called label have, the first one first. *)
IdsByAsset(sheet, label) ==
  LET hits == RowsAt(sheet, {i \in DOMAIN sheet : sheet[i].label = label /\ sheet[i].id # 0})
  IN [i \in DOMAIN hits |-> hits[i].id]

(* fill_row_ids: a row without an id takes the one the other sheet has for *)
(* its name, unless it is in use here or an earlier row takes it, or else  *)
(* a fresh one.                                                            *)
FillRowIds(sheet, t, other) ==
  LET Shared(i) == IdsByAsset(other, sheet[i].label)
      Takes(i) == /\ Shared(i) # <<>> /\ Shared(i)[1] \notin IdsIn(sheet)
                  /\ \A j \in 1..i - 1 : sheet[j].id = 0 /\ Shared(j) # <<>> =>
                                         Shared(j)[1] # Shared(i)[1]
  IN [i \in DOMAIN sheet |->
        IF sheet[i].id # 0 THEN sheet[i]
        ELSE [sheet[i] EXCEPT !.id = IF Takes(i) THEN Shared(i)[1] ELSE FreshId(t, i)]]

ReadOrSkip(d, t) == IF file[d][t] = "readable" THEN disk[d][t] ELSE <<>>

(* The write that gives a file its ids, if it lacks any and can be read. *)
FillIfNeeded(d, t, other) ==
  IF NeedsRowIds(ReadOrSkip(d, t)) THEN <<Save(t, FillRowIds(disk[d][t], t, other))>> ELSE <<>>

(* The write, and the ids the file then has for the other one to share. *)
PlanInvestmentFile(d, t, other) ==
  LET write == FillIfNeeded(d, t, other)
  IN [writes |-> write,
      sheet |-> IF write = <<>> THEN ReadOrSkip(d, t) ELSE write[1].content]

(* Mutant of PlanInvestments: only the prices look for an id to share. *)
PlanInvestmentsOneWay(d) ==
  LET holdings == PlanInvestmentFile(d, "holdings", <<>>)
  IN holdings.writes \o PlanInvestmentFile(d, "prices", holdings.sheet).writes

(* plan_investments: each file looks for the ids of the other one. *)
PlanInvestments(d) ==
  LET holdings == PlanInvestmentFile(d, "holdings", ReadOrSkip(d, "prices"))
  IN holdings.writes \o PlanInvestmentFile(d, "prices", holdings.sheet).writes

PlanYear(d) ==
  FillIfNeeded(d, "expenses", <<>>) \o FillIfNeeded(d, "recurring", <<>>) \o PlanInvestments(d)

(* Mutant of BackupDbs: the copy replaces the one before. *)
BackupDbsOver(copies, data) == {data}

(* backup_dbs: one more copy, in a folder of its own. *)
BackupDbs(copies, data) == copies \cup {data}

(* copy_dir_contents takes the data files as they are, readable or not, *)
(* and not the settings.                                                *)
Copied(d) == [t \in Table \ Settings |-> disk[d][t]]

Backs(d) == backups' = [backups EXCEPT ![d] = BackupDbs(@, Copied(d))]

(* A process comes up that opens the log.  It ends if the copy or a file   *)
(* cannot be written; n files are written until then.                      *)
MigrateRowIds(d) ==
  /\ d \in paired \cup {Hub} /\ d \notin serving /\ boot[d] = "off" /\ starts > 0
  /\ starts' = starts - 1
  /\ \/ /\ PlanYear(d) = <<>>
        /\ boot' = [boot EXCEPT ![d] = "migrated"]
        /\ UNCHANGED <<disk, failures, backups>>
     \/ /\ PlanYear(d) # <<>> /\ Fails
        /\ UNCHANGED <<disk, boot, backups>>
     \/ \E n \in 0..Len(PlanYear(d)) :
          /\ PlanYear(d) # <<>> /\ Backs(d)
          /\ disk' = [disk EXCEPT ![d] = AfterSaves(@, PlanYear(d), 1..n)]
          /\ IF n = Len(PlanYear(d)) THEN boot' = [boot EXCEPT ![d] = "migrated"] /\ UNCHANGED failures
             ELSE Fails /\ UNCHANGED boot
  /\ clock' = [clock EXCEPT ![d] = LargestTime(log[d])]
  /\ UNCHANGED <<page, file, log, marked, astray, serving, marker, paired, requests,
                 settingsMarker, removals, repaired, originals>>

-----------------------------------------------------------------------------
(* sync_baseline                                                           *)

Absence == [kind |-> "missing", recorded |-> FALSE, skipped |-> {}]
Cut == [Absence EXCEPT !.kind = "unreadable"]
Present(recorded, skipped) == [kind |-> "present", recorded |-> recorded, skipped |-> skipped]

YearTables == {"expenses", "recurring", "holdings", "prices", "income"}

(* load_table *)
Loads(d, t) == \A u \in LoadedWith(t) : CanLoad(d, u)

(* Income that is all zero stands for a year without a cashflow file. *)
NoIncome == [c \in IncomeRow |-> 0]

IncomeCells(income) ==
  <<SetCell("income", Salary, income[Salary]), SetCell("income", Other, income[Other])>>

(* collect_table *)
CollectTable(d, t) ==
  IF ~Loads(d, t) \/ (t = "income" /\ disk[d][t] = NoIncome) THEN <<>>
  ELSE IF t = "income" THEN IncomeCells(disk[d][t])
  ELSE [i \in DOMAIN disk[d][t] |-> Upsert(t, disk[d][t][i])]

(* In year_tables' order. *)
Collect(d, T) ==
  LET Of(t) == IF t \in T THEN CollectTable(d, t) ELSE <<>>
  IN Of("expenses") \o Of("recurring") \o Of("holdings") \o Of("prices") \o Of("income")

(* log_is_gone *)
LogIsGone(d) == marker[d].kind = "present" /\ marker[d].recorded /\ log[d] = {}

(* The condition that makes a start record the folder again. *)
RerunCause(d) ==
  CASE marker[d].kind # "present" -> marker[d].kind
    [] marker[d].kind = "present" /\ LogIsGone(d) -> "log gone"
    [] OTHER -> "none"

RecordsEveryYear(d) == RerunCause(d) # "none"

RetriesSkipped(d) == ~RecordsEveryYear(d) /\ marker[d].skipped # {}

(* The tables whose files are tried. *)
Tried(d) == IF RecordsEveryYear(d) THEN YearTables ELSE marker[d].skipped

Pending(d) == Collect(d, Tried(d))

PairedForBaseline(d) == d \in paired

(* Mutant of Refuses: a folder without a marker that can be read is taken  *)
(* for one that was never recorded.                                        *)
RefusesUnlessUnreadable(d) ==
  /\ PairedForBaseline(d) /\ marker[d].kind = "present"
  /\ LogIsGone(d) \/ (RetriesSkipped(d) /\ Pending(d) # <<>>)

(* A paired device never records what it may have changed with its peer. *)
Refuses(d) ==
  /\ PairedForBaseline(d)
  /\ RecordsEveryYear(d) \/ (RetriesSkipped(d) /\ Pending(d) # <<>>)

(* Mutant of MarkerAfter: the files that could not be read are not listed. *)
MarkerAfterAll(d) == Present((Pending(d) # <<>>) \/ (RetriesSkipped(d) /\ marker[d].recorded), {})

(* The totals of the old marker count only when its entries are there. *)
MarkerAfter(d) ==
  Present((Pending(d) # <<>>) \/ (RetriesSkipped(d) /\ marker[d].recorded),
          {t \in Tried(d) : ~Loads(d, t)})

(* The first n of these entries are recorded. *)
Records(d, steps, n) ==
  /\ Appends(d, steps, 1..n)
  /\ UNCHANGED <<page, disk, file, astray, paired, requests, starts, removals, repaired,
                 backups, originals>>

(* The entries and then the marker are written.  If that fails the process *)
(* ends, and a marker it had begun to write cannot be read.                *)
RecordsAndMarks(d, steps, marks, after, next) ==
  \E n \in 0..Len(steps), end \in {"done", "cut", "cut in marker"} :
    /\ n = Len(steps) \/ end = "cut"
    /\ Records(d, steps, n)
    /\ CASE end = "done" -> marks' = [marks EXCEPT ![d] = after] /\ UNCHANGED failures
         [] end = "cut" -> Fails /\ UNCHANGED marks
         [] OTHER -> Fails /\ marks' = [marks EXCEPT ![d] = Cut]
    /\ boot' = [boot EXCEPT ![d] = IF end = "done" THEN next ELSE "off"]

BaselineChangeLog(d) ==
  /\ boot[d] = "migrated"
  /\ \/ /\ ~Refuses(d) /\ (RecordsEveryYear(d) \/ RetriesSkipped(d))
        /\ RecordsAndMarks(d, Pending(d), marker, MarkerAfter(d), "recorded")
        /\ UNCHANGED marked
     \/ /\ Refuses(d) \/ ~(RecordsEveryYear(d) \/ RetriesSkipped(d))
        /\ marked' = IF Refuses(d) THEN marked \cup {d} ELSE marked
        /\ boot' = [boot EXCEPT ![d] = "recorded"]
        /\ UNCHANGED <<page, disk, file, log, clock, astray, marker, paired, requests,
                       failures, starts, removals, repaired, backups, originals>>
  /\ UNCHANGED <<serving, settingsMarker>>

SettingsFile == {"mappings", "categories", "currency"}

(* record_current_settings.  The currency fields are recorded as rows. *)
CurrentSettings(d, T) ==
  LET At(t, steps) == IF t \in T /\ file[d][t] = "readable" THEN steps ELSE <<>>
      mappings == disk[d]["mappings"]
      categories == SetToSeq(disk[d]["categories"])
      FieldRow(f) == Record("currency", f, "upsert", FALSE, [value |-> disk[d]["currency"][f]])
  IN At("mappings", [i \in DOMAIN mappings |-> Upsert("mappings", mappings[i])])
     \o At("categories", [i \in DOMAIN categories |-> Upsert("categories", [id |-> categories[i]])])
     \o At("currency", <<FieldRow(ReferenceCurrency), FieldRow(RateMode)>>)

(* The settings files that are still to be recorded. *)
Wanted(d) ==
  IF settingsMarker[d].kind # "present" THEN SettingsFile ELSE settingsMarker[d].skipped

(* settings_baseline_change_log, the last step before requests are served. *)
SettingsBaseline(d) ==
  /\ boot[d] = "recorded"
  /\ IF d = Hub /\ Wanted(d) # {} /\ ~PairedForBaseline(d)
     THEN /\ RecordsAndMarks(d, CurrentSettings(d, Wanted(d)), settingsMarker,
               Present(FALSE, {t \in Wanted(d) : file[d][t] # "readable"}), "off")
          /\ serving' = IF settingsMarker'[d].kind = "present" /\ failures' = failures
                        THEN serving \cup {d} ELSE serving
          /\ UNCHANGED marked
     ELSE /\ marked' = IF d = Hub /\ Wanted(d) # {} THEN marked \cup {d} ELSE marked
          /\ serving' = serving \cup {d}
          /\ boot' = [boot EXCEPT ![d] = "off"]
          /\ UNCHANGED <<page, disk, file, log, clock, astray, paired, requests, failures,
                         starts, removals, settingsMarker, repaired, backups, originals>>
  /\ UNCHANGED marker

-----------------------------------------------------------------------------
(* What happens around a start                                             *)

Stop(d) ==
  /\ d \in serving /\ starts > 0
  /\ serving' = serving \ {d}
  /\ UNCHANGED <<page, disk, file, log, clock, marked, astray, marker, paired, requests,
                 failures, startVars>>

(* The user puts a file back that could not be read. *)
Restore(d) ==
  \E t \in Table :
    /\ file[d][t] = "unreadable"
    /\ file' = [file EXCEPT ![d][t] = "readable"]
    /\ UNCHANGED <<page, disk, log, clock, marked, astray, serving, marker, paired, requests,
                   failures, startVars>>

(* "the obvious first repair for a corrupt one" *)
DeleteLog(d) ==
  /\ d \notin serving \cup paired /\ boot[d] = "off" /\ removals > 0 /\ log[d] # {}
  /\ log' = [log EXCEPT ![d] = {}] /\ removals' = removals - 1
  /\ UNCHANGED <<page, disk, file, clock, marked, astray, serving, marker, paired, requests,
                 failures, boot, settingsMarker, starts, repaired, backups, originals>>

(* Mutant of NeedsRepair: only rows without a date are taken for wrong. *)
NeedsRepairIfNull(row) == row.day = NoDate

(* classify: the date does not belong to the month of the file. *)
NeedsRepair(row) == row.day \notin Days

FirstOfMonth == 1

(* repair_dates *)
RepairedRow(row) == IF NeedsRepair(row) THEN [row EXCEPT !.day = FirstOfMonth] ELSE row

RepairSteps(expenses) ==
  LET changed == RowsAt(expenses, {i \in DOMAIN expenses : NeedsRepair(expenses[i])})
  IN [n \in 1..1 + Len(changed) |->
        IF n = 1 THEN Save("expenses", [i \in DOMAIN expenses |-> RepairedRow(expenses[i])])
        ELSE Upsert("expenses", RepairedRow(changed[n - 1]))]

(* repair_expense_dates --apply, a program of the desktop's, while nothing *)
(* serves.  It takes a copy first and replaces the file whole, so it tears *)
(* nothing.                                                                *)
RepairDates ==
  /\ page = "expenses" /\ Hub \notin serving /\ boot[Hub] = "off" /\ CanLoad(Hub, "expenses")
  /\ \E i \in DOMAIN disk[Hub]["expenses"] : NeedsRepair(disk[Hub]["expenses"][i])
  /\ Backs(Hub)
  /\ LET steps == RepairSteps(disk[Hub]["expenses"])
     IN \/ Completes(Hub, steps) /\ repaired' = log'[Hub] \ log[Hub]
        \/ (LosesRecord(Hub, steps) \/ CutOff(Hub, steps)) /\ UNCHANGED repaired
  /\ UNCHANGED <<page, file, marker, paired, requests, boot, settingsMarker, starts, removals,
                 originals>>

NoData ==
  [t \in Table |-> CASE t = "income" -> NoIncome
                     [] t = "currency" -> [f \in Field |-> 0]
                     [] t = "categories" -> {}
                     [] OTHER -> <<>>]

(* A phone pairs and is reset from the log of the hub, after a copy. *)
PairAndReset(d) ==
  /\ d # Hub /\ d \notin paired
  /\ Healthy(Hub) /\ log[Hub] # {}
  /\ paired' = paired \cup {d, Hub}
  /\ log' = [log EXCEPT ![d] = log[Hub]]
  /\ disk' = [disk EXCEPT ![d] = Prepared(NoData, d, log[Hub])]
  /\ clock' = [clock EXCEPT ![d] = Observed(d, log[Hub])]
  /\ marker' = [marker EXCEPT ![d] = Present(TRUE, {})]
  /\ serving' = serving \cup {d}
  /\ Backs(d)
  /\ UNCHANGED <<page, file, marked, astray, requests, failures, boot, settingsMarker,
                 starts, removals, repaired, originals>>

-----------------------------------------------------------------------------
(* The situations a behaviour begins in                                    *)

NewRow(id, label) == Row(id, label, GeneratedRecurringDay, id)

(* Two templates, also of one name from two devices, or one of another day; *)
(* the first of them may have been applied to the month.                   *)
SharedTemplates(a, b) ==
  IF page # "expenses" THEN {<<>>}
  ELSE {<<NewRow(51, a), NewRow(52, a)>>, <<NewRow(51, a), NewRow(52, b)>>,
        <<[NewRow(51, a) EXCEPT !.day = 2]>>}

(* Files written before rows had ids, with and without settings. *)
LegacyData(a, b) ==
  [NoData EXCEPT !["recurring"] = <<NewRow(51, a), NewRow(0, b)>>,
                 !["holdings"] = <<NewRow(0, a), NewRow(0, b)>>,
                 !["prices"] = <<NewRow(0, b), NewRow(0, a)>>,
                 !["income"] = [NoIncome EXCEPT ![Salary] = 51, ![Income] = 51]]

WithSettings(data, a) ==
  [data EXCEPT !["mappings"] = <<[id |-> a, set |-> 51]>>, !["categories"] = {a},
               !["currency"] = [f \in Field |-> 51]]

(* A month with these templates and expenses, and nothing else. *)
Month(templates, expenses) ==
  [NoData EXCEPT !["recurring"] = templates, !["expenses"] = expenses]

InitPaired ==
  /\ \E a \in Label : \E b \in Label \ {a} :
     \E templates \in SharedTemplates(a, b) : \E n \in 0..Len(templates) :
       LET applied == [i \in 1..n |-> GeneratedRow(templates[i])]
           records == [i \in DOMAIN templates |-> Upsert("recurring", templates[i])]
             \o [i \in 1..n |-> Record("expenses", applied[i].id, "upsert", TRUE, applied[i])]
       IN /\ disk = [d \in Device |-> Month(templates, applied)]
          /\ log = [d \in Device |-> {EntryOf(records[i], [time |-> i, device |-> Hub]) :
                                        i \in DOMAIN records}]
          /\ clock = [d \in Device |-> Len(records)]
  /\ file = [d \in Device |-> [t \in Table |-> "readable"]]
  /\ serving = Device /\ paired = Device
  /\ marker = [d \in Device |-> Present(TRUE, {})]
  /\ settingsMarker = [d \in Device |-> IF d = Hub THEN Present(FALSE, {}) ELSE Absence]
  /\ starts = 0 /\ removals = 0 /\ requests = MaxRequests /\ failures = MaxFailures

(* The hub is still to start for the first time.  What a phone does before *)
(* it pairs is left out: pairing replaces its data.  Where the log is      *)
(* deleted nothing else fails: a run over an emptied log that is cut off   *)
(* is known to leave a marker that says all is recorded.  Nor does that    *)
(* hub have settings: they are never recorded again.                       *)
InitAlone(data, unreadable) ==
  /\ disk = [d \in Device |-> IF d = Hub THEN data ELSE NoData]
  /\ file = [d \in Device |-> [t \in Table |-> IF d = Hub /\ t \in unreadable THEN "unreadable"
                                               ELSE "readable"]]
  /\ log = [d \in Device |-> {}]
  /\ clock = [d \in Device |-> 0]
  /\ serving = {} /\ paired = {}
  /\ marker = [d \in Device |-> Absence] /\ settingsMarker = marker
  /\ starts = MaxStarts /\ requests = 1
  /\ failures = IF removals = 0 THEN MaxFailures ELSE 0

InitLegacy ==
  /\ page \in {"cashflow", "settings"}
  /\ \E a \in Label : \E b \in Label \ {a} :
       \/ \E unreadable \in IF page = "cashflow" THEN {{"holdings"}, {"prices"}}
                            ELSE {{}, {"recurring", "mappings"}} :
            removals = 0 /\ InitAlone(WithSettings(LegacyData(a, b), a), unreadable)
       \/ page = "cashflow" /\ removals = 1 /\ InitAlone(LegacyData(a, b), {"recurring"})

(* The hub is stopped and has expenses whose dates are wrong.  They are in *)
(* the log, and the phone has them too, or they are still to be recorded.  *)
InitMisdated ==
  /\ page = "expenses"
  /\ \E a \in Label, day \in {NoDate, OtherMonth, OtherMonthLate}, known \in BOOLEAN :
       LET rows == <<Row(51, a, day, 51), Row(52, a, NoDate, 52)>>
           owners == IF known THEN Device ELSE {Hub}
           entries == {EntryOf(Upsert("expenses", rows[i]), [time |-> i, device |-> Hub]) :
                         i \in DOMAIN rows}
       IN /\ disk = [d \in Device |-> IF d \in owners THEN Month(<<>>, rows) ELSE NoData]
          /\ log = [d \in Device |-> IF known THEN entries ELSE {}]
          /\ clock = [d \in Device |-> IF known THEN Len(rows) ELSE 0]
          /\ paired = IF known THEN Device ELSE {}
          /\ serving = paired \ {Hub}
          /\ marker = [d \in Device |-> IF known THEN Present(TRUE, {}) ELSE Absence]
          /\ settingsMarker = [d \in Device |-> IF known /\ d = Hub THEN Present(FALSE, {})
                                                 ELSE Absence]
  /\ file = [d \in Device |-> [t \in Table |-> "readable"]]
  /\ starts = 1 /\ removals = 0 /\ requests = 1 /\ failures = MaxFailures

Init ==
  /\ page \in Page
  /\ InitPaired \/ InitLegacy \/ InitMisdated
  /\ repaired = {}
  /\ marked = {} /\ astray = {}
  /\ boot = [d \in Device |-> "off"]
  /\ backups = [d \in Device |-> {}] /\ originals = [d \in Device |-> Copied(d)]

Starting(d) == MigrateRowIds(d) \/ BaselineChangeLog(d) \/ SettingsBaseline(d)

Next ==
  \E d \in Device :
    \/ Handlers(d) /\ UNCHANGED startVars
    \/ Starting(d)
    \/ (d = Hub /\ Stop(d)) \/ Restore(d) \/ DeleteLog(d) \/ PairAndReset(d)
    \/ (d = Hub /\ RepairDates)

Spec == Init /\ [][Next]_vars

-----------------------------------------------------------------------------
TypeOK ==
  /\ page \in Page /\ {marked, astray, serving, paired} \subseteq SUBSET Device
  /\ \A d \in Device :
       /\ \A t \in Keyed : file[d][t] = "readable" => \A i, j \in DOMAIN disk[d][t] :
            disk[d][t][i].id = disk[d][t][j].id /\ i # j => disk[d][t][i].id = 0
       /\ boot[d] \in {"off", "migrated", "recorded"} /\ (d \in serving => boot[d] = "off")
       /\ {marker[d].kind, settingsMarker[d].kind} \subseteq {"present", "missing", "unreadable"}
       /\ \A t \in Table : file[d][t] \in {"readable", "unreadable", "torn"}
  /\ requests \in 0..MaxRequests /\ failures \in 0..MaxFailures /\ starts \in 0..MaxStarts

(* The content of a table as the entries E tell it. *)
Told(E, t) ==
  LET Winners == {w \in {Rows!RowWinner(About(E, RowId(t, id))) : id \in {e.id : e \in E}} :
                    w # {} /\ Rows!Deletes(w) = {}}
  IN {Content(w) : w \in Winners}

Tells(E, t, content) ==
  IF t \in Fixed
  THEN \A id \in DOMAIN content \ {Income} :
         LET shown == Winner(About(E, RowId(t, id)), RowId(t, id))
         IN content[id] = IF shown = {} THEN NoData[t][id] ELSE Content(shown).value
  ELSE IF t = "categories" THEN {[id |-> label] : label \in content} = Told(E, t)
  ELSE ToSet(content) = Told(E, t)

(* A device that serves, has no mark on its log and lists no file it could *)
(* not record has in its log what every one of its tables holds: what was  *)
(* there before the first start, what was repaired since, what handlers    *)
(* and applied templates changed and what merges brought.  A crash between *)
(* a save and its entry (astray), and a merge cut off and not yet repeated,*)
(* are known exceptions.                                                   *)
LogTellsLedger ==
  \A d \in serving \ (marked \cup astray) :
    failures = MaxFailures \/ log[d] = Everything =>
      \A t \in Table \ (marker[d].skipped \cup settingsMarker[d].skipped) :
        CanLoad(d, t) => Tells(log[d], t, disk[d][t])

(* "each asset ends up with one ID shared by its holdings row and its      *)
(* prices row", also when one of the files was passed over at first or the *)
(* migration stopped between the two.                                      *)
AssetSharesItsId ==
  \A d \in serving :
    CanLoad(d, "holdings") /\ CanLoad(d, "prices") =>
      \A i \in DOMAIN disk[d]["holdings"], j \in DOMAIN disk[d]["prices"] :
        disk[d]["holdings"][i].label = disk[d]["prices"][j].label =>
          disk[d]["holdings"][i].id = disk[d]["prices"][j].id

(* Once the repair tool has gone through, a device that has its entries    *)
(* shows every expense of the month in its list, its spending and the      *)
(* totals of its category, whatever is edited, merged, recorded or         *)
(* restarted later: no wrong date comes back.  A row it has dated is found *)
(* as it was in one of the copies.                                         *)
RepairIsForGood ==
  /\ \A d \in Device :
       repaired # {} /\ repaired \subseteq log[d] /\ CanLoad(d, "expenses") =>
         LET expenses == disk[d]["expenses"]
         IN /\ Listed(expenses) = expenses
            /\ \A label \in Label :
                 /\ MonthlySpending(expenses, label) = AmountOf(expenses, label)
                 /\ CategoryTotal(expenses, label) = AmountOf(expenses, label)
  /\ \A e \in repaired : \E copy \in backups[Hub] : \E i \in DOMAIN copy["expenses"] :
       copy["expenses"][i].id = e.id /\ NeedsRepair(copy["expenses"][i])

(* "the backup keeps the originals": a file that was given ids is found as *)
(* it was in one of the copies, after runs that were cut off and taken up  *)
(* again as well, and whatever programs took copies since.                 *)
OriginalsAreKept ==
  \A d \in Device, t \in Keyed :
    NeedsRowIds(originals[d][t]) /\ ~NeedsRowIds(disk[d][t]) =>
      \E copy \in backups[d] : copy[t] = originals[d][t]

(* A start never stamps anew a row that a peer has changed: "a re-recorded *)
(* row gets a fresh stamp, which outranks every edit the peer made".       *)
StartOutranksNoPeer ==
  [][\A d \in Device : \A x \in log'[d] \ log[d] :
       boot[d] # "off" /\ x.key.device = d => \A e \in About(Everything, x) : e.key.device = d]_vars

=============================================================================

----------------------------- MODULE SyncRound -----------------------------
(***************************************************************************)
(* Pairing and the sync round between one hub and its phones:              *)
(* sync_exchange.rs, the two session loops of sync_service.rs and the      *)
(* records of sync_peers.rs, over whole row tables.                        *)
(*                                                                         *)
(* A round is a fixed exchange of messages over one connection.  Each side *)
(* takes its step by itself: between two steps of a round the user edits   *)
(* either device, the connection drops, a process restarts, either side    *)
(* unpairs, or a line of a log is lost.  The hub serves one round at a     *)
(* time (SessionSlot) and so does each phone.                              *)
(***************************************************************************)
EXTENDS Integers, FiniteSets

CONSTANTS
  Hub, Phone,    \* device ids
  Row,           \* the rows of one whole row table, numbered in table order
  Casts,         \* who does what in a behaviour: the phones that start paired
                 \* and reset, all logs empty, those that pair and unpair, the
                 \* devices whose users make changes; and the bounds: after how
                 \* many entries and resets the users make no more changes and
                 \* pairings, how many faults there are (a line or a marker
                 \* lost, a step cut off) and on which devices
  HubLoses,      \* what a fault may do to the hub's log: lose an upsert or a
                 \* delete, or leave a line that is no change, "noise"
  MaxTime,       \* bound: how many entries there are in all, baselines included,
                 \* and the largest stamp
  MaxResets      \* bound: how many resets the hub requires

M == INSTANCE Merge WITH Column <- {"row"}, PerCell <- FALSE

Device == {Hub} \cup Phone

ASSUME RoundAssumption ==
  /\ Device \subseteq Nat \ {0} /\ Hub \notin Phone
  /\ Row \subseteq Nat /\ IsFiniteSet(Row)
  /\ Casts \subseteq [paired : SUBSET Phone, pairing : SUBSET Phone, editing : SUBSET Device,
                    changes : 0..MaxTime, resets : 0..MaxResets, losses : Nat,
                    faulty : SUBSET Device]
  /\ HubLoses \subseteq {"upsert", "delete", "noise"}
  /\ MaxTime \in Nat /\ MaxResets \in Nat \ {0}

VARIABLES
  cast,             \* the one of Casts that this behaviour is about
  log, disk, clock, \* each device's readable entries, rows and clock
  problems,         \* LogHealth::problems of each device
  hubOf,            \* the phones whose peers file names the hub
  finished,         \* completed_reset: the last reset a phone finished, 0 for none
  phones,           \* the phones the hub's peers file names
  required,         \* reset_required: the id the hub wants proven, 0 for none
  issued,           \* how many reset ids the hub has made up
  at, own,          \* where each phone is in its round, and the hello it sent
  session,          \* the hub's side of the round it serves
  toHub, toPhone,   \* the message under way in each direction
  made, lost,       \* how many changes were made, how many faults happened
  joined,           \* the phones that finished a reset since they paired
  private,          \* the changes the hub must never receive
  owed,             \* what a batch that failed part way showed and did not store
  behind            \* the devices that started with a clock behind where it was

data == <<log, disk, clock, problems>>
peers == <<hubOf, finished, phones, required, issued>>
wire == <<at, own, session, toHub, toPhone>>
history == <<cast, joined, private, owed, behind>>
vars == <<data, peers, wire, made, lost, history>>

(* An entry carries, besides what Merge sees, which change it is: stamps   *)
(* can be issued twice, changes cannot.                                    *)
Line == [row : Row, entry : M!Entry, made : Nat]

About(L, r) == {x.entry : x \in {y \in L : y.row = r}}
TimesIn(L) == {x.entry.key.time : x \in L}
Largest(T) == IF T = {} THEN 0 ELSE CHOOSE t \in T : \A u \in T : u <= t
NoRows == [r \in Row |-> M!Absent]

-----------------------------------------------------------------------------
(* Log health and summaries.                                               *)

Reliable(d) == problems[d] = {}
ResetPending(p) == "reset_pending" \in problems[p]

(* summarize: the largest stamp from each device. *)
Summary(L) == [d \in Device |-> Largest(TimesIn({x \in L : x.entry.key.device = d}))]

(* Mutant of Missing: a device the summary does not name is passed over.    *)
MissingOfKnown(L, summary) ==
  {x \in L : summary[x.entry.key.device] \in 1 .. x.entry.key.time - 1}

(* entries_missing_from *)
Missing(L, summary) == {x \in L : x.entry.key.time > summary[x.entry.key.device]}

-----------------------------------------------------------------------------
(* Required resets (RequiredReset of sync_peers.rs).                       *)

NoReset == [id |-> 0, first |-> 0]

FirstPairing(id) == [id |-> id, first |-> id]

(* Mutant of AfterRepair: the repair's requirement replaces the pairing's. *)
AfterRepairForgets(previous, id) == [id |-> id, first |-> 0]

(* A repair's requirement keeps the first pairing's id while unproven. *)
AfterRepair(previous, id) == [id |-> id, first |-> previous.first]

FirstPairingPending(requirement, last) ==
  requirement.first # 0 /\ last # requirement.first

-----------------------------------------------------------------------------
(* Messages and the plan.                                                  *)

Quiet == [kind |-> "none"]
Idle == [phone |-> 0, stage |-> "idle"]

(* phone_hello *)
PhoneHello(p) ==
  [kind |-> "hello", summary |-> Summary(log[p]), reliable |-> Reliable(p),
   pending |-> ResetPending(p), last |-> IF p \in hubOf THEN finished[p] ELSE 0]

(* What hub_answer_hello takes as proof that the required reset happened. *)
ResetProven(hello, requirement) == hello.reliable /\ hello.last = requirement.id

(* The hub's own hello, in answer to the one it was sent. *)
HubHello(p, hello) ==
  LET owes == required[p] # NoReset /\ ~ResetProven(hello, required[p])
  IN [kind |-> "answer", summary |-> Summary(log[Hub]), reliable |-> Reliable(Hub),
      mustReset |-> owes,
      firstReset |-> owes /\ FirstPairingPending(required[p], hello.last)]

(* Mutant of PlanOf: a phone that must send nothing is asked to push. *)
PlanOfPushAlways(phone, hub) ==
  [kind |-> IF ~hub.reliable THEN "repair"
            ELSE IF ~phone.reliable \/ hub.mustReset THEN "reset" ELSE "exchange",
   pushFirst |-> ~hub.firstReset]

(* plan_round *)
PlanOf(phone, hub) ==
  [kind |-> IF ~hub.reliable THEN "repair"
            ELSE IF ~phone.reliable \/ hub.mustReset THEN "reset" ELSE "exchange",
   pushFirst |-> ~phone.pending /\ ~hub.firstReset]

-----------------------------------------------------------------------------
Init ==
  /\ cast \in Casts
  /\ log = [d \in Device |-> {}] /\ disk = [d \in Device |-> NoRows]
  /\ clock = [d \in Device |-> 0] /\ problems = [d \in Device |-> {}]
  /\ hubOf = cast.paired /\ phones = cast.paired /\ joined = cast.paired /\ private = {}
  /\ issued = IF cast.paired = {} THEN 0 ELSE 1
  /\ finished = [p \in Phone |-> IF p \in cast.paired THEN 1 ELSE 0]
  /\ required = [p \in Phone |-> NoReset]
  /\ at = [p \in Phone |-> "idle"] /\ own = [p \in Phone |-> Quiet]
  /\ session = Idle
  /\ toHub = [p \in Phone |-> Quiet] /\ toPhone = [p \in Phone |-> Quiet]
  /\ made = 0 /\ lost = 0 /\ owed = [d \in Device |-> {}] /\ behind = {}

-----------------------------------------------------------------------------
(* The user's edits, and what loses them.                                  *)

NewLine(d, r, op, t) ==
  [row |-> r, made |-> made + 1,
   entry |-> [key |-> [time |-> t, device |-> d], op |-> op, generated |-> FALSE,
              column |-> "row"]]

ContentOf(x) == IF x.entry.op = "delete" THEN M!Absent ELSE [c \in {"row"} |-> x.entry.key]

(* A row is added under a fresh id, or the row is there. *)
Editable(d, r, op) ==
  \/ disk[d][r] # M!Absent
  \/ op = "upsert" /\ \A e \in Device : disk[e][r] = M!Absent /\ About(log[e], r) = {}

(* What a phone holds before a reset made it a copy of the hub is its own. *)
KeptFromHub(d, x) == IF d \in hubOf \ joined THEN private \cup {x} ELSE private

(* A handler saves a change and record appends it. *)
Edit(d) ==
  \E r \in Row, op \in {"upsert", "delete"}, t \in clock[d] + 1 .. cast.changes :
    LET x == NewLine(d, r, op, t)
    IN /\ d \in cast.editing /\ made < cast.changes /\ Editable(d, r, op)
       /\ log' = [log EXCEPT ![d] = @ \cup {x}]
       /\ disk' = [disk EXCEPT ![d][r] = ContentOf(x)]
       /\ clock' = [clock EXCEPT ![d] = t]
       /\ made' = made + 1
       /\ private' = KeptFromHub(d, x)
       /\ UNCHANGED <<problems, peers, wire, lost, cast, joined, owed, behind>>

Fails(d) == d \in cast.faulty /\ lost < cast.losses

Losable(d, op) == Fails(d) /\ (d = Hub => op \in HubLoses)

(* The save succeeds and the append does not. *)
EditUnlogged(d) ==
  \E r \in Row, op \in {"upsert", "delete"}, t \in clock[d] + 1 .. cast.changes :
    /\ d \in cast.editing /\ made < cast.changes /\ Editable(d, r, op) /\ Losable(d, op)
    /\ disk' = [disk EXCEPT ![d][r] = ContentOf(NewLine(d, r, op, t))]
    /\ clock' = [clock EXCEPT ![d] = t]
    /\ problems' = [problems EXCEPT ![d] = @ \cup {"append_failed"}]
    /\ made' = made + 1 /\ lost' = lost + 1
    /\ UNCHANGED <<log, peers, wire, history>>

(* The medium damages a line, or leaves one that never was a change. *)
LineDamaged(d) ==
  \E gone \in {{}} \cup {{x} : x \in log[d]} :
    /\ Losable(d, IF gone = {} THEN "noise" ELSE (CHOOSE x \in gone : TRUE).entry.op)
    /\ log' = [log EXCEPT ![d] = @ \ gone]
    /\ problems' = [problems EXCEPT ![d] = @ \cup {"damaged"}]
    /\ lost' = lost + 1
    /\ UNCHANGED <<disk, clock, peers, wire, made, history>>

(* A phone's incomplete mark goes missing: the hub must not rely on it. *)
MarkerLost(p) ==
  /\ ResetPending(p) /\ Fails(p)
  /\ problems' = [problems EXCEPT ![p] = @ \ {"reset_pending"}]
  /\ lost' = lost + 1
  /\ UNCHANGED <<log, disk, clock, peers, wire, made, history>>

-----------------------------------------------------------------------------
(* Pairing and unpairing.                                                  *)

(* pair_with_phone: the hub records the phone first, then confirms. *)
HubPairs(p) ==
  /\ p \in cast.pairing \ hubOf /\ at[p] = "idle" /\ session = Idle
  /\ issued < cast.resets
  /\ phones' = phones \cup {p}
  /\ issued' = issued + 1
  /\ required' = [required EXCEPT ![p] = FirstPairing(issued + 1)]
  /\ at' = [at EXCEPT ![p] = "pairing"]
  /\ UNCHANGED <<data, hubOf, finished, own, session, toHub, toPhone, made, lost, history>>

(* The lines a message carries. *)
Carried(m) == IF m.kind \in {"push", "reply", "full"} THEN m.lines ELSE {}

(* What a phone has all to itself: no other device holds it, and no other  *)
(* phone's message carries it.                                             *)
HeldOnlyBy(p) ==
  {x \in log[p] : /\ \A d \in Device \ {p} : x \notin log[d]
                  /\ \A q \in Phone \ {p} : x \notin Carried(toHub[q]) \cup Carried(toPhone[q])}

(* pair_with_hub: the mark, then the record.  A phone that stops between   *)
(* the two is marked and not paired.                                       *)
PhonePairs(p) ==
  /\ at[p] = "pairing"
  /\ problems' = [problems EXCEPT ![p] = @ \cup {"reset_pending"}]
  /\ at' = [at EXCEPT ![p] = "idle"]
  /\ \/ /\ hubOf' = hubOf \cup {p}
        /\ joined' = joined \ {p}
        /\ private' = private \cup HeldOnlyBy(p)
     \/ UNCHANGED <<hubOf, joined, private>>
  /\ UNCHANGED <<log, disk, clock, finished, phones, required, issued, own, session, cast,
                 toHub, toPhone, made, lost, owed, behind>>

(* unpair, on the phone: its record of the hub goes. *)
PhoneUnpairs(p) ==
  /\ p \in cast.pairing \cap hubOf
  /\ hubOf' = hubOf \ {p} /\ finished' = [finished EXCEPT ![p] = 0]
  /\ UNCHANGED <<data, phones, required, issued, wire, made, lost, history>>

(* unpair, on the hub: its record of the phone goes. *)
HubUnpairs(p) ==
  /\ p \in cast.pairing \cap phones
  /\ phones' = phones \ {p} /\ required' = [required EXCEPT ![p] = NoReset]
  /\ UNCHANGED <<data, hubOf, finished, issued, wire, made, lost, history>>

-----------------------------------------------------------------------------
(* A round, step by step.                                                  *)

(* sync_now, the connection and phone_hello.  The handshake fails unless   *)
(* both sides know each other, and a hub in a round refuses.               *)
StartRound(p) ==
  /\ at[p] = "idle" /\ p \in hubOf \cap phones /\ session = Idle
  /\ at' = [at EXCEPT ![p] = "hello"]
  /\ own' = [own EXCEPT ![p] = PhoneHello(p)]
  /\ toHub' = [toHub EXCEPT ![p] = PhoneHello(p)]
  /\ toPhone' = [toPhone EXCEPT ![p] = Quiet]
  /\ session' = [phone |-> p, stage |-> "hello"]
  /\ UNCHANGED <<data, peers, made, lost, history>>

Heard(p, stage, kind) ==
  session.phone = p /\ session.stage = stage /\ toHub[p].kind = kind

(* hub_answer_hello *)
HubAnswersHello(p) ==
  /\ Heard(p, "hello", "hello") /\ p \in phones
  /\ LET hello == toHub[p]
         answer == HubHello(p, hello)
         plan == PlanOf(hello, answer)
     IN /\ required' = IF answer.mustReset THEN required
                       ELSE [required EXCEPT ![p] = NoReset]
        /\ toPhone' = [toPhone EXCEPT ![p] = answer]
        /\ session' = [phone |-> p, hello |-> hello, plan |-> plan,
                       stage |-> IF plan.kind = "exchange" \/ plan.pushFirst
                                  THEN "push" ELSE "proceed"]
  /\ toHub' = [toHub EXCEPT ![p] = Quiet]
  /\ UNCHANGED <<data, hubOf, finished, phones, issued, at, own, made, lost, history>>

(* phone_read_hello, where the plan asks for a reset and the user has not  *)
(* confirmed one: the preview writes nothing, and the round ends.          *)
PhonePreviews(p) ==
  /\ at[p] = "hello" /\ toPhone[p].kind = "answer" /\ p \in hubOf
  /\ PlanOf(own[p], toPhone[p]).kind # "exchange"
  /\ toHub' = [toHub EXCEPT ![p] = [kind |-> "done"]]
  /\ toPhone' = [toPhone EXCEPT ![p] = Quiet]
  /\ at' = [at EXCEPT ![p] = "idle"]
  /\ own' = [own EXCEPT ![p] = Quiet]
  /\ UNCHANGED <<data, peers, session, made, lost, history>>

(* phone_read_hello and phone_push, in an exchange or a confirmed reset    *)
(* that pushes first.                                                      *)
PhonePushes(p) ==
  LET plan == PlanOf(own[p], toPhone[p])
  IN /\ at[p] = "hello" /\ toPhone[p].kind = "answer" /\ p \in hubOf
     /\ plan.kind = "exchange" \/ plan.pushFirst
     /\ ~ResetPending(p) /\ ~toPhone[p].firstReset
     /\ toHub' = [toHub EXCEPT ![p] =
                    [kind |-> "push", lines |-> Missing(log[p], toPhone[p].summary)]]
     /\ toPhone' = [toPhone EXCEPT ![p] = Quiet]
     /\ at' = [at EXCEPT ![p] = IF plan.kind = "exchange" THEN "reply" ELSE "full"]
     /\ UNCHANGED <<data, peers, own, session, made, lost, history>>

(* A confirmed reset of a phone that must send nothing. *)
PhoneProceeds(p) ==
  LET plan == PlanOf(own[p], toPhone[p])
  IN /\ at[p] = "hello" /\ toPhone[p].kind = "answer" /\ p \in hubOf
     /\ plan.kind # "exchange" /\ ~plan.pushFirst
     /\ toHub' = [toHub EXCEPT ![p] = [kind |-> "proceed"]]
     /\ toPhone' = [toPhone EXCEPT ![p] = Quiet]
     /\ at' = [at EXCEPT ![p] = "full"]
     /\ UNCHANGED <<data, peers, own, session, made, lost, history>>

ClockAfter(before, batch) == Largest(TimesIn(batch) \cup {before})

(* plan_merge: an entry under a key that the log holds is dropped. *)
Unknown(d, batch) ==
  {x \in batch : \A y \in log[d] : y.entry.key # x.entry.key}

(* apply_remote_batch: the clock takes in every stamp, then the rows are    *)
(* written, then what is stored of the unknown entries is appended.        *)
ApplyStoring(d, batch, stored) ==
  LET new == Unknown(d, batch)
  IN /\ clock' = [clock EXCEPT ![d] = ClockAfter(@, batch)]
     /\ disk' = [disk EXCEPT ![d] = [r \in Row |->
          M!RowAfter(@[r], About(log[d] \cup new, r), About(new, r), FALSE)]]
     /\ log' = [log EXCEPT ![d] = @ \cup stored]

Apply(d, batch) == ApplyStoring(d, batch, Unknown(d, batch))

(* The append stops part way: the entries are stored in stamp order, up to  *)
(* one that is not.  A failed merge sets no mark: it is run again.         *)
ApplyStops(d, batch) ==
  \E first \in Unknown(d, batch) :
    LET stored == {x \in Unknown(d, batch) : M!Precedes(x.entry, first.entry)}
    IN /\ ApplyStoring(d, batch, stored)
       /\ owed' = [owed EXCEPT ![d] = @ \cup (Unknown(d, batch) \ stored)]

AfterPush == [exchange |-> "reply", reset |-> "full", repair |-> "repair"]

(* hub_apply_push, with the hub's own guard against a phone's data from    *)
(* before its pairing.                                                     *)
HubTakesPush(p) ==
  /\ Heard(p, "push", "push")
  /\ p \in phones /\ ~session.hello.pending
  /\ ~FirstPairingPending(required[p], session.hello.last)
  /\ Apply(Hub, toHub[p].lines)
  /\ toHub' = [toHub EXCEPT ![p] = Quiet]
  /\ session' = [session EXCEPT !.stage = AfterPush[session.plan.kind]]
  /\ UNCHANGED <<problems, peers, at, own, toPhone, made, lost, history>>

(* The merge of the push fails, and the round with it. *)
HubPushStops(p) ==
  /\ Heard(p, "push", "push") /\ Fails(Hub)
  /\ p \in phones /\ ~session.hello.pending
  /\ ~FirstPairingPending(required[p], session.hello.last)
  /\ ApplyStops(Hub, toHub[p].lines)
  /\ lost' = lost + 1
  /\ toHub' = [toHub EXCEPT ![p] = Quiet]
  /\ session' = Idle
  /\ UNCHANGED <<problems, peers, at, own, toPhone, made, cast, joined, private,
                 behind>>

(* hub_reply *)
HubReplies(p) ==
  /\ session.phone = p /\ session.stage = "reply"
  /\ session.hello.reliable /\ p \in phones /\ required[p] = NoReset /\ Reliable(Hub)
  /\ toPhone' = [toPhone EXCEPT ![p] =
       [kind |-> "reply", lines |-> Missing(log[Hub], session.hello.summary),
        all |-> log[Hub]]]
  /\ session' = Idle
  /\ UNCHANGED <<data, peers, at, own, toHub, made, lost, history>>

(* phone_apply_reply *)
PhoneTakesReply(p) ==
  /\ at[p] = "reply" /\ toPhone[p].kind = "reply" /\ Reliable(p)
  /\ Apply(p, toPhone[p].lines)
  /\ toPhone' = [toPhone EXCEPT ![p] = Quiet]
  /\ at' = [at EXCEPT ![p] = "idle"] /\ own' = [own EXCEPT ![p] = Quiet]
  /\ UNCHANGED <<problems, peers, session, toHub, made, lost, history>>

(* The merge of the reply fails. *)
PhoneReplyStops(p) ==
  /\ at[p] = "reply" /\ toPhone[p].kind = "reply" /\ Reliable(p) /\ Fails(p)
  /\ ApplyStops(p, toPhone[p].lines)
  /\ lost' = lost + 1
  /\ toPhone' = [toPhone EXCEPT ![p] = Quiet]
  /\ at' = [at EXCEPT ![p] = "idle"] /\ own' = [own EXCEPT ![p] = Quiet]
  /\ UNCHANGED <<problems, peers, session, toHub, made, cast, joined, private,
                 behind>>

(* The hub goes on with a reset that needs no push. *)
HubProceeds(p) ==
  /\ Heard(p, "proceed", "proceed")
  /\ toHub' = [toHub EXCEPT ![p] = Quiet]
  /\ session' = [session EXCEPT !.stage = AfterPush[session.plan.kind]]
  /\ UNCHANGED <<data, peers, at, own, toPhone, made, lost, history>>

(* hub_full_log *)
HubSendsFullLog(p) ==
  /\ session.phone = p /\ session.stage = "full"
  /\ p \in phones /\ Reliable(Hub)
  /\ toPhone' = [toPhone EXCEPT ![p] =
       [kind |-> "full", lines |-> log[Hub], id |-> required[p].id]]
  /\ session' = Idle
  /\ UNCHANGED <<data, peers, at, own, toHub, made, lost, history>>

-----------------------------------------------------------------------------
(* repair_hub_log.                                                         *)

Shown(d) == {r \in Row : disk[d][r] # M!Absent}

(* The place of a row among those that are there. *)
Place(d, r) == Cardinality({q \in Shown(d) : q <= r})

(* A baseline line for every row that is there, stamped past time t. *)
BaselineLines(d, t) ==
  {[NewLine(d, r, "upsert", t + Place(d, r)) EXCEPT !.made = made + Place(d, r)] :
     r \in Shown(d)}

(* record_every_year: what the rows show is recorded again, past the clock. *)
(* The rows stay as they are; their content goes by the new entry's name.   *)
RecordBaseline(d, from) ==
  \E t \in from .. Largest({from, cast.changes}) :
    LET fresh == BaselineLines(d, t)
    IN /\ t + Cardinality(Shown(d)) <= MaxTime /\ made + Cardinality(fresh) <= MaxTime
       /\ log' = [log EXCEPT ![d] = @ \cup fresh]
       /\ disk' = [disk EXCEPT ![d] = [r \in Row |->
            IF r \in Shown(d) THEN ContentOf(CHOOSE x \in fresh : x.row = r) ELSE @[r]]]
       /\ clock' = [clock EXCEPT ![d] = Largest(TimesIn(fresh) \cup {from})]
       /\ made' = made + Cardinality(fresh)

(* Mutant of RequireResets: only the phone of this round must reset. *)
RequireResetOfOne ==
  /\ issued < MaxResets
  /\ issued' = issued + 1
  /\ required' = [required EXCEPT ![session.phone] = AfterRepair(@, issued + 1)]

(* require_phone_resets.  One fresh id stands for the fresh ids of all. *)
RequireResets ==
  /\ issued < MaxResets
  /\ issued' = issued + 1
  /\ required' = [p \in Phone |-> IF p \in phones THEN AfterRepair(required[p], issued + 1)
                                  ELSE required[p]]

(* The mark, the rewrite without the damaged lines, the fresh baseline,    *)
(* the requirement and the end of the mark.                                *)
HubRepairs(p) ==
  /\ session.phone = p /\ session.stage = "repair"
  /\ RecordBaseline(Hub, clock[Hub])
  /\ RequireResets
  /\ problems' = [problems EXCEPT ![Hub] = {}]
  /\ session' = [session EXCEPT !.stage = "full"]
  /\ UNCHANGED <<hubOf, finished, phones, at, own, toHub, toPhone, lost, history>>

(* The repair stops part way: after the rewrite, the baseline or the       *)
(* requirement.                                                            *)
HubRepairStops(p) ==
  /\ session.phone = p /\ session.stage = "repair" /\ Fails(Hub)
  /\ \/ UNCHANGED <<log, disk, clock, made, required, issued>>
     \/ RecordBaseline(Hub, clock[Hub]) /\ UNCHANGED <<required, issued>>
     \/ RecordBaseline(Hub, clock[Hub]) /\ RequireResets
  /\ problems' = [problems EXCEPT ![Hub] = (@ \ {"damaged"}) \cup {"repair_unfinished"}]
  /\ lost' = lost + 1
  /\ session' = Idle /\ toHub' = [toHub EXCEPT ![p] = Quiet]
  /\ UNCHANGED <<hubOf, finished, phones, at, own, toPhone, history>>

-----------------------------------------------------------------------------
(* reset_phone_from_hub.                                                   *)

(***************************************************************************)
(* What the phone holds after the first k steps: 1 the incomplete mark,    *)
(* 2 the baseline marker removed, 3 the data removed, 4 the log emptied,   *)
(* 5 the hub's rows written, 6 the hub's lines stored, 7 the baseline      *)
(* marker written, 8 the reset's id recorded, 9 the mark cleared.          *)
(***************************************************************************)
LastStep == 9

(* Mutant of ProblemsAfter: the mark goes once the rows are written. *)
ProblemsAfterEarly(before, k) ==
  IF k >= 5 THEN {}
  ELSE (IF k >= 4 THEN before \ {"damaged"} ELSE before)
       \cup {"reset_pending"} \cup (IF k \in 2..4 THEN {"no_baseline"} ELSE {})

ProblemsAfter(before, k) ==
  IF k = LastStep THEN {}
  ELSE (IF k >= 4 THEN before \ {"damaged"} ELSE before)
       \cup {"reset_pending"} \cup (IF k \in 2..6 THEN {"no_baseline"} ELSE {})

(* The rows of the hub's log, on an empty disk. *)
ResetRows(p, full) ==
  [r \in Row |-> M!RowAfter(M!Absent, About(full, r), About(full, r), FALSE)]

ResetUpTo(p, k) ==
  LET full == toPhone[p].lines
  IN /\ problems' = [problems EXCEPT ![p] = ProblemsAfter(@, k)]
     /\ disk' = [disk EXCEPT ![p] =
          IF k < 3 THEN @ ELSE IF k < 5 THEN NoRows
          ELSE ResetRows(p, full)]
     /\ log' = [log EXCEPT ![p] = IF k < 4 THEN @ ELSE IF k < 6 THEN {} ELSE full]
     /\ clock' = [clock EXCEPT ![p] = IF k < 5 THEN @ ELSE ClockAfter(@, full)]
     /\ owed' = [owed EXCEPT ![p] = IF k < 3 THEN @ ELSE {}]
     /\ finished' = [finished EXCEPT ![p] =
          IF k >= 8 /\ p \in hubOf /\ toPhone[p].id # 0 THEN toPhone[p].id ELSE @]

PhoneResets(p) ==
  /\ at[p] = "full" /\ toPhone[p].kind = "full" /\ p \in hubOf
  /\ ResetUpTo(p, LastStep)
  /\ joined' = joined \cup {p}
  /\ at' = [at EXCEPT ![p] = "idle"] /\ own' = [own EXCEPT ![p] = Quiet]
  /\ toPhone' = [toPhone EXCEPT ![p] = Quiet]
  /\ UNCHANGED <<hubOf, phones, required, issued, session, toHub, made, lost, cast, private,
                 behind>>

PhoneResetStops(p) ==
  /\ at[p] = "full" /\ toPhone[p].kind = "full" /\ p \in hubOf /\ Fails(p)
  /\ \E k \in 1 .. LastStep - 1 :
       ResetUpTo(p, k) /\ joined' = IF k >= 8 THEN joined \cup {p} ELSE joined
  /\ lost' = lost + 1
  /\ at' = [at EXCEPT ![p] = "idle"] /\ own' = [own EXCEPT ![p] = Quiet]
  /\ toPhone' = [toPhone EXCEPT ![p] = Quiet]
  /\ UNCHANGED <<hubOf, phones, required, issued, session, toHub, made, cast, private,
                 behind>>

-----------------------------------------------------------------------------
(* Rounds that end early, and restarts.                                    *)

(* The phone's side ends: the connection failed, a step was refused.  What *)
(* it sent may still reach the hub.                                        *)
PhoneStops(p) ==
  /\ at[p] # "idle"
  /\ at' = [at EXCEPT ![p] = "idle"] /\ own' = [own EXCEPT ![p] = Quiet]
  /\ toPhone' = [toPhone EXCEPT ![p] = Quiet]
  /\ UNCHANGED <<data, peers, session, toHub, made, lost, history>>

(* The hub's side ends, for the same reasons or because the phone is done. *)
HubStops ==
  /\ session # Idle
  /\ toHub' = [toHub EXCEPT ![session.phone] = Quiet]
  /\ session' = Idle
  /\ UNCHANGED <<data, peers, at, own, toPhone, made, lost, history>>

(* The stamp of a damaged line is still passed: the probe of the line      *)
(* reads it, or the wall clock has gone on since.                          *)
Recovered(d) == IF "damaged" \in problems[d] THEN clock[d] ELSE Largest(TimesIn(log[d]))

(* A process starts again: its round is gone, the clock is what the log    *)
(* shows, and the startup baseline runs.  It records the data of a folder  *)
(* without a marker, except on a paired device, which it marks instead.    *)
Restart(d) ==
  /\ IF d = Hub
     THEN session' = Idle /\ toHub' = [p \in Phone |-> Quiet] /\ UNCHANGED <<at, own, toPhone>>
     ELSE /\ at' = [at EXCEPT ![d] = "idle"] /\ own' = [own EXCEPT ![d] = Quiet]
          /\ toPhone' = [toPhone EXCEPT ![d] = Quiet]
          /\ UNCHANGED <<session, toHub>>
  /\ IF "no_baseline" \in problems[d] /\ d \notin hubOf
     THEN /\ RecordBaseline(d, Recovered(d))
          /\ problems' = [problems EXCEPT ![d] = @ \ {"no_baseline"}]
     ELSE /\ problems' = [problems EXCEPT ![d] =
               IF "no_baseline" \in @ THEN @ \cup {"baseline_refused"} ELSE @]
          /\ clock' = [clock EXCEPT ![d] = Recovered(d)]
          /\ UNCHANGED <<log, disk, made>>
  /\ behind' = IF Recovered(d) < clock[d] THEN behind \cup {d} ELSE behind
  /\ UNCHANGED <<peers, lost, cast, joined, private, owed>>

(* The devices that take part. *)
Present == {Hub} \cup cast.paired \cup cast.pairing

Next ==
  \/ \E d \in Present : Edit(d) \/ EditUnlogged(d) \/ LineDamaged(d) \/ Restart(d)
  \/ HubStops
  \/ \E p \in Phone :
       \/ MarkerLost(p)
       \/ HubPairs(p) \/ PhonePairs(p) \/ PhoneUnpairs(p) \/ HubUnpairs(p)
       \/ StartRound(p) \/ HubAnswersHello(p)
       \/ PhonePreviews(p) \/ PhonePushes(p) \/ PhoneProceeds(p)
       \/ HubTakesPush(p) \/ HubPushStops(p) \/ HubReplies(p)
       \/ PhoneTakesReply(p) \/ PhoneReplyStops(p)
       \/ HubProceeds(p) \/ HubRepairs(p) \/ HubRepairStops(p) \/ HubSendsFullLog(p)
       \/ PhoneResets(p) \/ PhoneResetStops(p) \/ PhoneStops(p)

Spec == Init /\ [][Next]_vars

(* A step that a round under way takes on either side. *)
RoundStep(p) ==
  \/ HubAnswersHello(p) \/ PhonePushes(p) \/ PhoneProceeds(p)
  \/ HubTakesPush(p) \/ HubProceeds(p) \/ HubReplies(p) \/ PhoneTakesReply(p)
  \/ HubRepairs(p) \/ HubSendsFullLog(p) \/ PhoneResets(p)

(* A round ends although one of its steps could still be taken. *)
Interrupted ==
  \E p \in Phone :
    /\ ENABLED RoundStep(p) /\ ~RoundStep(p)
    /\ HubStops \/ PhoneStops(p) \/ Restart(p) \/ Restart(Hub)

(* The user of a phone keeps asking for a round, and confirms the reset it *)
(* needs.  Each side takes its steps, and gives up a round that cannot go  *)
(* on (a message that never comes, a refusal).  Connections and processes  *)
(* do not fail for ever.                                                   *)
Fairness ==
  /\ \A p \in Phone :
       /\ SF_vars(StartRound(p)) /\ SF_vars(PhonePushes(p)) /\ SF_vars(PhoneProceeds(p))
       /\ WF_vars(RoundStep(p)) /\ WF_vars(PhoneStops(p))
  /\ WF_vars(HubStops)
  /\ <>[][~Interrupted]_vars

FairSpec == Spec /\ Fairness

-----------------------------------------------------------------------------
Requirement == [id : 0..MaxResets, first : 0..MaxResets]

TypeOK ==
  /\ log \in [Device -> SUBSET Line]
  /\ disk \in [Device -> [Row -> M!Content \cup {M!Absent}]]
  /\ clock \in [Device -> 0..MaxTime]
  /\ problems \in [Device -> SUBSET {"damaged", "append_failed", "reset_pending",
                       "no_baseline", "baseline_refused", "repair_unfinished"}]
  /\ hubOf \subseteq Phone /\ phones \subseteq Phone
  /\ finished \in [Phone -> 0..issued] /\ required \in [Phone -> Requirement]
  /\ issued \in 0..MaxResets /\ made \in 0..MaxTime /\ lost \in 0..cast.losses
  /\ at \in [Phone -> {"idle", "pairing", "hello", "reply", "full"}]
  /\ session # Idle => session.phone \in Phone
  /\ cast \in Casts /\ joined \subseteq Phone /\ private \subseteq Line
  /\ owed \in [Device -> SUBSET Line] /\ behind \subseteq Device

(* The hub never receives what a phone alone held before its pairing, nor  *)
(* what was entered between the pairing and the reset: not when a          *)
(* connection drops, either side unpairs, the hub repairs itself, a reset  *)
(* stops half way, or the phone's own mark is lost.                        *)
HubTakesNoPrivateData == log[Hub] \cap private = {}

(* The hub, and a phone that the hub requires no reset of.  Another phone  *)
(* replaces its data before it exchanges anything.                         *)
Exchanges(d) == d = Hub \/ (d \in hubOf \cap phones /\ required[d] = NoReset)

(* No batch that failed part way left row r of device d ahead of its log. *)
Settled(d, r) == \A x \in owed[d] : x.row = r => x \in log[d]

(* Of a device that takes part in exchanges, a log that reports no problem *)
(* describes the rows on disk, also after a reset or a repair that stopped *)
(* at any step, or two of them.  A batch that failed part way may put a    *)
(* row ahead of the log until the same batch is run again.                 *)
ReliableLogDescribesRows ==
  \A d \in Device, r \in Row : Exchanges(d) /\ Reliable(d) /\ Settled(d, r) =>
    disk[d][r] = IF About(log[d], r) = {} THEN M!Absent
                 ELSE M!Described(About(log[d], r), FALSE)

(* Two devices whose logs are reliable and equal show the same rows.       *)
SameLogSameRows ==
  \A d, e \in Device : Reliable(d) /\ Reliable(e) /\ log[d] = log[e] =>
    disk[d] = disk[e]

(* A log has line x, or a later one that decides x's row. *)
Covers(L, x) == \E y \in L : y.row = x.row /\ (y = x \/ M!Precedes(x.entry, y.entry))

(* One stamp per device says all that log L lacks of the lines K: what it   *)
(* does not call missing is covered.                                       *)
NothingMissed(L, K) == \A x \in K \ Missing(K, Summary(L)) : Covers(L, x)

(* No line that the hub lost lives on in the phone: what it has and the    *)
(* hub has not, it made itself.  The hub may have a line that another      *)
(* phone brought back, if a later line decides the row.                    *)
SameHistory(p) ==
  /\ \A x \in log[p] \ log[Hub] : x.entry.key.device = p
  /\ NothingMissed(log[Hub], log[p]) /\ NothingMissed(log[p], log[Hub])

(* Neither started with a clock behind a stamp that its log had lost. *)
ClocksGoOn(p) == {Hub, p} \cap behind = {}

(* A hub that requires nothing of a paired phone and a phone with a        *)
(* reliable log have the same history but for what the summaries show,     *)
(* whatever resets and repairs stopped at whatever step before.            *)
ProvenMeansSameHistory ==
  \A p \in hubOf \cap phones :
    required[p] = NoReset /\ Reliable(p) /\ Reliable(Hub) /\ ClocksGoOn(p) => SameHistory(p)

(* A reply completes the phone: afterwards no line the hub held when it    *)
(* replied is missing from it, but for lines that no longer decide a row,  *)
(* whatever was edited during the round.                                   *)
ReplyCompletesPhone ==
  [][\A p \in Phone : PhoneTakesReply(p) /\ ClocksGoOn(p) =>
       \A x \in toPhone[p].all : Covers(log'[p], x)]_vars

InSync(p) ==
  /\ Reliable(p) /\ log[p] = log[Hub]
  /\ \A r \in Row : Settled(Hub, r) => disk[p][r] = disk[Hub][r]

(* Once the edits and the faults are over, a phone that stays paired ends  *)
(* up with the hub's log and the hub's rows: no refusal, no half done      *)
(* reset and no requirement can keep it away for ever.                     *)
EventuallyInSync ==
  \A p \in Phone : <>[](p \in hubOf \cap phones) => <>[]InSync(p)

=============================================================================

----------------------------- MODULE ChangeLog -----------------------------
(***************************************************************************)
(* One device's append-only change log (sync.rs) together with the hook    *)
(* that records a saved change in it (df_operations.rs).                   *)
(*                                                                         *)
(* The file is a set of readable entries, the unreadable lines between     *)
(* them, and possibly a last line without its newline.  The open handle    *)
(* keeps a clock and the needs_newline flag, which a crash forgets.  The   *)
(* write lock of write_lock.rs makes one change at a time pass through     *)
(* save and append; a crash can fall anywhere, an append can fail anywhere *)
(* and the wall clock can read anything at every step.                     *)
(***************************************************************************)
EXTENDS Hlc, FiniteSets

CONSTANTS Self,         \* this device's id; ids are compared as numbers
          RemoteEntry,  \* the entries other devices have made
          MaxWall,      \* bound: the latest wall clock reading
          MaxChanges,   \* bound: how many changes the user makes
          MaxDamage     \* bound: how many lines the medium damages

VARIABLES
  role,         \* a phone resets from its hub, a hub repairs its own log; never changes
  entries,      \* the readable lines of changelog.jsonl
  corrupt,      \* the unreadable terminated lines, each as the stamp its probe reads
  tornTail,     \* the file ends in an unterminated line that does not parse
  wholeTail,    \* the entry of an unterminated last line that does parse, if any
  marker,       \* the reasons in the log_incomplete file
  open,         \* the process runs and holds the log
  clock,        \* LogState::last_stamp
  needsNewline, \* LogState::needs_newline
  saved,        \* the user's changes that reached a Parquet file
  pending,      \* the change saved and not yet recorded: at most one
  phase,        \* where a reset from the hub, or a repair, stands
  sent,         \* this device's entries that the other side holds
  excused,      \* saved changes the log need not describe: see LossIsFlagged
  damaged       \* how many lines the medium has damaged

file == <<entries, corrupt, tornTail, wholeTail>>
handle == <<open, clock, needsNewline>>
user == <<saved, pending, excused>>
vars == <<role, file, marker, handle, user, phase, sent, damaged>>

Change == 1..MaxChanges
Wall == 0..MaxWall

Entry == [stamp : Stamp, device : Nat, change : Nat]

Reason == {"append_failed", "reset_pending", "repair_unfinished"}
Phase == {"idle", "marked", "emptied", "filled", "rewritten", "baselined"}

(* The change a fresh baseline entry stands for: all of the current data. *)
Baseline == 0

(* order_key: the total order over the entries of every device. *)
KeyBefore(e, f) ==
  \/ Before(e.stamp, f.stamp)
  \/ e.stamp = f.stamp /\ e.device < f.device

SameKey(e, f) == e.stamp = f.stamp /\ e.device = f.device

ASSUME LogAssumption ==
  /\ Self \in Nat /\ MaxWall \in 0..MaxMs /\ MaxChanges \in Nat /\ MaxDamage \in Nat
  /\ RemoteEntry \subseteq {e \in Entry : e.device # Self}

-----------------------------------------------------------------------------
(* What one read of the file finds. *)

UnfinishedTail == tornTail \/ wholeTail # {}

(* Every stamp some line still shows, readable as an entry or not. *)
StampsInFile == {e.stamp : e \in entries} \cup (corrupt \ {NoStamp})

(* Mutant of MaxStamp: a line that is no readable entry moves no clock. *)
MaxStampOfEntries == Latest({e.stamp : e \in entries})

MaxStamp == Latest(StampsInFile)

(* LogHealth::is_reliable, without the baseline marker. *)
Reliable == corrupt = {} /\ ~UnfinishedTail /\ marker = {}

(* LogHealth::reset_pending. *)
ResetPending == "reset_pending" \in marker

(***************************************************************************)
(* Bound: the clock stands below the last millisecond an i64 holds, where  *)
(* bump saturates and the clock stops moving forwards.                     *)
(***************************************************************************)
Headroom == clock.ms < MaxMs

-----------------------------------------------------------------------------
(* Writing lines. *)

(* What a single write of the lines of batch can leave complete: those up  *)
(* to some point of their order.                                           *)
Prefixes(batch) ==
  {P \in SUBSET batch : \A e \in P, f \in batch \ P : KeyBefore(e, f)}

(* The line of batch that is written first, as a set of at most one. *)
First(batch) == {e \in batch : \A f \in batch : ~KeyBefore(f, e)}

(* The new bytes begin on a line of their own: nothing is unterminated, or *)
(* a newline goes first.                                                   *)
OwnLine == needsNewline \/ ~UnfinishedTail

(* Mutant of Written: closing a torn line leaves no trace of it. *)
WrittenForgetsTorn(batch, done, rest) ==
  /\ rest \in {"clean", "torn", "whole"}
  /\ rest # "clean" => done # batch
  /\ entries' = entries \cup done \cup IF rest = "whole" THEN First(batch \ done) ELSE {}
  /\ UNCHANGED corrupt
  /\ tornTail' = (rest = "torn")
  /\ wholeTail' = IF rest = "whole" THEN First(batch \ done) ELSE {}

(***************************************************************************)
(* write_lines puts the lines of done on the file, then stops in rest: at  *)
(* a line boundary ("clean"), inside the next line ("torn"), or just       *)
(* before that line's newline ("whole").  A line that starts behind an     *)
(* unterminated one is glued to it and both are lost.                      *)
(***************************************************************************)
Written(batch, done, rest) ==
  LET next == First(batch \ done)
      glued == IF OwnLine THEN {} ELSE wholeTail \cup First(batch)
  IN /\ rest \in {"clean", "torn", "whole"}
     /\ rest # "clean" => done # batch
     /\ entries' = (entries \cup done \cup IF rest = "whole" THEN next ELSE {}) \ glued
     /\ corrupt' = corrupt \cup IF tornTail \/ ~OwnLine THEN {NoStamp} ELSE {}
     /\ tornTail' = (rest = "torn")
     /\ wholeTail' = IF rest = "whole" THEN next ELSE {}

(* A write that completes and is flushed. *)
WriteLines(batch) ==
  /\ IF batch = {} THEN UNCHANGED <<file, needsNewline>>
     ELSE Written(batch, batch, "clean") /\ needsNewline' = FALSE

(* A write or flush that fails: no byte, only the closing newline, or some *)
(* of the lines may have landed.                                           *)
WriteFails(batch) ==
  /\ batch # {}
  /\ needsNewline' = TRUE
  /\ \/ UNCHANGED file
     \/ needsNewline /\ Written(batch, {}, "clean")
     \/ \E done \in Prefixes(batch), rest \in {"clean", "torn", "whole"} :
          /\ done # {} \/ rest # "clean"
          /\ Written(batch, done, rest)

-----------------------------------------------------------------------------
Init ==
  /\ role \in {"phone", "hub"}
  /\ entries = {} /\ corrupt = {} /\ tornTail = FALSE /\ wholeTail = {}
  /\ marker = {}
  /\ open = FALSE /\ clock = NoStamp /\ needsNewline = FALSE
  /\ saved = {} /\ pending = {} /\ excused = {}
  /\ phase = "idle" /\ sent = {} /\ damaged = 0

(* ChangeLog::open: the clock is recovered from the largest stamp any line *)
(* still shows.                                                            *)
Open ==
  /\ ~open
  /\ open' = TRUE
  /\ clock' = MaxStamp
  /\ needsNewline' = UnfinishedTail
  /\ UNCHANGED <<role, file, marker, user, phase, sent, damaged>>

(* A handler writes the user's change to its Parquet file. *)
Save ==
  /\ open /\ phase = "idle" /\ pending = {}
  /\ \E c \in Change \ saved :
       /\ \A d \in saved : d < c
       /\ saved' = saved \cup {c} /\ pending' = {c}
  /\ UNCHANGED <<role, file, marker, handle, excused, phase, sent, damaged>>

(* The entry write_entry builds for the saved change. *)
OwnEntry(stamp, c) == [stamp |-> stamp, device |-> Self, change |-> c]

NewEntry(stamp) == OwnEntry(stamp, CHOOSE c \in pending : TRUE)

(* record_with_origin, when the append succeeds. *)
Record ==
  /\ open /\ pending # {} /\ Headroom
  /\ \E wall \in Wall :
       LET stamp == After(clock, wall)
       IN clock' = stamp /\ WriteLines({NewEntry(stamp)})
  /\ pending' = {}
  /\ UNCHANGED <<role, marker, open, saved, excused, phase, sent, damaged>>

(* Mutant of MarkAppendFailed: the failure is only warned about. *)
WarnAppendFailed == UNCHANGED <<marker, excused>>

(* record_with_origin after a failed append: the log is marked incomplete, *)
(* best effort.  When that fails too and no byte of the line landed, the   *)
(* loss leaves nothing behind.                                             *)
MarkAppendFailed ==
  \/ marker' = marker \cup {"append_failed"} /\ UNCHANGED excused
  \/ /\ UNCHANGED marker
     /\ excused' = IF entries' = entries /\ ~tornTail' THEN excused \cup pending ELSE excused

(* Mutant of RecordFails: the stamp is spent only once the line is written. *)
RecordFailsKeepsStamp ==
  /\ open /\ pending # {} /\ Headroom
  /\ \E wall \in Wall : WriteFails({NewEntry(After(clock, wall))})
  /\ MarkAppendFailed
  /\ pending' = {}
  /\ UNCHANGED <<role, open, clock, saved, phase, sent, damaged>>

(* record_with_origin, when the write or the flush fails.  The stamp is    *)
(* spent before the write.                                                 *)
RecordFails ==
  /\ open /\ pending # {} /\ Headroom
  /\ \E wall \in Wall :
       LET stamp == After(clock, wall)
       IN clock' = stamp /\ WriteFails({NewEntry(stamp)})
  /\ MarkAppendFailed
  /\ pending' = {}
  /\ UNCHANGED <<role, open, saved, phase, sent, damaged>>

(* record_with_origin, when the entry is refused before anything is        *)
(* written: too long, or a value the log cannot carry.                     *)
RecordRefused ==
  /\ open /\ pending # {} /\ Headroom
  /\ \E wall \in Wall : clock' = After(clock, wall)
  /\ UNCHANGED file
  /\ MarkAppendFailed
  /\ pending' = {}
  /\ UNCHANGED <<role, open, needsNewline, saved, phase, sent, damaged>>

(* The process dies, between a save and its append or anywhere else. *)
Crash ==
  /\ open
  /\ open' = FALSE /\ clock' = NoStamp /\ needsNewline' = FALSE
  /\ excused' = excused \cup pending /\ pending' = {} /\ phase' = "idle"
  /\ UNCHANGED <<role, file, marker, saved, sent, damaged>>

(* The process dies inside the append. *)
CrashInAppend ==
  /\ open /\ pending # {} /\ Headroom
  /\ \E wall \in Wall, done \in {TRUE, FALSE}, rest \in {"clean", "torn", "whole"} :
       LET e == NewEntry(After(clock, wall))
       IN Written({e}, IF done THEN {e} ELSE {}, rest)
  /\ excused' = IF entries' = entries /\ ~tornTail' THEN excused \cup pending ELSE excused
  /\ open' = FALSE /\ clock' = NoStamp /\ needsNewline' = FALSE /\ pending' = {}
  /\ UNCHANGED <<role, marker, saved, phase, sent, damaged>>

-----------------------------------------------------------------------------
(* Entries from other devices. *)

(* The clock after it took in every stamp of batch in order.  With one     *)
(* wall reading only the largest stamp matters, up to the counter steps    *)
(* the smaller ones cost; the readings may differ, so any stamp from there *)
(* on is possible and one more reading stands for them.  Bound: that stamp *)
(* is below the last millisecond too.                                      *)
ObserveAll(batch) ==
  LET newest == Latest({e.stamp : e \in batch})
  IN newest.ms < MaxMs /\ \E wall \in Wall : clock' = ObservedAt(clock, newest, wall)

(* apply_remote_batch takes the batch's largest stamp in before it touches *)
(* any file; here the run fails afterwards and stores nothing.             *)
ObserveRemote ==
  /\ open /\ Headroom /\ pending = {} /\ phase = "idle"
  /\ \E e \in RemoteEntry : ObserveAll({e})
  /\ UNCHANGED <<role, file, marker, open, needsNewline, user, phase, sent, damaged>>

(* An exchange stores what the log lacks of a remote batch. A phone does   *)
(* this on a reliable log only, a hub on any (hub_apply_push).             *)
StoreBatch(batch) ==
  /\ batch # {}
  /\ ObserveAll(batch)
  /\ WriteLines(batch) \/ WriteFails(batch)

StoreRemote ==
  /\ open /\ Headroom /\ pending = {} /\ phase = "idle" /\ (Reliable \/ role = "hub")
  /\ \E batch \in SUBSET (RemoteEntry \ entries) : StoreBatch(batch)
  /\ UNCHANGED <<role, marker, open, user, phase, sent, damaged>>

(* What the other side now holds of this device's changes.  A phone pushes *)
(* from an unreliable log too, but never while a reset is pending; a hub   *)
(* replies from a reliable log only.  entries_missing_from leaves out what *)
(* the largest stamp in the other side's summary covers.                   *)
Send ==
  /\ open /\ phase = "idle"
  /\ IF role = "phone" THEN ~ResetPending ELSE Reliable
  /\ LET held == Latest({e.stamp : e \in sent})
     IN sent' = sent \cup {e \in entries : e.device = Self /\ Before(held, e.stamp)}
  /\ sent' # sent
  /\ UNCHANGED <<role, file, marker, handle, user, phase, damaged>>

-----------------------------------------------------------------------------
(* A phone's reset from the hub, step by step: a crash may fall between.   *)

(* The marker goes down first; the data folder goes with the next step. *)
ResetMark ==
  /\ role = "phone" /\ open /\ pending = {} /\ phase = "idle"
  /\ marker' = marker \cup {"reset_pending"}
  /\ phase' = "marked"
  /\ UNCHANGED <<role, file, handle, user, sent, damaged>>

(* remove_contents and empty_for_reset: the clock stays where it is. *)
ResetEmpty ==
  /\ open /\ phase = "marked"
  /\ entries' = {} /\ corrupt' = {} /\ tornTail' = FALSE /\ wholeTail' = {}
  /\ needsNewline' = FALSE
  /\ phase' = "emptied"
  /\ UNCHANGED <<role, marker, open, clock, user, sent, damaged>>

(* The hub's whole log is applied: this device's own entries the hub holds *)
(* and any of the other devices'.  A failure leaves the reset unfinished.  *)
ResetFill ==
  /\ open /\ phase = "emptied" /\ Headroom
  /\ \E others \in SUBSET RemoteEntry :
       LET batch == sent \cup others
       IN /\ IF batch = {} THEN UNCHANGED clock ELSE ObserveAll(batch)
          /\ \/ WriteLines(batch) /\ phase' = "filled"
             \/ WriteFails(batch) /\ phase' = "idle"
  /\ UNCHANGED <<role, marker, open, user, sent, damaged>>

(* clear_log_incomplete, the last step.  The data is the hub's now, so the *)
(* changes it does not hold are gone, on the record of the backup.         *)
ResetDone ==
  /\ open /\ phase = "filled"
  /\ marker' = {}
  /\ excused' = excused \cup {c \in saved : \A e \in entries : e.change # c \/ e.device # Self}
  /\ phase' = "idle"
  /\ UNCHANGED <<role, file, handle, saved, pending, sent, damaged>>

-----------------------------------------------------------------------------
(* A hub's repair, step by step.                                           *)

(* The marker, then rewrite_readable: only the readable lines stay, and    *)
(* the clock does not move back.                                           *)
RepairRewrite ==
  /\ role = "hub" /\ open /\ pending = {} /\ phase = "idle"
  /\ marker' = marker \cup {"repair_unfinished"}
  /\ corrupt' = {} /\ tornTail' = FALSE /\ wholeTail' = {}
  /\ needsNewline' = FALSE
  /\ phase' = "rewritten"
  /\ UNCHANGED <<role, entries, open, clock, user, sent, damaged>>

(* record_fresh_baseline: the current data, recorded again above all else. *)
RepairBaseline ==
  /\ open /\ phase = "rewritten" /\ Headroom
  /\ \E wall \in Wall :
       LET stamp == After(clock, wall)
       IN /\ clock' = stamp
          /\ \/ WriteLines({OwnEntry(stamp, Baseline)}) /\ phase' = "baselined"
             \/ WriteFails({OwnEntry(stamp, Baseline)}) /\ phase' = "idle"
  /\ UNCHANGED <<role, marker, open, user, sent, damaged>>

(* require_phone_resets, then clear_log_incomplete: every phone must       *)
(* replace its log, so what they hold of this hub's changes is void.       *)
RepairDone ==
  /\ open /\ phase = "baselined"
  /\ marker' = {} /\ sent' = {} /\ excused' = saved
  /\ phase' = "idle"
  /\ UNCHANGED <<role, file, handle, saved, pending, damaged>>

-----------------------------------------------------------------------------
(* The medium damages a terminated line; its stamp may survive. *)
Damage ==
  /\ damaged < MaxDamage
  /\ pending = {} /\ phase = "idle"
  /\ \E e \in entries \ wholeTail, probe \in BOOLEAN :
       /\ entries' = entries \ {e}
       /\ corrupt' = corrupt \cup {IF probe THEN e.stamp ELSE NoStamp}
  /\ damaged' = damaged + 1
  /\ UNCHANGED <<role, tornTail, wholeTail, marker, handle, user, phase, sent>>

Next ==
  \/ Open \/ Save \/ Record \/ RecordFails \/ RecordRefused
  \/ Crash \/ CrashInAppend
  \/ ObserveRemote \/ StoreRemote \/ Send
  \/ ResetMark \/ ResetEmpty \/ ResetFill \/ ResetDone
  \/ RepairRewrite \/ RepairBaseline \/ RepairDone
  \/ Damage

Spec == Init /\ [][Next]_vars

-----------------------------------------------------------------------------
TypeOK ==
  /\ role \in {"phone", "hub"}
  /\ entries \subseteq Entry /\ wholeTail \subseteq entries
  /\ corrupt \subseteq OptStamp /\ tornTail \in BOOLEAN
  /\ marker \subseteq Reason
  /\ open \in BOOLEAN /\ clock \in OptStamp /\ needsNewline \in BOOLEAN
  /\ saved \subseteq Change /\ pending \subseteq saved /\ excused \subseteq saved
  /\ phase \in Phase /\ sent \subseteq Entry /\ damaged \in 0..MaxDamage

(* While the log is open its clock is at or past every stamp the file      *)
(* shows, whoever made it, so the next stamp is new.                       *)
ClockCoversFile ==
  open => \A s \in StampsInFile : AtMost(s, clock)

(* A reliable log and the other side never hold two different changes      *)
(* under one stamp of this device: not after failed appends, crashes,      *)
(* a wall clock that jumped back, damage, a reset or a repair.             *)
OneChangePerKey ==
  Reliable =>
    \A e, f \in entries \cup sent :
       SameKey(e, f) /\ e.device = Self => e = f

(* The invariant entries_missing_from rests on: when the log is reliable,  *)
(* every own entry at or below the newest one the other side holds is held *)
(* there, so a summary of one stamp says everything.                       *)
SentIsPrefix ==
  Reliable =>
    \A e \in entries, f \in sent :
       e.device = Self /\ AtMost(e.stamp, f.stamp) => e \in sent

(* A saved change is in the log, or the log says it cannot be trusted.     *)
(* Left out are the losses the code accepts: a crash between the save and  *)
(* the append, a failed append whose marker could not be written either,   *)
(* and what a reset discarded or a baseline recorded again.                *)
LossIsFlagged ==
  Reliable =>
    \A c \in saved \ (pending \cup excused) :
       \E e \in entries : e.device = Self /\ e.change = c

=============================================================================

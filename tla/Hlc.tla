-------------------------------- MODULE Hlc --------------------------------
(***************************************************************************)
(* The hybrid logical clock of sync.rs: stamps, their order, and the rules *)
(* that compute the next stamp from the last one and the wall clock.       *)
(*                                                                         *)
(* A stamp is a millisecond reading and a counter. The code stores them in *)
(* an i64 and a u32; MaxMs and MaxCounter are the largest values those two *)
(* types hold, so a small instance reaches the edges of both.              *)
(***************************************************************************)
EXTENDS Integers

CONSTANTS MaxMs,        \* i64::MAX
          MaxCounter    \* u32::MAX

ASSUME HlcAssumption == MaxMs \in Nat /\ MaxCounter \in Nat

Stamp == [ms : 0..MaxMs, counter : 0..MaxCounter]

(***************************************************************************)
(* "No stamp yet": the None of Option<Hlc>. It stands below every stamp,   *)
(* as the i64::MIN that observed_at substitutes for it does.               *)
(***************************************************************************)
NoStamp == [ms |-> -1, counter |-> 0]

OptStamp == Stamp \cup {NoStamp}

(* The derived Ord of Hlc: milliseconds first, then the counter. *)
Before(s, t) ==
  \/ s.ms < t.ms
  \/ s.ms = t.ms /\ s.counter < t.counter

AtMost(s, t) == s = t \/ Before(s, t)

(* The larger of two stamps. *)
Later(s, t) == IF Before(s, t) THEN t ELSE s

(* The largest stamp of a finite set, NoStamp for none. *)
Latest(S) == IF S = {} THEN NoStamp
             ELSE CHOOSE s \in S : \A t \in S : AtMost(t, s)

(* Mutant of Bump: the counter wraps to zero within its millisecond. *)
BumpWraps(ms, counter) == [ms |-> ms, counter |-> (counter + 1) % (MaxCounter + 1)]

(***************************************************************************)
(* The stamp after (ms, counter) while the wall clock stands still. When   *)
(* the counter is full the next millisecond is borrowed, saturating at the *)
(* largest one.                                                            *)
(***************************************************************************)
Bump(ms, counter) ==
  IF counter < MaxCounter
  THEN [ms |-> ms, counter |-> counter + 1]
  ELSE [ms |-> IF ms < MaxMs THEN ms + 1 ELSE MaxMs, counter |-> 0]

(* Mutant of After: an equal reading counts as a clock that moved on. *)
AfterResets(last, wall) ==
  IF wall >= last.ms THEN [ms |-> wall, counter |-> 0]
  ELSE Bump(last.ms, last.counter)

(* The send half: the next stamp after last when the wall clock says wall. *)
After(last, wall) ==
  IF wall > last.ms THEN [ms |-> wall, counter |-> 0]
  ELSE Bump(last.ms, last.counter)

(* The receive half: a stamp past both last and remote. Unless the wall    *)
(* clock has passed both, the later one is stepped over.                   *)
ObservedAt(last, remote, wall) ==
  IF wall > last.ms /\ wall > remote.ms THEN [ms |-> wall, counter |-> 0]
  ELSE LET ahead == Later(last, remote) IN Bump(ahead.ms, ahead.counter)

=============================================================================

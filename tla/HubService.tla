----------------------------- MODULE HubService -----------------------------
(***************************************************************************)
(* What the hub's process keeps in memory for the phones that connect to   *)
(* it (sync_service.rs): the pairing code and its failures, the slot of    *)
(* the one session at a time, and the listener, which is open while the    *)
(* Sync page sends heartbeats.                                             *)
(*                                                                         *)
(* Each action is one critical section of the hub's state or one turn of a *)
(* connection's task, so the page, the accept loop and the connections     *)
(* interleave as threads do.  Times are not counted: Expire, GraceEnds and *)
(* LimitReached are the moments at which a time limit passes.              *)
(***************************************************************************)
EXTENDS Naturals, Sequences, FiniteSets

CONSTANTS
  Conn,            \* connections to the sync port, reused once closed
  Digits,          \* the values of a pairing code; a value may come twice
  Attempts,        \* PAIR_CODE_ATTEMPTS
  MaxIssues,       \* bound: pairing codes shown
  MaxBindFailures, \* bound: binds that fail because the port is taken
  MaxRestarts      \* bound: restarts of the process

ASSUME ServiceAssumption ==
  /\ Attempts \in Nat \ {0}
  /\ MaxIssues \in Nat /\ MaxBindFailures \in Nat /\ MaxRestarts \in Nat

VARIABLES
  shown,        \* the digits of every code issued; code.issue is an index
  code,         \* the active code: its issue, failures, whether it is over time
  conn,         \* what each connection is doing, and the issue it pairs with
  busy,         \* SESSION_BUSY
  detached,     \* issues whose phone is being recorded by a step that
                \* outlived its connection
  heard,        \* the last heartbeat is less than LISTEN_GRACE ago
  listening,    \* HubState::listening_on is set
  starting,     \* HubState::starting
  binding,      \* heartbeats between the two locks of heartbeat()
  sockets,      \* sockets bound by an accept loop
  failedBinds, restarts,
  begun,        \* history: attempts begun with each issue
  wrong,        \* history: failed attempts with each value since it was shown
  records       \* history: phones recorded with each issue

codeVars     == <<shown, code, begun, wrong>>
sessionVars  == <<conn, busy, detached, records>>
listenerVars == <<heard, listening, starting, binding, sockets, failedBinds>>
vars == <<codeVars, sessionVars, listenerVars, restarts>>

Issue  == 1..MaxIssues
NoCode == [issue |-> 0, failures |-> 0, expired |-> FALSE]
Closed == [at |-> "closed", issue |-> 0]

(* A connection holds the session slot from its first use of the code, or  *)
(* from the end of the sync handshake, until its task ends.                *)
Holding == {"attempt", "channel", "recording", "round"}

Code == [issue : 0..MaxIssues, failures : 0..(Attempts - 1), expired : BOOLEAN]
Task == [at : {"closed", "open"} \cup Holding, issue : 0..MaxIssues]

Init ==
  /\ shown = << >> /\ code = NoCode
  /\ conn = [c \in Conn |-> Closed] /\ busy = FALSE /\ detached = {}
  /\ heard = FALSE /\ listening = FALSE /\ starting = FALSE
  /\ binding = 0 /\ sockets = 0 /\ failedBinds = 0 /\ restarts = 0
  /\ begun = [i \in Issue |-> 0]
  /\ wrong = [d \in Digits |-> 0]
  /\ records = [i \in Issue |-> 0]

-----------------------------------------------------------------------------
(* The pairing code. *)

(* PairCodeSlot::current: the active code, where one over time is dropped. *)
Current == IF code.expired THEN NoCode ELSE code

(* Mutant of Finish: the end of an attempt counts whatever code is active. *)
FinishAny(d, succeeded) ==
  IF code = NoCode THEN code
  ELSE IF succeeded \/ code.failures + 1 >= Attempts THEN NoCode
  ELSE [code EXCEPT !.failures = @ + 1]

(* PairCodeSlot::finish, which goes by the digits and not by the issue. *)
Finish(d, succeeded) ==
  IF code = NoCode \/ shown[code.issue] # d THEN code
  ELSE IF succeeded \/ code.failures + 1 >= Attempts THEN NoCode
  ELSE [code EXCEPT !.failures = @ + 1]

(* new_pair_code: it replaces the active code, also in the middle of an    *)
(* attempt with that one, as the page does not need the session slot.      *)
NewPairCode(d) ==
  /\ Len(shown) < MaxIssues
  /\ shown' = Append(shown, d)
  /\ code' = [issue |-> Len(shown) + 1, failures |-> 0, expired |-> FALSE]
  /\ wrong' = [wrong EXCEPT ![d] = 0]
  /\ UNCHANGED <<begun, sessionVars, listenerVars, restarts>>

Expire ==
  /\ code # NoCode /\ ~code.expired
  /\ code' = [code EXCEPT !.expired = TRUE]
  /\ UNCHANGED <<shown, begun, wrong, sessionVars, listenerVars, restarts>>

(* The status route, which reads the code through Current. *)
Status ==
  /\ code' = Current
  /\ UNCHANGED <<shown, begun, wrong, sessionVars, listenerVars, restarts>>

-----------------------------------------------------------------------------
(* The connections. *)

Becomes(c, at, issue) == conn' = [conn EXCEPT ![c] = [at |-> at, issue |-> issue]]

(* The accept loop spawns a task, which reads the opening. *)
Connect(c) ==
  /\ conn[c] = Closed /\ sockets > 0
  /\ Becomes(c, "open", 0)
  /\ UNCHANGED <<codeVars, busy, detached, records, listenerVars, restarts>>

(* Mutant of AttemptBegins: pairing does not ask for the slot. *)
AttemptBeginsBeside(c) ==
  /\ conn[c].at = "open"
  /\ Current # NoCode
  /\ busy' = TRUE
  /\ Becomes(c, "attempt", code.issue)
  /\ begun' = [begun EXCEPT ![code.issue] = @ + 1]
  /\ UNCHANGED <<shown, code, wrong, detached, records, listenerVars, restarts>>

(* A phone that asks to pair has sent its SPAKE2 message: begin_attempt    *)
(* takes the slot before it looks at the code.                             *)
AttemptBegins(c) ==
  /\ conn[c].at = "open" /\ ~busy
  /\ Current # NoCode
  /\ busy' = TRUE
  /\ Becomes(c, "attempt", code.issue)
  /\ begun' = [begun EXCEPT ![code.issue] = @ + 1]
  /\ UNCHANGED <<shown, code, wrong, detached, records, listenerVars, restarts>>

(* Mutant of AttemptWithoutCode: the slot is kept. *)
AttemptWithoutCodeKeeps(c) ==
  /\ conn[c].at = "open" /\ ~busy
  /\ Current = NoCode
  /\ code' = NoCode
  /\ busy' = TRUE
  /\ conn' = [conn EXCEPT ![c] = Closed]
  /\ UNCHANGED <<shown, begun, wrong, detached, records, listenerVars, restarts>>

(* The same without a code: the slot taken for the look is given back, and *)
(* the connection ends with the reason.                                    *)
AttemptWithoutCode(c) ==
  /\ conn[c].at = "open" /\ ~busy
  /\ Current = NoCode
  /\ code' = NoCode
  /\ busy' = FALSE
  /\ conn' = [conn EXCEPT ![c] = Closed]
  /\ UNCHANGED <<shown, begun, wrong, detached, records, listenerVars, restarts>>

(* Mutant of AttemptFails: a cancelled attempt is not reported to the code. *)
AttemptFailsUnseen(c) ==
  /\ conn[c].at = "attempt"
  /\ busy' = FALSE
  /\ conn' = [conn EXCEPT ![c] = Closed]
  /\ UNCHANGED <<codeVars, detached, records, listenerVars, restarts>>

(* The end of an attempt tells the code first and then releases the slot:  *)
(* the AttemptGuard is dropped before the PairAttemptCodes that holds it.  *)
(* A wrong code, a lost connection and a passed time limit are all failures. *)
AttemptFails(c) ==
  LET d == shown[conn[c].issue] IN
  /\ conn[c].at = "attempt"
  /\ code' = Finish(d, FALSE)
  /\ wrong' = [wrong EXCEPT ![d] = @ + 1]
  /\ busy' = FALSE
  /\ conn' = [conn EXCEPT ![c] = Closed]
  /\ UNCHANGED <<shown, begun, detached, records, listenerVars, restarts>>

AttemptSucceeds(c) ==
  /\ conn[c].at = "attempt"
  /\ code' = Finish(shown[conn[c].issue], TRUE)
  /\ Becomes(c, "channel", conn[c].issue)
  /\ UNCHANGED <<shown, begun, wrong, busy, detached, records, listenerVars, restarts>>

(* hub_pairing: the identities are exchanged, and the phone is recorded on *)
(* a blocking thread.                                                      *)
StartRecording(c) ==
  /\ conn[c].at = "channel"
  /\ Becomes(c, "recording", conn[c].issue)
  /\ UNCHANGED <<codeVars, busy, detached, records, listenerVars, restarts>>

(* The peers file is written, or not; either way the phone is told. *)
RecordingEnds(c) ==
  /\ conn[c].at = "recording"
  /\ \/ records' = [records EXCEPT ![conn[c].issue] = @ + 1]
     \/ UNCHANGED records
  /\ busy' = FALSE
  /\ conn' = [conn EXCEPT ![c] = Closed]
  /\ UNCHANGED <<codeVars, detached, listenerVars, restarts>>

(* SESSION_LIMIT drops the connection's task and with it the slot, but not *)
(* the blocking step it was waiting for.                                   *)
LimitReached(c) ==
  /\ conn[c].at = "recording"
  /\ detached' = detached \cup {conn[c].issue}
  /\ busy' = FALSE
  /\ conn' = [conn EXCEPT ![c] = Closed]
  /\ UNCHANGED <<codeVars, records, listenerVars, restarts>>

DetachedEnds(i) ==
  /\ i \in detached
  /\ detached' = detached \ {i}
  /\ \/ records' = [records EXCEPT ![i] = @ + 1]
     \/ UNCHANGED records
  /\ UNCHANGED <<codeVars, conn, busy, listenerVars, restarts>>

(* A paired phone's handshake is done: the round needs the slot. *)
RoundBegins(c) ==
  /\ conn[c].at = "open" /\ ~busy
  /\ busy' = TRUE
  /\ Becomes(c, "round", 0)
  /\ UNCHANGED <<codeVars, detached, records, listenerVars, restarts>>

(* A connection ends outside of an attempt and of a record: refused while  *)
(* another session runs, finished, lost, or over SESSION_LIMIT.            *)
Ends(c) ==
  /\ conn[c].at \in {"open", "channel", "round"}
  /\ busy' = IF conn[c].at \in Holding THEN FALSE ELSE busy
  /\ conn' = [conn EXCEPT ![c] = Closed]
  /\ UNCHANGED <<codeVars, detached, records, listenerVars, restarts>>

-----------------------------------------------------------------------------
(* The listener. *)

(* The first lock of heartbeat(): a call that finds the port open, or      *)
(* another call binding it, returns the status; any other starts to bind.  *)
HeartbeatKeeps ==
  /\ listening \/ starting
  /\ heard' = TRUE
  /\ code' = Current
  /\ UNCHANGED <<shown, begun, wrong, sessionVars, listening, starting, binding,
                 sockets, failedBinds, restarts>>

(* Mutant of HeartbeatBinds: it does not see that another call is binding. *)
HeartbeatBindsToo ==
  /\ ~listening
  /\ heard' = TRUE
  /\ starting' = TRUE
  /\ binding' = binding + 1
  /\ UNCHANGED <<codeVars, sessionVars, listening, sockets, failedBinds, restarts>>

HeartbeatBinds ==
  /\ ~listening /\ ~starting
  /\ heard' = TRUE
  /\ starting' = TRUE
  /\ binding' = binding + 1
  /\ UNCHANGED <<codeVars, sessionVars, listening, sockets, failedBinds, restarts>>

Heartbeat == HeartbeatKeeps \/ HeartbeatBinds

(* The second lock, after the bind: the accept loop owns the new socket.   *)
BindSucceeds ==
  /\ binding > 0 /\ sockets = 0
  /\ starting' = FALSE
  /\ listening' = TRUE
  /\ binding' = binding - 1
  /\ sockets' = sockets + 1
  /\ code' = Current
  /\ UNCHANGED <<shown, begun, wrong, sessionVars, heard, failedBinds, restarts>>

(* Mutant of BindFails: the flag is reset on success only. *)
BindFailsStarting ==
  /\ binding > 0
  /\ \/ sockets > 0 /\ UNCHANGED failedBinds
     \/ sockets = 0 /\ failedBinds < MaxBindFailures /\ failedBinds' = failedBinds + 1
  /\ binding' = binding - 1
  /\ code' = Current
  /\ UNCHANGED <<shown, begun, wrong, sessionVars, heard, listening, starting, sockets,
                 restarts>>

(* The port is taken by a socket of this process or by another program. *)
BindFails ==
  /\ binding > 0
  /\ \/ sockets > 0 /\ UNCHANGED failedBinds
     \/ sockets = 0 /\ failedBinds < MaxBindFailures /\ failedBinds' = failedBinds + 1
  /\ starting' = FALSE
  /\ binding' = binding - 1
  /\ code' = Current
  /\ UNCHANGED <<shown, begun, wrong, sessionVars, heard, listening, sockets, restarts>>

GraceEnds ==
  /\ heard
  /\ heard' = FALSE
  /\ UNCHANGED <<codeVars, sessionVars, listening, starting, binding, sockets,
                 failedBinds, restarts>>

(* The accept loop finds the deadline passed, and closes the socket before *)
(* it lets go of the lock.  Connections it has accepted go on.             *)
LoopCloses ==
  /\ sockets > 0 /\ ~heard
  /\ listening' = FALSE
  /\ sockets' = sockets - 1
  /\ UNCHANGED <<codeVars, sessionVars, heard, starting, binding, failedBinds, restarts>>

(* The desktop app stops and starts: all of this state was in memory. *)
Restart ==
  /\ restarts < MaxRestarts
  /\ restarts' = restarts + 1
  /\ code' = NoCode
  /\ conn' = [c \in Conn |-> Closed] /\ busy' = FALSE /\ detached' = {}
  /\ heard' = FALSE /\ listening' = FALSE /\ starting' = FALSE
  /\ binding' = 0 /\ sockets' = 0
  /\ UNCHANGED <<shown, begun, wrong, records, failedBinds>>

Next ==
  \/ \E d \in Digits : NewPairCode(d)
  \/ Expire \/ Status
  \/ \E c \in Conn :
       \/ Connect(c) \/ AttemptBegins(c) \/ AttemptWithoutCode(c)
       \/ AttemptFails(c) \/ AttemptSucceeds(c)
       \/ StartRecording(c) \/ RecordingEnds(c) \/ LimitReached(c)
       \/ RoundBegins(c) \/ Ends(c)
  \/ \E i \in Issue : DetachedEnds(i)
  \/ HeartbeatKeeps \/ HeartbeatBinds \/ BindSucceeds \/ BindFails
  \/ GraceEnds \/ LoopCloses \/ Restart

Spec == Init /\ [][Next]_vars

(* The page sends its heartbeats, and a bind returns. *)
FairSpec ==
  /\ Spec
  /\ WF_vars(Heartbeat)
  /\ WF_vars(BindSucceeds \/ BindFails)

-----------------------------------------------------------------------------
(* Properties. *)

(* Type invariant: a code that is still active has failures left. *)
TypeOK ==
  /\ shown \in Seq(Digits) /\ Len(shown) <= MaxIssues
  /\ code \in Code
  /\ conn \in [Conn -> Task]
  /\ busy \in BOOLEAN /\ detached \subseteq Issue
  /\ heard \in BOOLEAN /\ listening \in BOOLEAN /\ starting \in BOOLEAN
  /\ binding \in Nat /\ sockets \in Nat /\ failedBinds \in Nat /\ restarts \in Nat
  /\ begun \in [Issue -> Nat] /\ wrong \in [Digits -> Nat] /\ records \in [Issue -> Nat]

(* The slot is taken exactly while one connection is in a pairing or a     *)
(* round: two never run beside each other, and no way for a connection to  *)
(* end, in any of its phases, leaves the slot taken.                       *)
SlotIsOneSession ==
  LET holders == {c \in Conn : conn[c].at \in Holding} IN
  /\ busy <=> holders # {}
  /\ \A c, e \in holders : c = e

(* An attempt with issue i has succeeded, and its phone is not recorded yet. *)
Pairing(i) == \E c \in Conn : conn[c].issue = i /\ conn[c].at \in {"channel", "recording"}

(* A code pairs one phone.  finish_attempt does not answer, so an attempt  *)
(* cannot learn that another one used the code up: that none did, also     *)
(* while a step of an earlier one still runs, rests on the slot.           *)
CodePairsOnce ==
  \A i \in Issue :
    /\ records[i] <= 1
    /\ records[i] = 1 => i \notin detached /\ ~Pairing(i)
    /\ i \in detached => ~Pairing(i)

(* No code is tried more often than Attempts, although a failure counts    *)
(* only at the end of its attempt, and phones try at the same time.        *)
TriesBounded == \A i \in Issue : begun[i] <= Attempts

(* A code that is not over time is withdrawn only because a phone has just *)
(* paired with it or it was tried in vain often enough since it was shown: *)
(* attempts with a code it replaced neither use it up nor cost it a try.   *)
WithdrawalHasCause ==
  code # NoCode /\ code' = NoCode /\ ~code.expired /\ restarts' = restarts
    => \/ wrong'[shown[code.issue]] >= Attempts
       \/ \E c \in Conn :
            /\ conn[c].at = "attempt" /\ conn'[c].at = "channel"
            /\ shown[conn[c].issue] = shown[code.issue]

WithdrawnForCause == [][WithdrawalHasCause]_vars

(* The hub never binds its own port a second time, and the flags that the  *)
(* next heartbeat goes by are true of the sockets.                         *)
OneListener ==
  /\ binding + sockets <= 1
  /\ starting <=> binding = 1
  /\ listening <=> sockets = 1

(* While the page sends heartbeats the port ends up open and stays open,   *)
(* whatever the deadline, the accept loop and failed binds did before.     *)
KeepsListening == <>[]heard => <>[]listening
=============================================================================

-------------------------------- MODULE Link --------------------------------
(***************************************************************************)
(* The connections between one phone and the hub, message by message:      *)
(* sync_net.rs under sync_service.rs.  Every call of the phone (pair,      *)
(* sync_now) opens a connection of its own; the hub serves each in a task  *)
(* of its own, so what an abandoned call left behind runs beside the next. *)
(*                                                                         *)
(* The handshakes carry no cryptography here: what the third pairing       *)
(* message shows is whether the user typed the code the hub shows, and     *)
(* what the first sync message shows is whether each side has the key of   *)
(* the other on record.  The plan of a round is any: plan_round decides it *)
(* from the two hellos, which both sides have (SyncRound).  A message is   *)
(* whole or not there: its chunks are put together below.                  *)
(***************************************************************************)
EXTENDS Integers, Sequences

CONSTANTS
  MaxCalls,   \* bound: calls of the phone, and so connections
  MaxFaults   \* bound: what goes wrong: connections, time limits, steps, files

ASSUME LinkAssumption == MaxCalls \in Nat /\ MaxFaults \in Nat

Call == 1..MaxCalls
Device == {"phone", "hub"}

VARIABLES
  phone,     \* the phone's call: what it waits for and what it is about
  hub,       \* hub[c]: what the task of connection c waits for
  toHub, toPhone,  \* what is on its way on each connection
  cut,       \* connections that broke
  slot,      \* the hub's SESSION_BUSY: the connection that holds it, 0 for
             \* none and Elsewhere for a session of another phone
  code,      \* the hub shows a pairing code
  key,       \* key[d]: the number of the key in the key file of d
  peer,      \* peer[d]: the key d has on record of the other device, or None
  damaged,   \* files that cannot be read: pairs of a device and "key" or "peers"
  late,      \* records that blocking steps without a task will still write:
             \* by which device, of which key, under which key of its own
  outcome,   \* outcome[c]: how call c ended on the phone
  hubEnd,    \* hubEnd[c]: how it ended on the hub
  recorded,  \* history: the keys of the hub under which it has recorded the phone
  calls, faults

wireVars == <<toHub, toPhone, cut>>
fileVars == <<key, peer, damaged, late, recorded>>
vars == <<phone, hub, wireVars, slot, code, fileVars, outcome, hubEnd, calls, faults>>

None == 0
Elsewhere == -1

Idle == [at |-> "idle", typed |-> FALSE, confirm |-> FALSE, plan |-> "none",
         mine |-> None, hubKey |-> None]
NoTask == [at |-> "none", plan |-> "none", mine |-> None, phoneKey |-> None]

Plan == {"exchange", "reset", "reset_push", "repair", "repair_push"}
PushFirst == {"reset_push", "repair_push"}

(* Where a side waits for a message, before and inside the channel, and    *)
(* where it waits for a blocking step of its own.                          *)
PhoneOpens == {"pair", "spake", "one", "three", "sync", "kk"}
PhoneTalks == {"identity", "done", "hello", "report", "reply", "full"}
PhoneWorks == {"recording", "applying", "resetting"}
HubOpens   == {"opening", "spake", "one", "three", "kk"}
HubTalks   == {"identity", "hello", "push", "answer"}
HubWorks   == {"naming", "recording", "replying", "sending"}

(* The two devices may be paired from before. *)
Init ==
  /\ phone = Idle /\ hub = [c \in Call |-> NoTask]
  /\ toHub = [c \in Call |-> << >>] /\ toPhone = [c \in Call |-> << >>] /\ cut = {}
  /\ slot = None /\ code = FALSE
  /\ key = [d \in Device |-> 1]
  /\ \E known \in {None, 1} :
       peer = [d \in Device |-> known] /\ recorded = {known} \ {None}
  /\ damaged = {} /\ late = {}
  /\ outcome = [c \in Call |-> "none"] /\ hubEnd = [c \in Call |-> "none"]
  /\ calls = 0 /\ faults = 0

Fault == faults < MaxFaults /\ faults' = faults + 1
NoFault == UNCHANGED faults

Readable(d, file) == <<d, file>> \notin damaged

-----------------------------------------------------------------------------
(* Messages and ends.                                                      *)

(* A message: of those that say who sends them, the sender's key and, in   *)
(* the first of a sync, the key the sender has of the other device.        *)
Message(is, mine, yours) == [is |-> is, mine |-> mine, yours |-> yours]

Plain(is) == Message(is, None, None)

(* What is sent on a broken connection arrives nowhere. *)
Sent(queues, c, messages) ==
  IF c \in cut THEN queues ELSE [queues EXCEPT ![c] = @ \o messages]

Taken(queues, c) == [queues EXCEPT ![c] = Tail(@)]

NextOn(queues, c) == IF queues[c] = << >> THEN "nothing" ELSE Head(queues[c]).is

(* The phone's call goes on to wait for something else. *)
PhoneSends(messages, at) ==
  /\ toPhone' = Taken(toPhone, calls)
  /\ toHub' = Sent(toHub, calls, messages)
  /\ phone' = [phone EXCEPT !.at = at]
  /\ UNCHANGED <<outcome, calls>>

PhoneEnds(how) ==
  /\ phone' = Idle
  /\ outcome' = [outcome EXCEPT ![calls] = how]
  /\ UNCHANGED calls

(* The task of connection c goes on to wait for something else. *)
HubSends(c, messages, at) ==
  /\ toHub' = Taken(toHub, c)
  /\ toPhone' = Sent(toPhone, c, messages)
  /\ hub' = [hub EXCEPT ![c].at = at]
  /\ UNCHANGED hubEnd

(* The task ends, and with it the session slot it may hold. *)
HubEnds(c, how, taken) ==
  /\ hub' = [hub EXCEPT ![c] = NoTask]
  /\ hubEnd' = [hubEnd EXCEPT ![c] = how]
  /\ slot' = IF taken = c THEN None ELSE taken

(* Mutant of HubTells: the connection is closed without a word. *)
HubTellsNothing(c, queue, message) ==
  /\ toHub' = queue /\ UNCHANGED toPhone
  /\ HubEnds(c, "told", slot)

(* send_refusal before the channel is there, report_to_peer inside it: the *)
(* phone gets the reason, and the task ends.                               *)
HubTells(c, queue, message) ==
  /\ toHub' = queue
  /\ toPhone' = Sent(toPhone, c, <<Plain(message)>>)
  /\ HubEnds(c, "told", slot)

phoneFrame == <<phone, outcome, calls>>
hubFrame == <<hub, hubEnd>>

-----------------------------------------------------------------------------
(* The phone.                                                              *)

(* send_opening: the first word on a connection. *)
Opened(c, opening) == [toHub EXCEPT ![c] = <<Plain(opening)>>]

(* connect reaches the hub, which gives the connection a task. *)
StartCall(opening, call) ==
  /\ phone = Idle /\ calls < MaxCalls
  /\ Readable("phone", "key") /\ Readable("phone", "peers")
  /\ phone' = [call EXCEPT !.mine = key["phone"]]
  /\ calls' = calls + 1
  /\ toHub' = Opened(calls + 1, opening)
  /\ hub' = [hub EXCEPT ![calls + 1].at = "opening"]
  /\ UNCHANGED <<toPhone, cut, slot, code, fileVars, outcome, hubEnd, faults>>

(* pair, up to the opening: only a phone without a hub. *)
PhonePairs ==
  /\ peer["phone"] = None
  /\ \E typed \in BOOLEAN : StartCall("open_pair", [Idle EXCEPT !.at = "pair", !.typed = typed])

(* sync_now and phone_round, up to the opening: only a phone with a hub. *)
PhoneSyncs ==
  /\ peer["phone"] # None
  /\ \E confirm \in BOOLEAN :
       StartCall("open_sync", [Idle EXCEPT !.at = "sync", !.confirm = confirm,
                                           !.hubKey = peer["phone"]])

(* The key both sides derive from the code: the hub can read the third     *)
(* message only when the phone's user typed the code the hub shows.        *)
ThirdMessage == IF phone.typed THEN "three" ELSE "wrong"

(* What the phone answers to the hub's status frames, and what it waits    *)
(* for then: pair_as_phone and sync_as_phone.                              *)
AfterGo ==
  [pair  |-> [sends |-> <<Plain("spake")>>, at |-> "spake"],
   spake |-> [sends |-> <<Plain("one")>>, at |-> "one"],
   one   |-> [sends |-> <<Message(ThirdMessage, phone.mine, None)>>,
              at |-> "three"],
   three |-> [sends |-> << >>, at |-> "identity"],
   sync  |-> [sends |-> <<Message("kk", phone.mine, phone.hubKey)>>, at |-> "kk"],
   kk    |-> [sends |-> <<Plain("hello")>>, at |-> "hello"]]

PhoneGoesOn ==
  /\ phone.at \in PhoneOpens /\ NextOn(toPhone, calls) = "go"
  /\ PhoneSends(AfterGo[phone.at].sends, AfterGo[phone.at].at)
  /\ UNCHANGED <<hubFrame, cut, slot, code, fileVars, faults>>

(* pair: the hub's identity is answered with the phone's own. *)
PhoneIdentifies ==
  /\ phone.at = "identity" /\ NextOn(toPhone, calls) = "identity"
  /\ toPhone' = Taken(toPhone, calls)
  /\ toHub' = Sent(toHub, calls, <<Plain("identity")>>)
  /\ phone' = [phone EXCEPT !.at = "done", !.hubKey = Head(toPhone[calls]).mine]
  /\ UNCHANGED <<outcome, calls, hubFrame, cut, slot, code, fileVars, faults>>

(* Mutant of PhoneHearsDone: the hub's confirmation is not waited for. *)
PhoneHearsDoneEarly ==
  /\ phone.at = "done"
  /\ phone' = [phone EXCEPT !.at = "recording"]
  /\ UNCHANGED <<outcome, calls, hubFrame, wireVars, slot, code, fileVars, faults>>

PhoneHearsDone ==
  /\ phone.at = "done" /\ NextOn(toPhone, calls) = "done"
  /\ PhoneSends(<< >>, "recording")
  /\ UNCHANGED <<hubFrame, cut, slot, code, fileVars, faults>>

(* Mutant of ConfirmedAnswer: a reset is always just confirmed. *)
ConfirmedAnswerBare(plan) ==
  IF plan = "exchange" THEN <<"push", "report">> ELSE <<"proceed", "full">>

(* What the phone sends in a plan it carries out, and waits for then. *)
ConfirmedAnswer(plan) ==
  IF plan \in PushFirst \cup {"exchange"} THEN <<"push", "report">> ELSE <<"proceed", "full">>

(* phone_round_steps: the hub's hello gives the plan.  Only with the       *)
(* user's confirmation does a call go into a reset.                        *)
PhoneHearsHello ==
  \E plan \in Plan :
    /\ phone.at = "hello" /\ NextOn(toPhone, calls) = plan
    /\ toPhone' = Taken(toPhone, calls)
    /\ IF plan = "exchange" \/ phone.confirm
       THEN /\ toHub' = Sent(toHub, calls, <<Plain(ConfirmedAnswer(plan)[1])>>)
            /\ phone' = [phone EXCEPT !.at = ConfirmedAnswer(plan)[2], !.plan = plan]
            /\ UNCHANGED <<outcome, calls>>
       ELSE /\ toHub' = Sent(toHub, calls, <<Plain("done")>>)
            /\ PhoneEnds("reset_needed")
    /\ UNCHANGED <<hubFrame, cut, slot, code, fileVars, faults>>

(* phone_push: the hub's counts for the push. *)
PhoneHearsReport ==
  /\ phone.at = "report" /\ NextOn(toPhone, calls) = "report"
  /\ PhoneSends(<< >>, IF phone.plan = "exchange" THEN "reply" ELSE "full")
  /\ UNCHANGED <<hubFrame, cut, slot, code, fileVars, faults>>

PhoneHearsLast ==
  /\ \/ phone.at = "reply" /\ NextOn(toPhone, calls) = "reply" /\ PhoneSends(<< >>, "applying")
     \/ phone.at = "full" /\ NextOn(toPhone, calls) = "full" /\ PhoneSends(<< >>, "resetting")
  /\ UNCHANGED <<hubFrame, cut, slot, code, fileVars, faults>>

(* record_peer of the hub, with the key its handshake proved.  A file that *)
(* cannot be read is not replaced.                                         *)
Record(d, k) ==
  IF Readable(d, "peers") THEN [peer EXCEPT ![d] = k] ELSE peer

(* pair_with_hub, phone_apply_reply or reset_phone_from_hub is done, and   *)
(* so is the call.                                                         *)
PhoneFinishes ==
  /\ phone.at \in PhoneWorks
  /\ phone.at = "recording" => Readable("phone", "peers")
  /\ peer' = IF phone.at = "recording" THEN Record("phone", phone.hubKey) ELSE peer
  /\ PhoneEnds("ok")
  /\ UNCHANGED <<hubFrame, wireVars, slot, code, key, damaged, late, recorded, faults>>

(* A step of the phone fails: on what it read, before its hello, or at     *)
(* work.  report_to_peer says so, but for pair_with_hub, which comes after *)
(* the channel.                                                            *)
PhoneFails ==
  /\ \/ /\ phone.at \in PhoneTalks \cup {"kk"}
        /\ NextOn(toPhone, calls) \notin {"nothing", "refusal", "error"}
        /\ toPhone' = Taken(toPhone, calls)
     \/ phone.at \in PhoneWorks /\ UNCHANGED toPhone
  /\ IF phone.at = "recording" /\ ~Readable("phone", "peers") THEN NoFault ELSE Fault
  /\ toHub' = IF phone.at = "recording" THEN toHub ELSE Sent(toHub, calls, <<Plain("error")>>)
  /\ PhoneEnds("failed")
  /\ UNCHANGED <<hubFrame, cut, slot, code, fileVars>>

(* The hub's reason: it ends the call, and inside the channel goes back to *)
(* the hub, as report_to_peer holds back network errors only.              *)
PhoneIsTold ==
  /\ phone.at \in PhoneOpens \cup PhoneTalks
  /\ NextOn(toPhone, calls) \in {"refusal", "error"}
  /\ toPhone' = Taken(toPhone, calls)
  /\ toHub' = IF phone.at \in PhoneTalks THEN Sent(toHub, calls, <<Plain("error")>>) ELSE toHub
  /\ PhoneEnds("told")
  /\ UNCHANGED <<hubFrame, cut, slot, code, fileVars, faults>>

(* The connection is closed, and nothing is left on it.  One on which the  *)
(* hub left something unread is reset, and a send on it can fail: that may *)
(* cost the phone what it has not read yet.                                *)
PhoneIsCut ==
  /\ phone.at \in PhoneOpens \cup PhoneTalks
  /\ \/ calls \in cut /\ toPhone[calls] = << >>
     \/ hub[calls] = NoTask /\ (toPhone[calls] = << >> \/ toHub[calls] # << >>)
  /\ PhoneEnds("lost")
  /\ UNCHANGED <<hubFrame, wireVars, slot, code, fileVars, faults>>

(* A time limit passes, or the page that made the call is closed and the   *)
(* server drops the call.  A blocking step goes on without it.             *)
PhoneGivesUp ==
  /\ phone # Idle /\ Fault
  /\ late' = IF phone.at = "recording" THEN late \cup {<<"phone", phone.hubKey, None>>} ELSE late
  /\ PhoneEnds("gave_up")
  /\ UNCHANGED <<hubFrame, wireVars, slot, code, key, peer, damaged, recorded>>

PhoneStep ==
  \/ PhonePairs \/ PhoneSyncs \/ PhoneGoesOn \/ PhoneIdentifies \/ PhoneHearsDone
  \/ PhoneHearsHello \/ PhoneHearsReport \/ PhoneHearsLast \/ PhoneFinishes
  \/ PhoneFails \/ PhoneIsTold \/ PhoneIsCut \/ PhoneGivesUp

-----------------------------------------------------------------------------
(* The hub's task for connection c.                                        *)

rest == <<phoneFrame, cut, fileVars>>

(* hub_session: the key file and, for a sync, the peers file are read      *)
(* before the phone may go on.                                             *)
(* read_opening: what a connection may be for. *)
Opening == {"open_pair", "open_sync"}

HubOpensCall(c) ==
  LET opening == NextOn(toHub, c)
      unusable == \/ ~Readable("hub", "key")
                  \/ opening = "open_sync" /\ ~Readable("hub", "peers")
  IN /\ hub[c].at = "opening" /\ opening \in Opening
     /\ IF unusable THEN HubTells(c, Taken(toHub, c), "refusal")
        ELSE /\ toHub' = Taken(toHub, c)
             /\ toPhone' = Sent(toPhone, c, <<Plain("go")>>)
             /\ hub' = [hub EXCEPT ![c] =
                  [NoTask EXCEPT !.at = IF opening = "open_pair" THEN "spake" ELSE "kk",
                                 !.mine = key["hub"], !.phoneKey = peer["hub"]]]
             /\ UNCHANGED <<hubEnd, slot>>
     /\ UNCHANGED <<rest, code, faults>>

(* pair_as_hub: begin_attempt takes the slot and then the code. *)
HubBeginsAttempt(c) ==
  /\ hub[c].at = "spake" /\ NextOn(toHub, c) = "spake"
  /\ IF slot # None \/ ~code THEN HubTells(c, Taken(toHub, c), "refusal")
     ELSE HubSends(c, <<Plain("go")>>, "one") /\ slot' = c
  /\ UNCHANGED <<rest, code, faults>>

HubAnswersOne(c) ==
  /\ hub[c].at = "one" /\ NextOn(toHub, c) = "one"
  /\ HubSends(c, <<Plain("go")>>, "three")
  /\ UNCHANGED <<rest, slot, code, faults>>

(* With the third message a wrong code shows.  The right one is used up,   *)
(* unless another has been shown since.                                    *)
HubReadsThree(c) ==
  /\ hub[c].at = "three" /\ NextOn(toHub, c) \in {"three", "wrong"}
  /\ IF NextOn(toHub, c) = "wrong"
     THEN HubTells(c, Taken(toHub, c), "refusal") /\ UNCHANGED code
     ELSE /\ toHub' = Taken(toHub, c)
          /\ toPhone' = Sent(toPhone, c, <<Plain("go")>>)
          /\ hub' = [hub EXCEPT ![c].at = "naming", ![c].phoneKey = Head(toHub[c]).mine]
          /\ code' \in {FALSE, code}
          /\ UNCHANGED <<hubEnd, slot>>
  /\ UNCHANGED <<rest, faults>>

(* Mutant of HubNames: the phone has to say first who it is. *)
HubNamesNothing(c) ==
  /\ hub[c].at = "naming"
  /\ hub' = [hub EXCEPT ![c].at = "identity"]
  /\ UNCHANGED <<rest, toHub, toPhone, hubEnd, slot, code, faults>>

(* hub_pairing: the hub says who it is without being asked. *)
HubNames(c) ==
  /\ hub[c].at = "naming"
  /\ toPhone' = Sent(toPhone, c, <<Message("identity", hub[c].mine, None)>>)
  /\ hub' = [hub EXCEPT ![c].at = "identity"]
  /\ UNCHANGED <<rest, toHub, hubEnd, slot, code, faults>>

HubHearsIdentity(c) ==
  /\ hub[c].at = "identity" /\ NextOn(toHub, c) = "identity"
  /\ HubSends(c, << >>, "recording")
  /\ UNCHANGED <<rest, slot, code, faults>>

(* pair_with_phone is done, and the phone hears of it. *)
HubRecords(c) ==
  /\ hub[c].at = "recording" /\ Readable("hub", "peers")
  /\ peer' = [peer EXCEPT !["hub"] = hub[c].phoneKey]
  /\ recorded' = recorded \cup {hub[c].mine}
  /\ toPhone' = Sent(toPhone, c, <<Plain("done")>>)
  /\ HubEnds(c, "ok", slot)
  /\ UNCHANGED <<phoneFrame, toHub, cut, code, key, damaged, late, faults>>

(* sync_as_hub, and the slot, which a sync takes when its handshake is     *)
(* over: a busy hub has to say so inside the channel.                      *)
HubAnswersSync(c) ==
  LET m == Head(toHub[c])
      known == hub[c].phoneKey # None /\ m.mine = hub[c].phoneKey /\ m.yours = hub[c].mine
  IN /\ hub[c].at = "kk" /\ NextOn(toHub, c) = "kk"
     /\ IF ~known THEN HubTells(c, Taken(toHub, c), "refusal")
        ELSE IF slot # None
        THEN /\ toHub' = Taken(toHub, c)
             /\ toPhone' = Sent(toPhone, c, <<Plain("go"), Plain("error")>>)
             /\ HubEnds(c, "busy", slot)
        ELSE HubSends(c, <<Plain("go")>>, "hello") /\ slot' = c
     /\ UNCHANGED <<rest, code, faults>>

(* hub_answer_hello: the phone may have been unpaired since its handshake. *)
HubAnswersHello(c) ==
  /\ hub[c].at = "hello" /\ NextOn(toHub, c) = "hello"
  /\ IF peer["hub"] = None \/ ~Readable("hub", "peers")
     THEN HubTells(c, Taken(toHub, c), "error")
     ELSE \E plan \in Plan :
            /\ toHub' = Taken(toHub, c)
            /\ toPhone' = Sent(toPhone, c, <<Plain(plan)>>)
            /\ hub' = [hub EXCEPT ![c].at = IF plan = "exchange" THEN "push" ELSE "answer",
                                  ![c].plan = plan]
            /\ UNCHANGED <<hubEnd, slot>>
  /\ UNCHANGED <<rest, code, faults>>

(* What follows the hello: a push first, where the plan has one, and the   *)
(* phone's word on a reset.                                                *)
HubTakesPush(c) ==
  /\ NextOn(toHub, c) = "push"
  /\ \/ hub[c].at = "push"
     \/ hub[c].at = "answer" /\ hub[c].plan \in PushFirst
  /\ HubSends(c, <<Plain("report")>>, IF hub[c].at = "push" THEN "replying" ELSE "sending")
  /\ UNCHANGED <<rest, slot, code, faults>>

HubHearsProceed(c) ==
  /\ hub[c].at = "answer" /\ NextOn(toHub, c) = "proceed" /\ hub[c].plan \notin PushFirst
  /\ HubSends(c, << >>, "sending")
  /\ UNCHANGED <<rest, slot, code, faults>>

HubHearsStop(c) ==
  /\ hub[c].at = "answer" /\ NextOn(toHub, c) = "done"
  /\ toHub' = Taken(toHub, c) /\ UNCHANGED toPhone
  /\ HubEnds(c, "reset_needed", slot)
  /\ UNCHANGED <<rest, code, faults>>

(* hub_reply, or the repair and hub_full_log, is done. *)
HubFinishes(c) ==
  /\ hub[c].at \in {"replying", "sending"}
  /\ toPhone' = Sent(toPhone, c, <<Plain(IF hub[c].at = "replying" THEN "reply" ELSE "full")>>)
  /\ HubEnds(c, "ok", slot)
  /\ UNCHANGED <<phoneFrame, toHub, cut, code, fileVars, faults>>

(* A step of the hub fails, on what it read or at work. *)
HubFails(c) ==
  /\ \/ /\ hub[c].at \in HubTalks /\ NextOn(toHub, c) \notin {"nothing", "error"}
        /\ HubTells(c, Taken(toHub, c), "error")
     \/ hub[c].at \in HubWorks /\ HubTells(c, toHub, "error")
  /\ IF hub[c].at = "recording" /\ ~Readable("hub", "peers") THEN NoFault ELSE Fault
  /\ UNCHANGED <<rest, code>>

(* The phone's reason: it ends the task, and goes back to the phone.  It   *)
(* cannot come before the phone is in the channel.                         *)
HubIsTold(c) ==
  /\ hub[c].at \in HubTalks /\ NextOn(toHub, c) = "error"
  /\ HubTells(c, Taken(toHub, c), "error")
  /\ UNCHANGED <<rest, code, faults>>

PhoneLeft(c) == phone = Idle \/ calls # c

HubIsCut(c) ==
  /\ hub[c].at \in HubOpens \cup HubTalks
  /\ \/ c \in cut /\ toHub[c] = << >>
     \/ PhoneLeft(c) /\ (toHub[c] = << >> \/ toPhone[c] # << >>)
  /\ HubEnds(c, "lost", slot)
  /\ UNCHANGED <<rest, toHub, toPhone, code, faults>>

(* A time limit passes, SESSION_LIMIT included.  A blocking step goes on   *)
(* without the task.                                                       *)
HubGivesUp(c) ==
  /\ hub[c] # NoTask /\ Fault
  /\ late' = IF hub[c].at = "recording"
             THEN late \cup {<<"hub", hub[c].phoneKey, hub[c].mine>>} ELSE late
  /\ HubEnds(c, "gave_up", slot)
  /\ UNCHANGED <<phoneFrame, wireVars, code, key, peer, damaged, recorded>>

HubStep(c) ==
  \/ HubOpensCall(c) \/ HubBeginsAttempt(c) \/ HubAnswersOne(c) \/ HubReadsThree(c)
  \/ HubNames(c) \/ HubHearsIdentity(c) \/ HubRecords(c) \/ HubAnswersSync(c) \/ HubAnswersHello(c)
  \/ HubTakesPush(c) \/ HubHearsProceed(c) \/ HubHearsStop(c) \/ HubFinishes(c)
  \/ HubFails(c) \/ HubIsTold(c) \/ HubIsCut(c) \/ HubGivesUp(c)

-----------------------------------------------------------------------------
(* Everything else.                                                        *)

still == <<phoneFrame, hubFrame>>

(* The connection breaks: what was on its way arrives up to some point. *)
Cut(c) ==
  /\ c \notin cut /\ Fault
  /\ \/ hub[c] # NoTask
     \/ c = calls /\ phone # Idle
  /\ cut' = cut \cup {c}
  /\ \E n \in 0..Len(toHub[c]), m \in 0..Len(toPhone[c]) :
       /\ toHub' = [toHub EXCEPT ![c] = SubSeq(@, 1, n)]
       /\ toPhone' = [toPhone EXCEPT ![c] = SubSeq(@, 1, m)]
  /\ UNCHANGED <<still, slot, code, fileVars>>

(* The hub's page shows a code, which expires. *)
Code ==
  /\ code' = ~code
  /\ UNCHANGED <<still, wireVars, slot, fileVars, faults>>

(* Another phone's session comes and goes. *)
OtherPhone ==
  /\ slot \in {None, Elsewhere}
  /\ slot' = IF slot = None THEN Elsewhere ELSE None
  /\ UNCHANGED <<still, wireVars, code, fileVars, faults>>

(* The record of a step whose task is gone is written, or fails on a       *)
(* peers file that cannot be read.                                         *)
LateRecord(record) ==
  LET d == record[1]
  IN /\ late' = late \ {record}
     /\ peer' = Record(d, record[2])
     /\ recorded' = IF d = "hub" /\ Readable(d, "peers") THEN recorded \cup {record[3]}
                    ELSE recorded
     /\ UNCHANGED <<still, wireVars, slot, code, key, damaged, faults>>

(* unpair, on one side. *)
Unpair(d) ==
  /\ peer[d] # None /\ Readable(d, "peers")
  /\ peer' = [peer EXCEPT ![d] = None]
  /\ UNCHANGED <<still, wireVars, slot, code, key, damaged, late, recorded, faults>>

(* A file is no longer what was written: there are not the digits of a key *)
(* in it (key_from_hex), or not the peers.                                 *)
Damage(d, file) ==
  /\ Readable(d, file) /\ Fault
  /\ damaged' = damaged \cup {<<d, file>>}
  /\ UNCHANGED <<still, wireVars, slot, code, key, peer, late, recorded>>

(* What the refusals say: remove the file and pair again.  The next use    *)
(* makes a new key, or finds no peer.                                      *)
Remove(d, file) ==
  /\ ~Readable(d, file)
  /\ damaged' = damaged \ {<<d, file>>}
  /\ key' = IF file = "key" THEN [key EXCEPT ![d] = @ + 1] ELSE key
  /\ peer' = IF file = "peers" THEN [peer EXCEPT ![d] = None] ELSE peer
  /\ UNCHANGED <<still, wireVars, slot, code, late, recorded, faults>>

Next ==
  \/ PhoneStep
  \/ \E c \in Call : HubStep(c) \/ Cut(c)
  \/ Code \/ OtherPhone
  \/ \E record \in late : LateRecord(record)
  \/ \E d \in Device : \/ Unpair(d)
                       \/ \E file \in {"key", "peers"} : Damage(d, file) \/ Remove(d, file)

Spec == Init /\ [][Next]_vars

-----------------------------------------------------------------------------
(* Properties. *)

PhoneWaits(c) == c = calls /\ phone.at \in PhoneOpens \cup PhoneTalks
HubWaits(c) == hub[c].at \in HubOpens \cup HubTalks

(* As long as a connection holds, its two sides never wait for each other, *)
(* in any plan of a round and whatever failed: one has a message to read.  *)
NobodyWaitsForNothing ==
  \A c \in Call \ cut :
    PhoneWaits(c) /\ HubWaits(c) => toHub[c] # << >> \/ toPhone[c] # << >>

(* What either side goes on with, or takes as a reason to stop. *)
PhoneExpects ==
  CASE phone.at \in PhoneOpens -> {"go", "refusal"}
    [] phone.at = "hello" -> Plan \cup {"error"}
    [] OTHER -> {phone.at, "error"}

HubExpects(c) ==
  CASE hub[c].at = "opening" -> Opening
    [] hub[c].at = "three" -> {"three", "wrong"}
    [] hub[c].at = "answer" ->
         {IF hub[c].plan \in PushFirst THEN "push" ELSE "proceed", "done", "error"}
    [] hub[c].at \in {"spake", "one", "kk"} -> {hub[c].at}
    [] OTHER -> {hub[c].at, "error"}

(* A message is one its reader goes on with or a reason to stop: two       *)
(* devices never end on an unexpected message (WireMessage::unexpected),   *)
(* whatever the plan and however far an earlier call came.                 *)
NothingUnexpected ==
  /\ PhoneWaits(calls) /\ toPhone[calls] # << >> => NextOn(toPhone, calls) \in PhoneExpects
  /\ \A c \in Call : HubWaits(c) /\ toHub[c] # << >> => NextOn(toHub, c) \in HubExpects(c)

(* A call the phone reports as done was completed by the hub, and a phone  *)
(* has only a hub on record that had recorded the phone before, under the  *)
(* key the phone has, whatever was abandoned, unpaired or removed.         *)
PhoneDoneMeansHubDone ==
  /\ \A c \in Call : outcome[c] = "ok" => hubEnd[c] = "ok"
  /\ peer["phone"] # None => peer["phone"] \in recorded

(* Where the hub refuses or fails, the phone does not just see the         *)
(* connection closed, as long as it holds and the phone waits: the hub     *)
(* never closes while the phone has something to send.  A busy hub may: it *)
(* says so right behind its last handshake message, which the phone        *)
(* answers with its hello.                                                 *)
ReasonReachesPhone ==
  \A c \in Call \ cut : hubEnd[c] = "told" => outcome[c] # "lost"
=============================================================================

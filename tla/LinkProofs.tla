----------------------------- MODULE LinkProofs -----------------------------
(***************************************************************************)
(* The safety properties of Link, proved for any number of calls of the    *)
(* phone, and for any number of faults: what the two sides of a connection *)
(* can be waiting for, and what is on its way between them.                *)
(***************************************************************************)
EXTENDS Link, TLAPS

(* What each device says. *)
Final == {"done", "reply", "full"}
HubWord == {"go", "refusal", "error", "identity", "report"} \cup Final \cup Plan
PhoneWord == {"open_pair", "open_sync", "spake", "one", "three", "wrong", "identity", "kk",
              "hello", "push", "proceed", "done", "error"}

Carry(words) == [is : words, mine : Nat, yours : Nat]

PhoneCall ==
  [at : {"idle"} \cup PhoneOpens \cup PhoneTalks \cup PhoneWorks,
   typed : BOOLEAN, confirm : BOOLEAN, plan : Plan \cup {"none"}, mine : Nat, hubKey : Nat]

HubTask ==
  [at : {"none"} \cup HubOpens \cup HubTalks \cup HubWorks,
   plan : Plan \cup {"none"}, mine : Nat, phoneKey : Nat]

How == {"none", "ok", "told", "busy", "lost", "failed", "gave_up", "reset_needed"}

PhoneTypes ==
  /\ phone \in PhoneCall /\ calls \in 0..MaxCalls /\ outcome \in [Call -> How]
  /\ phone.at = "idle" => phone = Idle

HubTypes ==
  /\ hub \in [Call -> HubTask] /\ hubEnd \in [Call -> How]
  /\ \A c \in Call : hub[c].at = "none" => hub[c] = NoTask

WireTypes ==
  /\ toHub \in [Call -> Seq(Carry(PhoneWord))]
  /\ toPhone \in [Call -> Seq(Carry(HubWord))]
  /\ cut \subseteq Call

FileTypes ==
  /\ key \in [Device -> Nat] /\ peer \in [Device -> Nat] /\ recorded \subseteq Nat
  /\ late \subseteq Device \X Nat \X Nat

Types == PhoneTypes /\ HubTypes /\ WireTypes /\ FileTypes

PhoneLives == phone.at # "idle"
HubLives(c) == hub[c].at # "none"

(* A connection that was not opened yet. *)
Fresh ==
  \A c \in Call : c > calls =>
    /\ hub[c] = NoTask /\ c \notin cut
    /\ toHub[c] = << >> /\ toPhone[c] = << >>
    /\ outcome[c] = "none" /\ hubEnd[c] = "none"

Unopened == phone.at # "idle" => calls # 0

-----------------------------------------------------------------------------
(* What a queue may hold for its reader.                                   *)

PhoneFits ==
  LET q == toPhone[calls]
  IN PhoneLives =>
       /\ Len(q) <= 2
       /\ phone.at \in PhoneWorks => Len(q) = 0
       /\ Len(q) # 0 => q[1].is \in PhoneExpects
       /\ Len(q) = 2 =>
            \/ phone.at = "three" /\ q[1].is = "go" /\ q[2].is \in {"identity", "error"}
            \/ phone.at = "kk" /\ q[1].is = "go" /\ q[2].is = "error"
            \/ /\ phone.at = "report" /\ q[1].is = "report"
               /\ q[2].is \in {"error", IF phone.plan = "exchange" THEN "reply" ELSE "full"}

TaskFits(c) ==
  HubLives(c) =>
    /\ Len(toHub[c]) <= 1
    /\ hub[c].at = "naming" => Len(toHub[c]) = 0
    /\ hub[c].at \notin HubWorks /\ Len(toHub[c]) # 0 => toHub[c][1].is \in HubExpects(c)

HubFits == \A c \in Call : TaskFits(c)

-----------------------------------------------------------------------------
(* The two sides of a connection that holds, in the middle of a call.      *)

Asks(word) == Len(toHub[calls]) = 1 /\ toHub[calls][1].is = word /\ Len(toPhone[calls]) = 0
Tells(word) == Len(toHub[calls]) = 0 /\ Len(toPhone[calls]) = 1 /\ toPhone[calls][1].is = word
Quiet == Len(toHub[calls]) = 0 /\ Len(toPhone[calls]) = 0

TellsTwice(word, next) ==
  /\ Len(toHub[calls]) = 0 /\ Len(toPhone[calls]) = 2
  /\ toPhone[calls][1].is = word /\ toPhone[calls][2].is = next

Turn(p, h) == phone.at = p /\ hub[calls].at = h

PairingTurn ==
  \/ Turn("pair", "opening") /\ Asks("open_pair")
  \/ Turn("pair", "spake") /\ Tells("go")
  \/ Turn("spake", "spake") /\ Asks("spake")
  \/ Turn("spake", "one") /\ Tells("go")
  \/ Turn("one", "one") /\ Asks("one")
  \/ Turn("one", "three") /\ Tells("go")
  \/ Turn("three", "three") /\ (Asks("three") \/ Asks("wrong"))
  \/ Turn("three", "naming") /\ Tells("go")
  \/ Turn("three", "identity") /\ TellsTwice("go", "identity")
  \/ Turn("identity", "naming") /\ Quiet
  \/ Turn("identity", "identity") /\ Tells("identity")
  \/ Turn("done", "identity") /\ Asks("identity")
  \/ Turn("done", "recording") /\ Quiet

SyncTurn ==
  \/ Turn("sync", "opening") /\ Asks("open_sync")
  \/ Turn("sync", "kk") /\ Tells("go")
  \/ Turn("kk", "kk") /\ Asks("kk")
  \/ Turn("kk", "hello") /\ Tells("go")
  \/ Turn("hello", "hello") /\ Asks("hello")
  \/ Turn("hello", "push") /\ Tells("exchange")
  \/ Turn("hello", "answer") /\ hub[calls].plan \in Plan \ {"exchange"} /\ Tells(hub[calls].plan)
  \/ Turn("report", "push") /\ Asks("push") /\ phone.plan = "exchange"
  \/ Turn("report", "answer") /\ Asks("push") /\ phone.plan # "exchange"
                              /\ hub[calls].plan \in PushFirst
  \/ Turn("report", "replying") /\ Tells("report") /\ phone.plan = "exchange"
  \/ Turn("report", "sending") /\ Tells("report") /\ phone.plan # "exchange"
  \/ Turn("reply", "replying") /\ Quiet
  \/ Turn("full", "answer") /\ Asks("proceed") /\ hub[calls].plan \notin PushFirst
  \/ Turn("full", "sending") /\ Quiet

Lockstep ==
  PhoneLives /\ HubLives(calls) /\ calls \notin cut => PairingTurn \/ SyncTurn

-----------------------------------------------------------------------------
(* How a connection ends.                                                  *)

Ends ==
  \A c \in Call :
    /\ HubLives(c) => hubEnd[c] = "none"
    /\ outcome[c] = "ok" => hubEnd[c] = "ok"
    /\ outcome[c] = "lost" /\ c \notin cut => ~HubLives(c) /\ hubEnd[c] # "told"

(* What the phone knows of the end of the hub's task. *)
Tidings ==
  PhoneLives =>
    /\ outcome[calls] = "none"
    /\ phone.at \in PhoneWorks => hubEnd[calls] = "ok"
    /\ \A i \in 1..Len(toPhone[calls]) : toPhone[calls][i].is \in Final => hubEnd[calls] = "ok"
    /\ phone.at = "kk" /\ Len(toPhone[calls]) = 2 => hubEnd[calls] = "busy"

(* A reason the hub gave is the last the phone reads, and nothing the      *)
(* phone has sent is left to break the connection before.                  *)
Reason ==
  PhoneLives /\ calls \notin cut /\ hubEnd[calls] = "told" =>
    /\ Len(toHub[calls]) = 0 /\ Len(toPhone[calls]) # 0
    /\ toPhone[calls][Len(toPhone[calls])].is \in {"refusal", "error"}

(* The key the phone is about to record is the one the hub records it      *)
(* under.                                                                  *)
Keys ==
  /\ PhoneLives /\ HubLives(calls) =>
       /\ \A i \in 1..Len(toPhone[calls]) : toPhone[calls][i].is = "identity" =>
            /\ hub[calls].at = "identity" /\ Len(toHub[calls]) = 0
            /\ toPhone[calls][i].mine = hub[calls].mine
       /\ phone.at = "done" =>
            hub[calls].at \in {"identity", "recording"} /\ hub[calls].mine = phone.hubKey
  /\ phone.at = "done" /\ Len(toPhone[calls]) # 0 /\ toPhone[calls][1].is = "done"
       => phone.hubKey \in recorded
  /\ phone.at = "recording" => phone.hubKey \in recorded
  /\ \A record \in late : record[1] = "phone" => record[2] \in recorded
  /\ peer["phone"] # None => peer["phone"] \in recorded

IInv ==
  /\ Types /\ Fresh /\ Unopened /\ PhoneFits /\ HubFits /\ Lockstep
  /\ Ends /\ Tidings /\ Reason /\ Keys

-----------------------------------------------------------------------------
(* Queues.                                                                 *)

(* Taking a message leaves the rest. *)
LEMMA TakeFrom ==
  ASSUME NEW S, NEW queues \in [Call -> Seq(S)], NEW c \in Call, Len(queues[c]) # 0
  PROVE  /\ Taken(queues, c) \in [Call -> Seq(S)]
         /\ \A e \in Call : e # c => Taken(queues, c)[e] = queues[e]
         /\ Len(Taken(queues, c)[c]) = Len(queues[c]) - 1
         /\ \A i \in 1..Len(queues[c]) - 1 : Taken(queues, c)[c][i] = queues[c][i + 1]
<1> DEFINE q == queues[c]
<1>1. q \in Seq(S) /\ q # << >>
  OBVIOUS
<1>2. /\ Tail(q) \in Seq(S) /\ Len(Tail(q)) = Len(q) - 1
      /\ \A i \in 1..Len(q) - 1 : Tail(q)[i] = q[i + 1]
  BY <1>1
<1>3. Taken(queues, c)[c] = Tail(q)
  BY DEF Taken
<1>4. \A e \in Call : e # c => Taken(queues, c)[e] = queues[e]
  BY DEF Taken
<1>5. Taken(queues, c) \in [Call -> Seq(S)]
  BY <1>2 DEF Taken
<1> QED
  BY <1>2, <1>3, <1>4, <1>5

(* A message that is sent is the last, or is lost where the connection     *)
(* broke.                                                                  *)
LEMMA SendOne ==
  ASSUME NEW S, NEW queues \in [Call -> Seq(S)], NEW c \in Call, NEW m \in S
  PROVE  /\ Sent(queues, c, <<m>>) \in [Call -> Seq(S)]
         /\ \A e \in Call : e # c => Sent(queues, c, <<m>>)[e] = queues[e]
         /\ c \in cut => Sent(queues, c, <<m>>)[c] = queues[c]
         /\ c \notin cut =>
              /\ Len(Sent(queues, c, <<m>>)[c]) = Len(queues[c]) + 1
              /\ \A i \in 1..Len(queues[c]) : Sent(queues, c, <<m>>)[c][i] = queues[c][i]
              /\ Sent(queues, c, <<m>>)[c][Len(queues[c]) + 1] = m
<1> DEFINE q == queues[c]
<1>1. q \in Seq(S)
  OBVIOUS
<1>2. /\ q \o <<m>> \in Seq(S) /\ Len(q \o <<m>>) = Len(q) + 1
      /\ \A i \in 1..Len(q) : (q \o <<m>>)[i] = q[i]
      /\ (q \o <<m>>)[Len(q) + 1] = m
  BY <1>1
<1>3. CASE c \in cut
  BY <1>3 DEF Sent
<1>4. CASE c \notin cut
  <2>1. Sent(queues, c, <<m>>) = [queues EXCEPT ![c] = q \o <<m>>]
    BY <1>4 DEF Sent
  <2> QED
    BY <2>1, <1>2, <1>4
<1> QED
  BY <1>3, <1>4

(* So are two. *)
LEMMA SendTwo ==
  ASSUME NEW S, NEW queues \in [Call -> Seq(S)], NEW c \in Call, NEW m \in S, NEW n \in S
  PROVE  /\ Sent(queues, c, <<m, n>>) \in [Call -> Seq(S)]
         /\ \A e \in Call : e # c => Sent(queues, c, <<m, n>>)[e] = queues[e]
         /\ c \in cut => Sent(queues, c, <<m, n>>)[c] = queues[c]
         /\ c \notin cut =>
              /\ Len(Sent(queues, c, <<m, n>>)[c]) = Len(queues[c]) + 2
              /\ \A i \in 1..Len(queues[c]) : Sent(queues, c, <<m, n>>)[c][i] = queues[c][i]
              /\ Sent(queues, c, <<m, n>>)[c][Len(queues[c]) + 1] = m
              /\ Sent(queues, c, <<m, n>>)[c][Len(queues[c]) + 2] = n
<1> DEFINE q == queues[c]
<1>1. q \in Seq(S) /\ <<m, n>> \in Seq(S) /\ Len(<<m, n>>) = 2
  OBVIOUS
<1>2. /\ q \o <<m, n>> \in Seq(S) /\ Len(q \o <<m, n>>) = Len(q) + 2
      /\ \A i \in 1..Len(q) : (q \o <<m, n>>)[i] = q[i]
      /\ (q \o <<m, n>>)[Len(q) + 1] = m
      /\ (q \o <<m, n>>)[Len(q) + 2] = n
  BY <1>1
<1>3. CASE c \in cut
  BY <1>3 DEF Sent
<1>4. CASE c \notin cut
  <2>1. Sent(queues, c, <<m, n>>) = [queues EXCEPT ![c] = q \o <<m, n>>]
    BY <1>4 DEF Sent
  <2> QED
    BY <2>1, <1>2, <1>4
<1> QED
  BY <1>3, <1>4

(* Nothing to send changes nothing. *)
LEMMA SendNone ==
  ASSUME NEW S, NEW queues \in [Call -> Seq(S)], NEW c \in Call
  PROVE  Sent(queues, c, << >>) = queues
<1>1. queues[c] \o << >> = queues[c]
  <2>1. queues[c] \in Seq(S)
    OBVIOUS
  <2> QED
    BY <2>1
<1>2. [queues EXCEPT ![c] = queues[c]] = queues
  OBVIOUS
<1> QED
  BY <1>1, <1>2 DEF Sent

(* What comes next is the head of the queue. *)
LEMMA NextIsHead ==
  ASSUME NEW S, NEW queues \in [Call -> Seq(S)], NEW c \in Call
  PROVE  /\ queues[c] = << >> <=> Len(queues[c]) = 0
         /\ Len(queues[c]) \in Nat
         /\ Len(queues[c]) = 0 => NextOn(queues, c) = "nothing"
         /\ Len(queues[c]) # 0 => /\ NextOn(queues, c) = queues[c][1].is
                                  /\ Head(queues[c]) = queues[c][1]
                                  /\ queues[c][1] \in S
<1>1. queues[c] \in Seq(S)
  OBVIOUS
<1>2. queues[c] = << >> <=> Len(queues[c]) = 0
  BY <1>1
<1>3. Len(queues[c]) # 0 => Head(queues[c]) = queues[c][1] /\ queues[c][1] \in S
  BY <1>1
<1> QED
  BY <1>1, <1>2, <1>3 DEF NextOn

(* A broken connection keeps a first part of what was on its way. *)
LEMMA KeepFirst ==
  ASSUME NEW S, NEW queues \in [Call -> Seq(S)], NEW c \in Call, NEW n \in 0..Len(queues[c])
  PROVE  LET kept == [queues EXCEPT ![c] = SubSeq(@, 1, n)]
         IN /\ kept \in [Call -> Seq(S)]
            /\ \A e \in Call : e # c => kept[e] = queues[e]
            /\ Len(kept[c]) = n
            /\ \A i \in 1..n : kept[c][i] = queues[c][i]
<1> DEFINE q == queues[c]
<1>1. q \in Seq(S)
  OBVIOUS
<1>2. /\ SubSeq(q, 1, n) \in Seq(S) /\ Len(SubSeq(q, 1, n)) = n
      /\ \A i \in 1..n : SubSeq(q, 1, n)[i] = q[i]
  BY <1>1
<1> QED
  BY <1>2

-----------------------------------------------------------------------------
(* Types.                                                                  *)

(* The messages are typed. *)
LEMMA MessageTypes ==
  /\ \A words : \A word \in words : Plain(word) \in Carry(words)
  /\ \A words : \A word \in words, mine, yours \in Nat : Message(word, mine, yours) \in Carry(words)
  BY DEF Plain, Message, Carry, None

(* A call under way has a connection. *)
LEMMA CallIsOpen ==
  ASSUME Types, Unopened, PhoneLives
  PROVE  calls \in Call
  BY LinkAssumption DEF Types, PhoneTypes, Unopened, PhoneLives, Call

(* The queues stay typed whatever is taken and sent. *)
LEMMA QueueTypes ==
  ASSUME NEW S, NEW queues \in [Call -> Seq(S)], NEW c \in Call
  PROVE  /\ NextOn(queues, c) # "nothing" => Taken(queues, c) \in [Call -> Seq(S)]
         /\ \A m \in S : Sent(queues, c, <<m>>) \in [Call -> Seq(S)]
         /\ \A m, n \in S : Sent(queues, c, <<m, n>>) \in [Call -> Seq(S)]
         /\ Sent(queues, c, << >>) \in [Call -> Seq(S)]
  BY TakeFrom, SendOne, SendTwo, SendNone, NextIsHead

(* The types hold at the start. *)
LEMMA TypesInit == Init => Types
<1> SUFFICES ASSUME Init PROVE Types
  OBVIOUS
<1>1. /\ toHub \in [Call -> Seq(Carry(PhoneWord))]
      /\ toPhone \in [Call -> Seq(Carry(HubWord))]
  BY DEF Init
<1>2. phone \in PhoneCall
  BY DEF Init, PhoneCall, Idle, None
<1>3. hub \in [Call -> HubTask]
  BY DEF Init, HubTask, NoTask, None
<1>4. peer \in [Device -> Nat] /\ recorded \subseteq Nat
  BY DEF Init, None
<1>5. calls \in 0..MaxCalls
  BY LinkAssumption DEF Init
<1>6. outcome \in [Call -> How] /\ hubEnd \in [Call -> How]
  BY DEF Init, How
<1>7. key \in [Device -> Nat]
  BY DEF Init
<1>8. \A c \in Call : hub[c].at = "none" => hub[c] = NoTask
  BY DEF Init
<1> QED
  BY <1>1, <1>2, <1>3, <1>4, <1>5, <1>6, <1>7, <1>8 DEF Init, Types, PhoneTypes, HubTypes, WireTypes, FileTypes

(* What a phone that is in a call may go on with. *)
Wait == PhoneOpens \cup PhoneTalks \cup PhoneWorks

(* A phone that goes on keeps the types. *)
LEMMA PhoneMoveTypes ==
  ASSUME Types, NEW at \in Wait, NEW plan \in Plan \cup {"none"}, NEW k \in Nat
  PROVE  /\ [phone EXCEPT !.at = at] \in PhoneCall
         /\ [phone EXCEPT !.at = at, !.plan = plan] \in PhoneCall
         /\ [phone EXCEPT !.at = at, !.hubKey = k] \in PhoneCall
         /\ [phone EXCEPT !.at = at].at # "idle"
         /\ [phone EXCEPT !.at = at, !.plan = plan].at # "idle"
         /\ [phone EXCEPT !.at = at, !.hubKey = k].at # "idle"
<1>1. phone \in PhoneCall
  BY DEF Types, PhoneTypes
<1>2. at # "idle" /\ at \in {"idle"} \cup PhoneOpens \cup PhoneTalks \cup PhoneWorks
  BY DEF Wait, PhoneOpens, PhoneTalks, PhoneWorks
<1> DEFINE p == [phone EXCEPT !.at = at]
<1> DEFINE q == [phone EXCEPT !.at = at, !.plan = plan]
<1> DEFINE r == [phone EXCEPT !.at = at, !.hubKey = k]
<1>3. p \in PhoneCall /\ p.at # "idle"
  BY ONLY <1>1, <1>2 DEF PhoneCall
<1>4. q \in PhoneCall /\ q.at # "idle"
  BY ONLY <1>1, <1>2, plan \in Plan \cup {"none"} DEF PhoneCall
<1>5. r \in PhoneCall /\ r.at # "idle"
  BY ONLY <1>1, <1>2, k \in Nat DEF PhoneCall
<1> QED
  BY <1>3, <1>4, <1>5

(* A task that goes on keeps the types, and so does one that ends. *)
LEMMA HubMoveTypes ==
  ASSUME Types, NEW c \in Call
  PROVE  /\ \A at \in HubOpens \cup HubTalks \cup HubWorks :
              /\ [hub EXCEPT ![c].at = at] \in [Call -> HubTask]
              /\ \A k \in Nat :
                   [hub EXCEPT ![c].at = at, ![c].phoneKey = k] \in [Call -> HubTask]
              /\ \A plan \in Plan :
                   [hub EXCEPT ![c].at = at, ![c].plan = plan] \in [Call -> HubTask]
              /\ \A j, k \in Nat :
                   [hub EXCEPT ![c] = [NoTask EXCEPT !.at = at, !.mine = j, !.phoneKey = k]]
                     \in [Call -> HubTask]
         /\ [hub EXCEPT ![c] = NoTask] \in [Call -> HubTask]
<1> DEFINE T == [hub EXCEPT ![c] = NoTask]
<1>1. hub \in [Call -> HubTask] /\ NoTask \in HubTask
  BY DEF Types, HubTypes, HubTask, NoTask, None
<1>2. ASSUME NEW at \in HubOpens \cup HubTalks \cup HubWorks
      PROVE  [hub EXCEPT ![c].at = at] \in [Call -> HubTask]
  BY <1>1, <1>2 DEF HubTask
<1>3. ASSUME NEW at \in HubOpens \cup HubTalks \cup HubWorks, NEW k \in Nat
      PROVE  [hub EXCEPT ![c].at = at, ![c].phoneKey = k] \in [Call -> HubTask]
  BY <1>1, <1>3 DEF HubTask
<1>4. ASSUME NEW at \in HubOpens \cup HubTalks \cup HubWorks, NEW plan \in Plan
      PROVE  [hub EXCEPT ![c].at = at, ![c].plan = plan] \in [Call -> HubTask]
  BY <1>1, <1>4 DEF HubTask
<1>5. ASSUME NEW at \in HubOpens \cup HubTalks \cup HubWorks, NEW j \in Nat, NEW k \in Nat
      PROVE  [hub EXCEPT ![c] = [NoTask EXCEPT !.at = at, !.mine = j, !.phoneKey = k]]
               \in [Call -> HubTask]
  <2>1. [NoTask EXCEPT !.at = at, !.mine = j, !.phoneKey = k] \in HubTask
    BY <1>5 DEF NoTask, HubTask
  <2> QED
    BY <2>1, <1>1
<1>6. T \in [Call -> HubTask]
  BY <1>1
<1> QED
  BY <1>2, <1>3, <1>4, <1>5, <1>6

(* What stays as it is stays typed. *)
LEMMA SameTypes ==
  ASSUME Types
  PROVE  /\ UNCHANGED phoneFrame => PhoneTypes'
         /\ UNCHANGED hubFrame => HubTypes'
         /\ UNCHANGED wireVars => WireTypes'
         /\ UNCHANGED fileVars => FileTypes'
<1>1. UNCHANGED phoneFrame => PhoneTypes'
  BY DEF Types, phoneFrame, PhoneTypes
<1>2. UNCHANGED hubFrame => HubTypes'
  BY DEF Types, hubFrame, HubTypes
<1>3. UNCHANGED wireVars => WireTypes'
  BY DEF Types, wireVars, WireTypes
<1>4. UNCHANGED fileVars => FileTypes'
  BY DEF Types, fileVars, FileTypes
<1> QED
  BY <1>1, <1>2, <1>3, <1>4

(* The end of a call. *)
LEMMA PhoneEndTypes ==
  ASSUME Types, NEW how \in How, PhoneEnds(how)
  PROVE  PhoneTypes'
  BY DEF PhoneEnds, Types, PhoneTypes, PhoneCall, Idle, None

(* A call that goes on. *)
LEMMA PhoneSendTypes ==
  ASSUME Types, calls \in Call, NextOn(toPhone, calls) # "nothing", NEW at \in Wait,
         NEW messages, messages = << >> \/ \E m \in Carry(PhoneWord) : messages = <<m>>,
         PhoneSends(messages, at), UNCHANGED cut
  PROVE  PhoneTypes' /\ WireTypes'
<1>1. PhoneTypes'
  BY PhoneMoveTypes DEF PhoneSends, Types, PhoneTypes
<1>2. Sent(toHub, calls, messages) \in [Call -> Seq(Carry(PhoneWord))]
  BY QueueTypes DEF Types, WireTypes
<1>3. Taken(toPhone, calls) \in [Call -> Seq(Carry(HubWord))]
  BY QueueTypes DEF Types, WireTypes
<1> QED
  BY <1>1, <1>2, <1>3 DEF PhoneSends, Types, WireTypes

(* A task that goes on. *)
LEMMA HubSendTypes ==
  ASSUME Types, NEW c \in Call, NextOn(toHub, c) # "nothing",
         NEW at \in HubOpens \cup HubTalks \cup HubWorks,
         NEW messages, messages = << >> \/ \E m \in Carry(HubWord) : messages = <<m>>,
         HubSends(c, messages, at), UNCHANGED cut
  PROVE  HubTypes' /\ WireTypes'
<1>1. HubTypes'
  <2>1. [hub EXCEPT ![c].at = at] \in [Call -> HubTask]
    BY HubMoveTypes
  <2> QED
    BY <2>1 DEF HubSends, Types, HubTypes, HubOpens, HubTalks, HubWorks
<1>2. Sent(toPhone, c, messages) \in [Call -> Seq(Carry(HubWord))]
  BY QueueTypes DEF Types, WireTypes
<1>3. Taken(toHub, c) \in [Call -> Seq(Carry(PhoneWord))]
  BY QueueTypes DEF Types, WireTypes
<1> QED
  BY <1>1, <1>2, <1>3 DEF HubSends, Types, WireTypes

(* The end of a task. *)
LEMMA HubEndTypes ==
  ASSUME Types, NEW c \in Call, NEW how \in How, NEW taken, HubEnds(c, how, taken)
  PROVE  HubTypes'
  BY HubMoveTypes DEF HubEnds, Types, HubTypes

(* The end of a task that says why. *)
LEMMA HubTellTypes ==
  ASSUME Types, NEW c \in Call, NEW message \in HubWord,
         NEW queue \in [Call -> Seq(Carry(PhoneWord))],
         HubTells(c, queue, message), UNCHANGED cut
  PROVE  HubTypes' /\ WireTypes'
<1>1. HubTypes'
  BY HubEndTypes DEF HubTells, How
<1>2. Sent(toPhone, c, <<Plain(message)>>) \in [Call -> Seq(Carry(HubWord))]
  BY QueueTypes, MessageTypes DEF Types, WireTypes
<1> QED
  BY <1>1, <1>2 DEF HubTells, Types, WireTypes

(* The next call has a connection. *)
LEMMA NextCall ==
  ASSUME Types, calls < MaxCalls
  PROVE  calls + 1 \in Call /\ calls + 1 \in 0..MaxCalls
<1>1. calls \in 0..MaxCalls /\ calls < MaxCalls /\ MaxCalls \in Nat
  BY LinkAssumption DEF Types, PhoneTypes
<1>2. calls + 1 \in 0..MaxCalls
  BY <1>1
<1>3. calls + 1 \in 1..MaxCalls
  BY <1>1
<1> QED
  BY <1>2, <1>3 DEF Call

(* A queue of one message. *)
LEMMA OneMessage ==
  ASSUME NEW S, NEW m \in S
  PROVE  <<m>> \in Seq(S) /\ Len(<<m>>) = 1 /\ <<m>>[1] = m
  OBVIOUS

(* Every step of the phone keeps the types. *)
LEMMA PhoneStepTypes ==
  ASSUME Types, Unopened, PhoneStep
  PROVE  Types'
<1>c. phone.at # "idle" => calls \in Call
  BY CallIsOpen DEF PhoneLives
<1>i. phone # Idle => phone.at # "idle"
  BY DEF Types, PhoneTypes
<1>w. \A word \in PhoneWord : Plain(word) \in Carry(PhoneWord)
  BY MessageTypes
<1>1. ASSUME NEW opening \in {"open_pair", "open_sync"}, NEW opened \in PhoneCall,
             opened.at # "idle", StartCall(opening, opened)
      PROVE  Types'
  <2>1. calls + 1 \in Call /\ calls + 1 \in 0..MaxCalls
    <3>1. calls < MaxCalls
      BY <1>1 DEF StartCall
    <3> QED
      BY <3>1, NextCall
  <2>2. PhoneTypes'
    <3>1. [opened EXCEPT !.mine = key["phone"]] \in PhoneCall
      BY DEF Types, FileTypes, PhoneCall, Device
    <3>2. [opened EXCEPT !.mine = key["phone"]].at # "idle"
      BY <1>1 DEF PhoneCall
    <3> QED
      BY <3>1, <3>2, <2>1, <1>1 DEF StartCall, Types, PhoneTypes
  <2>3. HubTypes'
    <3>1. [hub EXCEPT ![calls + 1].at = "opening"] \in [Call -> HubTask]
      BY <2>1, HubMoveTypes DEF HubOpens
    <3>2. /\ hub' = [hub EXCEPT ![calls + 1].at = "opening"] /\ hubEnd' = hubEnd
          /\ hub \in [Call -> HubTask] /\ hubEnd \in [Call -> How]
          /\ \A c \in Call : hub[c].at = "none" => hub[c] = NoTask
      BY <1>1 DEF StartCall, Types, HubTypes
    <3>3. \A c \in Call : hub'[c] = IF c = calls + 1 THEN [hub[c] EXCEPT !.at = "opening"] ELSE hub[c]
      BY <3>2
    <3>4. \A c \in Call : hub'[c].at = "none" => hub'[c] = NoTask
      BY <3>2, <3>3 DEF HubTask
    <3> QED
      BY <3>1, <3>2, <3>4 DEF HubTypes
  <2>4. WireTypes'
    <3>1. Plain(opening) \in Carry(PhoneWord)
      BY <1>w DEF PhoneWord
    <3>2. <<Plain(opening)>> \in Seq(Carry(PhoneWord))
      BY <3>1, OneMessage
    <3>3. toHub' = [toHub EXCEPT ![calls + 1] = <<Plain(opening)>>]
      BY <1>1 DEF StartCall, Opened
    <3> QED
      BY <3>2, <3>3, <2>1, <1>1 DEF StartCall, Types, WireTypes
  <2>5. FileTypes'
    BY <1>1, SameTypes DEF StartCall
  <2> QED
    BY <2>2, <2>3, <2>4, <2>5, SameTypes DEF Types
<1>2. CASE PhonePairs
  <2>1. \A typed \in BOOLEAN : [Idle EXCEPT !.at = "pair", !.typed = typed] \in PhoneCall
    BY DEF Idle, PhoneCall, PhoneOpens, None
  <2>2. \A typed \in BOOLEAN : [Idle EXCEPT !.at = "pair", !.typed = typed].at # "idle"
    BY DEF Idle
  <2> QED
    BY <2>1, <2>2, <1>1, <1>2, SameTypes DEF PhonePairs
<1>3. CASE PhoneSyncs
  <2>1. peer["phone"] \in Nat
    BY DEF Types, FileTypes, Device
  <2>2. \A confirm \in BOOLEAN :
          [Idle EXCEPT !.at = "sync", !.confirm = confirm, !.hubKey = peer["phone"]] \in PhoneCall
    BY <2>1 DEF Idle, PhoneCall, PhoneOpens, None
  <2>3. \A confirm \in BOOLEAN :
          [Idle EXCEPT !.at = "sync", !.confirm = confirm, !.hubKey = peer["phone"]].at # "idle"
    BY DEF Idle
  <2> QED
    BY <2>2, <2>3, <1>1, <1>3, SameTypes DEF PhoneSyncs
<1>4. CASE PhoneGoesOn
  <2> DEFINE next == AfterGo[phone.at]
  <2>1. calls \in Call /\ phone.at \in PhoneOpens /\ NextOn(toPhone, calls) # "nothing"
    BY <1>4, <1>c DEF PhoneGoesOn, PhoneOpens
  <2>2. next.at \in Wait
    BY <2>1 DEF AfterGo, PhoneOpens, PhoneTalks, Wait
  <2>3. phone.mine \in Nat /\ phone.hubKey \in Nat
    BY DEF Types, PhoneTypes, PhoneCall
  <2>4. /\ Message(ThirdMessage, phone.mine, None) \in Carry(PhoneWord)
        /\ Message("kk", phone.mine, phone.hubKey) \in Carry(PhoneWord)
    BY <2>3, MessageTypes DEF ThirdMessage, None, PhoneWord
  <2>5. next.sends = << >> \/ \E m \in Carry(PhoneWord) : next.sends = <<m>>
    <3>1. /\ Plain("spake") \in Carry(PhoneWord) /\ Plain("one") \in Carry(PhoneWord)
          /\ Plain("hello") \in Carry(PhoneWord)
      BY <1>w DEF PhoneWord
    <3> QED
      BY <2>1, <2>4, <3>1 DEF AfterGo, PhoneOpens
  <2>6. PhoneTypes' /\ WireTypes'
    <3> HIDE DEF next
    <3> QED
      BY <2>1, <2>2, <2>5, <1>4, PhoneSendTypes DEF PhoneGoesOn, next
  <2> QED
    BY <2>6, <1>4, SameTypes DEF PhoneGoesOn, Types
<1>5. CASE PhoneIdentifies
  <2>1. calls \in Call /\ NextOn(toPhone, calls) # "nothing"
    BY <1>5, <1>c DEF PhoneIdentifies
  <2>2. Head(toPhone[calls]).mine \in Nat
    <3>1. Head(toPhone[calls]) \in Carry(HubWord)
      BY <2>1, NextIsHead DEF Types, WireTypes
    <3> QED
      BY <3>1 DEF Carry
  <2>3. PhoneTypes'
    BY <2>2, <1>5, PhoneMoveTypes DEF PhoneIdentifies, Types, PhoneTypes, Wait, PhoneTalks
  <2>4. Sent(toHub, calls, <<Plain("identity")>>) \in [Call -> Seq(Carry(PhoneWord))]
    BY <2>1, <1>w, QueueTypes DEF Types, WireTypes, PhoneWord
  <2>5. Taken(toPhone, calls) \in [Call -> Seq(Carry(HubWord))]
    BY <2>1, QueueTypes DEF Types, WireTypes
  <2> QED
    BY <2>3, <2>4, <2>5, <1>5, SameTypes DEF PhoneIdentifies, Types, WireTypes
<1>6. CASE PhoneHearsDone
  <2>1. calls \in Call /\ NextOn(toPhone, calls) # "nothing"
    BY <1>6, <1>c DEF PhoneHearsDone
  <2>2. PhoneTypes' /\ WireTypes'
    BY <2>1, <1>6, PhoneSendTypes DEF PhoneHearsDone, Wait, PhoneWorks
  <2> QED
    BY <2>2, <1>6, SameTypes DEF PhoneHearsDone, Types
<1>7. CASE PhoneHearsHello
  <2>1. PICK plan \in Plan :
          /\ phone.at = "hello" /\ NextOn(toPhone, calls) = plan
          /\ toPhone' = Taken(toPhone, calls)
          /\ IF plan = "exchange" \/ phone.confirm
             THEN /\ toHub' = Sent(toHub, calls, <<Plain(ConfirmedAnswer(plan)[1])>>)
                  /\ phone' = [phone EXCEPT !.at = ConfirmedAnswer(plan)[2], !.plan = plan]
                  /\ UNCHANGED <<outcome, calls>>
             ELSE /\ toHub' = Sent(toHub, calls, <<Plain("done")>>)
                  /\ PhoneEnds("reset_needed")
          /\ UNCHANGED <<hubFrame, cut, slot, code, fileVars, faults>>
    BY <1>7 DEF PhoneHearsHello
  <2>2. calls \in Call /\ NextOn(toPhone, calls) # "nothing"
    BY <2>1, <1>c DEF Plan
  <2>3. ConfirmedAnswer(plan)[1] \in PhoneWord /\ ConfirmedAnswer(plan)[2] \in Wait
    BY DEF ConfirmedAnswer, PhoneWord, Wait, PhoneTalks
  <2>4. WireTypes'
    <3>1. /\ Sent(toHub, calls, <<Plain("done")>>) \in [Call -> Seq(Carry(PhoneWord))]
          /\ Sent(toHub, calls, <<Plain(ConfirmedAnswer(plan)[1])>>)
               \in [Call -> Seq(Carry(PhoneWord))]
      BY <2>2, <2>3, <1>w, QueueTypes DEF Types, WireTypes, PhoneWord
    <3>2. Taken(toPhone, calls) \in [Call -> Seq(Carry(HubWord))]
      BY <2>2, QueueTypes DEF Types, WireTypes
    <3> QED
      BY <3>1, <3>2, <2>1 DEF Types, WireTypes
  <2>5. PhoneTypes'
    <3>1. CASE plan = "exchange" \/ phone.confirm
      <4>1. [phone EXCEPT !.at = ConfirmedAnswer(plan)[2], !.plan = plan] \in PhoneCall
        BY <2>3, PhoneMoveTypes
      <4>2. [phone EXCEPT !.at = ConfirmedAnswer(plan)[2], !.plan = plan].at # "idle"
        BY <2>3, PhoneMoveTypes
      <4> QED
        BY <3>1, <2>1, <4>1, <4>2 DEF Types, PhoneTypes
    <3>2. CASE ~(plan = "exchange" \/ phone.confirm)
      BY <3>2, <2>1, PhoneEndTypes DEF How
    <3> QED
      BY <3>1, <3>2
  <2> QED
    BY <2>1, <2>4, <2>5, SameTypes DEF Types
<1>8. CASE PhoneHearsReport
  <2>1. calls \in Call /\ NextOn(toPhone, calls) # "nothing"
    BY <1>8, <1>c DEF PhoneHearsReport
  <2>2. PhoneTypes' /\ WireTypes'
    BY <2>1, <1>8, PhoneSendTypes DEF PhoneHearsReport, Wait, PhoneTalks
  <2> QED
    BY <2>2, <1>8, SameTypes DEF PhoneHearsReport, Types
<1>9. CASE PhoneHearsLast
  <2>1. calls \in Call /\ NextOn(toPhone, calls) # "nothing"
    BY <1>9, <1>c DEF PhoneHearsLast
  <2>2. PhoneTypes' /\ WireTypes'
    BY <2>1, <1>9, PhoneSendTypes DEF PhoneHearsLast, Wait, PhoneWorks
  <2> QED
    BY <2>2, <1>9, SameTypes DEF PhoneHearsLast, Types
<1>10. CASE PhoneFinishes
  <2>1. PhoneTypes'
    BY <1>10, PhoneEndTypes DEF PhoneFinishes, How
  <2>2. FileTypes'
    BY <1>10 DEF PhoneFinishes, Record, Types, FileTypes, PhoneTypes, PhoneCall
  <2> QED
    BY <2>1, <2>2, <1>10, SameTypes DEF PhoneFinishes, Types
<1>11. CASE PhoneFails
  <2>1. PhoneTypes'
    BY <1>11, PhoneEndTypes DEF PhoneFails, How
  <2>2. calls \in Call
    BY <1>11, <1>c DEF PhoneFails, PhoneTalks, PhoneWorks
  <2>3. Sent(toHub, calls, <<Plain("error")>>) \in [Call -> Seq(Carry(PhoneWord))]
    BY <2>2, <1>w, QueueTypes DEF Types, WireTypes, PhoneWord
  <2>4. toPhone' \in [Call -> Seq(Carry(HubWord))]
    <3>1. NextOn(toPhone, calls) # "nothing" =>
            Taken(toPhone, calls) \in [Call -> Seq(Carry(HubWord))]
      BY <2>2, QueueTypes DEF Types, WireTypes
    <3> QED
      BY <3>1, <1>11 DEF PhoneFails, Types, WireTypes
  <2>5. WireTypes'
    BY <2>3, <2>4, <1>11 DEF PhoneFails, Types, WireTypes
  <2> QED
    BY <2>1, <2>5, <1>11, SameTypes DEF PhoneFails, Types
<1>12. CASE PhoneIsTold
  <2>1. PhoneTypes'
    BY <1>12, PhoneEndTypes DEF PhoneIsTold, How
  <2>2. calls \in Call /\ NextOn(toPhone, calls) # "nothing"
    BY <1>12, <1>c DEF PhoneIsTold, PhoneTalks, PhoneOpens
  <2>3. Sent(toHub, calls, <<Plain("error")>>) \in [Call -> Seq(Carry(PhoneWord))]
    BY <2>2, <1>w, QueueTypes DEF Types, WireTypes, PhoneWord
  <2>4. Taken(toPhone, calls) \in [Call -> Seq(Carry(HubWord))]
    BY <2>2, QueueTypes DEF Types, WireTypes
  <2>5. WireTypes'
    BY <2>3, <2>4, <1>12 DEF PhoneIsTold, Types, WireTypes
  <2> QED
    BY <2>1, <2>5, <1>12, SameTypes DEF PhoneIsTold, Types
<1>13. CASE PhoneIsCut
  <2>1. PhoneTypes'
    BY <1>13, PhoneEndTypes DEF PhoneIsCut, How
  <2> QED
    BY <2>1, <1>13, SameTypes DEF PhoneIsCut, Types
<1>14. CASE PhoneGivesUp
  <2>1. PhoneTypes'
    BY <1>14, PhoneEndTypes DEF PhoneGivesUp, How
  <2>2. <<"phone", phone.hubKey, None>> \in Device \X Nat \X Nat
    BY DEF Types, PhoneTypes, PhoneCall, Device, None
  <2>3. FileTypes'
    BY <2>2, <1>14 DEF PhoneGivesUp, Types, FileTypes
  <2> QED
    BY <2>1, <2>3, <1>14, SameTypes DEF PhoneGivesUp, Types
<1> QED
  BY <1>2, <1>3, <1>4, <1>5, <1>6, <1>7, <1>8, <1>9, <1>10, <1>11, <1>12, <1>13, <1>14
  DEF PhoneStep

(* The file keys of a task are typed. *)
LEMMA HubHolds ==
  ASSUME Types, NEW c \in Call
  PROVE  /\ hub[c].mine \in Nat /\ hub[c].phoneKey \in Nat
         /\ key["hub"] \in Nat /\ peer["hub"] \in Nat /\ peer["phone"] \in Nat
  BY DEF Types, HubTypes, HubTask, FileTypes, Device

(* Every step of the hub keeps the types. *)
LEMMA HubStepTypes ==
  ASSUME Types, NEW c \in Call, HubStep(c)
  PROVE  Types'
<1>w. \A word \in HubWord : Plain(word) \in Carry(HubWord)
  BY MessageTypes
<1>t. NextOn(toHub, c) # "nothing" => Taken(toHub, c) \in [Call -> Seq(Carry(PhoneWord))]
  BY QueueTypes DEF Types, WireTypes
<1>s. /\ \A m \in Carry(HubWord) : Sent(toPhone, c, <<m>>) \in [Call -> Seq(Carry(HubWord))]
      /\ \A m, n \in Carry(HubWord) :
           Sent(toPhone, c, <<m, n>>) \in [Call -> Seq(Carry(HubWord))]
  BY QueueTypes DEF Types, WireTypes
<1>f. UNCHANGED rest => PhoneTypes' /\ FileTypes' /\ UNCHANGED cut
  BY SameTypes DEF rest
<1>e. ASSUME NEW at \in HubOpens \cup HubTalks \cup HubWorks PROVE at # "none"
  BY <1>e DEF HubOpens, HubTalks, HubWorks
<1>a. ASSUME NextOn(toHub, c) # "nothing", UNCHANGED cut,
             NEW message \in HubWord, HubTells(c, Taken(toHub, c), message)
      PROVE  HubTypes' /\ WireTypes'
  BY <1>a, <1>t, HubTellTypes
<1>1. CASE HubOpensCall(c)
  <2>1. UNCHANGED rest /\ NextOn(toHub, c) # "nothing"
    BY <1>1 DEF HubOpensCall, Opening
  <2>2. CASE HubTells(c, Taken(toHub, c), "refusal")
    BY <2>1, <2>2, <1>a, <1>f DEF Types, HubWord
  <2>3. CASE /\ toHub' = Taken(toHub, c)
             /\ toPhone' = Sent(toPhone, c, <<Plain("go")>>)
             /\ hub' = [hub EXCEPT ![c] =
                  [NoTask EXCEPT !.at = IF NextOn(toHub, c) = "open_pair" THEN "spake" ELSE "kk",
                                 !.mine = key["hub"], !.phoneKey = peer["hub"]]]
             /\ UNCHANGED <<hubEnd, slot>>
    <3> DEFINE at == IF NextOn(toHub, c) = "open_pair" THEN "spake" ELSE "kk"
    <3>1. at \in HubOpens \cup HubTalks \cup HubWorks /\ at # "none"
      BY DEF HubOpens
    <3> HIDE DEF at
    <3> DEFINE task == [NoTask EXCEPT !.at = at, !.mine = key["hub"], !.phoneKey = peer["hub"]]
    <3>2. [hub EXCEPT ![c] = task] \in [Call -> HubTask]
      BY <3>1, HubMoveTypes, HubHolds
    <3>3. task.at # "none"
      BY <3>1 DEF NoTask
    <3>4. hub' = [hub EXCEPT ![c] = task]
      BY <2>3 DEF at
    <3> HIDE DEF task
    <3>5. HubTypes'
      BY <3>2, <3>3, <3>4, <2>3 DEF Types, HubTypes
    <3>6. WireTypes'
      BY <2>1, <2>3, <1>f, <1>t, <1>s, <1>w DEF Types, WireTypes, HubWord
    <3> QED
      BY <3>5, <3>6, <2>1, <1>f DEF Types
  <2> QED
    BY <1>1, <2>2, <2>3 DEF HubOpensCall
<1>2. CASE HubBeginsAttempt(c)
  <2>1. UNCHANGED rest /\ NextOn(toHub, c) # "nothing"
    BY <1>2 DEF HubBeginsAttempt
  <2>2. CASE HubTells(c, Taken(toHub, c), "refusal")
    BY <2>1, <2>2, <1>a, <1>f DEF Types, HubWord
  <2>3. CASE HubSends(c, <<Plain("go")>>, "one")
    <3>1. Plain("go") \in Carry(HubWord)
      BY <1>w DEF HubWord
    <3>2. HubTypes' /\ WireTypes'
      BY <3>1, <2>1, <2>3, <1>f, HubSendTypes DEF HubOpens
    <3> QED
      BY <3>2, <2>1, <1>f DEF Types
  <2> QED
    BY <1>2, <2>2, <2>3 DEF HubBeginsAttempt
<1>3. CASE HubAnswersOne(c)
  <2>1. UNCHANGED rest /\ NextOn(toHub, c) # "nothing" /\ HubSends(c, <<Plain("go")>>, "three")
    BY <1>3 DEF HubAnswersOne
  <2>2. Plain("go") \in Carry(HubWord)
    BY <1>w DEF HubWord
  <2>3. HubTypes' /\ WireTypes'
    BY <2>1, <2>2, <1>f, HubSendTypes DEF HubOpens
  <2> QED
    BY <2>1, <2>3, <1>f DEF Types
<1>4. CASE HubReadsThree(c)
  <2>1. UNCHANGED rest /\ NextOn(toHub, c) # "nothing"
    BY <1>4 DEF HubReadsThree
  <2>2. CASE HubTells(c, Taken(toHub, c), "refusal")
    BY <2>1, <2>2, <1>a, <1>f DEF Types, HubWord
  <2>3. CASE /\ toHub' = Taken(toHub, c)
             /\ toPhone' = Sent(toPhone, c, <<Plain("go")>>)
             /\ hub' = [hub EXCEPT ![c].at = "naming", ![c].phoneKey = Head(toHub[c]).mine]
             /\ UNCHANGED <<hubEnd, slot>>
    <3> DEFINE k == Head(toHub[c]).mine
    <3>1. k \in Nat
      <4>1. toHub \in [Call -> Seq(Carry(PhoneWord))]
        BY DEF Types, WireTypes
      <4>2. Head(toHub[c]) \in Carry(PhoneWord)
        BY ONLY <2>1, <4>1, c \in Call, NextIsHead
      <4> QED
        BY ONLY <4>2 DEF Carry
    <3> HIDE DEF k
    <3>2. [hub EXCEPT ![c].at = "naming", ![c].phoneKey = k] \in [Call -> HubTask]
      BY <3>1, HubMoveTypes DEF HubWorks
    <3>3. hub' = [hub EXCEPT ![c].at = "naming", ![c].phoneKey = k]
      BY <2>3 DEF k
    <3>4. \A d \in Call : hub'[d].at = "none" => d # c /\ hub'[d] = hub[d]
      BY <3>3 DEF Types, HubTypes, HubTask
    <3>5. HubTypes'
      BY <3>2, <3>3, <3>4, <2>3 DEF Types, HubTypes
    <3>6. WireTypes'
      BY <2>1, <2>3, <1>f, <1>t, <1>s, <1>w DEF Types, WireTypes, HubWord
    <3> QED
      BY <3>5, <3>6, <2>1, <1>f DEF Types
  <2> QED
    BY <1>4, <2>2, <2>3 DEF HubReadsThree
<1>5. CASE HubNames(c)
  <2>1. [hub EXCEPT ![c].at = "identity"] \in [Call -> HubTask]
    BY HubMoveTypes DEF HubTalks
  <2>2. HubTypes'
    BY <2>1, <1>5 DEF HubNames, Types, HubTypes
  <2>3. Message("identity", hub[c].mine, None) \in Carry(HubWord)
    BY HubHolds, MessageTypes DEF HubWord, None
  <2>4. WireTypes'
    BY <2>3, <1>5, <1>s DEF HubNames, rest, Types, WireTypes
  <2> QED
    BY <2>2, <2>4, <1>5, <1>f DEF HubNames, Types
<1>6. CASE HubHearsIdentity(c)
  <2>1. UNCHANGED rest /\ NextOn(toHub, c) # "nothing" /\ HubSends(c, << >>, "recording")
    BY <1>6 DEF HubHearsIdentity
  <2>2. HubTypes' /\ WireTypes'
    BY <2>1, <1>f, HubSendTypes DEF HubWorks
  <2> QED
    BY <2>1, <2>2, <1>f DEF Types
<1>7. CASE HubRecords(c)
  <2>1. HubTypes'
    BY <1>7, HubEndTypes DEF HubRecords, How
  <2>2. WireTypes'
    BY <1>7, <1>s, <1>w DEF HubRecords, Types, WireTypes, HubWord, Final
  <2>3. PhoneTypes'
    BY <1>7, SameTypes DEF HubRecords
  <2>4. FileTypes'
    BY <1>7, HubHolds DEF HubRecords, Types, FileTypes
  <2> QED
    BY <2>1, <2>2, <2>3, <2>4 DEF Types
<1>8. CASE HubAnswersSync(c)
  <2>1. UNCHANGED rest /\ NextOn(toHub, c) # "nothing"
    BY <1>8 DEF HubAnswersSync
  <2>2. CASE HubTells(c, Taken(toHub, c), "refusal")
    BY <2>1, <2>2, <1>a, <1>f DEF Types, HubWord
  <2>3. CASE /\ toHub' = Taken(toHub, c)
             /\ toPhone' = Sent(toPhone, c, <<Plain("go"), Plain("error")>>)
             /\ HubEnds(c, "busy", slot)
    <3>1. HubTypes'
      BY <2>3, HubEndTypes DEF How
    <3>2. Plain("go") \in Carry(HubWord) /\ Plain("error") \in Carry(HubWord)
      BY <1>w DEF HubWord
    <3>3. WireTypes'
      BY <2>1, <2>3, <3>2, <1>f, <1>t, <1>s DEF Types, WireTypes
    <3> QED
      BY <3>1, <3>3, <2>1, <1>f DEF Types
  <2>4. CASE HubSends(c, <<Plain("go")>>, "hello")
    <3>1. Plain("go") \in Carry(HubWord)
      BY <1>w DEF HubWord
    <3>2. HubTypes' /\ WireTypes'
      BY <3>1, <2>1, <2>4, <1>f, HubSendTypes DEF HubTalks
    <3> QED
      BY <3>2, <2>1, <1>f DEF Types
  <2> QED
    BY <1>8, <2>2, <2>3, <2>4 DEF HubAnswersSync
<1>9. CASE HubAnswersHello(c)
  <2>1. UNCHANGED rest /\ NextOn(toHub, c) # "nothing"
    BY <1>9 DEF HubAnswersHello
  <2>2. CASE HubTells(c, Taken(toHub, c), "error")
    BY <2>1, <2>2, <1>a, <1>f DEF Types, HubWord
  <2>3. ASSUME NEW plan \in Plan,
               toHub' = Taken(toHub, c), toPhone' = Sent(toPhone, c, <<Plain(plan)>>),
               hub' = [hub EXCEPT ![c].at = IF plan = "exchange" THEN "push" ELSE "answer",
                                  ![c].plan = plan],
               UNCHANGED <<hubEnd, slot>>
        PROVE  Types'
    <3> DEFINE at == IF plan = "exchange" THEN "push" ELSE "answer"
    <3>1. at \in HubOpens \cup HubTalks \cup HubWorks /\ at # "none"
      BY DEF HubTalks
    <3>2. hub' = [hub EXCEPT ![c].at = at, ![c].plan = plan]
      BY <2>3
    <3> HIDE DEF at
    <3>3. [hub EXCEPT ![c].at = at, ![c].plan = plan] \in [Call -> HubTask]
      BY <3>1, <2>3, HubMoveTypes
    <3>4. \A d \in Call : hub'[d].at = "none" => d # c /\ hub'[d] = hub[d]
      BY <3>1, <3>2 DEF Types, HubTypes, HubTask
    <3>5. HubTypes'
      BY <3>2, <3>3, <3>4, <2>3 DEF Types, HubTypes
    <3>6. WireTypes'
      BY <2>1, <2>3, <1>f, <1>t, <1>s, <1>w DEF Types, WireTypes, HubWord
    <3> QED
      BY <3>5, <3>6, <2>1, <1>f DEF Types
  <2> QED
    BY <1>9, <2>2, <2>3 DEF HubAnswersHello
<1>10. CASE HubTakesPush(c)
  <2>1. /\ UNCHANGED rest /\ NextOn(toHub, c) # "nothing"
        /\ \E at \in HubOpens \cup HubTalks \cup HubWorks : HubSends(c, <<Plain("report")>>, at)
    BY <1>10 DEF HubTakesPush, HubWorks
  <2>2. Plain("report") \in Carry(HubWord)
    BY <1>w DEF HubWord
  <2>3. HubTypes' /\ WireTypes'
    BY <2>1, <2>2, <1>f, HubSendTypes
  <2> QED
    BY <2>1, <2>3, <1>f DEF Types
<1>11. CASE HubHearsProceed(c)
  <2>1. UNCHANGED rest /\ NextOn(toHub, c) # "nothing" /\ HubSends(c, << >>, "sending")
    BY <1>11 DEF HubHearsProceed
  <2>2. HubTypes' /\ WireTypes'
    BY <2>1, <1>f, HubSendTypes DEF HubWorks
  <2> QED
    BY <2>1, <2>2, <1>f DEF Types
<1>12. CASE HubHearsStop(c)
  <2>1. HubTypes'
    BY <1>12, HubEndTypes DEF HubHearsStop, How
  <2>2. WireTypes'
    BY <1>12, <1>t, <1>f DEF HubHearsStop, Types, WireTypes
  <2> QED
    BY <2>1, <2>2, <1>12, <1>f DEF HubHearsStop, Types
<1>13. CASE HubFinishes(c)
  <2>1. HubTypes'
    BY <1>13, HubEndTypes DEF HubFinishes, How
  <2>2. Plain(IF hub[c].at = "replying" THEN "reply" ELSE "full") \in Carry(HubWord)
    BY <1>w DEF HubWord, Final
  <2>3. WireTypes'
    BY <2>2, <1>13, <1>s DEF HubFinishes, Types, WireTypes
  <2>4. PhoneTypes' /\ FileTypes'
    BY <1>13, SameTypes DEF HubFinishes
  <2> QED
    BY <2>1, <2>3, <2>4 DEF Types
<1>14. CASE HubFails(c)
  <2>1. UNCHANGED rest
    BY <1>14 DEF HubFails
  <2>2. CASE NextOn(toHub, c) # "nothing" /\ HubTells(c, Taken(toHub, c), "error")
    BY <2>1, <2>2, <1>a, <1>f DEF Types, HubWord
  <2>3. CASE HubTells(c, toHub, "error")
    BY <2>1, <2>3, <1>f, HubTellTypes DEF Types, WireTypes, HubWord
  <2> QED
    BY <1>14, <2>2, <2>3 DEF HubFails
<1>15. CASE HubIsTold(c)
  <2>1. UNCHANGED rest /\ NextOn(toHub, c) # "nothing" /\ HubTells(c, Taken(toHub, c), "error")
    BY <1>15 DEF HubIsTold
  <2> QED
    BY <2>1, <1>a, <1>f DEF Types, HubWord
<1>16. CASE HubIsCut(c)
  <2>1. HubTypes'
    BY <1>16, HubEndTypes DEF HubIsCut, How
  <2>2. WireTypes'
    BY <1>16, <1>f DEF HubIsCut, Types, WireTypes
  <2> QED
    BY <2>1, <2>2, <1>16, <1>f DEF HubIsCut, Types
<1>17. CASE HubGivesUp(c)
  <2>1. HubTypes'
    BY <1>17, HubEndTypes DEF HubGivesUp, How
  <2>2. PhoneTypes' /\ WireTypes'
    BY <1>17, SameTypes DEF HubGivesUp
  <2>3. <<"hub", hub[c].phoneKey, hub[c].mine>> \in Device \X Nat \X Nat
    BY HubHolds DEF Device
  <2>4. FileTypes'
    BY <2>3, <1>17 DEF HubGivesUp, Types, FileTypes
  <2> QED
    BY <2>1, <2>2, <2>4 DEF Types
<1> QED
  BY <1>1, <1>2, <1>3, <1>4, <1>5, <1>6, <1>7, <1>8, <1>9, <1>10, <1>11, <1>12, <1>13, <1>14,
     <1>15, <1>16, <1>17 DEF HubStep

(* What happens outside the calls. *)
Around ==
  \/ Code \/ OtherPhone
  \/ \E record \in late : LateRecord(record)
  \/ \E d \in Device : \/ Unpair(d)
                       \/ \E file \in {"key", "peers"} : Damage(d, file) \/ Remove(d, file)

(* It leaves the calls and the connections alone. *)
LEMMA AroundFrame ==
  ASSUME Around
  PROVE  UNCHANGED <<phoneFrame, hubFrame, wireVars>>
  BY DEF Around, Code, OtherPhone, LateRecord, Unpair, Damage, Remove, still

(* It keeps the types. *)
LEMMA AroundTypes ==
  ASSUME Types, Around
  PROVE  Types'
<1>1. PhoneTypes' /\ HubTypes' /\ WireTypes'
  BY AroundFrame, SameTypes
<1>2. CASE Code \/ OtherPhone
  <2>1. UNCHANGED fileVars
    BY <1>2 DEF Code, OtherPhone
  <2> QED
    BY <2>1, <1>1, SameTypes DEF Types
<1>3. CASE \E record \in late : LateRecord(record)
  <2>1. PICK record \in late : LateRecord(record)
    BY <1>3
  <2>2. record[1] \in Device /\ record[2] \in Nat /\ record[3] \in Nat
    BY DEF Types, FileTypes
  <2>3. FileTypes'
    BY <2>1, <2>2 DEF LateRecord, Record, Types, FileTypes
  <2> QED
    BY <2>3, <1>1 DEF Types
<1>4. CASE \E d \in Device : \/ Unpair(d)
                             \/ \E file \in {"key", "peers"} : Damage(d, file) \/ Remove(d, file)
  <2>t. FileTypes
    BY DEF Types
  <2>1. ASSUME NEW d \in Device, Unpair(d) PROVE FileTypes'
    BY <2>1, <2>t DEF Unpair, FileTypes, None
  <2>2. ASSUME NEW d \in Device, NEW file, Damage(d, file) PROVE FileTypes'
    BY <2>2, <2>t DEF Damage, FileTypes
  <2>3. ASSUME NEW d \in Device, NEW file, Remove(d, file) PROVE FileTypes'
    <3>1. key' \in [Device -> Nat]
      BY <2>3, <2>t DEF Remove, FileTypes
    <3>2. peer' \in [Device -> Nat]
      BY <2>3, <2>t DEF Remove, FileTypes, None
    <3> QED
      BY <3>1, <3>2, <2>3, <2>t DEF Remove, FileTypes
  <2>4. FileTypes'
    BY <1>4, <2>1, <2>2, <2>3
  <2> QED
    BY <2>4, <1>1 DEF Types
<1> QED
  BY <1>2, <1>3, <1>4 DEF Around

(* A broken connection keeps the types. *)
LEMMA CutTypes ==
  ASSUME Types, NEW c \in Call, Cut(c)
  PROVE  Types'
<1>1. PICK n \in 0..Len(toHub[c]), m \in 0..Len(toPhone[c]) :
        /\ toHub' = [toHub EXCEPT ![c] = SubSeq(@, 1, n)]
        /\ toPhone' = [toPhone EXCEPT ![c] = SubSeq(@, 1, m)]
  BY DEF Cut
<1>2. toHub \in [Call -> Seq(Carry(PhoneWord))] /\ toPhone \in [Call -> Seq(Carry(HubWord))]
  BY DEF Types, WireTypes
<1>3. toHub' \in [Call -> Seq(Carry(PhoneWord))]
  BY <1>1, <1>2, KeepFirst
<1>4. toPhone' \in [Call -> Seq(Carry(HubWord))]
  BY <1>1, <1>2, KeepFirst
<1>5. cut' \subseteq Call
  BY DEF Cut, Types, WireTypes
<1>6. PhoneTypes' /\ HubTypes' /\ FileTypes'
  BY SameTypes DEF Cut, still
<1> QED
  BY <1>3, <1>4, <1>5, <1>6 DEF Types, WireTypes

(* A step is one of these. *)
LEMMA StepKinds ==
  ASSUME Next
  PROVE  \/ PhoneStep \/ Around
         \/ \E c \in Call : HubStep(c) \/ Cut(c)
  BY DEF Next, Around

(* Every step keeps the types. *)
LEMMA TypesStep ==
  ASSUME Types, Unopened, Next
  PROVE  Types'
  BY StepKinds, PhoneStepTypes, HubStepTypes, CutTypes, AroundTypes

-----------------------------------------------------------------------------
(* What does not concern the phone's call.                                 *)

(* A reader's view of a queue: how many messages, and which. *)
SameQueue(q, r) == Len(q) = Len(r) /\ \A i \in 1..Len(q) : q[i] = r[i]

(* Where the calls and the connections are left alone, nothing changes     *)
(* between the two sides.                                                  *)
LEMMA AroundKeeps ==
  ASSUME IInv, UNCHANGED <<phoneFrame, hubFrame, wireVars>>
  PROVE  Fresh' /\ Unopened' /\ PhoneFits' /\ HubFits' /\ Lockstep' /\ Ends' /\ Tidings' /\ Reason'
<1>1. /\ phone' = phone /\ outcome' = outcome /\ calls' = calls
      /\ hub' = hub /\ hubEnd' = hubEnd
      /\ toHub' = toHub /\ toPhone' = toPhone /\ cut' = cut
  BY DEF phoneFrame, hubFrame, wireVars
<1>2. Fresh' /\ Unopened'
  BY <1>1 DEF IInv, Fresh, Unopened
<1>3. PhoneFits'
  BY <1>1 DEF IInv, PhoneFits, PhoneLives, PhoneExpects
<1>4. HubFits'
  <2>1. \A c : HubExpects(c)' = HubExpects(c)
    BY <1>1 DEF HubExpects
  <2> QED
    BY <2>1, <1>1 DEF IInv, HubFits, TaskFits, HubLives
<1>5. Lockstep'
  <2>1. PairingTurn => PairingTurn'
    BY <1>1 DEF PairingTurn, Turn, Asks, Tells, TellsTwice, Quiet
  <2>2. SyncTurn => SyncTurn'
    BY <1>1 DEF SyncTurn, Turn, Asks, Tells, Quiet
  <2>3. Lockstep
    BY DEF IInv
  <2> QED
    BY <2>1, <2>2, <2>3, <1>1 DEF Lockstep, PhoneLives, HubLives
<1>6. Ends'
  BY <1>1 DEF IInv, Ends, HubLives
<1>8. Tidings'
  BY <1>1 DEF IInv, Tidings, PhoneLives
<1>7. Reason'
  BY <1>1 DEF IInv, Reason, PhoneLives
<1> QED
  BY <1>2, <1>3, <1>4, <1>5, <1>6, <1>7, <1>8

(* A record the phone makes is of a hub that has recorded the phone. *)
LEMMA AroundKeys ==
  ASSUME IInv, Around
  PROVE  Keys'
<1>1. /\ phone' = phone /\ calls' = calls /\ hub' = hub
      /\ toHub' = toHub /\ toPhone' = toPhone
  BY AroundFrame DEF phoneFrame, hubFrame, wireVars
<1>2. recorded \subseteq recorded'
  BY DEF Around, Code, OtherPhone, LateRecord, Unpair, Damage, Remove, still, fileVars
<1>3. late' \subseteq late
  BY DEF Around, Code, OtherPhone, LateRecord, Unpair, Damage, Remove, still, fileVars
<1>4. peer'["phone"] # None => peer'["phone"] \in recorded'
  <2>p. peer["phone"] # None => peer["phone"] \in recorded
    BY DEF IInv, Keys
  <2>t. peer \in [Device -> Nat] /\ late \subseteq Device \X Nat \X Nat
    BY DEF IInv, Types, FileTypes
  <2>1. CASE peer'["phone"] = peer["phone"]
    BY <2>1, <2>p, <1>2
  <2>2. CASE \E record \in late : LateRecord(record)
    <3>1. PICK record \in late : LateRecord(record)
      BY <2>2
    <3>2. record[1] = "phone" => record[2] \in recorded
      BY DEF IInv, Keys
    <3>3. peer' = Record(record[1], record[2])
      BY <3>1 DEF LateRecord
    <3>4. record[1] \in Device
      BY <2>t
    <3> QED
      BY <3>2, <3>3, <3>4, <2>p, <2>t, <1>2 DEF Record, Device
  <2>3. CASE Code \/ OtherPhone
    BY <2>3, <2>1 DEF Code, OtherPhone, fileVars
  <2>4. CASE \E d \in Device : \/ Unpair(d)
                               \/ \E file \in {"key", "peers"} : Damage(d, file) \/ Remove(d, file)
    <3>1. peer'["phone"] \in {peer["phone"], None}
      BY <2>4, <2>t DEF Unpair, Damage, Remove, Device
    <3> QED
      BY <3>1, <2>1
  <2> QED
    BY <2>2, <2>3, <2>4 DEF Around
<1>5. \A record \in late' : record[1] = "phone" => record[2] \in recorded'
  BY <1>2, <1>3 DEF IInv, Keys
<1> QED
  BY <1>1, <1>2, <1>4, <1>5 DEF IInv, Keys, PhoneLives, HubLives

-----------------------------------------------------------------------------
(* Two sides in lockstep, after a step.                                    *)

(* Nothing on its way says that the hub's task has ended, and an identity  *)
(* is of the hub that now waits for the phone's.                           *)
NoTidings ==
  /\ phone.at \notin PhoneWorks
  /\ phone.at = "done" => hub[calls].at \in {"identity", "recording"}
  /\ \A i \in 1..Len(toPhone[calls]) : toPhone[calls][i].is = "identity" =>
       hub[calls].at = "identity" /\ Len(toHub[calls]) = 0
  /\ phone.at = "kk" => Len(toPhone[calls]) < 2
  /\ \A i \in 1..Len(toPhone[calls]) : toPhone[calls][i].is \notin Final

Fits == PhoneFits /\ TaskFits(calls) /\ NoTidings

(* What is on its way in a call that pairs is what its readers expect. *)
LEMMA PairingFits ==
  ASSUME PairingTurn'
  PROVE  Fits'
<1> USE DEF Turn, Asks, Tells, TellsTwice, Quiet, Fits, PhoneFits, TaskFits, NoTidings, PhoneLives, HubLives
<1> USE DEF PhoneExpects, HubExpects, PhoneOpens, PhoneTalks, PhoneWorks, HubOpens, HubTalks, HubWorks,
            Opening, Final, Plan, PushFirst
<1>1. ASSUME Turn("pair", "opening")', Asks("open_pair")'
      PROVE  Fits'
  BY <1>1
<1>2. ASSUME Turn("pair", "spake")', Tells("go")'
      PROVE  Fits'
  BY <1>2
<1>3. ASSUME Turn("spake", "spake")', Asks("spake")'
      PROVE  Fits'
  BY <1>3
<1>4. ASSUME Turn("spake", "one")', Tells("go")'
      PROVE  Fits'
  BY <1>4
<1>5. ASSUME Turn("one", "one")', Asks("one")'
      PROVE  Fits'
  BY <1>5
<1>6. ASSUME Turn("one", "three")', Tells("go")'
      PROVE  Fits'
  BY <1>6
<1>7. ASSUME Turn("three", "three")', Asks("three")'
      PROVE  Fits'
  BY <1>7
<1>8. ASSUME Turn("three", "three")', Asks("wrong")'
      PROVE  Fits'
  BY <1>8
<1>9. ASSUME Turn("three", "naming")', Tells("go")'
      PROVE  Fits'
  BY <1>9
<1>10. ASSUME Turn("three", "identity")', TellsTwice("go", "identity")'
      PROVE  Fits'
  BY <1>10
<1>11. ASSUME Turn("identity", "naming")', Quiet'
      PROVE  Fits'
  BY <1>11
<1>12. ASSUME Turn("identity", "identity")', Tells("identity")'
      PROVE  Fits'
  BY <1>12
<1>13. ASSUME Turn("done", "identity")', Asks("identity")'
      PROVE  Fits'
  BY <1>13
<1>14. ASSUME Turn("done", "recording")', Quiet'
      PROVE  Fits'
  BY <1>14
<1> HIDE DEF Turn, Asks, Tells, TellsTwice, Quiet, Fits, Plan, PushFirst
<1> QED
  BY <1>1, <1>2, <1>3, <1>4, <1>5, <1>6, <1>7, <1>8, <1>9, <1>10, <1>11, <1>12, <1>13, <1>14 DEF PairingTurn

(* So it is in a call that syncs. *)
LEMMA SyncFits ==
  ASSUME SyncTurn'
  PROVE  Fits'
<1> USE DEF Turn, Asks, Tells, TellsTwice, Quiet, Fits, PhoneFits, TaskFits, NoTidings, PhoneLives, HubLives
<1> USE DEF PhoneExpects, HubExpects, PhoneOpens, PhoneTalks, PhoneWorks, HubOpens, HubTalks, HubWorks,
            Opening, Final, Plan, PushFirst
<1>1. ASSUME Turn("sync", "opening")', Asks("open_sync")'
      PROVE  Fits'
  BY <1>1
<1>2. ASSUME Turn("sync", "kk")', Tells("go")'
      PROVE  Fits'
  BY <1>2
<1>3. ASSUME Turn("kk", "kk")', Asks("kk")'
      PROVE  Fits'
  BY <1>3
<1>4. ASSUME Turn("kk", "hello")', Tells("go")'
      PROVE  Fits'
  BY <1>4
<1>5. ASSUME Turn("hello", "hello")', Asks("hello")'
      PROVE  Fits'
  BY <1>5
<1>6. ASSUME Turn("hello", "push")', Tells("exchange")'
      PROVE  Fits'
  BY <1>6
<1>7. ASSUME Turn("hello", "answer")', (hub[calls].plan \in Plan \ {"exchange"})', Tells(hub[calls].plan)'
      PROVE  Fits'
  BY <1>7
<1>8. ASSUME Turn("report", "push")', Asks("push")', (phone.plan = "exchange")'
      PROVE  Fits'
  BY <1>8
<1>9. ASSUME Turn("report", "answer")', Asks("push")', (phone.plan # "exchange")', (hub[calls].plan \in PushFirst)'
      PROVE  Fits'
  BY <1>9
<1>10. ASSUME Turn("report", "replying")', Tells("report")', (phone.plan = "exchange")'
      PROVE  Fits'
  BY <1>10
<1>11. ASSUME Turn("report", "sending")', Tells("report")', (phone.plan # "exchange")'
      PROVE  Fits'
  BY <1>11
<1>12. ASSUME Turn("reply", "replying")', Quiet'
      PROVE  Fits'
  BY <1>12
<1>13. ASSUME Turn("full", "answer")', Asks("proceed")', (hub[calls].plan \notin PushFirst)'
      PROVE  Fits'
  BY <1>13
<1>14. ASSUME Turn("full", "sending")', Quiet'
      PROVE  Fits'
  BY <1>14
<1> HIDE DEF Turn, Asks, Tells, TellsTwice, Quiet, Fits, Plan, PushFirst
<1> QED
  BY <1>1, <1>2, <1>3, <1>4, <1>5, <1>6, <1>7, <1>8, <1>9, <1>10, <1>11, <1>12, <1>13, <1>14 DEF SyncTurn

(* Neither side has ended, nor says so. *)
LEMMA LockstepGoesOn ==
  ASSUME PairingTurn' \/ SyncTurn', outcome'[calls'] = "none", hubEnd'[calls'] = "none"
  PROVE  PhoneFits' /\ TaskFits(calls)' /\ Tidings' /\ Reason'
<1>1. Fits'
  BY PairingFits, SyncFits
<1>2. Tidings'
  BY <1>1 DEF Fits, NoTidings, Tidings
<1>3. Reason'
  BY DEF Reason
<1> QED
  BY ONLY <1>1, <1>2, <1>3 DEF Fits

(* What the phone's state says of the hub's. *)
LEMMA PhoneSees ==
  ASSUME PairingTurn \/ SyncTurn
  PROVE  /\ phone.at \notin PhoneWorks
         /\ phone.at = "pair" =>
              \/ hub[calls].at = "opening" /\ Asks("open_pair")
              \/ hub[calls].at = "spake" /\ Tells("go")
         /\ phone.at = "spake" =>
              \/ hub[calls].at = "spake" /\ Asks("spake")
              \/ hub[calls].at = "one" /\ Tells("go")
         /\ phone.at = "one" =>
              \/ hub[calls].at = "one" /\ Asks("one")
              \/ hub[calls].at = "three" /\ Tells("go")
         /\ phone.at = "three" =>
              \/ hub[calls].at = "three" /\ Asks("three")
              \/ hub[calls].at = "three" /\ Asks("wrong")
              \/ hub[calls].at = "naming" /\ Tells("go")
              \/ hub[calls].at = "identity" /\ TellsTwice("go", "identity")
         /\ phone.at = "identity" =>
              \/ hub[calls].at = "naming" /\ Quiet
              \/ hub[calls].at = "identity" /\ Tells("identity")
         /\ phone.at = "done" =>
              \/ hub[calls].at = "identity" /\ Asks("identity")
              \/ hub[calls].at = "recording" /\ Quiet
         /\ phone.at = "sync" =>
              \/ hub[calls].at = "opening" /\ Asks("open_sync")
              \/ hub[calls].at = "kk" /\ Tells("go")
         /\ phone.at = "kk" =>
              \/ hub[calls].at = "kk" /\ Asks("kk")
              \/ hub[calls].at = "hello" /\ Tells("go")
         /\ phone.at = "hello" =>
              \/ hub[calls].at = "hello" /\ Asks("hello")
              \/ hub[calls].at = "push" /\ Tells("exchange")
              \/ hub[calls].at = "answer" /\ hub[calls].plan \in Plan \ {"exchange"} /\ Tells(hub[calls].plan)
         /\ phone.at = "report" =>
              \/ hub[calls].at = "push" /\ Asks("push") /\ phone.plan = "exchange"
              \/ hub[calls].at = "answer" /\ Asks("push") /\ phone.plan # "exchange" /\ hub[calls].plan \in PushFirst
              \/ hub[calls].at = "replying" /\ Tells("report") /\ phone.plan = "exchange"
              \/ hub[calls].at = "sending" /\ Tells("report") /\ phone.plan # "exchange"
         /\ phone.at = "reply" => hub[calls].at = "replying" /\ Quiet
         /\ phone.at = "full" =>
              \/ hub[calls].at = "answer" /\ Asks("proceed") /\ hub[calls].plan \notin PushFirst
              \/ hub[calls].at = "sending" /\ Quiet
  BY DEF PairingTurn, SyncTurn, Turn, PhoneWorks

(* What the hub's state says of the phone's. *)
LEMMA HubSees ==
  ASSUME PairingTurn \/ SyncTurn
  PROVE  /\ hub[calls].at # "none"
         /\ hub[calls].at = "opening" =>
              \/ phone.at = "pair" /\ Asks("open_pair")
              \/ phone.at = "sync" /\ Asks("open_sync")
         /\ hub[calls].at = "spake" =>
              \/ phone.at = "pair" /\ Tells("go")
              \/ phone.at = "spake" /\ Asks("spake")
         /\ hub[calls].at = "one" =>
              \/ phone.at = "spake" /\ Tells("go")
              \/ phone.at = "one" /\ Asks("one")
         /\ hub[calls].at = "three" =>
              \/ phone.at = "one" /\ Tells("go")
              \/ phone.at = "three" /\ Asks("three")
              \/ phone.at = "three" /\ Asks("wrong")
         /\ hub[calls].at = "naming" =>
              \/ phone.at = "three" /\ Tells("go")
              \/ phone.at = "identity" /\ Quiet
         /\ hub[calls].at = "identity" =>
              \/ phone.at = "three" /\ TellsTwice("go", "identity")
              \/ phone.at = "identity" /\ Tells("identity")
              \/ phone.at = "done" /\ Asks("identity")
         /\ hub[calls].at = "recording" => phone.at = "done" /\ Quiet
         /\ hub[calls].at = "kk" =>
              \/ phone.at = "sync" /\ Tells("go")
              \/ phone.at = "kk" /\ Asks("kk")
         /\ hub[calls].at = "hello" =>
              \/ phone.at = "kk" /\ Tells("go")
              \/ phone.at = "hello" /\ Asks("hello")
         /\ hub[calls].at = "push" =>
              \/ phone.at = "hello" /\ Tells("exchange")
              \/ phone.at = "report" /\ Asks("push") /\ phone.plan = "exchange"
         /\ hub[calls].at = "answer" =>
              \/ phone.at = "hello" /\ hub[calls].plan \in Plan \ {"exchange"} /\ Tells(hub[calls].plan)
              \/ phone.at = "report" /\ Asks("push") /\ phone.plan # "exchange" /\ hub[calls].plan \in PushFirst
              \/ phone.at = "full" /\ Asks("proceed") /\ hub[calls].plan \notin PushFirst
         /\ hub[calls].at = "replying" =>
              \/ phone.at = "report" /\ Tells("report") /\ phone.plan = "exchange"
              \/ phone.at = "reply" /\ Quiet
         /\ hub[calls].at = "sending" =>
              \/ phone.at = "report" /\ Tells("report") /\ phone.plan # "exchange"
              \/ phone.at = "full" /\ Quiet
  BY DEF PairingTurn, SyncTurn, Turn

-----------------------------------------------------------------------------
(* The hub's steps.                                                        *)

(* A step of the task of connection c is about that connection alone. *)
OfConnection(c) ==
  /\ phone' = phone /\ outcome' = outcome /\ calls' = calls /\ cut' = cut
  /\ \A e \in Call : e # c => /\ hub'[e] = hub[e] /\ hubEnd'[e] = hubEnd[e]
                              /\ toHub'[e] = toHub[e] /\ toPhone'[e] = toPhone[e]
  /\ c \in cut => toPhone'[c] = toPhone[c]
  /\ recorded \subseteq recorded' /\ peer'["phone"] = peer["phone"]
  /\ \A record \in late' : record[1] = "phone" => record \in late

(* The task goes on, with nothing left to read... *)
Proceeds(c) ==
  /\ hub'[c].at # "none" /\ hubEnd'[c] = hubEnd[c] /\ Len(toHub'[c]) = 0
  /\ hub[c].at \in {"identity", "recording"} =>
       /\ hub[c].at = "identity" /\ Len(toHub[c]) # 0
       /\ hub'[c].at = "recording" /\ hub'[c].mine = hub[c].mine

(* ...or ends. *)
Stops(c) == hub'[c].at = "none" /\ hubEnd'[c] # "none"

Moves(c) == HubLives(c) /\ OfConnection(c) /\ (Proceeds(c) \/ Stops(c))

(* The queues of the other connections stay as they are. *)
LEMMA OtherQueues ==
  ASSUME Types, NEW c \in Call
  PROVE  /\ NextOn(toHub, c) # "nothing" =>
              /\ \A e \in Call : e # c => Taken(toHub, c)[e] = toHub[e]
              /\ Len(toHub[c]) # 0 /\ Len(Taken(toHub, c)[c]) = Len(toHub[c]) - 1
         /\ \A m \in Carry(HubWord) :
              /\ \A e \in Call : e # c => Sent(toPhone, c, <<m>>)[e] = toPhone[e]
              /\ c \in cut => Sent(toPhone, c, <<m>>)[c] = toPhone[c]
         /\ \A m, n \in Carry(HubWord) :
              /\ \A e \in Call : e # c => Sent(toPhone, c, <<m, n>>)[e] = toPhone[e]
              /\ c \in cut => Sent(toPhone, c, <<m, n>>)[c] = toPhone[c]
         /\ Sent(toPhone, c, << >>) = toPhone
<1>1. toHub \in [Call -> Seq(Carry(PhoneWord))] /\ toPhone \in [Call -> Seq(Carry(HubWord))]
  BY DEF Types, WireTypes
<1>2. NextOn(toHub, c) # "nothing" => Len(toHub[c]) # 0
  BY <1>1, NextIsHead
<1>3. Len(toHub[c]) # 0 => /\ \A e \in Call : e # c => Taken(toHub, c)[e] = toHub[e]
                           /\ Len(Taken(toHub, c)[c]) = Len(toHub[c]) - 1
  BY <1>1, TakeFrom
<1>s. ASSUME NEW w
      PROVE  /\ \A e \in Call : e # c => Sent(toPhone, c, w)[e] = toPhone[e]
             /\ c \in cut => Sent(toPhone, c, w)[c] = toPhone[c]
  BY ONLY <1>1, c \in Call DEF Sent
<1>4. ASSUME NEW m \in Carry(HubWord)
      PROVE  /\ \A e \in Call : e # c => Sent(toPhone, c, <<m>>)[e] = toPhone[e]
             /\ c \in cut => Sent(toPhone, c, <<m>>)[c] = toPhone[c]
  BY ONLY <1>s
<1>5. ASSUME NEW m \in Carry(HubWord), NEW n \in Carry(HubWord)
      PROVE  /\ \A e \in Call : e # c => Sent(toPhone, c, <<m, n>>)[e] = toPhone[e]
             /\ c \in cut => Sent(toPhone, c, <<m, n>>)[c] = toPhone[c]
  BY ONLY <1>s
<1>6. Sent(toPhone, c, << >>) = toPhone
  BY <1>1, SendNone
<1> QED
  BY <1>2, <1>3, <1>4, <1>5, <1>6

(* What a task sends is something a hub says. *)
LEMMA HubSays ==
  /\ \A word \in HubWord : Plain(word) \in Carry(HubWord)
  /\ \A plan \in Plan : Plain(plan) \in Carry(HubWord)
  /\ Plain("go") \in Carry(HubWord) /\ Plain("refusal") \in Carry(HubWord)
  /\ Plain("error") \in Carry(HubWord) /\ Plain("report") \in Carry(HubWord)
  /\ Plain("done") \in Carry(HubWord) /\ Plain("reply") \in Carry(HubWord)
  /\ Plain("full") \in Carry(HubWord)
<1>1. \A word \in HubWord : Plain(word) \in Carry(HubWord)
  BY MessageTypes
<1> QED
  BY <1>1 DEF HubWord, Final

(* The end of a task, whatever it says. *)
LEMMA StopsAs ==
  ASSUME Types, NEW c \in Call, NEW how \in How \ {"none"}, NEW taken, HubEnds(c, how, taken)
  PROVE  /\ Stops(c)
         /\ hubEnd'[c] = how
         /\ \A e \in Call : e # c => hub'[e] = hub[e] /\ hubEnd'[e] = hubEnd[e]
  BY DEF HubEnds, Stops, NoTask, Types, HubTypes

(* A task that tells why it ends. *)
LEMMA TellsMoves ==
  ASSUME Types, NEW c \in Call, HubLives(c), UNCHANGED rest, NEW message \in {"refusal", "error"},
         NEW queue, queue = toHub \/ (NextOn(toHub, c) # "nothing" /\ queue = Taken(toHub, c)),
         HubTells(c, queue, message)
  PROVE  Moves(c) /\ hubEnd'[c] = "told"
<1>1. Plain(message) \in Carry(HubWord)
  BY HubSays
<1>2. /\ \A e \in Call : e # c => toHub'[e] = toHub[e] /\ toPhone'[e] = toPhone[e]
      /\ c \in cut => toPhone'[c] = toPhone[c]
  BY <1>1, OtherQueues DEF HubTells
<1>3. /\ Stops(c) /\ hubEnd'[c] = "told"
      /\ \A e \in Call : e # c => hub'[e] = hub[e] /\ hubEnd'[e] = hubEnd[e]
  BY StopsAs DEF HubTells, How
<1> QED
  BY <1>2, <1>3 DEF Moves, OfConnection, rest, phoneFrame, fileVars

(* A task that reads what it waits for and goes on. *)
LEMMA SendsMoves ==
  ASSUME Types, NEW c \in Call, TaskFits(c), HubLives(c), UNCHANGED rest,
         NextOn(toHub, c) # "nothing", NEW at, at # "none",
         NEW messages, messages = << >> \/ \E m \in Carry(HubWord) : messages = <<m>>,
         hub[c].at \in {"identity", "recording"} => hub[c].at = "identity" /\ at = "recording",
         HubSends(c, messages, at)
  PROVE  Moves(c)
<1>1. /\ \A e \in Call : e # c => toHub'[e] = toHub[e] /\ toPhone'[e] = toPhone[e]
      /\ c \in cut => toPhone'[c] = toPhone[c]
  BY OtherQueues DEF HubSends
<1>2. Len(toHub[c]) # 0 /\ Len(toHub'[c]) = 0
  <2>1. Len(toHub[c]) \in Nat
    BY NextIsHead DEF Types, WireTypes
  <2> QED
    BY <2>1, OtherQueues DEF HubSends, TaskFits
<1>3. /\ hub'[c].at = at /\ hub'[c].mine = hub[c].mine /\ hubEnd'[c] = hubEnd[c]
      /\ \A e \in Call : e # c => hub'[e] = hub[e] /\ hubEnd'[e] = hubEnd[e]
  BY DEF HubSends, Types, HubTypes, HubTask
<1>4. Proceeds(c)
  BY <1>2, <1>3 DEF Proceeds
<1> QED
  BY <1>1, <1>3, <1>4 DEF Moves, OfConnection, rest, phoneFrame, fileVars

(* Every step of a task is one of the two. *)
LEMMA HubMoves ==
  ASSUME Types, HubFits, NEW c \in Call, HubStep(c)
  PROVE  Moves(c)
<1>f. TaskFits(c)
  BY DEF HubFits
<1>s. Plain("go") \in Carry(HubWord) /\ Plain("report") \in Carry(HubWord)
  BY HubSays
<1>h. /\ \A e \in Call : hub[e] \in HubTask
      /\ hub \in [Call -> HubTask]
  BY DEF Types, HubTypes
<1>1. CASE HubOpensCall(c)
  <2>1. UNCHANGED rest /\ NextOn(toHub, c) # "nothing" /\ HubLives(c) /\ hub[c].at = "opening"
    BY <1>1 DEF HubOpensCall, Opening, HubLives
  <2>2. CASE HubTells(c, Taken(toHub, c), "refusal")
    BY <2>1, <2>2, TellsMoves
  <2>3. CASE /\ toHub' = Taken(toHub, c)
             /\ toPhone' = Sent(toPhone, c, <<Plain("go")>>)
             /\ hub' = [hub EXCEPT ![c] =
                  [NoTask EXCEPT !.at = IF NextOn(toHub, c) = "open_pair" THEN "spake" ELSE "kk",
                                 !.mine = key["hub"], !.phoneKey = peer["hub"]]]
             /\ UNCHANGED <<hubEnd, slot>>
    <3>1. /\ \A e \in Call : e # c => toHub'[e] = toHub[e] /\ toPhone'[e] = toPhone[e]
          /\ c \in cut => toPhone'[c] = toPhone[c]
      BY <2>1, <2>3, <1>s, OtherQueues
    <3>2. Len(toHub'[c]) = 0
      <4>1. Len(toHub[c]) \in Nat
        BY NextIsHead DEF Types, WireTypes
      <4> QED
        BY <4>1, <2>1, <2>3, <1>f, OtherQueues DEF TaskFits
    <3>3. hub'[c].at # "none" /\ \A e \in Call : e # c => hub'[e] = hub[e]
      BY <2>3, <1>h DEF NoTask
    <3>4. Proceeds(c)
      BY <3>2, <3>3, <2>1, <2>3 DEF Proceeds
    <3> QED
      BY <3>1, <3>3, <3>4, <2>1, <2>3 DEF Moves, OfConnection, rest, phoneFrame, fileVars
  <2> QED
    BY <1>1, <2>2, <2>3 DEF HubOpensCall
<1>2. CASE HubBeginsAttempt(c)
  <2>1. UNCHANGED rest /\ NextOn(toHub, c) # "nothing" /\ HubLives(c) /\ hub[c].at = "spake"
    BY <1>2 DEF HubBeginsAttempt, HubLives
  <2>2. CASE HubTells(c, Taken(toHub, c), "refusal")
    BY <2>1, <2>2, TellsMoves
  <2>3. CASE HubSends(c, <<Plain("go")>>, "one")
    BY <2>1, <2>3, <1>f, <1>s, SendsMoves
  <2> QED
    BY <1>2, <2>2, <2>3 DEF HubBeginsAttempt
<1>3. CASE HubAnswersOne(c)
  <2>1. /\ UNCHANGED rest /\ NextOn(toHub, c) # "nothing" /\ HubLives(c) /\ hub[c].at = "one"
        /\ HubSends(c, <<Plain("go")>>, "three")
    BY <1>3 DEF HubAnswersOne, HubLives
  <2> QED
    BY <2>1, <1>f, <1>s, SendsMoves
<1>4. CASE HubReadsThree(c)
  <2>1. UNCHANGED rest /\ NextOn(toHub, c) # "nothing" /\ HubLives(c) /\ hub[c].at = "three"
    BY <1>4 DEF HubReadsThree, HubLives
  <2>2. CASE HubTells(c, Taken(toHub, c), "refusal")
    BY <2>1, <2>2, TellsMoves
  <2>3. CASE /\ toHub' = Taken(toHub, c)
             /\ toPhone' = Sent(toPhone, c, <<Plain("go")>>)
             /\ hub' = [hub EXCEPT ![c].at = "naming", ![c].phoneKey = Head(toHub[c]).mine]
             /\ UNCHANGED <<hubEnd, slot>>
    <3>1. /\ \A e \in Call : e # c => toHub'[e] = toHub[e] /\ toPhone'[e] = toPhone[e]
          /\ c \in cut => toPhone'[c] = toPhone[c]
      BY <2>1, <2>3, <1>s, OtherQueues
    <3>2. Len(toHub'[c]) = 0
      <4>1. Len(toHub[c]) \in Nat
        BY NextIsHead DEF Types, WireTypes
      <4> QED
        BY <4>1, <2>1, <2>3, <1>f, OtherQueues DEF TaskFits
    <3>3. hub'[c].at = "naming" /\ \A e \in Call : e # c => hub'[e] = hub[e]
      BY <2>3, <1>h DEF HubTask
    <3>4. Proceeds(c)
      BY <3>2, <3>3, <2>1, <2>3 DEF Proceeds
    <3> QED
      BY <3>1, <3>3, <3>4, <2>1, <2>3 DEF Moves, OfConnection, rest, phoneFrame, fileVars
  <2> QED
    BY <1>4, <2>2, <2>3 DEF HubReadsThree
<1>5. CASE HubNames(c)
  <2>1. /\ UNCHANGED rest /\ HubLives(c) /\ hub[c].at = "naming"
        /\ toHub' = toHub /\ hubEnd' = hubEnd
    BY <1>5 DEF HubNames, HubLives
  <2>2. Message("identity", hub[c].mine, None) \in Carry(HubWord)
    BY HubHolds, MessageTypes DEF HubWord, None
  <2>3. /\ \A e \in Call : e # c => toPhone'[e] = toPhone[e]
        /\ c \in cut => toPhone'[c] = toPhone[c]
    BY <1>5, <2>2, OtherQueues DEF HubNames
  <2>4. Len(toHub'[c]) = 0
    BY <2>1, <1>f DEF TaskFits
  <2>5. hub'[c].at = "identity" /\ \A e \in Call : e # c => hub'[e] = hub[e]
    BY <1>5, <1>h DEF HubNames, HubTask
  <2>6. Proceeds(c)
    BY <2>1, <2>4, <2>5 DEF Proceeds
  <2> QED
    BY <2>1, <2>3, <2>5, <2>6 DEF Moves, OfConnection, rest, phoneFrame, fileVars
<1>6. CASE HubHearsIdentity(c)
  <2>1. /\ UNCHANGED rest /\ NextOn(toHub, c) # "nothing" /\ HubLives(c) /\ hub[c].at = "identity"
        /\ HubSends(c, << >>, "recording")
    BY <1>6 DEF HubHearsIdentity, HubLives
  <2> QED
    BY <2>1, <1>f, SendsMoves
<1>7. CASE HubRecords(c)
  <2>1. HubLives(c) /\ UNCHANGED <<phoneFrame, toHub, cut, late>>
    BY <1>7 DEF HubRecords, HubLives
  <2>2. /\ \A e \in Call : e # c => toPhone'[e] = toPhone[e]
        /\ c \in cut => toPhone'[c] = toPhone[c]
    BY <1>7, OtherQueues, HubSays DEF HubRecords
  <2>3. Stops(c) /\ \A e \in Call : e # c => hub'[e] = hub[e] /\ hubEnd'[e] = hubEnd[e]
    BY <1>7, StopsAs DEF HubRecords, How
  <2>4. recorded \subseteq recorded' /\ peer'["phone"] = peer["phone"]
    BY <1>7 DEF HubRecords, Types, FileTypes, Device
  <2> QED
    BY <2>1, <2>2, <2>3, <2>4 DEF Moves, OfConnection, phoneFrame
<1>8. CASE HubAnswersSync(c)
  <2>1. UNCHANGED rest /\ NextOn(toHub, c) # "nothing" /\ HubLives(c) /\ hub[c].at = "kk"
    BY <1>8 DEF HubAnswersSync, HubLives
  <2>2. CASE HubTells(c, Taken(toHub, c), "refusal")
    BY <2>1, <2>2, TellsMoves
  <2>3. CASE /\ toHub' = Taken(toHub, c)
             /\ toPhone' = Sent(toPhone, c, <<Plain("go"), Plain("error")>>)
             /\ HubEnds(c, "busy", slot)
    <3>1. /\ \A e \in Call : e # c => toHub'[e] = toHub[e] /\ toPhone'[e] = toPhone[e]
          /\ c \in cut => toPhone'[c] = toPhone[c]
      BY <2>1, <2>3, OtherQueues, HubSays
    <3>2. Stops(c) /\ \A e \in Call : e # c => hub'[e] = hub[e] /\ hubEnd'[e] = hubEnd[e]
      BY <2>3, StopsAs DEF How
    <3> QED
      BY <3>1, <3>2, <2>1 DEF Moves, OfConnection, rest, phoneFrame, fileVars
  <2>4. CASE HubSends(c, <<Plain("go")>>, "hello")
    BY <2>1, <2>4, <1>f, <1>s, SendsMoves
  <2> QED
    BY <1>8, <2>2, <2>3, <2>4 DEF HubAnswersSync
<1>9. CASE HubAnswersHello(c)
  <2>1. UNCHANGED rest /\ NextOn(toHub, c) # "nothing" /\ HubLives(c) /\ hub[c].at = "hello"
    BY <1>9 DEF HubAnswersHello, HubLives
  <2>2. CASE HubTells(c, Taken(toHub, c), "error")
    BY <2>1, <2>2, TellsMoves
  <2>3. ASSUME NEW plan \in Plan,
               toHub' = Taken(toHub, c), toPhone' = Sent(toPhone, c, <<Plain(plan)>>),
               hub' = [hub EXCEPT ![c].at = IF plan = "exchange" THEN "push" ELSE "answer",
                                  ![c].plan = plan],
               UNCHANGED <<hubEnd, slot>>
        PROVE  Moves(c)
    <3>1. /\ \A e \in Call : e # c => toHub'[e] = toHub[e] /\ toPhone'[e] = toPhone[e]
          /\ c \in cut => toPhone'[c] = toPhone[c]
      BY <2>1, <2>3, OtherQueues, HubSays
    <3>2. Len(toHub'[c]) = 0
      <4>1. Len(toHub[c]) \in Nat
        BY NextIsHead DEF Types, WireTypes
      <4> QED
        BY <4>1, <2>1, <2>3, <1>f, OtherQueues DEF TaskFits
    <3>3. hub'[c].at # "none" /\ \A e \in Call : e # c => hub'[e] = hub[e]
      BY <2>3, <1>h DEF HubTask
    <3>4. Proceeds(c)
      BY <3>2, <3>3, <2>1, <2>3 DEF Proceeds
    <3> QED
      BY <3>1, <3>3, <3>4, <2>1, <2>3 DEF Moves, OfConnection, rest, phoneFrame, fileVars
  <2> QED
    BY <1>9, <2>2, <2>3 DEF HubAnswersHello
<1>10. CASE HubTakesPush(c)
  <2>1. /\ UNCHANGED rest /\ NextOn(toHub, c) # "nothing" /\ HubLives(c)
        /\ hub[c].at \in {"push", "answer"}
        /\ \E at \in {"replying", "sending"} : HubSends(c, <<Plain("report")>>, at)
    BY <1>10 DEF HubTakesPush, HubLives
  <2> QED
    BY <2>1, <1>f, <1>s, SendsMoves
<1>11. CASE HubHearsProceed(c)
  <2>1. /\ UNCHANGED rest /\ NextOn(toHub, c) # "nothing" /\ HubLives(c) /\ hub[c].at = "answer"
        /\ HubSends(c, << >>, "sending")
    BY <1>11 DEF HubHearsProceed, HubLives
  <2> QED
    BY <2>1, <1>f, SendsMoves
<1>12. CASE HubHearsStop(c)
  <2>1. /\ UNCHANGED rest /\ NextOn(toHub, c) # "nothing" /\ HubLives(c)
        /\ toHub' = Taken(toHub, c) /\ toPhone' = toPhone
    BY <1>12 DEF HubHearsStop, HubLives
  <2>2. Stops(c) /\ \A e \in Call : e # c => hub'[e] = hub[e] /\ hubEnd'[e] = hubEnd[e]
    BY <1>12, StopsAs DEF HubHearsStop, How
  <2>3. \A e \in Call : e # c => toHub'[e] = toHub[e]
    BY <2>1, OtherQueues
  <2> QED
    BY <2>1, <2>2, <2>3 DEF Moves, OfConnection, rest, phoneFrame, fileVars
<1>13. CASE HubFinishes(c)
  <2>1. HubLives(c) /\ UNCHANGED <<phoneFrame, toHub, cut, fileVars>>
    BY <1>13 DEF HubFinishes, HubLives
  <2>2. /\ \A e \in Call : e # c => toPhone'[e] = toPhone[e]
        /\ c \in cut => toPhone'[c] = toPhone[c]
    BY <1>13, OtherQueues, HubSays DEF HubFinishes
  <2>3. Stops(c) /\ \A e \in Call : e # c => hub'[e] = hub[e] /\ hubEnd'[e] = hubEnd[e]
    BY <1>13, StopsAs DEF HubFinishes, How
  <2> QED
    BY <2>1, <2>2, <2>3 DEF Moves, OfConnection, phoneFrame, fileVars
<1>14. CASE HubFails(c)
  <2>1. UNCHANGED rest /\ HubLives(c)
    BY <1>14 DEF HubFails, HubTalks, HubWorks, HubLives
  <2>2. CASE NextOn(toHub, c) # "nothing" /\ HubTells(c, Taken(toHub, c), "error")
    BY <2>1, <2>2, TellsMoves
  <2>3. CASE HubTells(c, toHub, "error")
    BY <2>1, <2>3, TellsMoves
  <2> QED
    BY <1>14, <2>2, <2>3 DEF HubFails
<1>15. CASE HubIsTold(c)
  <2>1. /\ UNCHANGED rest /\ NextOn(toHub, c) # "nothing" /\ HubLives(c)
        /\ HubTells(c, Taken(toHub, c), "error")
    BY <1>15 DEF HubIsTold, HubTalks, HubLives
  <2> QED
    BY <2>1, TellsMoves
<1>16. CASE HubIsCut(c)
  <2>1. UNCHANGED <<rest, toHub, toPhone>> /\ HubLives(c)
    BY <1>16 DEF HubIsCut, HubOpens, HubTalks, HubLives
  <2>2. Stops(c) /\ \A e \in Call : e # c => hub'[e] = hub[e] /\ hubEnd'[e] = hubEnd[e]
    BY <1>16, StopsAs DEF HubIsCut, How
  <2> QED
    BY <2>1, <2>2 DEF Moves, OfConnection, rest, phoneFrame, fileVars
<1>17. CASE HubGivesUp(c)
  <2>1. UNCHANGED <<phoneFrame, wireVars, peer, recorded>>
    BY <1>17 DEF HubGivesUp
  <2>2. HubLives(c)
    BY <1>17 DEF HubGivesUp, HubLives, Types, HubTypes
  <2>3. Stops(c) /\ \A e \in Call : e # c => hub'[e] = hub[e] /\ hubEnd'[e] = hubEnd[e]
    BY <1>17, StopsAs DEF HubGivesUp, How
  <2>4. \A record \in late' : record[1] = "phone" => record \in late
    <3>1. <<"hub", hub[c].phoneKey, hub[c].mine>>[1] # "phone"
      OBVIOUS
    <3> QED
      BY <3>1, <1>17 DEF HubGivesUp
  <2> QED
    BY <2>1, <2>2, <2>3, <2>4 DEF Moves, OfConnection, phoneFrame, wireVars
<1> QED
  BY <1>1, <1>2, <1>3, <1>4, <1>5, <1>6, <1>7, <1>8, <1>9, <1>10, <1>11, <1>12, <1>13, <1>14,
     <1>15, <1>16, <1>17 DEF HubStep

(* What a step of a task keeps whatever the phone is about. *)
LEMMA HubKeeps ==
  ASSUME IInv, NEW c \in Call, Moves(c)
  PROVE  Fresh' /\ Unopened' /\ HubFits' /\ Ends'
<1>1. c \in Nat /\ calls \in Nat /\ ~(c > calls)
  <2>1. calls \in 0..MaxCalls
    BY DEF IInv, Types, PhoneTypes
  <2>2. c > calls => hub[c] = NoTask
    BY DEF IInv, Fresh
  <2> QED
    BY <2>1, <2>2, LinkAssumption DEF Moves, HubLives, NoTask, Call
<1>2. \A e \in Call : e # c => /\ hub'[e] = hub[e] /\ hubEnd'[e] = hubEnd[e]
                               /\ toHub'[e] = toHub[e] /\ toPhone'[e] = toPhone[e]
  BY DEF Moves, OfConnection
<1>3. phone' = phone /\ outcome' = outcome /\ calls' = calls /\ cut' = cut
  BY DEF Moves, OfConnection
<1>4. Fresh'
  BY <1>1, <1>2, <1>3 DEF IInv, Fresh
<1>5. Unopened'
  BY <1>3 DEF IInv, Unopened
<1>6. HubFits'
  <2>1. ASSUME NEW e \in Call, e # c PROVE TaskFits(e)'
    <3>1. hub'[e] = hub[e] /\ toHub'[e] = toHub[e]
      BY <1>2, <2>1
    <3>2. HubExpects(e)' = HubExpects(e)
      BY <3>1 DEF HubExpects
    <3>3. TaskFits(e)
      BY DEF IInv, HubFits
    <3> QED
      BY <3>1, <3>2, <3>3 DEF TaskFits, HubLives
  <2>2. TaskFits(c)'
    BY DEF Moves, Proceeds, Stops, TaskFits, HubLives
  <2> QED
    BY <2>1, <2>2 DEF HubFits
<1>7. Ends'
  <2>1. ASSUME NEW e \in Call, e # c
        PROVE  /\ (HubLives(e) => hubEnd[e] = "none")'
               /\ (outcome[e] = "ok" => hubEnd[e] = "ok")'
               /\ (outcome[e] = "lost" /\ e \notin cut => ~HubLives(e) /\ hubEnd[e] # "told")'
    BY <2>1, <1>2, <1>3 DEF IInv, Ends, HubLives
  <2>2. hubEnd[c] = "none" /\ outcome[c] # "ok" /\ (outcome[c] = "lost" => c \in cut)
    BY DEF IInv, Ends, Moves
  <2>3. /\ (HubLives(c) => hubEnd[c] = "none")'
        /\ (outcome[c] = "ok" => hubEnd[c] = "ok")'
        /\ (outcome[c] = "lost" /\ c \notin cut => ~HubLives(c) /\ hubEnd[c] # "told")'
    BY <2>2, <1>3 DEF Moves, Proceeds, Stops, HubLives
  <2> QED
    BY <2>1, <2>3 DEF Ends
<1> QED
  BY <1>4, <1>5, <1>6, <1>7

(* What is to be kept on the side of the phone. *)
PhoneSide == PhoneFits /\ Lockstep /\ Tidings /\ Reason /\ Keys

(* The keys the phone has recorded, or may still record. *)
LEMMA RecordsKept ==
  ASSUME IInv, NEW c \in Call, OfConnection(c)
  PROVE  /\ \A record \in late' : record[1] = "phone" => record[2] \in recorded'
         /\ peer'["phone"] # None => peer'["phone"] \in recorded'
         /\ phone'.at = "recording" => phone'.hubKey \in recorded'
  BY DEF IInv, Keys, OfConnection

(* The phone does not notice what the task of another connection does. *)
LEMMA HubElsewhere ==
  ASSUME IInv, NEW c \in Call, Moves(c), ~PhoneLives \/ c # calls
  PROVE  PhoneSide'
<1>k. /\ \A record \in late' : record[1] = "phone" => record[2] \in recorded'
      /\ peer'["phone"] # None => peer'["phone"] \in recorded'
      /\ phone'.at = "recording" => phone'.hubKey \in recorded'
  BY RecordsKept DEF Moves
<1>p. phone' = phone /\ outcome' = outcome /\ calls' = calls /\ cut' = cut
      /\ recorded \subseteq recorded'
  BY DEF Moves, OfConnection
<1>1. CASE ~PhoneLives
  <2>1. ~PhoneLives'
    BY <1>1, <1>p DEF PhoneLives
  <2>2. PhoneFits' /\ Lockstep' /\ Tidings' /\ Reason'
    BY <2>1 DEF PhoneFits, Lockstep, Tidings, Reason
  <2>3. Keys'
    BY <1>k, <2>1 DEF Keys, PhoneLives
  <2> QED
    BY <2>2, <2>3 DEF PhoneSide
<1>2. CASE PhoneLives
  <2>1. calls \in Call
    BY <1>2, CallIsOpen DEF IInv
  <2>2. /\ hub'[calls] = hub[calls] /\ hubEnd'[calls] = hubEnd[calls]
        /\ toHub'[calls] = toHub[calls] /\ toPhone'[calls] = toPhone[calls]
    BY <1>2, <2>1 DEF Moves, OfConnection
  <2>3. PhoneFits'
    <3>1. PhoneExpects' = PhoneExpects
      BY <1>p DEF PhoneExpects
    <3> QED
      BY <3>1, <2>2, <1>p DEF IInv, PhoneFits, PhoneLives
  <2>4. Lockstep'
    <3>1. PairingTurn => PairingTurn'
      BY <2>2, <1>p DEF PairingTurn, Turn, Asks, Tells, TellsTwice, Quiet
    <3>2. SyncTurn => SyncTurn'
      BY <2>2, <1>p DEF SyncTurn, Turn, Asks, Tells, Quiet
    <3> QED
      BY <3>1, <3>2, <2>2, <1>p DEF IInv, Lockstep, PhoneLives, HubLives
  <2>5. Tidings'
    BY <2>2, <1>p DEF IInv, Tidings, PhoneLives
  <2>6. Reason'
    BY <2>2, <1>p DEF IInv, Reason, PhoneLives
  <2>7. Keys'
    BY <2>2, <1>p, <1>k DEF IInv, Keys, PhoneLives, HubLives
  <2> QED
    BY <2>3, <2>4, <2>5, <2>6, <2>7 DEF PhoneSide
<1> QED
  BY <1>1, <1>2

(* As long as the hub's task runs, nothing the phone can read says that it *)
(* has ended.                                                              *)
LEMMA HubRuns ==
  ASSUME IInv, PhoneLives, HubLives(calls)
  PROVE  /\ calls \in Call
         /\ hubEnd[calls] = "none" /\ outcome[calls] = "none"
         /\ phone.at \notin PhoneWorks
         /\ \A i \in 1..Len(toPhone[calls]) : toPhone[calls][i].is \notin Final
         /\ phone.at = "kk" => Len(toPhone[calls]) # 2
<1>1. calls \in Call
  BY CallIsOpen DEF IInv
<1>2. hubEnd[calls] = "none"
  BY <1>1 DEF IInv, Ends
<1> QED
  BY <1>1, <1>2 DEF IInv, Tidings

(* The task goes on or ends on a connection that broke, or it ends without *)
(* a word.                                                                 *)
LEMMA HubUnheard ==
  ASSUME IInv, Types', PhoneLives, Moves(calls), toPhone'[calls] = toPhone[calls],
         calls \in cut \/ (Stops(calls) /\ hubEnd'[calls] # "told")
  PROVE  PhoneSide'
<1>h. /\ calls \in Call
      /\ hubEnd[calls] = "none" /\ outcome[calls] = "none"
      /\ phone.at \notin PhoneWorks
      /\ \A i \in 1..Len(toPhone[calls]) : toPhone[calls][i].is \notin Final
      /\ phone.at = "kk" => Len(toPhone[calls]) # 2
  BY HubRuns DEF Moves
<1>k. /\ \A record \in late' : record[1] = "phone" => record[2] \in recorded'
      /\ peer'["phone"] # None => peer'["phone"] \in recorded'
      /\ phone'.at = "recording" => phone'.hubKey \in recorded'
  BY <1>h, RecordsKept DEF Moves
<1>p. phone' = phone /\ outcome' = outcome /\ calls' = calls /\ cut' = cut
  BY DEF Moves, OfConnection
<1>1. PhoneFits'
  <2>1. PhoneExpects' = PhoneExpects
    BY <1>p DEF PhoneExpects
  <2> QED
    BY <2>1, <1>p DEF IInv, PhoneFits, PhoneLives
<1>2. Lockstep'
  BY <1>p DEF Lockstep, Stops, HubLives
<1>3. Tidings'
  BY <1>h, <1>p DEF Tidings
<1>4. Reason'
  <2>1. CASE calls \in cut
    BY <2>1, <1>p DEF Reason
  <2>2. CASE hubEnd'[calls] # "told"
    BY <2>2, <1>p DEF Reason
  <2> QED
    BY <2>1, <2>2
<1>5. Keys'
  <2>1. Len(toPhone[calls]) # 0 => toPhone[calls][1].is # "done"
    <3>1. Len(toPhone[calls]) \in Nat
      BY <1>h, NextIsHead DEF IInv, Types, WireTypes
    <3>2. Len(toPhone[calls]) # 0 => 1 \in 1..Len(toPhone[calls])
      BY <3>1
    <3> QED
      BY <3>2, <1>h DEF Final
  <2>2. ASSUME HubLives(calls)'
        PROVE  /\ \A i \in 1..Len(toPhone[calls]) : toPhone[calls][i].is # "identity"
               /\ phone.at = "done" => hub'[calls].at = "recording" /\ hub'[calls].mine = phone.hubKey
    <3>1. Proceeds(calls)
      BY <2>2, <1>p DEF Moves, Stops, HubLives
    <3>2. Keys /\ HubLives(calls)
      BY DEF IInv, Moves
    <3> QED
      BY <3>1, <3>2 DEF Keys, Proceeds
  <2> QED
    BY <2>1, <2>2, <1>k, <1>p DEF Keys
<1> QED
  BY <1>1, <1>2, <1>3, <1>4, <1>5 DEF PhoneSide

(* The rest of a queue. *)
LEMMA TailOf ==
  ASSUME NEW S, NEW q \in Seq(S), Len(q) # 0
  PROVE  /\ Len(Tail(q)) = Len(q) - 1
         /\ \A i \in 1..Len(q) - 1 : Tail(q)[i] = q[i + 1]
  OBVIOUS

(* What is left of a queue when a message is taken from it. *)
LEMMA WireTakes ==
  ASSUME Types, NEW c \in Call
  PROVE  /\ Len(toHub[c]) \in Nat /\ Len(toPhone[c]) \in Nat
         /\ Len(toHub[c]) # 0 =>
              /\ \A e \in Call : e # c => Taken(toHub, c)[e] = toHub[e]
              /\ Len(Taken(toHub, c)[c]) = Len(toHub[c]) - 1
              /\ \A i \in 1..Len(toHub[c]) - 1 : Taken(toHub, c)[c][i] = toHub[c][i + 1]
         /\ Len(toPhone[c]) # 0 =>
              /\ \A e \in Call : e # c => Taken(toPhone, c)[e] = toPhone[e]
              /\ Len(Taken(toPhone, c)[c]) = Len(toPhone[c]) - 1
              /\ \A i \in 1..Len(toPhone[c]) - 1 : Taken(toPhone, c)[c][i] = toPhone[c][i + 1]
<1>1. toHub \in [Call -> Seq(Carry(PhoneWord))] /\ toPhone \in [Call -> Seq(Carry(HubWord))]
  BY DEF Types, WireTypes
<1>2. Len(toHub[c]) \in Nat /\ Len(toPhone[c]) \in Nat
  BY <1>1
<1>3. ASSUME Len(toHub[c]) # 0
      PROVE  /\ \A e \in Call : e # c => Taken(toHub, c)[e] = toHub[e]
             /\ Len(Taken(toHub, c)[c]) = Len(toHub[c]) - 1
             /\ \A i \in 1..Len(toHub[c]) - 1 : Taken(toHub, c)[c][i] = toHub[c][i + 1]
  <2>1. \A e \in Call : e # c => Taken(toHub, c)[e] = toHub[e]
    BY <1>1 DEF Taken
  <2>2. Taken(toHub, c)[c] = Tail(toHub[c])
    BY <1>1 DEF Taken
  <2> QED
    BY <1>1, <1>3, <2>1, <2>2, TailOf
<1>4. ASSUME Len(toPhone[c]) # 0
      PROVE  /\ \A e \in Call : e # c => Taken(toPhone, c)[e] = toPhone[e]
             /\ Len(Taken(toPhone, c)[c]) = Len(toPhone[c]) - 1
             /\ \A i \in 1..Len(toPhone[c]) - 1 : Taken(toPhone, c)[c][i] = toPhone[c][i + 1]
  <2>1. \A e \in Call : e # c => Taken(toPhone, c)[e] = toPhone[e]
    BY <1>1 DEF Taken
  <2>2. Taken(toPhone, c)[c] = Tail(toPhone[c])
    BY <1>1 DEF Taken
  <2> QED
    BY <1>1, <1>4, <2>1, <2>2, TailOf
<1> QED
  BY <1>2, <1>3, <1>4

(* What the queue for the phone holds when the hub has sent something. *)
LEMMA WireToPhone ==
  ASSUME Types, NEW c \in Call, c \notin cut
  PROVE  /\ \A m \in Carry(HubWord) :
              /\ Len(Sent(toPhone, c, <<m>>)[c]) = Len(toPhone[c]) + 1
              /\ \A i \in 1..Len(toPhone[c]) : Sent(toPhone, c, <<m>>)[c][i] = toPhone[c][i]
              /\ Sent(toPhone, c, <<m>>)[c][Len(toPhone[c]) + 1] = m
         /\ \A m, n \in Carry(HubWord) :
              /\ Len(Sent(toPhone, c, <<m, n>>)[c]) = Len(toPhone[c]) + 2
              /\ \A i \in 1..Len(toPhone[c]) : Sent(toPhone, c, <<m, n>>)[c][i] = toPhone[c][i]
              /\ Sent(toPhone, c, <<m, n>>)[c][Len(toPhone[c]) + 1] = m
              /\ Sent(toPhone, c, <<m, n>>)[c][Len(toPhone[c]) + 2] = n
<1>1. toPhone \in [Call -> Seq(Carry(HubWord))]
  BY DEF Types, WireTypes
<1>2. ASSUME NEW m \in Carry(HubWord)
      PROVE  /\ Len(Sent(toPhone, c, <<m>>)[c]) = Len(toPhone[c]) + 1
             /\ \A i \in 1..Len(toPhone[c]) : Sent(toPhone, c, <<m>>)[c][i] = toPhone[c][i]
             /\ Sent(toPhone, c, <<m>>)[c][Len(toPhone[c]) + 1] = m
  BY <1>1, SendOne
<1>3. ASSUME NEW m \in Carry(HubWord), NEW n \in Carry(HubWord)
      PROVE  /\ Len(Sent(toPhone, c, <<m, n>>)[c]) = Len(toPhone[c]) + 2
             /\ \A i \in 1..Len(toPhone[c]) : Sent(toPhone, c, <<m, n>>)[c][i] = toPhone[c][i]
             /\ Sent(toPhone, c, <<m, n>>)[c][Len(toPhone[c]) + 1] = m
             /\ Sent(toPhone, c, <<m, n>>)[c][Len(toPhone[c]) + 2] = n
  BY <1>1, SendTwo
<1> QED
  BY <1>2, <1>3

(* And the queue for the hub when the phone has. *)
LEMMA WireToHub ==
  ASSUME Types, NEW c \in Call
  PROVE  /\ Sent(toHub, c, << >>) = toHub
         /\ \A m \in Carry(PhoneWord) :
              /\ \A e \in Call : e # c => Sent(toHub, c, <<m>>)[e] = toHub[e]
              /\ c \in cut => Sent(toHub, c, <<m>>)[c] = toHub[c]
              /\ c \notin cut => /\ Len(Sent(toHub, c, <<m>>)[c]) = Len(toHub[c]) + 1
                                 /\ Sent(toHub, c, <<m>>)[c][Len(toHub[c]) + 1] = m
<1>1. toHub \in [Call -> Seq(Carry(PhoneWord))]
  BY DEF Types, WireTypes
<1>2. Sent(toHub, c, << >>) = toHub
  BY <1>1, SendNone
<1>3. ASSUME NEW m \in Carry(PhoneWord)
      PROVE  /\ \A e \in Call : e # c => Sent(toHub, c, <<m>>)[e] = toHub[e]
             /\ c \in cut => Sent(toHub, c, <<m>>)[c] = toHub[c]
  BY <1>1 DEF Sent
<1>4. ASSUME NEW m \in Carry(PhoneWord), c \notin cut
      PROVE  /\ Len(Sent(toHub, c, <<m>>)[c]) = Len(toHub[c]) + 1
             /\ \A i \in 1..Len(toHub[c]) : Sent(toHub, c, <<m>>)[c][i] = toHub[c][i]
             /\ Sent(toHub, c, <<m>>)[c][Len(toHub[c]) + 1] = m
  BY <1>1, <1>4, SendOne
<1> QED
  BY <1>2, <1>3, <1>4

(* The queues after the task has answered what it was asked. *)
LEMMA Answered ==
  ASSUME Types, calls \in Call, calls \notin cut, calls' = calls,
         NEW word \in HubWord, Len(toHub[calls]) = 1, Len(toPhone[calls]) = 0,
         toHub' = Taken(toHub, calls), toPhone' = Sent(toPhone, calls, <<Plain(word)>>)
  PROVE  Tells(word)'
<1>2. Plain(word) \in Carry(HubWord) /\ Plain(word).is = word
  BY HubSays DEF Plain, Message
<1>3. Len(Taken(toHub, calls)[calls]) = Len(toHub[calls]) - 1
  <2>1. Len(toHub[calls]) # 0
    OBVIOUS
  <2> QED
    BY ONLY <2>1, Types, calls \in Call, WireTakes
<1>4. Len(toPhone'[calls]) = 1 /\ toPhone'[calls][1] = Plain(word)
  <2> DEFINE m == Plain(word)
  <2>1. m \in Carry(HubWord)
    BY <1>2
  <2> HIDE DEF m
  <2>2. /\ Len(Sent(toPhone, calls, <<m>>)[calls]) = Len(toPhone[calls]) + 1
        /\ Sent(toPhone, calls, <<m>>)[calls][Len(toPhone[calls]) + 1] = m
    BY ONLY <2>1, Types, calls \in Call, calls \notin cut, WireToPhone
  <2> QED
    BY <2>2 DEF m
<1> QED
  BY <1>2, <1>3, <1>4 DEF Tells

(* The queues after the task has just listened. *)
LEMMA Listened ==
  ASSUME Types, calls \in Call, calls' = calls,
         Len(toHub[calls]) = 1, Len(toPhone[calls]) = 0,
         toHub' = Taken(toHub, calls), toPhone' = toPhone
  PROVE  Quiet'
<1>1. Len(Taken(toHub, calls)[calls]) = Len(toHub[calls]) - 1
  <2>1. Len(toHub[calls]) # 0
    OBVIOUS
  <2> QED
    BY ONLY <2>1, Types, calls \in Call, WireTakes
<1> QED
  BY <1>1 DEF Quiet

(* An identity on its way is that of the task. *)
Named ==
  \A i \in 1..Len(toPhone[calls]) :
    toPhone[calls][i].is = "identity" => toPhone[calls][i].mine = hub[calls].mine

(* There is none among other words. *)
LEMMA NamedElse ==
  ASSUME Quiet' \/ \E word : word # "identity" /\ Tells(word)'
  PROVE  Named'
  BY DEF Quiet, Tells, Named

(* What the task reads is what the phone sent it. *)
LEMMA HubReads ==
  ASSUME Types, calls \in Call
  PROVE  /\ \A word : Asks(word) => NextOn(toHub, calls) = word /\ Len(toHub[calls]) = 1
                                    /\ Len(toPhone[calls]) = 0
         /\ \A word : Tells(word) => NextOn(toHub, calls) = "nothing"
         /\ \A word, next : TellsTwice(word, next) => NextOn(toHub, calls) = "nothing"
         /\ Quiet => NextOn(toHub, calls) = "nothing"
<1>1. toHub \in [Call -> Seq(Carry(PhoneWord))]
  BY DEF Types, WireTypes
<1>2. /\ Len(toHub[calls]) = 0 => NextOn(toHub, calls) = "nothing"
      /\ Len(toHub[calls]) # 0 => NextOn(toHub, calls) = toHub[calls][1].is
  BY <1>1, NextIsHead
<1> QED
  BY <1>2 DEF Asks, Tells, TellsTwice, Quiet

(* The hub names itself where the phone still has to read that it may go   *)
(* on, or already waits for the name.                                      *)
LEMMA NamesItself ==
  ASSUME Types, calls \in Call, calls \notin cut, PairingTurn \/ SyncTurn,
         UNCHANGED <<phone, calls>>, HubNames(calls)
  PROVE  (PairingTurn \/ SyncTurn)' /\ Named'
<1> DEFINE m == Message("identity", hub[calls].mine, None)
<1>2. m \in Carry(HubWord)
  BY HubHolds, MessageTypes DEF HubWord, None
<1>3. m.is = "identity" /\ m.mine = hub[calls].mine
  BY DEF Message
<1>4. toPhone' = Sent(toPhone, calls, <<m>>) /\ toHub' = toHub
  BY DEF HubNames
<1> HIDE DEF m
<1>5. /\ Len(toPhone'[calls]) = Len(toPhone[calls]) + 1
      /\ \A i \in 1..Len(toPhone[calls]) : toPhone'[calls][i] = toPhone[calls][i]
      /\ toPhone'[calls][Len(toPhone[calls]) + 1] = m
  BY <1>2, <1>4, WireToPhone
<1>6. hub'[calls].at = "identity" /\ hub'[calls].mine = hub[calls].mine
  BY DEF HubNames, Types, HubTypes, HubTask
<1>7. \/ phone.at = "three" /\ Tells("go")
      \/ phone.at = "identity" /\ Quiet
  BY HubSees DEF HubNames
<1>8. CASE phone.at = "three" /\ Tells("go")
  <2>1. /\ Len(toPhone'[calls]) = 2
        /\ toPhone'[calls][1].is = "go" /\ toPhone'[calls][2] = m
    BY <1>5, <1>8 DEF Tells
  <2>2. TellsTwice("go", "identity")' /\ Turn("three", "identity")'
    BY <2>1, <1>3, <1>4, <1>6, <1>8 DEF TellsTwice, Tells, Turn
  <2>3. Named'
    BY <2>1, <1>3, <1>6 DEF Named
  <2> QED
    BY <2>2, <2>3 DEF PairingTurn
<1>9. CASE phone.at = "identity" /\ Quiet
  <2>1. Len(toPhone'[calls]) = 1 /\ toPhone'[calls][1] = m
    BY <1>5, <1>9 DEF Quiet
  <2>2. Tells("identity")' /\ Turn("identity", "identity")'
    BY <2>1, <1>3, <1>4, <1>6, <1>9 DEF Tells, Quiet, Turn
  <2>3. Named'
    BY <2>1, <1>3, <1>6 DEF Named
  <2> QED
    BY <2>2, <2>3 DEF PairingTurn
<1> QED
  BY <1>7, <1>8, <1>9

(* A task that goes on and the phone stay in lockstep. *)
LEMMA HubGoesOn ==
  ASSUME Types, calls \in Call, calls \notin cut, PairingTurn \/ SyncTurn,
         HubStep(calls), Moves(calls), Proceeds(calls)
  PROVE  (PairingTurn \/ SyncTurn)' /\ Named'
<1>u. phone' = phone /\ calls' = calls
  BY DEF Moves, OfConnection
<1>e. \A how, taken : ~HubEnds(calls, how, taken)
  BY DEF Proceeds, HubEnds, Types, HubTypes, NoTask
<1>t. \A queue, message : ~HubTells(calls, queue, message)
  BY <1>e DEF HubTells
<1>r. /\ \A word : Asks(word) => NextOn(toHub, calls) = word /\ Len(toHub[calls]) = 1
                                 /\ Len(toPhone[calls]) = 0
      /\ \A word : Tells(word) => NextOn(toHub, calls) = "nothing"
      /\ \A word, next : TellsTwice(word, next) => NextOn(toHub, calls) = "nothing"
      /\ Quiet => NextOn(toHub, calls) = "nothing"
  BY HubReads
<1>h. hub \in [Call -> HubTask]
  BY DEF Types, HubTypes
<1>a. ASSUME NEW word \in HubWord, NextOn(toHub, calls) # "nothing",
             NEW asked, Asks(asked),
             toHub' = Taken(toHub, calls), toPhone' = Sent(toPhone, calls, <<Plain(word)>>)
      PROVE  Tells(word)'
  BY <1>a, <1>r, <1>u, Answered
<1>1. CASE HubOpensCall(calls)
  <2>1. /\ hub[calls].at = "opening" /\ NextOn(toHub, calls) # "nothing"
        /\ toHub' = Taken(toHub, calls) /\ toPhone' = Sent(toPhone, calls, <<Plain("go")>>)
        /\ hub'[calls].at = IF NextOn(toHub, calls) = "open_pair" THEN "spake" ELSE "kk"
    BY <1>1, <1>t, <1>h DEF HubOpensCall, Opening, NoTask
  <2>2. \/ phone.at = "pair" /\ Asks("open_pair")
        \/ phone.at = "sync" /\ Asks("open_sync")
    BY <2>1, HubSees
  <2>3. Tells("go")'
    BY <2>1, <2>2, <1>a DEF HubWord
  <2>4. Turn("pair", "spake")' \/ Turn("sync", "kk")'
    BY <2>1, <2>2, <1>r, <1>u DEF Turn
  <2> QED
    BY <2>3, <2>4, NamedElse DEF PairingTurn, SyncTurn
<1>2. CASE HubBeginsAttempt(calls)
  <2>1. /\ hub[calls].at = "spake" /\ NextOn(toHub, calls) # "nothing"
        /\ HubSends(calls, <<Plain("go")>>, "one")
    BY <1>2, <1>t DEF HubBeginsAttempt
  <2>2. phone.at = "spake" /\ Asks("spake")
    BY <2>1, HubSees, <1>r
  <2>3. Tells("go")'
    BY <2>1, <2>2, <1>a DEF HubWord, HubSends
  <2>4. Turn("spake", "one")'
    BY <2>1, <2>2, <1>u, <1>h DEF Turn, HubSends, HubTask
  <2> QED
    BY <2>3, <2>4, NamedElse DEF PairingTurn
<1>3. CASE HubAnswersOne(calls)
  <2>1. /\ hub[calls].at = "one" /\ NextOn(toHub, calls) # "nothing"
        /\ HubSends(calls, <<Plain("go")>>, "three")
    BY <1>3 DEF HubAnswersOne
  <2>2. phone.at = "one" /\ Asks("one")
    BY <2>1, HubSees, <1>r
  <2>3. Tells("go")'
    BY <2>1, <2>2, <1>a DEF HubWord, HubSends
  <2>4. Turn("one", "three")'
    BY <2>1, <2>2, <1>u, <1>h DEF Turn, HubSends, HubTask
  <2> QED
    BY <2>3, <2>4, NamedElse DEF PairingTurn
<1>4. CASE HubReadsThree(calls)
  <2>1. /\ hub[calls].at = "three" /\ NextOn(toHub, calls) # "nothing"
        /\ toHub' = Taken(toHub, calls) /\ toPhone' = Sent(toPhone, calls, <<Plain("go")>>)
        /\ hub' = [hub EXCEPT ![calls].at = "naming", ![calls].phoneKey = Head(toHub[calls]).mine]
    BY <1>4, <1>t DEF HubReadsThree
  <2>2. phone.at = "three" /\ (Asks("three") \/ Asks("wrong"))
    BY <2>1, HubSees, <1>r
  <2>3. Tells("go")'
    BY <2>1, <2>2, <1>a DEF HubWord
  <2>4. Turn("three", "naming")'
    BY <2>1, <2>2, <1>u, <1>h DEF Turn, HubTask
  <2> QED
    BY <2>3, <2>4, NamedElse DEF PairingTurn
<1>5. CASE HubNames(calls)
  BY <1>5, <1>u, NamesItself
<1>6. CASE HubHearsIdentity(calls)
  <2>1. /\ hub[calls].at = "identity" /\ NextOn(toHub, calls) # "nothing"
        /\ HubSends(calls, << >>, "recording")
    BY <1>6 DEF HubHearsIdentity
  <2>2. phone.at = "done" /\ Asks("identity")
    BY <2>1, HubSees, <1>r
  <2>3. Quiet'
    BY <2>1, <2>2, <1>u, <1>r, Listened, OtherQueues DEF HubSends
  <2>4. Turn("done", "recording")'
    BY <2>1, <2>2, <1>u, <1>h DEF Turn, HubSends, HubTask
  <2> QED
    BY <2>3, <2>4, NamedElse DEF PairingTurn
<1>7. CASE HubAnswersSync(calls)
  <2>1. /\ hub[calls].at = "kk" /\ NextOn(toHub, calls) # "nothing"
        /\ HubSends(calls, <<Plain("go")>>, "hello")
    BY <1>7, <1>t, <1>e DEF HubAnswersSync
  <2>2. phone.at = "kk" /\ Asks("kk")
    BY <2>1, HubSees, <1>r
  <2>3. Tells("go")'
    BY <2>1, <2>2, <1>a DEF HubWord, HubSends
  <2>4. Turn("kk", "hello")'
    BY <2>1, <2>2, <1>u, <1>h DEF Turn, HubSends, HubTask
  <2> QED
    BY <2>3, <2>4, NamedElse DEF SyncTurn
<1>8. CASE HubAnswersHello(calls)
  <2>1. PICK plan \in Plan :
          /\ hub[calls].at = "hello" /\ NextOn(toHub, calls) # "nothing"
          /\ toHub' = Taken(toHub, calls)
          /\ toPhone' = Sent(toPhone, calls, <<Plain(plan)>>)
          /\ hub' = [hub EXCEPT ![calls].at = IF plan = "exchange" THEN "push" ELSE "answer",
                                ![calls].plan = plan]
    BY <1>8, <1>t DEF HubAnswersHello
  <2>2. phone.at = "hello" /\ Asks("hello")
    BY <2>1, HubSees, <1>r
  <2>3. plan \in HubWord /\ plan # "identity"
    BY DEF HubWord, Plan
  <2>4. Tells(plan)'
    BY <2>1, <2>2, <2>3, <1>a
  <2>5. /\ phone'.at = "hello" /\ hub'[calls'].plan = plan
        /\ hub'[calls'].at = IF plan = "exchange" THEN "push" ELSE "answer"
    BY <2>1, <2>2, <1>u, <1>h DEF HubTask
  <2>6. SyncTurn'
    <3>1. CASE plan = "exchange"
      <4>1. Turn("hello", "push")' /\ Tells("exchange")'
        BY <3>1, <2>4, <2>5 DEF Turn
      <4> QED
        BY <4>1 DEF SyncTurn
    <3>2. CASE plan # "exchange"
      <4>1. /\ Turn("hello", "answer")' /\ hub'[calls'].plan \in Plan \ {"exchange"}
            /\ Tells(hub[calls].plan)'
        BY <3>2, <2>4, <2>5 DEF Turn, Tells
      <4> QED
        BY <4>1 DEF SyncTurn
    <3> QED
      BY <3>1, <3>2
  <2> QED
    BY <2>3, <2>4, <2>6, NamedElse
<1>9. CASE HubTakesPush(calls)
  <2>1. /\ hub[calls].at \in {"push", "answer"} /\ NextOn(toHub, calls) = "push"
        /\ HubSends(calls, <<Plain("report")>>, IF hub[calls].at = "push" THEN "replying" ELSE "sending")
    BY <1>9 DEF HubTakesPush
  <2>2. /\ phone.at = "report" /\ Asks("push")
        /\ hub[calls].at = "push" <=> phone.plan = "exchange"
    BY <2>1, HubSees, <1>r
  <2>3. Tells("report")'
    BY <2>1, <2>2, <1>a DEF HubWord, HubSends
  <2>4. /\ phone'.at = "report" /\ phone'.plan = phone.plan
        /\ hub'[calls'].at = IF phone.plan = "exchange" THEN "replying" ELSE "sending"
    BY <2>1, <2>2, <1>u, <1>h DEF HubSends, HubTask
  <2>5. SyncTurn'
    BY <2>3, <2>4 DEF SyncTurn, Turn
  <2> QED
    BY <2>3, <2>5, NamedElse
<1>10. CASE HubHearsProceed(calls)
  <2>1. /\ hub[calls].at = "answer" /\ NextOn(toHub, calls) = "proceed"
        /\ HubSends(calls, << >>, "sending")
    BY <1>10 DEF HubHearsProceed
  <2>2. phone.at = "full" /\ Asks("proceed")
    BY <2>1, HubSees, <1>r
  <2>3. Quiet'
    BY <2>1, <2>2, <1>u, <1>r, Listened, OtherQueues DEF HubSends
  <2>4. Turn("full", "sending")'
    BY <2>1, <2>2, <1>u, <1>h DEF Turn, HubSends, HubTask
  <2> QED
    BY <2>3, <2>4, NamedElse DEF SyncTurn
<1>11. ~(HubRecords(calls) \/ HubHearsStop(calls) \/ HubFinishes(calls) \/ HubFails(calls)
         \/ HubIsTold(calls) \/ HubIsCut(calls) \/ HubGivesUp(calls))
  BY <1>e, <1>t DEF HubRecords, HubHearsStop, HubFinishes, HubFails, HubIsTold, HubIsCut, HubGivesUp
<1> QED
  BY <1>1, <1>2, <1>3, <1>4, <1>5, <1>6, <1>7, <1>8, <1>9, <1>10, <1>11 DEF HubStep

(* The last word of a task that ends, where it is one the phone expects.   *)
LEMMA HubLastWord ==
  ASSUME IInv, PhoneLives, calls \notin cut, Moves(calls), Stops(calls),
         NEW word \in HubWord, toPhone' = Sent(toPhone, calls, <<Plain(word)>>),
         \/ Len(toPhone[calls]) = 0 /\ word \in PhoneExpects
         \/ phone.at = "three" /\ Tells("go") /\ word = "error"
         \/ /\ phone.at = "report" /\ Tells("report")
            /\ word \in {"error", IF phone.plan = "exchange" THEN "reply" ELSE "full"},
         word \in Final => hubEnd'[calls] = "ok",
         hubEnd'[calls] = "told" => Len(toHub'[calls]) = 0 /\ word \in {"refusal", "error"},
         phone.at = "done" /\ word = "done" => phone.hubKey \in recorded'
  PROVE  PhoneSide'
<1> DEFINE q == toPhone[calls]
<1> DEFINE r == toPhone'[calls']
<1>h. /\ calls \in Call
      /\ hubEnd[calls] = "none" /\ outcome[calls] = "none"
      /\ phone.at \notin PhoneWorks
      /\ \A i \in 1..Len(q) : q[i].is \notin Final
  BY HubRuns DEF Moves
<1>k. /\ \A record \in late' : record[1] = "phone" => record[2] \in recorded'
      /\ peer'["phone"] # None => peer'["phone"] \in recorded'
      /\ phone'.at = "recording" => phone'.hubKey \in recorded'
  BY <1>h, RecordsKept DEF Moves
<1>p. phone' = phone /\ outcome' = outcome /\ calls' = calls /\ cut' = cut
  BY DEF Moves, OfConnection
<1>q. /\ Len(q) \in Nat /\ Len(r) = Len(q) + 1
      /\ \A i \in 1..Len(q) : r[i] = q[i]
      /\ r[Len(q) + 1].is = word
  <2> DEFINE m == Plain(word)
  <2>1. m \in Carry(HubWord) /\ m.is = word
    BY HubSays DEF Plain, Message
  <2>2. toPhone' = Sent(toPhone, calls, <<m>>)
    OBVIOUS
  <2>3. Types
    BY DEF IInv
  <2> HIDE DEF m
  <2>4. /\ Len(Sent(toPhone, calls, <<m>>)[calls]) = Len(toPhone[calls]) + 1
        /\ \A i \in 1..Len(toPhone[calls]) : Sent(toPhone, calls, <<m>>)[calls][i] = toPhone[calls][i]
        /\ Sent(toPhone, calls, <<m>>)[calls][Len(toPhone[calls]) + 1] = m
    BY <2>1, <2>3, <1>h, WireToPhone
  <2>5. Len(toPhone[calls]) \in Nat
    BY <2>3, <1>h, WireTakes
  <2> QED
    BY <2>1, <2>2, <2>4, <2>5, <1>p
<1>n. ~HubLives(calls)'
  BY <1>p DEF Stops, HubLives
<1>1. CASE Len(q) = 0 /\ word \in PhoneExpects
  <2>1. Len(r) = 1 /\ r[1].is = word
    BY <1>1, <1>q
  <2>2. PhoneFits'
    <3>1. PhoneExpects' = PhoneExpects
      BY <1>p DEF PhoneExpects
    <3> QED
      BY <3>1, <2>1, <1>1, <1>h, <1>p DEF PhoneFits
  <2>3. Tidings'
    BY <2>1, <1>h, <1>p DEF Tidings
  <2>4. Reason'
    BY <2>1, <1>p DEF Reason
  <2>5. Keys'
    BY <2>1, <1>k, <1>n, <1>p DEF Keys
  <2>6. Lockstep'
    BY <1>n DEF Lockstep
  <2> QED
    BY <2>2, <2>3, <2>4, <2>5, <2>6 DEF PhoneSide
<1>2. CASE \/ phone.at = "three" /\ Tells("go") /\ word = "error"
           \/ /\ phone.at = "report" /\ Tells("report")
              /\ word \in {"error", IF phone.plan = "exchange" THEN "reply" ELSE "full"}
  <2>1. Len(q) = 1 /\ Len(r) = 2 /\ r[1].is = q[1].is /\ r[2].is = word
    <3>1. Len(q) = 1
      BY <1>2 DEF Tells
    <3> QED
      BY <3>1, <1>q
  <2>2. PhoneFits'
    <3>1. CASE phone.at = "three" /\ Tells("go") /\ word = "error"
      <4>1. PhoneExpects' = {"go", "refusal"}
        BY <3>1, <1>p DEF PhoneExpects, PhoneOpens
      <4>2. Len(r) = 2 /\ r[1].is = "go" /\ r[2].is = "error" /\ phone'.at = "three"
        BY <3>1, <2>1, <1>p DEF Tells
      <4> QED
        BY ONLY <4>1, <4>2 DEF PhoneFits, PhoneWorks
    <3>2. CASE /\ phone.at = "report" /\ Tells("report")
               /\ word \in {"error", IF phone.plan = "exchange" THEN "reply" ELSE "full"}
      <4>1. PhoneExpects' = {"report", "error"}
        BY <3>2, <1>p DEF PhoneExpects, PhoneOpens
      <4>2. /\ Len(r) = 2 /\ r[1].is = "report" /\ phone'.at = "report"
            /\ r[2].is \in {"error", IF phone'.plan = "exchange" THEN "reply" ELSE "full"}
        BY <3>2, <2>1, <1>p DEF Tells
      <4> QED
        BY ONLY <4>1, <4>2 DEF PhoneFits, PhoneWorks
    <3> QED
      BY <1>2, <3>1, <3>2
  <2>3. Tidings'
    <3>1. \A i \in 1..Len(r) : i = 1 \/ i = 2
      <4>1. Len(r) = 2
        BY <2>1
      <4> QED
        BY ONLY <4>1
    <3>2. r[1].is \notin Final /\ phone.at # "kk"
      BY <1>2, <2>1 DEF Tells, Final
    <3> QED
      BY <3>1, <3>2, <2>1, <1>h, <1>p DEF Tidings
  <2>4. Reason'
    BY <2>1, <1>p DEF Reason
  <2>5. Keys'
    BY <1>2, <1>k, <1>n, <1>p DEF Keys
  <2>6. Lockstep'
    BY <1>n DEF Lockstep
  <2> QED
    BY <2>2, <2>3, <2>4, <2>5, <2>6 DEF PhoneSide
<1> QED
  BY <1>1, <1>2

(* A busy hub lets the phone into the channel and says so there. *)
LEMMA HubIsBusy ==
  ASSUME IInv, PhoneLives, calls \notin cut, Moves(calls), Stops(calls),
         toPhone' = Sent(toPhone, calls, <<Plain("go"), Plain("error")>>),
         phone.at = "kk", Len(toPhone[calls]) = 0, hubEnd'[calls] = "busy"
  PROVE  PhoneSide'
<1> DEFINE r == toPhone'[calls']
<1>h. calls \in Call /\ outcome[calls] = "none"
  BY HubRuns DEF Moves
<1>k. /\ \A record \in late' : record[1] = "phone" => record[2] \in recorded'
      /\ peer'["phone"] # None => peer'["phone"] \in recorded'
  BY <1>h, RecordsKept DEF Moves
<1>p. /\ phone' = phone /\ outcome' = outcome /\ calls' = calls /\ cut' = cut
      /\ phone'.at = "kk" /\ outcome'[calls'] = "none" /\ hubEnd'[calls'] = "busy"
  BY <1>h DEF Moves, OfConnection
<1>q. Len(r) = 2 /\ r[1].is = "go" /\ r[2].is = "error"
  <2> DEFINE m == Plain("go")
  <2> DEFINE n == Plain("error")
  <2>1. m \in Carry(HubWord) /\ m.is = "go" /\ n \in Carry(HubWord) /\ n.is = "error"
    BY HubSays DEF Plain, Message
  <2>2. toPhone' = Sent(toPhone, calls, <<m, n>>)
    OBVIOUS
  <2>3. Types
    BY DEF IInv
  <2> HIDE DEF m, n
  <2>4. /\ Len(Sent(toPhone, calls, <<m, n>>)[calls]) = Len(toPhone[calls]) + 2
        /\ Sent(toPhone, calls, <<m, n>>)[calls][Len(toPhone[calls]) + 1] = m
        /\ Sent(toPhone, calls, <<m, n>>)[calls][Len(toPhone[calls]) + 2] = n
    BY ONLY <2>1, <2>3, <1>h, calls \notin cut, WireToPhone
  <2>5. r = Sent(toPhone, calls, <<m, n>>)[calls]
    BY <2>2, <1>p
  <2> QED
    BY ONLY <2>1, <2>4, <2>5, Len(toPhone[calls]) = 0
<1>n. ~HubLives(calls)'
  BY <1>p DEF Stops, HubLives
<1>1. PhoneFits'
  <2>1. PhoneExpects' = {"go", "refusal"}
    BY <1>p DEF PhoneExpects, PhoneOpens
  <2>2. phone'.at = "kk"
    BY <1>p
  <2> QED
    BY ONLY <2>1, <2>2, <1>q DEF PhoneFits, PhoneWorks
<1>2. Tidings'
  <2>1. \A i \in 1..Len(r) : i = 1 \/ i = 2
    <3>1. Len(r) = 2
      BY <1>q
    <3> QED
      BY ONLY <3>1
  <2>2. phone'.at = "kk" /\ outcome'[calls'] = "none" /\ hubEnd'[calls'] = "busy"
    BY <1>p
  <2> QED
    BY ONLY <2>1, <2>2, <1>q
    DEF Tidings, PhoneWorks, Final
<1>3. Reason'
  BY <1>p DEF Reason
<1>4. Keys'
  BY <1>k, <1>n, <1>p DEF Keys
<1>5. Lockstep'
  BY <1>n DEF Lockstep
<1> QED
  BY <1>1, <1>2, <1>3, <1>4, <1>5 DEF PhoneSide

(* The phone's side of a connection that holds after a step of its task.   *)
LEMMA HubGoesOnWell ==
  ASSUME IInv, PhoneLives, calls \notin cut, HubStep(calls), Moves(calls), Proceeds(calls)
  PROVE  PhoneSide'
<1>h. calls \in Call /\ hubEnd[calls] = "none" /\ outcome[calls] = "none" /\ Types
  BY HubRuns DEF Moves, IInv
<1>l. PairingTurn \/ SyncTurn
  BY DEF IInv, Lockstep, Moves
<1>k. /\ \A record \in late' : record[1] = "phone" => record[2] \in recorded'
      /\ peer'["phone"] # None => peer'["phone"] \in recorded'
      /\ phone'.at = "recording" => phone'.hubKey \in recorded'
  BY <1>h, RecordsKept DEF Moves
<1>p. phone' = phone /\ outcome' = outcome /\ calls' = calls /\ cut' = cut
  BY DEF Moves, OfConnection
<1>1. (PairingTurn \/ SyncTurn)' /\ Named'
  BY <1>h, <1>l, HubGoesOn
<1>2. PhoneFits' /\ Tidings' /\ Reason'
  BY <1>1, <1>h, <1>p, LockstepGoesOn DEF Proceeds
<1>3. Lockstep'
  BY <1>1 DEF Lockstep
<1>4. NoTidings'
  BY <1>1, PairingFits, SyncFits DEF Fits
<1>5. Keys'
  <2>1. phone.at = "done" => hub'[calls].mine = phone.hubKey
    <3>1. phone.at = "done" => hub[calls].at \in {"identity", "recording"} /\ hub[calls].mine = phone.hubKey
      BY DEF IInv, Keys, Moves
    <3> QED
      BY <3>1 DEF Proceeds
  <2>2. Len(toPhone'[calls']) # 0 => toPhone'[calls'][1].is # "done"
    <3>1. Len(toPhone'[calls']) \in Nat
      <4>1. Types'
        BY <1>h, HubStepTypes
      <4>2. toPhone'[calls'] \in Seq(Carry(HubWord))
        BY <4>1, <1>h, <1>p DEF Types, WireTypes
      <4> QED
        BY <4>2
    <3>2. Len(toPhone'[calls']) # 0 => 1 \in 1..Len(toPhone'[calls'])
      BY <3>1
    <3> QED
      BY <3>2, <1>4 DEF NoTidings, Final
  <2> QED
    BY <2>1, <2>2, <1>1, <1>4, <1>k, <1>p DEF Keys, NoTidings, Named
<1> QED
  BY <1>2, <1>3, <1>5 DEF PhoneSide

(* A reason the hub gives where the phone waits for its answer. *)
LEMMA HubRefuses ==
  ASSUME IInv, PhoneLives, calls \notin cut, Moves(calls), Stops(calls),
         NEW asked, Asks(asked), NEW word \in {"refusal", "error"}, word \in PhoneExpects,
         HubTells(calls, Taken(toHub, calls), word)
  PROVE  PhoneSide'
<1>h. calls \in Call /\ Types
  BY HubRuns DEF Moves, IInv
<1>1. Len(toHub[calls]) = 1 /\ Len(toPhone[calls]) = 0
  BY DEF Asks
<1>2. Len(toHub'[calls]) = 0
  <2>1. Len(toHub[calls]) # 0
    BY <1>1
  <2>2. Len(Taken(toHub, calls)[calls]) = Len(toHub[calls]) - 1
    BY ONLY <2>1, <1>h, WireTakes
  <2> QED
    BY <2>2, <1>1 DEF HubTells
<1>3. word \in HubWord /\ word \notin Final /\ word # "done"
  BY DEF HubWord, Final
<1>4. toPhone' = Sent(toPhone, calls, <<Plain(word)>>)
  BY DEF HubTells
<1> QED
  BY <1>1, <1>2, <1>3, <1>4, HubLastWord

(* A step of the hub fails at work: nothing was asked, and the phone reads *)
(* the reason behind what was said before.                                 *)
LEMMA HubBreaksOff ==
  ASSUME IInv, PhoneLives, calls \notin cut, Moves(calls), Stops(calls),
         hub[calls].at \in HubWorks, HubTells(calls, toHub, "error")
  PROVE  PhoneSide'
<1>h. calls \in Call /\ Types
  BY HubRuns DEF Moves, IInv
<1>l. PairingTurn \/ SyncTurn
  BY DEF IInv, Lockstep, Moves
<1>1. Len(toHub[calls]) = 0 /\ toHub' = toHub
  BY <1>l, HubSees DEF HubWorks, Tells, Quiet, HubTells
<1>2. \/ phone.at = "three" /\ Tells("go")
      \/ phone.at = "report" /\ Tells("report")
      \/ phone.at \in {"identity", "done", "reply", "full"} /\ Quiet
  BY <1>l, HubSees DEF HubWorks
<1>3. /\ "error" \in HubWord /\ "error" \notin Final
      /\ toPhone' = Sent(toPhone, calls, <<Plain("error")>>)
  BY DEF HubWord, Final, HubTells
<1>4. CASE phone.at \in {"identity", "done", "reply", "full"} /\ Quiet
  <2>1. "error" \in PhoneExpects
    BY <1>4 DEF PhoneExpects, PhoneOpens
  <2>2. Len(toPhone[calls]) = 0
    BY <1>4 DEF Quiet
  <2> QED
    BY <1>1, <1>3, <2>1, <2>2, HubLastWord
<1>5. CASE phone.at = "three" /\ Tells("go")
  BY <1>1, <1>3, <1>5, HubLastWord
<1>6. CASE phone.at = "report" /\ Tells("report")
  BY <1>1, <1>3, <1>6, HubLastWord
<1> QED
  BY <1>2, <1>4, <1>5, <1>6

(* The hub is done, and its last message says so. *)
LEMMA HubIsDone ==
  ASSUME IInv, PhoneLives, calls \notin cut, Moves(calls), Stops(calls),
         HubRecords(calls) \/ HubFinishes(calls)
  PROVE  PhoneSide'
<1>h. calls \in Call /\ Types
  BY HubRuns DEF Moves, IInv
<1>l. PairingTurn \/ SyncTurn
  BY DEF IInv, Lockstep, Moves
<1>e. hubEnd'[calls] = "ok"
  BY <1>h DEF HubRecords, HubFinishes, HubEnds, Types, HubTypes
<1>w. {"done", "reply", "full"} \subseteq HubWord
  BY DEF HubWord, Final
<1>1. CASE HubRecords(calls)
  <2>1. phone.at = "done" /\ Len(toPhone[calls]) = 0
    BY <1>1, <1>l, HubSees DEF HubRecords, Quiet
  <2>2. hub[calls].mine = phone.hubKey
    BY <2>1 DEF IInv, Keys, Moves
  <2>3. phone.hubKey \in recorded'
    BY <1>1, <2>2 DEF HubRecords
  <2>4. "done" \in PhoneExpects
    BY <2>1 DEF PhoneExpects, PhoneOpens
  <2>5. toPhone' = Sent(toPhone, calls, <<Plain("done")>>)
    BY <1>1 DEF HubRecords
  <2> QED
    BY <2>1, <2>3, <2>4, <2>5, <1>e, <1>w, HubLastWord
<1>2. CASE HubFinishes(calls)
  <2> DEFINE word == IF hub[calls].at = "replying" THEN "reply" ELSE "full"
  <2>1. /\ hub[calls].at \in {"replying", "sending"}
        /\ toPhone' = Sent(toPhone, calls, <<Plain(word)>>)
    BY <1>2 DEF HubFinishes
  <2>2. word \in {"reply", "full"}
    OBVIOUS
  <2>3. \/ Len(toPhone[calls]) = 0 /\ phone.at = word
        \/ /\ phone.at = "report" /\ Tells("report")
           /\ word = IF phone.plan = "exchange" THEN "reply" ELSE "full"
    BY <2>1, <1>l, HubSees DEF Quiet
  <2> HIDE DEF word
  <2>4. phone.at = word => word \in PhoneExpects
    BY <2>2 DEF PhoneExpects, PhoneOpens
  <2>5. word \in HubWord /\ word # "done"
    BY <2>2, <1>w
  <2> QED
    BY <2>1, <2>3, <2>4, <2>5, <1>e, HubLastWord
<1> QED
  BY <1>1, <1>2

(* The end of a task is one the phone expects, or hears nothing of. *)
LEMMA HubStopsWell ==
  ASSUME IInv, Types', PhoneLives, calls \notin cut, HubStep(calls), Moves(calls), Stops(calls)
  PROVE  PhoneSide'
<1>h. calls \in Call /\ Types
  BY HubRuns DEF Moves, IInv
<1>l. PairingTurn \/ SyncTurn
  BY DEF IInv, Lockstep, Moves
<1>r. /\ \A word : Asks(word) => NextOn(toHub, calls) = word /\ Len(toHub[calls]) = 1
                                 /\ Len(toPhone[calls]) = 0
      /\ \A word : Tells(word) => NextOn(toHub, calls) = "nothing"
      /\ \A word, next : TellsTwice(word, next) => NextOn(toHub, calls) = "nothing"
      /\ Quiet => NextOn(toHub, calls) = "nothing"
  BY <1>h, HubReads
<1>t. hub \in [Call -> HubTask] /\ hubEnd \in [Call -> How] /\ hub'[calls].at = "none"
  BY <1>h DEF Types, HubTypes, Stops
<1>s. \A messages, at : HubSends(calls, messages, at) => at = "none"
  BY <1>h, <1>t DEF HubSends, HubTask
<1>1. CASE HubOpensCall(calls)
  <2>1. hub[calls].at = "opening" /\ NextOn(toHub, calls) # "nothing"
    BY <1>1 DEF HubOpensCall, Opening
  <2>2. HubTells(calls, Taken(toHub, calls), "refusal")
    BY <1>1, <1>h, <1>t DEF HubOpensCall, NoTask
  <2>3. /\ phone.at \in {"pair", "sync"}
        /\ \E asked : Asks(asked)
    BY <2>1, <1>l, <1>r, HubSees
  <2>4. "refusal" \in PhoneExpects
    BY <2>3 DEF PhoneExpects, PhoneOpens
  <2> QED
    BY <2>2, <2>3, <2>4, HubRefuses
<1>2. CASE HubBeginsAttempt(calls)
  <2>1. hub[calls].at = "spake" /\ NextOn(toHub, calls) # "nothing"
    BY <1>2 DEF HubBeginsAttempt
  <2>2. HubTells(calls, Taken(toHub, calls), "refusal")
    BY <1>2, <1>s DEF HubBeginsAttempt
  <2>3. phone.at = "spake" /\ Asks("spake")
    BY <2>1, <1>l, <1>r, HubSees
  <2>4. "refusal" \in PhoneExpects
    BY <2>3 DEF PhoneExpects, PhoneOpens
  <2> QED
    BY <2>2, <2>3, <2>4, HubRefuses
<1>3. ~HubAnswersOne(calls) /\ ~HubHearsIdentity(calls) /\ ~HubTakesPush(calls)
      /\ ~HubHearsProceed(calls)
  BY <1>s DEF HubAnswersOne, HubHearsIdentity, HubTakesPush, HubHearsProceed
<1>4. CASE HubReadsThree(calls)
  <2>1. hub[calls].at = "three" /\ NextOn(toHub, calls) # "nothing"
    BY <1>4 DEF HubReadsThree
  <2>2. HubTells(calls, Taken(toHub, calls), "refusal")
    BY <1>4, <1>h, <1>t DEF HubReadsThree, HubTask
  <2>3. phone.at = "three" /\ \E asked : Asks(asked)
    BY <2>1, <1>l, <1>r, HubSees
  <2>4. "refusal" \in PhoneExpects
    BY <2>3 DEF PhoneExpects, PhoneOpens
  <2> QED
    BY <2>2, <2>3, <2>4, HubRefuses
<1>5. ~HubNames(calls)
  BY <1>h, <1>t DEF HubNames, HubTask
<1>6. CASE HubAnswersSync(calls)
  <2>1. hub[calls].at = "kk" /\ NextOn(toHub, calls) # "nothing"
    BY <1>6 DEF HubAnswersSync
  <2>2. phone.at = "kk" /\ Asks("kk")
    BY <2>1, <1>l, <1>r, HubSees
  <2>3. "refusal" \in PhoneExpects
    BY <2>2 DEF PhoneExpects, PhoneOpens
  <2>4. CASE HubTells(calls, Taken(toHub, calls), "refusal")
    BY <2>2, <2>3, <2>4, HubRefuses
  <2>5. CASE /\ toPhone' = Sent(toPhone, calls, <<Plain("go"), Plain("error")>>)
             /\ HubEnds(calls, "busy", slot)
    <3>1. hubEnd'[calls] = "busy"
      BY <2>5, <1>h, <1>t DEF HubEnds
    <3> QED
      BY <2>2, <2>5, <3>1, <1>r, HubIsBusy
  <2> QED
    BY <1>6, <1>s, <2>4, <2>5 DEF HubAnswersSync
<1>7. CASE HubAnswersHello(calls)
  <2>1. hub[calls].at = "hello" /\ NextOn(toHub, calls) # "nothing"
    BY <1>7 DEF HubAnswersHello
  <2>2. HubTells(calls, Taken(toHub, calls), "error")
    <3>1. ASSUME NEW plan \in Plan,
                 hub' = [hub EXCEPT ![calls].at = IF plan = "exchange" THEN "push" ELSE "answer",
                                    ![calls].plan = plan]
          PROVE  FALSE
      <4>1. hub'[calls].at = IF plan = "exchange" THEN "push" ELSE "answer"
        BY <3>1, <1>h, <1>t DEF HubTask
      <4> QED
        BY <4>1, <1>t
    <3> QED
      BY <1>7, <3>1 DEF HubAnswersHello
  <2>3. phone.at = "hello" /\ Asks("hello")
    BY <2>1, <1>l, <1>r, HubSees
  <2>4. "error" \in PhoneExpects
    BY <2>3 DEF PhoneExpects, PhoneOpens
  <2> QED
    BY <2>2, <2>3, <2>4, HubRefuses
<1>8. CASE HubHearsStop(calls) \/ HubIsCut(calls) \/ HubGivesUp(calls)
  <2>1. toPhone' = toPhone /\ hubEnd'[calls] \in {"reset_needed", "lost", "gave_up"}
    BY <1>8, <1>h, <1>t DEF HubHearsStop, HubIsCut, HubGivesUp, HubEnds, wireVars
  <2> QED
    BY <2>1, HubUnheard
<1>9. CASE HubRecords(calls) \/ HubFinishes(calls)
  BY <1>9, HubIsDone
<1>10. ASSUME hub[calls].at \in HubTalks, NextOn(toHub, calls) # "nothing",
              HubTells(calls, Taken(toHub, calls), "error")
       PROVE  PhoneSide'
  <2>1. /\ phone.at \in {"done", "hello", "report", "full"}
        /\ \E asked : Asks(asked)
    BY <1>10, <1>l, <1>r, HubSees DEF HubTalks
  <2>2. "error" \in PhoneExpects
    BY <2>1 DEF PhoneExpects, PhoneOpens
  <2> QED
    BY <1>10, <2>1, <2>2, HubRefuses
<1>11. CASE HubFails(calls)
  <2>1. \/ /\ hub[calls].at \in HubTalks /\ NextOn(toHub, calls) # "nothing"
           /\ HubTells(calls, Taken(toHub, calls), "error")
        \/ hub[calls].at \in HubWorks /\ HubTells(calls, toHub, "error")
    BY <1>11 DEF HubFails
  <2> QED
    BY <2>1, <1>10, HubBreaksOff
<1>12. CASE HubIsTold(calls)
  <2>1. /\ hub[calls].at \in HubTalks /\ NextOn(toHub, calls) # "nothing"
        /\ HubTells(calls, Taken(toHub, calls), "error")
    BY <1>12 DEF HubIsTold
  <2> QED
    BY <2>1, <1>10
<1> QED
  BY <1>1, <1>2, <1>3, <1>4, <1>5, <1>6, <1>7, <1>8, <1>9, <1>11, <1>12 DEF HubStep

(* A step of the hub keeps the invariant. *)
LEMMA HubStepKeeps ==
  ASSUME IInv, NEW c \in Call, HubStep(c)
  PROVE  IInv'
<1>1. Types' /\ Moves(c)
  BY HubStepTypes, HubMoves DEF IInv
<1>2. Fresh' /\ Unopened' /\ HubFits' /\ Ends'
  BY <1>1, HubKeeps
<1>3. PhoneSide'
  <2>1. CASE ~PhoneLives \/ c # calls
    BY <2>1, <1>1, HubElsewhere
  <2>2. CASE PhoneLives /\ c = calls /\ calls \in cut
    <3>1. toPhone'[calls] = toPhone[calls]
      BY <2>2, <1>1 DEF Moves, OfConnection
    <3> QED
      BY <2>2, <3>1, <1>1, HubUnheard
  <2>3. CASE PhoneLives /\ c = calls /\ calls \notin cut
    <3>1. Proceeds(calls) \/ Stops(calls)
      BY <2>3, <1>1 DEF Moves
    <3> QED
      BY <2>3, <3>1, <1>1, HubGoesOnWell, HubStopsWell
  <2> QED
    BY <2>1, <2>2, <2>3
<1> QED
  BY <1>1, <1>2, <1>3 DEF IInv, PhoneSide

-----------------------------------------------------------------------------
(* The phone's steps.                                                      *)

(* A step of the phone's call is about its connection alone. *)
OfCall ==
  /\ hub' = hub /\ hubEnd' = hubEnd /\ cut' = cut /\ calls' = calls
  /\ recorded' = recorded
  /\ \A e \in Call : e # calls => /\ toHub'[e] = toHub[e] /\ toPhone'[e] = toPhone[e]
                                  /\ outcome'[e] = outcome[e]

(* What the other connections keep. *)
LEMMA PhoneKeeps ==
  ASSUME IInv, PhoneLives, OfCall, TaskFits(calls)',
         outcome'[calls] = "ok" => hubEnd[calls] = "ok",
         outcome'[calls] = "lost" /\ calls \notin cut => ~HubLives(calls) /\ hubEnd[calls] # "told"
  PROVE  Fresh' /\ Unopened' /\ HubFits' /\ Ends'
<1>1. calls \in Call /\ calls \in Nat
  BY CallIsOpen DEF IInv, Types, PhoneTypes
<1>2. Fresh'
  <2>1. ASSUME NEW c \in Call, c > calls PROVE c # calls
    BY <1>1, <2>1
  <2> QED
    BY <2>1 DEF IInv, Fresh, OfCall
<1>3. Unopened'
  BY DEF IInv, Unopened, OfCall, PhoneLives
<1>4. HubFits'
  <2>1. ASSUME NEW e \in Call, e # calls PROVE TaskFits(e)'
    <3>1. hub'[e] = hub[e] /\ toHub'[e] = toHub[e]
      BY <2>1 DEF OfCall
    <3>2. HubExpects(e)' = HubExpects(e)
      BY <3>1 DEF HubExpects
    <3>3. TaskFits(e)
      BY DEF IInv, HubFits
    <3> QED
      BY <3>1, <3>2, <3>3 DEF TaskFits, HubLives
  <2>2. calls' = calls /\ TaskFits(calls)'
    BY DEF OfCall
  <2>3. \A e \in Call : e = calls => TaskFits(e)'
    BY <2>2 DEF TaskFits, HubLives, HubExpects
  <2> QED
    BY <2>1, <2>3 DEF HubFits
<1>5. Ends'
  <2>1. ASSUME NEW e \in Call, e # calls
        PROVE  /\ (HubLives(e) => hubEnd[e] = "none")'
               /\ (outcome[e] = "ok" => hubEnd[e] = "ok")'
               /\ (outcome[e] = "lost" /\ e \notin cut => ~HubLives(e) /\ hubEnd[e] # "told")'
    BY <2>1 DEF IInv, Ends, HubLives, OfCall
  <2>2. ASSUME NEW e \in Call, e = calls
        PROVE  /\ (HubLives(e) => hubEnd[e] = "none")'
               /\ (outcome[e] = "ok" => hubEnd[e] = "ok")'
               /\ (outcome[e] = "lost" /\ e \notin cut => ~HubLives(e) /\ hubEnd[e] # "told")'
    BY <2>2 DEF IInv, Ends, HubLives, OfCall
  <2> QED
    BY <2>1, <2>2 DEF Ends
<1> QED
  BY <1>2, <1>3, <1>4, <1>5

(* A call that ends. *)
LEMMA CallEnds ==
  ASSUME IInv, Types', PhoneLives, OfCall, phone' = Idle, TaskFits(calls)',
         outcome'[calls] = "ok" => hubEnd[calls] = "ok",
         outcome'[calls] = "lost" /\ calls \notin cut => ~HubLives(calls) /\ hubEnd[calls] # "told",
         \A record \in late' : record[1] = "phone" => record[2] \in recorded,
         peer'["phone"] # None => peer'["phone"] \in recorded
  PROVE  IInv'
<1>1. Fresh' /\ Unopened' /\ HubFits' /\ Ends'
  BY PhoneKeeps
<1>2. phone'.at = "idle"
  BY DEF Idle
<1>3. PhoneFits' /\ Lockstep' /\ Tidings' /\ Reason'
  BY <1>2 DEF PhoneFits, Lockstep, Tidings, Reason, PhoneLives
<1>4. Keys'
  BY <1>2 DEF Keys, PhoneLives, OfCall
<1> QED
  BY <1>1, <1>3, <1>4 DEF IInv

(* What the phone reads is what the hub sent it. *)
LEMMA PhoneReads ==
  ASSUME Types, calls \in Call
  PROVE  /\ \A word : Tells(word) => NextOn(toPhone, calls) = word
         /\ \A word, next : TellsTwice(word, next) => NextOn(toPhone, calls) = word
         /\ \A word : Asks(word) => NextOn(toPhone, calls) = "nothing"
         /\ Quiet => NextOn(toPhone, calls) = "nothing"
         /\ NextOn(toPhone, calls) # "nothing" =>
              Len(toPhone[calls]) # 0 /\ NextOn(toPhone, calls) = toPhone[calls][1].is
<1>1. toPhone \in [Call -> Seq(Carry(HubWord))]
  BY DEF Types, WireTypes
<1>2. /\ Len(toPhone[calls]) = 0 => NextOn(toPhone, calls) = "nothing"
      /\ Len(toPhone[calls]) # 0 => NextOn(toPhone, calls) = toPhone[calls][1].is
  BY <1>1, NextIsHead
<1> QED
  BY <1>2 DEF Asks, Tells, TellsTwice, Quiet

(* What the phone says last before it ends its call is what the hub's task *)
(* expects, or takes as a reason to stop.                                  *)
LEMMA LastOfPhone ==
  ASSUME IInv, PhoneLives, OfCall, NEW word \in {"done", "error"},
         toHub' = Sent(toHub, calls, <<Plain(word)>>),
         HubLives(calls) /\ calls \notin cut =>
           /\ Len(toHub[calls]) = 0 /\ hub[calls].at # "naming"
           /\ hub[calls].at \in HubWorks \/ word \in HubExpects(calls)
  PROVE  TaskFits(calls)'
<1>h. calls \in Call /\ Types
  BY CallIsOpen DEF IInv
<1>1. Plain(word) \in Carry(PhoneWord) /\ Plain(word).is = word
  BY MessageTypes DEF Plain, Message, PhoneWord
<1>2. CASE calls \in cut
  <2>1. toHub'[calls] = toHub[calls]
    BY <1>2 DEF Sent
  <2>2. HubExpects(calls)' = HubExpects(calls)
    BY DEF HubExpects, OfCall
  <2>3. TaskFits(calls)
    BY <1>h DEF IInv, HubFits
  <2> QED
    BY <2>1, <2>2, <2>3 DEF TaskFits, HubLives, OfCall
<1>3. CASE ~HubLives(calls)
  BY <1>3 DEF TaskFits, HubLives, OfCall
<1>4. CASE HubLives(calls) /\ calls \notin cut
  <2> DEFINE m == Plain(word)
  <2>1. m \in Carry(PhoneWord) /\ m.is = word /\ toHub' = Sent(toHub, calls, <<m>>)
    BY <1>1
  <2> HIDE DEF m
  <2>2. /\ Len(Sent(toHub, calls, <<m>>)[calls]) = Len(toHub[calls]) + 1
        /\ Sent(toHub, calls, <<m>>)[calls][Len(toHub[calls]) + 1] = m
    BY ONLY <2>1, <1>4, <1>h, WireToHub
  <2>3. Len(toHub'[calls]) = 1 /\ toHub'[calls][1].is = word
    <3>1. Len(toHub[calls]) = 0 /\ toHub'[calls] = Sent(toHub, calls, <<m>>)[calls]
      BY <1>4, <2>1
    <3> QED
      BY ONLY <3>1, <2>1, <2>2
  <2>4. HubExpects(calls)' = HubExpects(calls)
    BY DEF HubExpects, OfCall
  <2>5. calls' = calls /\ hub' = hub
    BY DEF OfCall
  <2>6. Len(toHub'[calls']) = 1 /\ toHub'[calls'][1].is = word
    BY <2>3, <2>5
  <2>7. /\ hub'[calls'].at # "naming"
        /\ hub'[calls'].at \in HubWorks \/ word \in HubExpects(calls)'
    BY <2>4, <2>5, <1>4
  <2> QED
    BY ONLY <2>6, <2>7 DEF TaskFits
<1> QED
  BY <1>2, <1>3, <1>4

(* The queues of the other connections stay as they are. *)
LEMMA ElsewhereQueues ==
  ASSUME Types, calls \in Call
  PROVE  \A e \in Call : e # calls =>
           /\ Taken(toPhone, calls)[e] = toPhone[e]
           /\ \A messages : Sent(toHub, calls, messages)[e] = toHub[e]
           /\ \A how : [outcome EXCEPT ![calls] = how][e] = outcome[e]
<1>1. /\ toHub \in [Call -> Seq(Carry(PhoneWord))] /\ toPhone \in [Call -> Seq(Carry(HubWord))]
      /\ outcome \in [Call -> How]
  BY DEF Types, WireTypes, PhoneTypes
<1>2. ASSUME NEW e \in Call, e # calls
      PROVE  Taken(toPhone, calls)[e] = toPhone[e]
  BY <1>1, <1>2 DEF Taken
<1>3. ASSUME NEW e \in Call, e # calls, NEW messages
      PROVE  Sent(toHub, calls, messages)[e] = toHub[e]
  BY <1>1, <1>3 DEF Sent
<1>4. ASSUME NEW e \in Call, e # calls, NEW how
      PROVE  [outcome EXCEPT ![calls] = how][e] = outcome[e]
  BY <1>1, <1>4
<1> QED
  BY <1>2, <1>3, <1>4

(* A task that has nothing new to read. *)
LEMMA TaskUnmoved ==
  ASSUME IInv, PhoneLives, OfCall, toHub' = toHub
  PROVE  TaskFits(calls)'
<1>1. TaskFits(calls)
  BY CallIsOpen DEF IInv, HubFits
<1>2. HubExpects(calls)' = HubExpects(calls)
  BY DEF HubExpects, OfCall
<1> QED
  BY <1>1, <1>2 DEF TaskFits, HubLives, OfCall

(* Every end of a call keeps the invariant: the user has to confirm a      *)
(* reset...                                                                *)
LEMMA StopKeeps ==
  ASSUME IInv, Types', NEW plan \in Plan \ {"exchange"},
         phone.at = "hello", NextOn(toPhone, calls) = plan,
         toPhone' = Taken(toPhone, calls), toHub' = Sent(toHub, calls, <<Plain("done")>>),
         PhoneEnds("reset_needed"), UNCHANGED <<hubFrame, cut, slot, code, fileVars, faults>>
  PROVE  IInv'
<1>h. PhoneLives /\ calls \in Call /\ Types
  BY CallIsOpen DEF IInv, PhoneLives
<1>1. OfCall
  BY <1>h, ElsewhereQueues DEF OfCall, PhoneEnds, hubFrame, fileVars
<1>2. HubLives(calls) /\ calls \notin cut =>
        Len(toHub[calls]) = 0 /\ hub[calls].at = "answer"
  <2>1. SUFFICES ASSUME HubLives(calls), calls \notin cut
                 PROVE  Len(toHub[calls]) = 0 /\ hub[calls].at = "answer"
    OBVIOUS
  <2>2. PairingTurn \/ SyncTurn
    BY <2>1, <1>h DEF IInv, Lockstep
  <2>3. NextOn(toPhone, calls) # "nothing" /\ NextOn(toPhone, calls) # "exchange"
    BY DEF Plan
  <2> QED
    BY <2>2, <2>3, <1>h, PhoneSees, PhoneReads DEF Tells
<1>3. TaskFits(calls)'
  BY <1>h, <1>1, <1>2, LastOfPhone DEF HubExpects
<1>4. outcome'[calls] = "reset_needed" /\ phone' = Idle
  BY <1>h DEF PhoneEnds, Types, PhoneTypes
<1>5. late' = late /\ peer' = peer
  BY DEF fileVars
<1> QED
  BY <1>h, <1>1, <1>3, <1>4, <1>5, CallEnds DEF IInv, Keys

(* ...the phone has done what it called for... *)
LEMMA FinishKeeps ==
  ASSUME IInv, Types', PhoneFinishes
  PROVE  IInv'
<1>h. PhoneLives /\ calls \in Call /\ Types
  BY CallIsOpen DEF IInv, PhoneLives, PhoneFinishes, PhoneWorks
<1>1. OfCall
  BY <1>h, ElsewhereQueues DEF OfCall, PhoneEnds, hubFrame, wireVars, PhoneFinishes
<1>2. TaskFits(calls)'
  BY <1>h, <1>1, TaskUnmoved DEF PhoneFinishes, wireVars
<1>3. outcome'[calls] = "ok" /\ phone' = Idle
  BY <1>h DEF PhoneFinishes, PhoneEnds, Types, PhoneTypes
<1>4. hubEnd[calls] = "ok"
  BY <1>h DEF IInv, Tidings, PhoneFinishes
<1>5. peer'["phone"] # None => peer'["phone"] \in recorded
  <2>1. /\ phone.at = "recording" => phone.hubKey \in recorded
        /\ peer["phone"] # None => peer["phone"] \in recorded
    BY DEF IInv, Keys
  <2>2. peer'["phone"] = peer["phone"] \/ (phone.at = "recording" /\ peer'["phone"] = phone.hubKey)
    BY <1>h DEF PhoneFinishes, Record, Types, FileTypes, Device
  <2> QED
    BY <2>1, <2>2
<1>6. late' = late
  BY DEF PhoneFinishes
<1> QED
  BY <1>h, <1>1, <1>2, <1>3, <1>4, <1>5, <1>6, CallEnds DEF IInv, Keys

(* ...a step of its fails... *)
LEMMA FailKeeps ==
  ASSUME IInv, Types', PhoneFails
  PROVE  IInv'
<1>h. PhoneLives /\ calls \in Call /\ Types
  BY CallIsOpen DEF IInv, PhoneLives, PhoneFails, PhoneWorks, PhoneTalks
<1>1. OfCall
  BY <1>h, ElsewhereQueues DEF OfCall, PhoneEnds, hubFrame, fileVars, PhoneFails
<1>2. HubLives(calls) /\ calls \notin cut =>
        /\ Len(toHub[calls]) = 0
        /\ hub[calls].at \in {"hello", "identity", "push", "answer", "replying", "sending"}
  <2>1. SUFFICES ASSUME HubLives(calls), calls \notin cut
                 PROVE  /\ Len(toHub[calls]) = 0
                        /\ hub[calls].at \in {"hello", "identity", "push", "answer", "replying", "sending"}
    OBVIOUS
  <2>2. PairingTurn \/ SyncTurn
    BY <2>1, <1>h DEF IInv, Lockstep
  <2>3. phone.at \in PhoneTalks \cup {"kk"} /\ NextOn(toPhone, calls) # "nothing"
    BY <2>2, PhoneSees DEF PhoneFails
  <2>4. /\ phone.at = "kk" => hub[calls].at = "hello" /\ Tells("go")
        /\ phone.at = "identity" =>
             (hub[calls].at = "naming" /\ Quiet) \/ (hub[calls].at = "identity" /\ Tells("identity"))
        /\ phone.at = "done" => (\E word : Asks(word)) \/ Quiet
        /\ phone.at = "hello" =>
             \/ \E word : Asks(word)
             \/ hub[calls].at \in {"push", "answer"} /\ \E word : Tells(word)
        /\ phone.at = "report" =>
             \/ \E word : Asks(word)
             \/ hub[calls].at \in {"replying", "sending"} /\ Tells("report")
        /\ phone.at = "reply" => Quiet
        /\ phone.at = "full" => Quiet \/ \E word : Asks(word)
    BY <2>2, <2>3, <1>h, PhoneSees, PhoneReads
  <2> QED
    BY <2>3, <2>4, <1>h, PhoneReads DEF Tells, PhoneTalks
<1>3. TaskFits(calls)'
  <2>1. CASE phone.at = "recording"
    BY <2>1, <1>h, <1>1, TaskUnmoved DEF PhoneFails
  <2>2. CASE phone.at # "recording"
    <3>1. "error" \in HubExpects(calls) \/ hub[calls].at \in HubWorks
             \/ hub[calls].at \notin {"hello", "identity", "push", "answer", "replying", "sending"}
      BY DEF HubExpects, HubWorks
    <3>2. toHub' = Sent(toHub, calls, <<Plain("error")>>)
      BY <2>2 DEF PhoneFails
    <3> QED
      BY <3>1, <3>2, <1>h, <1>1, <1>2, LastOfPhone
  <2> QED
    BY <2>1, <2>2
<1>4. outcome'[calls] = "failed" /\ phone' = Idle
  BY <1>h DEF PhoneFails, PhoneEnds, Types, PhoneTypes
<1>5. late' = late /\ peer' = peer
  BY DEF PhoneFails, fileVars
<1> QED
  BY <1>h, <1>1, <1>3, <1>4, <1>5, CallEnds DEF IInv, Keys

(* ...the hub gives it a reason... *)
LEMMA ToldKeeps ==
  ASSUME IInv, Types', PhoneIsTold
  PROVE  IInv'
<1>h. PhoneLives /\ calls \in Call /\ Types
  BY CallIsOpen DEF IInv, PhoneLives, PhoneIsTold, PhoneOpens, PhoneTalks
<1>1. OfCall
  BY <1>h, ElsewhereQueues DEF OfCall, PhoneEnds, hubFrame, fileVars, PhoneIsTold
<1>2. ~(HubLives(calls) /\ calls \notin cut)
  <2>1. SUFFICES ASSUME HubLives(calls), calls \notin cut
                 PROVE  FALSE
    OBVIOUS
  <2>2. PairingTurn \/ SyncTurn
    BY <2>1, <1>h DEF IInv, Lockstep
  <2>3. NextOn(toPhone, calls) \in {"nothing", "go", "identity", "report"} \cup Plan
    BY <2>2, <1>h, PhoneReads DEF PairingTurn, SyncTurn, Plan
  <2> QED
    BY <2>3 DEF PhoneIsTold, Plan
<1>3. TaskFits(calls)'
  <2>1. CASE toHub' = toHub
    BY <2>1, <1>h, <1>1, TaskUnmoved
  <2>2. CASE toHub' = Sent(toHub, calls, <<Plain("error")>>)
    BY <2>2, <1>h, <1>1, <1>2, LastOfPhone
  <2> QED
    BY <2>1, <2>2 DEF PhoneIsTold
<1>4. outcome'[calls] = "told" /\ phone' = Idle
  BY <1>h DEF PhoneIsTold, PhoneEnds, Types, PhoneTypes
<1>5. late' = late /\ peer' = peer
  BY DEF PhoneIsTold, fileVars
<1> QED
  BY <1>h, <1>1, <1>3, <1>4, <1>5, CallEnds DEF IInv, Keys

(* ...the connection is gone... *)
LEMMA LostKeeps ==
  ASSUME IInv, Types', PhoneIsCut
  PROVE  IInv'
<1>h. PhoneLives /\ calls \in Call /\ Types
  BY CallIsOpen DEF IInv, PhoneLives, PhoneIsCut, PhoneOpens, PhoneTalks
<1>1. OfCall
  BY <1>h, ElsewhereQueues DEF OfCall, PhoneEnds, hubFrame, wireVars, fileVars, PhoneIsCut
<1>2. TaskFits(calls)'
  BY <1>h, <1>1, TaskUnmoved DEF PhoneIsCut, wireVars
<1>3. outcome'[calls] = "lost" /\ phone' = Idle
  BY <1>h DEF PhoneIsCut, PhoneEnds, Types, PhoneTypes
<1>4. calls \notin cut => ~HubLives(calls) /\ hubEnd[calls] # "told"
  <2>1. SUFFICES ASSUME calls \notin cut PROVE ~HubLives(calls) /\ hubEnd[calls] # "told"
    OBVIOUS
  <2>2. hub[calls] = NoTask /\ (toPhone[calls] = << >> \/ toHub[calls] # << >>)
    BY <2>1 DEF PhoneIsCut
  <2>3. Len(toPhone[calls]) = 0 \/ Len(toHub[calls]) # 0
    BY <2>2, <1>h, NextIsHead DEF Types, WireTypes
  <2> QED
    BY <2>1, <2>2, <2>3, <1>h DEF IInv, Reason, HubLives, NoTask
<1>5. late' = late /\ peer' = peer
  BY DEF PhoneIsCut, fileVars
<1> QED
  BY <1>h, <1>1, <1>2, <1>3, <1>4, <1>5, CallEnds DEF IInv, Keys

(* ...or takes too long. *)
LEMMA GiveUpKeeps ==
  ASSUME IInv, Types', PhoneGivesUp
  PROVE  IInv'
<1>h. PhoneLives /\ calls \in Call /\ Types
  BY CallIsOpen DEF IInv, PhoneLives, PhoneGivesUp, Types, PhoneTypes
<1>1. OfCall
  BY <1>h, ElsewhereQueues DEF OfCall, PhoneEnds, hubFrame, wireVars, PhoneGivesUp
<1>2. TaskFits(calls)'
  BY <1>h, <1>1, TaskUnmoved DEF PhoneGivesUp, wireVars
<1>3. outcome'[calls] = "gave_up" /\ phone' = Idle
  BY <1>h DEF PhoneGivesUp, PhoneEnds, Types, PhoneTypes
<1>4. \A record \in late' : record[1] = "phone" => record[2] \in recorded
  <2>1. phone.at = "recording" => phone.hubKey \in recorded
    BY DEF IInv, Keys
  <2>2. <<"phone", phone.hubKey, None>>[2] = phone.hubKey
    OBVIOUS
  <2>3. \A record \in late : record[1] = "phone" => record[2] \in recorded
    BY DEF IInv, Keys
  <2> QED
    BY <2>1, <2>2, <2>3 DEF PhoneGivesUp
<1>5. peer' = peer
  BY DEF PhoneGivesUp
<1> QED
  BY <1>h, <1>1, <1>2, <1>3, <1>4, <1>5, CallEnds DEF IInv, Keys

(* What a call does that goes on: it reads a message that is no reason to  *)
(* stop, and knows what it waits for then.                                 *)
GoesOn ==
  /\ OfCall
  /\ outcome' = outcome /\ late' = late /\ peer' = peer
  /\ Len(toPhone[calls]) # 0 /\ toPhone[calls][1].is \notin {"refusal", "error"}
  /\ toPhone' = Taken(toPhone, calls)
  /\ calls \in cut \/ phone.at \in {"three", "report"} => toHub'[calls] = toHub[calls]
  /\ phone'.at # "idle"
  /\ phone'.at \in PhoneWorks => phone.at \in {"done", "reply", "full"} /\ toPhone[calls][1].is \in Final
  /\ phone'.at = "recording" => /\ phone.at = "done" /\ toPhone[calls][1].is = "done"
                                /\ phone'.hubKey = phone.hubKey
  /\ phone'.at = "done" => /\ phone.at = "identity" /\ toPhone[calls][1].is = "identity"
                           /\ phone'.hubKey = toPhone[calls][1].mine
  /\ phone.at = "three" => phone'.at = "identity"
  /\ phone.at = "kk" => phone'.at = "hello"
  /\ phone.at = "report" =>
       /\ phone'.at = IF phone.plan = "exchange" THEN "reply" ELSE "full"
       /\ phone'.plan = phone.plan

(* Of the length of a queue. *)
LEMMA OneOrTwo ==
  \A n \in Nat : /\ n # 0 /\ n <= 2 => n = 1 \/ n = 2
                 /\ n >= 2 => n # 0 /\ n # 1
                 /\ n # 0 /\ n <= 2 /\ n # 2 => n - 1 = 0
                 /\ n = 1 => n - 1 = 0
                 /\ n = 2 => n - 1 = 1
  OBVIOUS

(* The phone's record of the hub stays one the hub has recorded it under.  *)
LEMMA GoesOnKeys ==
  ASSUME IInv, PhoneLives, GoesOn
  PROVE  Keys'
<1> DEFINE q == toPhone[calls]
<1>h. calls \in Call /\ Types
  BY CallIsOpen DEF IInv
<1>p. calls' = calls /\ hub' = hub /\ recorded' = recorded /\ late' = late /\ peer' = peer
  BY DEF GoesOn, OfCall
<1>q. /\ Len(q) \in Nat /\ Len(q) # 0
      /\ Len(toPhone'[calls]) = Len(q) - 1
      /\ \A i \in 1..Len(q) - 1 : toPhone'[calls][i] = q[i + 1]
  <2>1. Len(toPhone[calls]) # 0 /\ toPhone' = Taken(toPhone, calls)
    BY DEF GoesOn
  <2> QED
    BY ONLY <2>1, <1>h, WireTakes
<1>1. ASSUME HubLives(calls)
      PROVE  /\ \A i \in 1..Len(q) : q[i].is = "identity" =>
                  /\ hub[calls].at = "identity" /\ Len(toHub[calls]) = 0
                  /\ q[i].mine = hub[calls].mine
  BY <1>1 DEF IInv, Keys
<1>2. ASSUME HubLives(calls), NEW i \in 1..Len(toPhone'[calls]), toPhone'[calls][i].is = "identity"
      PROVE  /\ hub[calls].at = "identity" /\ Len(toHub'[calls]) = 0
             /\ toPhone'[calls][i].mine = hub[calls].mine
  <2>1. i + 1 \in 1..Len(q) /\ toPhone'[calls][i] = q[i + 1]
    BY <1>q
  <2>2. /\ hub[calls].at = "identity" /\ Len(toHub[calls]) = 0
        /\ toPhone'[calls][i].mine = hub[calls].mine
    BY <1>1, <1>2, <2>1
  <2>3. calls \in cut \/ phone.at \in {"three", "report"}
    <3>1. SUFFICES ASSUME calls \notin cut PROVE phone.at = "three"
      OBVIOUS
    <3>2. PairingTurn \/ SyncTurn
      BY <3>1, <1>2 DEF IInv, Lockstep
    <3>3. Len(q) >= 2
      BY <1>q, <2>1
    <3>4. \/ phone.at = "three"
          \/ Len(q) = 0 \/ Len(q) = 1
      BY <3>2, <2>2, HubSees DEF Asks, Tells
    <3>5. Len(q) # 0 /\ Len(q) # 1
      <4>1. Len(q) \in Nat
        BY <1>q
      <4> QED
        BY ONLY <3>3, <4>1, OneOrTwo
    <3> QED
      BY <3>4, <3>5
  <2> QED
    BY <2>2, <2>3 DEF GoesOn
<1>3. ASSUME HubLives(calls), phone'.at = "done"
      PROVE  hub[calls].at \in {"identity", "recording"} /\ hub[calls].mine = phone'.hubKey
  <2>1. q[1].is = "identity" /\ phone'.hubKey = q[1].mine
    BY <1>3 DEF GoesOn
  <2>2. 1 \in 1..Len(q)
    BY <1>q
  <2> QED
    BY <1>1, <1>3, <2>1, <2>2
<1>4. phone'.at = "done" => Len(toPhone'[calls]) = 0
  <2>1. phone'.at = "done" => phone.at = "identity"
    BY DEF GoesOn
  <2>2. phone.at = "identity" => Len(q) <= 2 /\ Len(q) # 2
    BY DEF IInv, PhoneFits
  <2>3. Len(q) \in Nat /\ Len(q) # 0 /\ Len(toPhone'[calls]) = Len(q) - 1
    BY <1>q
  <2>4. Len(q) <= 2 /\ Len(q) # 2 => Len(toPhone'[calls]) = 0
    BY ONLY <2>3, OneOrTwo
  <2> QED
    BY <2>1, <2>2, <2>4
<1>5. phone'.at = "recording" => phone'.hubKey \in recorded
  BY <1>q DEF GoesOn, IInv, Keys
<1>6. /\ \A record \in late : record[1] = "phone" => record[2] \in recorded
      /\ peer["phone"] # None => peer["phone"] \in recorded
  BY DEF IInv, Keys
<1>7. HubLives(calls)' <=> HubLives(calls)
  BY <1>p DEF HubLives
<1> QED
  BY <1>2, <1>3, <1>4, <1>5, <1>6, <1>7, <1>p DEF Keys

(* A call that goes on when the task is gone, or the connection broke, has *)
(* what was sent before.                                                   *)
LEMMA GoesOnAlone ==
  ASSUME IInv, PhoneLives, GoesOn, ~HubLives(calls) \/ calls \in cut
  PROVE  TaskFits(calls)' /\ PhoneFits' /\ Lockstep' /\ Tidings' /\ Reason'
<1> DEFINE q == toPhone[calls]
<1> DEFINE r == toPhone'[calls']
<1>h. calls \in Call /\ Types
  BY CallIsOpen DEF IInv
<1>p. calls' = calls /\ hub' = hub /\ hubEnd' = hubEnd /\ cut' = cut /\ outcome' = outcome
  BY DEF GoesOn, OfCall
<1>q. /\ Len(q) \in Nat /\ Len(q) # 0 /\ Len(q) <= 2
      /\ Len(r) = Len(q) - 1
      /\ \A i \in 1..Len(q) - 1 : r[i] = q[i + 1]
  <2>1. Len(toPhone[calls]) # 0 /\ toPhone' = Taken(toPhone, calls) /\ calls' = calls
    BY <1>p DEF GoesOn
  <2>2. Len(toPhone[calls]) <= 2
    BY DEF IInv, PhoneFits
  <2> QED
    BY ONLY <2>1, <2>2, <1>h, WireTakes
<1>1. TaskFits(calls)'
  <2>1. CASE ~HubLives(calls)
    BY <2>1, <1>p DEF TaskFits, HubLives
  <2>2. CASE calls \in cut
    <3>1. toHub'[calls] = toHub[calls]
      BY <2>2 DEF GoesOn
    <3>2. HubExpects(calls)' = HubExpects(calls)
      BY <1>p DEF HubExpects
    <3>3. TaskFits(calls)
      BY <1>h DEF IInv, HubFits
    <3> QED
      BY <3>1, <3>2, <3>3, <1>p DEF TaskFits, HubLives
  <2> QED
    BY <2>1, <2>2
<1>2. Len(q) = 1 \/ Len(q) = 2
  <2>1. Len(q) \in Nat /\ Len(q) # 0 /\ Len(q) <= 2
    BY <1>q
  <2> QED
    BY ONLY <2>1, OneOrTwo
<1>3. Len(q) = 2 =>
        \/ phone.at = "three" /\ q[2].is \in {"identity", "error"}
        \/ phone.at = "kk" /\ q[2].is = "error"
        \/ phone.at = "report" /\ q[2].is \in {"error", IF phone.plan = "exchange" THEN "reply" ELSE "full"}
  BY DEF IInv, PhoneFits
<1>4. Len(q) = 2 => Len(r) = 1 /\ r[1] = q[2]
  <2>1. ASSUME Len(q) = 2 PROVE Len(r) = 1 /\ r[1] = q[2]
    <3>1. 1 \in 1..Len(q) - 1
      BY <2>1
    <3> QED
      BY <3>1, <2>1, <1>q
  <2> QED
    BY <2>1
<1>5. Len(q) = 1 => Len(r) = 0
  BY ONLY <1>q
<1>6. PhoneFits'
  <2>1. CASE Len(q) = 1
    BY <2>1, <1>5 DEF PhoneFits
  <2>2. CASE Len(q) = 2
    <3>1. Len(r) = 1 /\ r[1].is = q[2].is
      BY <2>2, <1>4
    <3>2. q[2].is \in PhoneExpects' /\ phone'.at \notin PhoneWorks
      <4>1. CASE phone.at = "three" /\ q[2].is \in {"identity", "error"}
        <5>1. phone'.at = "identity"
          BY <4>1 DEF GoesOn
        <5> QED
          BY <4>1, <5>1 DEF PhoneExpects, PhoneOpens, PhoneWorks
      <4>2. CASE phone.at = "kk" /\ q[2].is = "error"
        <5>1. phone'.at = "hello"
          BY <4>2 DEF GoesOn
        <5> QED
          BY <4>2, <5>1 DEF PhoneExpects, PhoneOpens, PhoneWorks
      <4>3. CASE phone.at = "report" /\ q[2].is \in {"error", IF phone.plan = "exchange" THEN "reply" ELSE "full"}
        <5>1. phone'.at = IF phone.plan = "exchange" THEN "reply" ELSE "full"
          BY <4>3 DEF GoesOn
        <5> QED
          BY <4>3, <5>1 DEF PhoneExpects, PhoneOpens, PhoneWorks
      <4> QED
        BY <2>2, <1>3, <4>1, <4>2, <4>3
    <3> QED
      BY ONLY <3>1, <3>2 DEF PhoneFits
  <2> QED
    BY <2>1, <2>2, <1>2
<1>7. Lockstep'
  BY <1>p DEF Lockstep, HubLives
<1>8. Tidings'
  <2>1. \A i \in 1..Len(q) : q[i].is \in Final => hubEnd[calls] = "ok"
    BY DEF IInv, Tidings
  <2>2. outcome[calls] = "none"
    BY DEF IInv, Tidings
  <2>3. phone'.at \in PhoneWorks => hubEnd[calls] = "ok"
    <3>1. 1 \in 1..Len(q)
      BY <1>q
    <3> QED
      BY <3>1, <2>1 DEF GoesOn
  <2>4. ASSUME NEW i \in 1..Len(r), r[i].is \in Final PROVE hubEnd[calls] = "ok"
    <3>1. i + 1 \in 1..Len(q) /\ i \in 1..Len(q) - 1
      BY <1>q
    <3> QED
      BY <3>1, <2>1, <2>4, <1>q
  <2>5. Len(r) # 2
    BY <1>2, <1>4, <1>5
  <2> QED
    BY <2>2, <2>3, <2>4, <2>5, <1>p DEF Tidings
<1>9. Reason'
  <2>1. SUFFICES ASSUME calls \notin cut, hubEnd[calls] = "told"
                 PROVE  /\ Len(toHub'[calls]) = 0 /\ Len(r) # 0
                        /\ r[Len(r)].is \in {"refusal", "error"}
    BY <1>p DEF Reason
  <2>2. Len(toHub[calls]) = 0 /\ q[Len(q)].is \in {"refusal", "error"}
    BY <2>1 DEF IInv, Reason
  <2>3. Len(q) = 2
    <3>1. q[1].is \notin {"refusal", "error"}
      BY DEF GoesOn
    <3> QED
      BY <3>1, <2>2, <1>2
  <2>4. phone.at # "kk"
    BY <2>1, <2>3 DEF IInv, Tidings
  <2>5. toHub'[calls] = toHub[calls]
    BY <1>3, <2>3, <2>4 DEF GoesOn
  <2> QED
    BY <2>2, <2>3, <2>5, <1>4
<1> QED
  BY <1>1, <1>6, <1>7, <1>8, <1>9

(* The queues after the phone has answered what it was told. *)
LEMMA Asked ==
  ASSUME Types, calls \in Call, calls \notin cut, calls' = calls,
         NEW m \in Carry(PhoneWord), NEW told, Tells(told),
         toPhone' = Taken(toPhone, calls), toHub' = Sent(toHub, calls, <<m>>)
  PROVE  Asks(m.is)'
<1>1. Len(toHub[calls]) = 0 /\ Len(toPhone[calls]) = 1
  BY DEF Tells
<1>2. Len(toPhone'[calls]) = 0
  <2>1. Len(toPhone[calls]) # 0
    BY <1>1
  <2>2. Len(Taken(toPhone, calls)[calls]) = Len(toPhone[calls]) - 1
    BY ONLY <2>1, Types, calls \in Call, WireTakes
  <2> QED
    BY <2>2, <1>1
<1>3. Len(toHub'[calls]) = 1 /\ toHub'[calls][1] = m
  <2>1. /\ Len(Sent(toHub, calls, <<m>>)[calls]) = Len(toHub[calls]) + 1
        /\ Sent(toHub, calls, <<m>>)[calls][Len(toHub[calls]) + 1] = m
    BY ONLY m \in Carry(PhoneWord), Types, calls \in Call, calls \notin cut, WireToHub
  <2>2. toHub'[calls] = Sent(toHub, calls, <<m>>)[calls]
    OBVIOUS
  <2> QED
    BY ONLY <2>1, <2>2, <1>1
<1> QED
  BY <1>2, <1>3 DEF Asks

(* The queues after the phone has just listened. *)
LEMMA HasListened ==
  ASSUME Types, calls \in Call, calls' = calls,
         toPhone' = Taken(toPhone, calls), toHub' = toHub
  PROVE  /\ (\E word : Tells(word)) => Quiet'
         /\ \A word, next : TellsTwice(word, next) => Tells(next)'
<1>1. ASSUME NEW word, Tells(word) PROVE Quiet'
  <2>1. Len(toHub[calls]) = 0 /\ Len(toPhone[calls]) = 1
    BY <1>1 DEF Tells
  <2>2. Len(toPhone[calls]) # 0
    BY <2>1
  <2>3. Len(Taken(toPhone, calls)[calls]) = Len(toPhone[calls]) - 1
    BY ONLY <2>2, Types, calls \in Call, WireTakes
  <2>4. Len(toPhone'[calls']) = 0 /\ Len(toHub'[calls']) = 0
    BY <2>1, <2>3
  <2> QED
    BY ONLY <2>4 DEF Quiet
<1>2. ASSUME NEW word, NEW next, TellsTwice(word, next) PROVE Tells(next)'
  <2>1. Len(toHub[calls]) = 0 /\ Len(toPhone[calls]) = 2 /\ toPhone[calls][2].is = next
    BY <1>2 DEF TellsTwice
  <2>2. Len(toPhone[calls]) # 0
    BY <2>1
  <2>3. /\ Len(Taken(toPhone, calls)[calls]) = Len(toPhone[calls]) - 1
        /\ \A i \in 1..Len(toPhone[calls]) - 1 : Taken(toPhone, calls)[calls][i] = toPhone[calls][i + 1]
    BY ONLY <2>2, Types, calls \in Call, WireTakes
  <2>4. Len(toPhone'[calls']) = 1 /\ Len(toHub'[calls']) = 0
    BY <2>1, <2>3
  <2>5. toPhone'[calls'][1] = toPhone[calls][2]
    <3>1. 1 \in 1..Len(toPhone[calls]) - 1
      BY <2>1
    <3> QED
      BY <3>1, <2>3
  <2> QED
    BY <2>1, <2>4, <2>5 DEF Tells
<1> QED
  BY <1>1, <1>2

(* A call that goes on, with the task at work or waiting, stays in         *)
(* lockstep with it.                                                       *)
LEMMA GoesOnTogether ==
  ASSUME IInv, PhoneLives, GoesOn, HubLives(calls), (PairingTurn \/ SyncTurn)'
  PROVE  TaskFits(calls)' /\ PhoneFits' /\ Lockstep' /\ Tidings' /\ Reason'
<1>1. calls \in Call
  BY CallIsOpen DEF IInv
<1>2. hubEnd[calls] = "none" /\ outcome[calls] = "none"
  BY <1>1 DEF IInv, Ends, Tidings
<1>3. hubEnd'[calls'] = "none" /\ outcome'[calls'] = "none"
  BY <1>2 DEF GoesOn, OfCall
<1> QED
  BY <1>3, LockstepGoesOn DEF Lockstep

(* So a call that goes on keeps the invariant. *)
LEMMA GoesOnKeeps ==
  ASSUME IInv, Types', PhoneLives, GoesOn,
         HubLives(calls) /\ calls \notin cut => (PairingTurn \/ SyncTurn)'
  PROVE  IInv'
<1>1. TaskFits(calls)' /\ PhoneFits' /\ Lockstep' /\ Tidings' /\ Reason'
  <2>1. CASE ~HubLives(calls) \/ calls \in cut
    BY <2>1, GoesOnAlone
  <2>2. CASE HubLives(calls) /\ calls \notin cut
    BY <2>2, GoesOnTogether
  <2> QED
    BY <2>1, <2>2
<1>2. Keys'
  BY GoesOnKeys
<1>3. outcome'[calls] = "none" /\ OfCall
  BY DEF IInv, Tidings, GoesOn
<1>4. Fresh' /\ Unopened' /\ HubFits' /\ Ends'
  BY <1>1, <1>3, PhoneKeeps
<1> QED
  BY <1>1, <1>2, <1>4 DEF IInv

(* What a call reads, answers and leaves alone as it goes on. *)
LEMMA ReadsAndAnswers ==
  ASSUME IInv, PhoneLives, NextOn(toPhone, calls) # "nothing",
         toPhone' = Taken(toPhone, calls), NEW messages, toHub' = Sent(toHub, calls, messages),
         UNCHANGED <<outcome, calls, hubFrame, cut, slot, code, fileVars, faults>>
  PROVE  /\ OfCall /\ outcome' = outcome /\ late' = late /\ peer' = peer
         /\ Len(toPhone[calls]) # 0 /\ toPhone[calls][1].is = NextOn(toPhone, calls)
         /\ Head(toPhone[calls]) = toPhone[calls][1]
         /\ calls \in cut => toHub'[calls] = toHub[calls]
         /\ messages = << >> => toHub' = toHub
<1>h. calls \in Call /\ Types
  BY CallIsOpen DEF IInv
<1>1. OfCall
  BY <1>h, ElsewhereQueues DEF OfCall, hubFrame, fileVars
<1>2. Len(toPhone[calls]) # 0 /\ toPhone[calls][1].is = NextOn(toPhone, calls)
  BY <1>h, PhoneReads
<1>3. Head(toPhone[calls]) = toPhone[calls][1]
  BY <1>2, <1>h, NextIsHead DEF Types, WireTypes
<1>4. calls \in cut => toHub'[calls] = toHub[calls]
  BY DEF Sent
<1>5. messages = << >> => toHub' = toHub
  BY <1>h, WireToHub
<1> QED
  BY <1>1, <1>2, <1>3, <1>4, <1>5 DEF fileVars

(* The phone may go on with its handshake. *)
LEMMA GoKeeps ==
  ASSUME IInv, Types', PhoneGoesOn
  PROVE  IInv'
<1> DEFINE next == AfterGo[phone.at]
<1>h. PhoneLives /\ calls \in Call /\ Types /\ phone \in PhoneCall
  BY CallIsOpen DEF IInv, PhoneLives, PhoneGoesOn, PhoneOpens, Types, PhoneTypes
<1>1. /\ phone.at \in PhoneOpens /\ NextOn(toPhone, calls) = "go"
      /\ toPhone' = Taken(toPhone, calls) /\ toHub' = Sent(toHub, calls, next.sends)
      /\ phone' = [phone EXCEPT !.at = next.at]
      /\ UNCHANGED <<outcome, calls, hubFrame, cut, slot, code, fileVars, faults>>
  BY DEF PhoneGoesOn, PhoneSends
<1>2. /\ OfCall /\ outcome' = outcome /\ late' = late /\ peer' = peer
      /\ Len(toPhone[calls]) # 0 /\ toPhone[calls][1].is = "go"
      /\ calls \in cut => toHub'[calls] = toHub[calls]
      /\ next.sends = << >> => toHub' = toHub
  <2> HIDE DEF next
  <2> QED
    BY <1>h, <1>1, ReadsAndAnswers
<1>3. phone'.at = next.at
  BY <1>h, <1>1 DEF PhoneCall
<1>4. /\ phone.at = "pair" => next.at = "spake"
      /\ phone.at = "spake" => next.at = "one"
      /\ phone.at = "one" => next.at = "three"
      /\ phone.at = "three" => next.at = "identity" /\ next.sends = << >>
      /\ phone.at = "sync" => next.at = "kk"
      /\ phone.at = "kk" => next.at = "hello"
  BY DEF AfterGo
<1>5. \E m \in Carry(PhoneWord) :
        /\ phone.at # "three" => next.sends = <<m>>
        /\ phone.at = "pair" => m.is = "spake"
        /\ phone.at = "spake" => m.is = "one"
        /\ phone.at = "one" => m.is \in {"three", "wrong"}
        /\ phone.at = "sync" => m.is = "kk"
        /\ phone.at = "kk" => m.is = "hello"
  <2>1. phone.mine \in Nat /\ phone.hubKey \in Nat
    BY <1>h DEF PhoneCall
  <2>2. /\ Message(ThirdMessage, phone.mine, None) \in Carry(PhoneWord)
        /\ Message("kk", phone.mine, phone.hubKey) \in Carry(PhoneWord)
    BY <2>1, MessageTypes DEF ThirdMessage, None, PhoneWord
  <2>3. /\ Plain("spake") \in Carry(PhoneWord) /\ Plain("one") \in Carry(PhoneWord)
        /\ Plain("hello") \in Carry(PhoneWord)
    BY MessageTypes DEF PhoneWord
  <2>4. /\ Message(ThirdMessage, phone.mine, None).is \in {"three", "wrong"}
        /\ Message("kk", phone.mine, phone.hubKey).is = "kk"
        /\ Plain("spake").is = "spake" /\ Plain("one").is = "one" /\ Plain("hello").is = "hello"
    BY DEF Plain, Message, ThirdMessage
  <2>5. CASE phone.at = "pair"
    BY <2>5, <2>3, <2>4 DEF AfterGo
  <2>6. CASE phone.at = "spake"
    BY <2>6, <2>3, <2>4 DEF AfterGo
  <2>7. CASE phone.at = "one"
    BY <2>7, <2>2, <2>4 DEF AfterGo
  <2>8. CASE phone.at = "three"
    BY <2>8, <2>2
  <2>9. CASE phone.at = "sync"
    BY <2>9, <2>2, <2>4 DEF AfterGo
  <2>10. CASE phone.at = "kk"
    BY <2>10, <2>3, <2>4 DEF AfterGo
  <2> QED
    BY <1>1, <2>5, <2>6, <2>7, <2>8, <2>9, <2>10 DEF PhoneOpens
<1> HIDE DEF next
<1>6. GoesOn
  BY <1>1, <1>2, <1>3, <1>4 DEF GoesOn, PhoneOpens, PhoneWorks
<1>7. ASSUME HubLives(calls), calls \notin cut
      PROVE  (PairingTurn \/ SyncTurn)'
  <2>1. PairingTurn \/ SyncTurn
    BY <1>7, <1>h DEF IInv, Lockstep
  <2>2. \/ phone.at = "pair" /\ hub[calls].at = "spake" /\ Tells("go")
        \/ phone.at = "spake" /\ hub[calls].at = "one" /\ Tells("go")
        \/ phone.at = "one" /\ hub[calls].at = "three" /\ Tells("go")
        \/ phone.at = "three" /\ hub[calls].at = "naming" /\ Tells("go")
        \/ phone.at = "three" /\ hub[calls].at = "identity" /\ TellsTwice("go", "identity")
        \/ phone.at = "sync" /\ hub[calls].at = "kk" /\ Tells("go")
        \/ phone.at = "kk" /\ hub[calls].at = "hello" /\ Tells("go")
    <3>1. /\ \A word : ~Asks(word)
          /\ ~Quiet
      BY <1>1, <1>h, PhoneReads
    <3> QED
      BY <2>1, <3>1, <1>1, PhoneSees DEF PhoneOpens
  <2>3. calls' = calls /\ hub' = hub
    BY <1>2 DEF OfCall
  <2>4. CASE phone.at = "three" /\ hub[calls].at = "naming" /\ Tells("go")
    <3>1. Quiet' /\ Turn("identity", "naming")'
      BY <2>3, <2>4, <1>h, <1>1, <1>2, <1>3, <1>4, HasListened DEF Turn
    <3> QED
      BY <3>1 DEF PairingTurn
  <2>5. CASE phone.at = "three" /\ hub[calls].at = "identity" /\ TellsTwice("go", "identity")
    <3>1. Tells("identity")' /\ Turn("identity", "identity")'
      BY <2>3, <2>5, <1>h, <1>1, <1>2, <1>3, <1>4, HasListened DEF Turn
    <3> QED
      BY <3>1 DEF PairingTurn
  <2>6. CASE phone.at # "three" /\ Tells("go")
    <3>1. PICK m \in Carry(PhoneWord) :
            /\ next.sends = <<m>>
            /\ phone.at = "pair" => m.is = "spake"
            /\ phone.at = "spake" => m.is = "one"
            /\ phone.at = "one" => m.is \in {"three", "wrong"}
            /\ phone.at = "sync" => m.is = "kk"
            /\ phone.at = "kk" => m.is = "hello"
      BY <1>5, <2>6
    <3>2. Asks(m.is)'
      BY <3>1, <2>3, <2>6, <1>h, <1>1, <1>7, Asked
    <3>3. \/ Turn("spake", "spake")' /\ Asks("spake")'
          \/ Turn("one", "one")' /\ Asks("one")'
          \/ Turn("three", "three")' /\ (Asks("three") \/ Asks("wrong"))'
          \/ Turn("kk", "kk")' /\ Asks("kk")'
          \/ Turn("hello", "hello")' /\ Asks("hello")'
      BY <2>2, <2>3, <2>6, <3>1, <3>2, <1>3, <1>4 DEF Turn
    <3> QED
      BY <3>3 DEF PairingTurn, SyncTurn
  <2> QED
    BY <2>2, <2>4, <2>5, <2>6
<1> QED
  BY <1>h, <1>6, <1>7, GoesOnKeeps

(* The phone learns who the hub is and says who it is. *)
LEMMA IdentifiesKeeps ==
  ASSUME IInv, Types', PhoneIdentifies
  PROVE  IInv'
<1> DEFINE m == Plain("identity")
<1>h. PhoneLives /\ calls \in Call /\ Types /\ phone \in PhoneCall
  BY CallIsOpen DEF IInv, PhoneLives, PhoneIdentifies, Types, PhoneTypes
<1>1. /\ phone.at = "identity" /\ NextOn(toPhone, calls) = "identity"
      /\ toPhone' = Taken(toPhone, calls) /\ toHub' = Sent(toHub, calls, <<m>>)
      /\ phone' = [phone EXCEPT !.at = "done", !.hubKey = Head(toPhone[calls]).mine]
      /\ UNCHANGED <<outcome, calls, hubFrame, cut, slot, code, fileVars, faults>>
  BY DEF PhoneIdentifies
<1>m. m \in Carry(PhoneWord) /\ m.is = "identity"
  BY MessageTypes DEF PhoneWord, Plain, Message
<1> HIDE DEF m
<1>2. /\ OfCall /\ outcome' = outcome /\ late' = late /\ peer' = peer
      /\ Len(toPhone[calls]) # 0 /\ toPhone[calls][1].is = "identity"
      /\ Head(toPhone[calls]) = toPhone[calls][1]
      /\ calls \in cut => toHub'[calls] = toHub[calls]
  BY <1>h, <1>1, ReadsAndAnswers
<1>3. phone'.at = "done" /\ phone'.hubKey = toPhone[calls][1].mine
  BY <1>h, <1>1, <1>2 DEF PhoneCall
<1>4. GoesOn
  BY <1>1, <1>2, <1>3 DEF GoesOn, PhoneWorks
<1>5. ASSUME HubLives(calls), calls \notin cut
      PROVE  (PairingTurn \/ SyncTurn)'
  <2>1. PairingTurn \/ SyncTurn
    BY <1>5, <1>h DEF IInv, Lockstep
  <2>2. hub[calls].at = "identity" /\ Tells("identity")
    BY <2>1, <1>1, <1>h, PhoneSees, PhoneReads
  <2>3. Asks(m.is)'
    BY <2>2, <1>h, <1>1, <1>m, <1>5, Asked
  <2>4. Turn("done", "identity")' /\ Asks("identity")'
    BY <2>2, <2>3, <1>2, <1>3, <1>m DEF Turn, OfCall
  <2> QED
    BY <2>4 DEF PairingTurn
<1> QED
  BY <1>h, <1>4, <1>5, GoesOnKeeps

(* The hub's last message: only when its task is over. *)
LEMMA HearsLastKeeps ==
  ASSUME IInv, Types', PhoneHearsDone \/ PhoneHearsLast
  PROVE  IInv'
<1>h. PhoneLives /\ calls \in Call /\ Types /\ phone \in PhoneCall
  BY CallIsOpen DEF IInv, PhoneLives, PhoneHearsDone, PhoneHearsLast, Types, PhoneTypes
<1>1. PICK next \in PhoneWorks :
        /\ NextOn(toPhone, calls) = phone.at
        /\ \/ phone.at = "done" /\ next = "recording"
           \/ phone.at = "reply" /\ next = "applying"
           \/ phone.at = "full" /\ next = "resetting"
        /\ toPhone' = Taken(toPhone, calls) /\ toHub' = Sent(toHub, calls, << >>)
        /\ phone' = [phone EXCEPT !.at = next]
        /\ UNCHANGED <<outcome, calls, hubFrame, cut, slot, code, fileVars, faults>>
  BY DEF PhoneHearsDone, PhoneHearsLast, PhoneSends, PhoneWorks
<1>2. /\ OfCall /\ outcome' = outcome /\ late' = late /\ peer' = peer
      /\ Len(toPhone[calls]) # 0 /\ toPhone[calls][1].is = phone.at
      /\ toHub' = toHub
  BY <1>h, <1>1, ReadsAndAnswers
<1>3. phone'.at = next /\ phone'.hubKey = phone.hubKey
  BY <1>h, <1>1 DEF PhoneCall
<1>4. GoesOn
  BY <1>1, <1>2, <1>3 DEF GoesOn, PhoneWorks, Final
<1>5. ~(HubLives(calls) /\ calls \notin cut)
  <2>1. SUFFICES ASSUME HubLives(calls), calls \notin cut PROVE FALSE
    OBVIOUS
  <2>2. PairingTurn \/ SyncTurn
    BY <2>1, <1>h DEF IInv, Lockstep
  <2> QED
    BY <2>2, <1>1, <1>h, PhoneSees, PhoneReads
<1> QED
  BY <1>h, <1>4, <1>5, GoesOnKeeps

(* The hub has taken the push. *)
LEMMA HearsReportKeeps ==
  ASSUME IInv, Types', PhoneHearsReport
  PROVE  IInv'
<1> DEFINE next == IF phone.plan = "exchange" THEN "reply" ELSE "full"
<1>h. PhoneLives /\ calls \in Call /\ Types /\ phone \in PhoneCall
  BY CallIsOpen DEF IInv, PhoneLives, PhoneHearsReport, Types, PhoneTypes
<1>1. /\ phone.at = "report" /\ NextOn(toPhone, calls) = "report"
      /\ toPhone' = Taken(toPhone, calls) /\ toHub' = Sent(toHub, calls, << >>)
      /\ phone' = [phone EXCEPT !.at = next]
      /\ UNCHANGED <<outcome, calls, hubFrame, cut, slot, code, fileVars, faults>>
  BY DEF PhoneHearsReport, PhoneSends
<1>2. /\ OfCall /\ outcome' = outcome /\ late' = late /\ peer' = peer
      /\ Len(toPhone[calls]) # 0 /\ toPhone[calls][1].is = "report"
      /\ toHub' = toHub
  <2> HIDE DEF next
  <2> QED
    BY <1>h, <1>1, ReadsAndAnswers
<1>3. phone'.at = next /\ phone'.plan = phone.plan
  BY <1>h, <1>1 DEF PhoneCall
<1>4. GoesOn
  BY <1>1, <1>2, <1>3 DEF GoesOn, PhoneWorks
<1>5. ASSUME HubLives(calls), calls \notin cut
      PROVE  (PairingTurn \/ SyncTurn)'
  <2>1. PairingTurn \/ SyncTurn
    BY <1>5, <1>h DEF IInv, Lockstep
  <2>2. /\ Tells("report")
        /\ \/ hub[calls].at = "replying" /\ phone.plan = "exchange"
           \/ hub[calls].at = "sending" /\ phone.plan # "exchange"
    BY <2>1, <1>1, <1>h, PhoneSees, PhoneReads
  <2>3. Quiet'
    BY <2>2, <1>h, <1>1, <1>2, HasListened
  <2>4. Turn("reply", "replying")' \/ Turn("full", "sending")'
    BY <2>2, <1>1, <1>2, <1>3 DEF Turn, OfCall
  <2> QED
    BY <2>3, <2>4 DEF SyncTurn
<1> QED
  BY <1>h, <1>4, <1>5, GoesOnKeeps

(* The plan of a round, which the phone carries out. *)
LEMMA PlanKeeps ==
  ASSUME IInv, Types', NEW plan \in Plan,
         phone.at = "hello", NextOn(toPhone, calls) = plan,
         toPhone' = Taken(toPhone, calls),
         toHub' = Sent(toHub, calls, <<Plain(ConfirmedAnswer(plan)[1])>>),
         phone' = [phone EXCEPT !.at = ConfirmedAnswer(plan)[2], !.plan = plan],
         UNCHANGED <<outcome, calls, hubFrame, cut, slot, code, fileVars, faults>>
  PROVE  IInv'
<1> DEFINE word == ConfirmedAnswer(plan)[1]
<1> DEFINE next == ConfirmedAnswer(plan)[2]
<1> DEFINE m == Plain(word)
<1>h. PhoneLives /\ calls \in Call /\ Types /\ phone \in PhoneCall
  BY CallIsOpen DEF IInv, PhoneLives, Types, PhoneTypes
<1>w. /\ plan \in PushFirst \cup {"exchange"} => word = "push" /\ next = "report"
      /\ plan \notin PushFirst \cup {"exchange"} => word = "proceed" /\ next = "full"
  BY DEF ConfirmedAnswer
<1>1. /\ toHub' = Sent(toHub, calls, <<m>>)
      /\ phone' = [phone EXCEPT !.at = next, !.plan = plan]
  OBVIOUS
<1>m. m \in Carry(PhoneWord) /\ m.is = word
  <2>1. word \in PhoneWord
    BY <1>w DEF PhoneWord
  <2> HIDE DEF word
  <2> QED
    BY <2>1, MessageTypes DEF Plain, Message
<1> HIDE DEF word, next, m
<1>n. plan # "nothing" /\ plan \notin {"refusal", "error"}
  BY DEF Plan
<1>2. /\ OfCall /\ outcome' = outcome /\ late' = late /\ peer' = peer
      /\ Len(toPhone[calls]) # 0 /\ toPhone[calls][1].is = plan
      /\ calls \in cut => toHub'[calls] = toHub[calls]
  BY <1>h, <1>1, <1>n, ReadsAndAnswers
<1>3. phone'.at = next /\ phone'.plan = plan
  BY <1>h, <1>1 DEF PhoneCall
<1>4. next \in {"report", "full"}
  BY <1>w
<1>5. GoesOn
  BY <1>n, <1>2, <1>3, <1>4 DEF GoesOn, PhoneWorks
<1>6. ASSUME HubLives(calls), calls \notin cut
      PROVE  (PairingTurn \/ SyncTurn)'
  <2>1. PairingTurn \/ SyncTurn
    BY <1>6, <1>h DEF IInv, Lockstep
  <2>2. /\ Tells(plan)
        /\ \/ hub[calls].at = "push" /\ plan = "exchange"
           \/ hub[calls].at = "answer" /\ hub[calls].plan = plan /\ plan # "exchange"
    BY <2>1, <1>h, <1>n, PhoneSees, PhoneReads
  <2>3. Asks(m.is)'
    BY <2>2, <1>h, <1>1, <1>m, <1>6, Asked
  <2>4. hub' = hub /\ calls' = calls
    BY <1>2 DEF OfCall
  <2>5. CASE plan = "exchange"
    <3>1. Turn("report", "push")' /\ Asks("push")' /\ phone'.plan = "exchange"
      BY <2>2, <2>3, <2>4, <2>5, <1>w, <1>m, <1>3 DEF Turn
    <3> QED
      BY <3>1 DEF SyncTurn
  <2>6. CASE plan # "exchange" /\ plan \in PushFirst
    <3>1. /\ Turn("report", "answer")' /\ Asks("push")' /\ phone'.plan # "exchange"
          /\ hub'[calls'].plan \in PushFirst
      BY <2>2, <2>3, <2>4, <2>6, <1>w, <1>m, <1>3 DEF Turn
    <3> QED
      BY <3>1 DEF SyncTurn
  <2>7. CASE plan # "exchange" /\ plan \notin PushFirst
    <3>1. Turn("full", "answer")' /\ Asks("proceed")' /\ hub'[calls'].plan \notin PushFirst
      BY <2>2, <2>3, <2>4, <2>7, <1>w, <1>m, <1>3 DEF Turn
    <3> QED
      BY <3>1 DEF SyncTurn
  <2> QED
    BY <2>5, <2>6, <2>7
<1> QED
  BY <1>h, <1>5, <1>6, GoesOnKeeps

(* A call begins: its connection is new, and the task waits for the word   *)
(* the phone has sent with it.                                             *)
LEMMA StartKeeps ==
  ASSUME IInv, Types', NEW opening, NEW opened \in PhoneCall,
         (opening = "open_pair" /\ opened.at = "pair") \/ (opening = "open_sync" /\ opened.at = "sync"),
         StartCall(opening, opened)
  PROVE  IInv'
<1> DEFINE new == calls + 1
<1> DEFINE m == Plain(opening)
<1>t. Types /\ calls \in Nat /\ hub \in [Call -> HubTask]
      /\ toHub \in [Call -> Seq(Carry(PhoneWord))]
  BY DEF IInv, Types, PhoneTypes, HubTypes, WireTypes
<1>1. new \in Call /\ new > calls /\ new # 0
  <2>1. calls < MaxCalls
    BY DEF StartCall
  <2> QED
    BY <2>1, <1>t, NextCall
<1>2. /\ hub[new] = NoTask /\ new \notin cut
      /\ toHub[new] = << >> /\ toPhone[new] = << >>
      /\ outcome[new] = "none" /\ hubEnd[new] = "none"
  BY <1>1 DEF IInv, Fresh
<1>m. m.is = opening
  BY DEF Plain, Message
<1>3. /\ calls' = new /\ phone'.at = opened.at
      /\ toHub' = [toHub EXCEPT ![new] = <<m>>]
      /\ hub' = [hub EXCEPT ![new].at = "opening"]
      /\ UNCHANGED <<toPhone, cut, outcome, hubEnd, recorded, late, peer>>
  BY DEF StartCall, Opened, fileVars, PhoneCall
<1> HIDE DEF m, new
<1>4. /\ hub'[new].at = "opening" /\ toHub'[new] = <<m>>
      /\ \A e \in Call : e # new => hub'[e] = hub[e] /\ toHub'[e] = toHub[e]
  BY <1>1, <1>3, <1>t DEF HubTask
<1>5. Asks(opening)'
  <2>1. Len(<<m>>) = 1 /\ <<m>>[1] = m
    OBVIOUS
  <2>2. Len(toPhone[new]) = 0
    BY <1>2
  <2> QED
    BY <2>1, <2>2, <1>3, <1>4, <1>m DEF Asks
<1>6. (PairingTurn \/ SyncTurn)'
  <2>1. Turn(opened.at, "opening")'
    BY <1>3, <1>4 DEF Turn
  <2> QED
    BY <2>1, <1>5 DEF PairingTurn, SyncTurn
<1>7. PhoneFits' /\ TaskFits(calls)' /\ Tidings' /\ Reason'
  BY <1>2, <1>3, <1>6, LockstepGoesOn
<1>8. Lockstep'
  BY <1>6 DEF Lockstep
<1>9. Fresh'
  <2>1. ASSUME NEW c \in Call, c > new PROVE c > calls /\ c # new
    BY <2>1, <1>1, <1>t DEF new, Call
  <2> QED
    BY <2>1, <1>3, <1>4 DEF IInv, Fresh
<1>10. Unopened'
  BY <1>1, <1>3 DEF Unopened
<1>11. HubFits'
  <2>1. ASSUME NEW e \in Call, e # new PROVE TaskFits(e)'
    <3>1. hub'[e] = hub[e] /\ toHub'[e] = toHub[e]
      BY <1>4, <2>1
    <3>2. HubExpects(e)' = HubExpects(e)
      BY <3>1 DEF HubExpects
    <3>3. TaskFits(e)
      BY DEF IInv, HubFits
    <3> QED
      BY <3>1, <3>2, <3>3 DEF TaskFits, HubLives
  <2>2. \A e \in Call : e = new => TaskFits(e)'
    BY <1>3, <1>7 DEF TaskFits, HubLives, HubExpects
  <2> QED
    BY <2>1, <2>2 DEF HubFits
<1>12. Ends'
  <2>1. ASSUME NEW e \in Call, e # new
        PROVE  /\ (HubLives(e) => hubEnd[e] = "none")'
               /\ (outcome[e] = "ok" => hubEnd[e] = "ok")'
               /\ (outcome[e] = "lost" /\ e \notin cut => ~HubLives(e) /\ hubEnd[e] # "told")'
    BY <2>1, <1>3, <1>4 DEF IInv, Ends, HubLives
  <2>2. outcome'[new] = "none" /\ hubEnd'[new] = "none"
    BY <1>2, <1>3
  <2> QED
    BY <2>1, <2>2 DEF Ends, HubLives
<1>13. Keys'
  <2>1. Len(toPhone'[calls']) = 0 /\ \A i \in 1..Len(toPhone'[calls']) : FALSE
    BY <1>2, <1>3
  <2>2. /\ \A record \in late : record[1] = "phone" => record[2] \in recorded
        /\ peer["phone"] # None => peer["phone"] \in recorded
    BY DEF IInv, Keys
  <2>3. phone'.at \notin {"done", "recording"}
    BY <1>3
  <2> QED
    BY <2>1, <2>2, <2>3, <1>3 DEF Keys
<1> QED
  BY <1>7, <1>8, <1>9, <1>10, <1>11, <1>12, <1>13 DEF IInv

(* A step of the phone keeps the invariant. *)
LEMMA PhoneStepKeeps ==
  ASSUME IInv, PhoneStep
  PROVE  IInv'
<1>t. Types'
  BY PhoneStepTypes DEF IInv
<1>1. CASE PhonePairs
  <2>1. PICK typed \in BOOLEAN : StartCall("open_pair", [Idle EXCEPT !.at = "pair", !.typed = typed])
    BY <1>1 DEF PhonePairs
  <2> DEFINE opened == [Idle EXCEPT !.at = "pair", !.typed = typed]
  <2>2. opened \in PhoneCall /\ opened.at = "pair"
    BY DEF Idle, PhoneCall, PhoneOpens, None
  <2>3. StartCall("open_pair", opened)
    BY <2>1
  <2> HIDE DEF opened
  <2> QED
    BY <2>2, <2>3, <1>t, StartKeeps
<1>2. CASE PhoneSyncs
  <2>1. PICK confirm \in BOOLEAN :
          StartCall("open_sync", [Idle EXCEPT !.at = "sync", !.confirm = confirm,
                                              !.hubKey = peer["phone"]])
    BY <1>2 DEF PhoneSyncs
  <2> DEFINE opened == [Idle EXCEPT !.at = "sync", !.confirm = confirm, !.hubKey = peer["phone"]]
  <2>2. opened \in PhoneCall /\ opened.at = "sync"
    <3>1. peer["phone"] \in Nat
      BY DEF IInv, Types, FileTypes, Device
    <3> QED
      BY <3>1 DEF Idle, PhoneCall, PhoneOpens, None
  <2>3. StartCall("open_sync", opened)
    BY <2>1
  <2> HIDE DEF opened
  <2> QED
    BY <2>2, <2>3, <1>t, StartKeeps
<1>3. CASE PhoneHearsHello
  <2>1. PICK plan \in Plan :
          /\ phone.at = "hello" /\ NextOn(toPhone, calls) = plan
          /\ toPhone' = Taken(toPhone, calls)
          /\ IF plan = "exchange" \/ phone.confirm
             THEN /\ toHub' = Sent(toHub, calls, <<Plain(ConfirmedAnswer(plan)[1])>>)
                  /\ phone' = [phone EXCEPT !.at = ConfirmedAnswer(plan)[2], !.plan = plan]
                  /\ UNCHANGED <<outcome, calls>>
             ELSE /\ toHub' = Sent(toHub, calls, <<Plain("done")>>)
                  /\ PhoneEnds("reset_needed")
          /\ UNCHANGED <<hubFrame, cut, slot, code, fileVars, faults>>
    BY <1>3 DEF PhoneHearsHello
  <2>2. CASE plan = "exchange" \/ phone.confirm
    BY <2>1, <2>2, <1>t, PlanKeeps
  <2>3. CASE ~(plan = "exchange" \/ phone.confirm)
    <3>1. plan \in Plan \ {"exchange"}
      BY <2>3
    <3> QED
      BY <3>1, <2>1, <2>3, <1>t, StopKeeps
  <2> QED
    BY <2>2, <2>3
<1> QED
  BY <1>t, <1>1, <1>2, <1>3, GoKeeps, IdentifiesKeeps, HearsLastKeeps, HearsReportKeeps,
     FinishKeeps, FailKeeps, ToldKeeps, LostKeeps, GiveUpKeeps
  DEF PhoneStep

-----------------------------------------------------------------------------
(* The connection breaks. *)

(* What of a queue is left is its first part. *)
LEMMA CutLeaves ==
  ASSUME Types, NEW c \in Call, Cut(c)
  PROVE  /\ \A e \in Call : e # c => toHub'[e] = toHub[e] /\ toPhone'[e] = toPhone[e]
         /\ Len(toHub'[c]) \in 0..Len(toHub[c]) /\ Len(toPhone'[c]) \in 0..Len(toPhone[c])
         /\ \A i \in 1..Len(toHub'[c]) : toHub'[c][i] = toHub[c][i]
         /\ \A i \in 1..Len(toPhone'[c]) : toPhone'[c][i] = toPhone[c][i]
<1>1. PICK n \in 0..Len(toHub[c]), m \in 0..Len(toPhone[c]) :
        /\ toHub' = [toHub EXCEPT ![c] = SubSeq(@, 1, n)]
        /\ toPhone' = [toPhone EXCEPT ![c] = SubSeq(@, 1, m)]
  BY DEF Cut
<1>2. toHub \in [Call -> Seq(Carry(PhoneWord))] /\ toPhone \in [Call -> Seq(Carry(HubWord))]
  BY DEF Types, WireTypes
<1>3. /\ \A e \in Call : e # c => toHub'[e] = toHub[e]
      /\ Len(toHub'[c]) = n /\ \A i \in 1..n : toHub'[c][i] = toHub[c][i]
  BY <1>1, <1>2, KeepFirst
<1>4. /\ \A e \in Call : e # c => toPhone'[e] = toPhone[e]
      /\ Len(toPhone'[c]) = m /\ \A i \in 1..m : toPhone'[c][i] = toPhone[c][i]
  BY <1>1, <1>2, KeepFirst
<1> QED
  BY <1>3, <1>4

(* No property asks for more messages than arrive. *)
LEMMA CutKeeps ==
  ASSUME IInv, NEW c \in Call, Cut(c)
  PROVE  IInv'
<1>t. Types' /\ Types
  BY CutTypes DEF IInv
<1>u. /\ phone' = phone /\ outcome' = outcome /\ calls' = calls /\ hub' = hub /\ hubEnd' = hubEnd
      /\ cut' = cut \cup {c} /\ recorded' = recorded /\ late' = late /\ peer' = peer
  BY DEF Cut, still, phoneFrame, hubFrame, fileVars
<1>q. /\ \A e \in Call : e # c => toHub'[e] = toHub[e] /\ toPhone'[e] = toPhone[e]
      /\ Len(toHub'[c]) \in 0..Len(toHub[c]) /\ Len(toPhone'[c]) \in 0..Len(toPhone[c])
      /\ \A i \in 1..Len(toHub'[c]) : toHub'[c][i] = toHub[c][i]
      /\ \A i \in 1..Len(toPhone'[c]) : toPhone'[c][i] = toPhone[c][i]
  BY <1>t, CutLeaves
<1>n. ASSUME NEW n \in Nat, NEW k \in 0..n
      PROVE  /\ k \in Nat /\ k <= n /\ (n = 0 => k = 0) /\ (n <= 1 => k <= 1)
             /\ (n <= 2 => k <= 2 /\ (k = 2 => n = 2)) /\ (k # 0 => n # 0 /\ 1 \in 1..k)
             /\ 1..k \subseteq 1..n
  OBVIOUS
<1>l. /\ \A e \in Call : Len(toHub[e]) \in Nat /\ Len(toPhone[e]) \in Nat
      /\ PhoneLives => calls \in Call
  BY <1>t, WireTakes, CallIsOpen DEF IInv
<1>e. PhoneExpects' = PhoneExpects /\ \A e : HubExpects(e)' = HubExpects(e)
  BY <1>u DEF PhoneExpects, HubExpects
<1>1. Fresh'
  <2>1. c \in Nat /\ calls \in Nat /\ ~(c > calls)
    <3>1. calls \in 0..MaxCalls
      BY DEF IInv, Types, PhoneTypes
    <3>2. c > calls => hub[c] = NoTask
      BY DEF IInv, Fresh
    <3>3. c = calls \/ hub[c] # NoTask
      BY DEF Cut
    <3> QED
      BY <3>1, <3>2, <3>3, LinkAssumption DEF Call
  <2> QED
    BY <2>1, <1>u, <1>q DEF IInv, Fresh
<1>2. Unopened'
  BY <1>u DEF IInv, Unopened
<1>3. HubFits'
  <2>1. ASSUME NEW e \in Call PROVE TaskFits(e)'
    <3>1. TaskFits(e)
      BY DEF IInv, HubFits
    <3>2. CASE e # c
      BY <3>1, <3>2, <1>q, <1>u, <1>e DEF TaskFits, HubLives
    <3>3. CASE e = c
      <4>1. /\ Len(toHub[c]) <= 1 => Len(toHub'[c]) <= 1
            /\ Len(toHub[c]) = 0 => Len(toHub'[c]) = 0
            /\ Len(toHub'[c]) # 0 => Len(toHub[c]) # 0 /\ toHub'[c][1] = toHub[c][1]
        BY <1>n, <1>q, <1>l
      <4> QED
        BY <4>1, <3>1, <3>3, <1>u, <1>e DEF TaskFits, HubLives
    <3> QED
      BY <3>2, <3>3
  <2> QED
    BY <2>1 DEF HubFits
<1>4. Ends'
  BY <1>u DEF IInv, Ends, HubLives
<1>5. CASE c = calls
  <2>q. /\ Len(toPhone[c]) <= 2 => Len(toPhone'[c]) <= 2 /\ (Len(toPhone'[c]) = 2 => Len(toPhone[c]) = 2)
        /\ Len(toPhone[c]) = 0 => Len(toPhone'[c]) = 0
        /\ Len(toPhone'[c]) # 0 =>
             Len(toPhone[c]) # 0 /\ 1 \in 1..Len(toPhone'[c]) /\ toPhone'[c][1] = toPhone[c][1]
        /\ 1..Len(toPhone'[c]) \subseteq 1..Len(toPhone[c])
        /\ Len(toHub[c]) = 0 => Len(toHub'[c]) = 0
    BY <1>n, <1>q, <1>l
  <2>1. PhoneFits'
    <3>1. Len(toPhone'[c]) = 2 => toPhone'[c][2] = toPhone[c][2]
      <4>1. 2 \in 1..2
        OBVIOUS
      <4> QED
        BY <4>1, <1>q
    <3> QED
      BY <3>1, <2>q, <1>5, <1>u, <1>e DEF IInv, PhoneFits, PhoneLives
  <2>2. Lockstep' /\ Reason'
    BY <1>5, <1>u DEF Lockstep, Reason
  <2>3. Tidings'
    <3>1. PhoneLives => Len(toPhone[c]) <= 2
      BY <1>5 DEF IInv, PhoneFits
    <3> QED
      BY <3>1, <2>q, <1>q, <1>5, <1>u DEF IInv, Tidings, PhoneLives
  <2>4. Keys'
    BY <2>q, <1>q, <1>5, <1>u DEF IInv, Keys, PhoneLives, HubLives
  <2> QED
    BY <2>1, <2>2, <2>3, <2>4, <1>t, <1>1, <1>2, <1>3, <1>4 DEF IInv
<1>6. CASE c # calls
  <2>q. PhoneLives => toHub'[calls] = toHub[calls] /\ toPhone'[calls] = toPhone[calls]
    BY <1>6, <1>q, <1>l
  <2>1. PhoneFits'
    BY <2>q, <1>u, <1>e DEF IInv, PhoneFits, PhoneLives
  <2>2. Lockstep'
    <3>1. PhoneLives /\ PairingTurn => PairingTurn'
      BY <2>q, <1>u DEF PairingTurn, Turn, Asks, Tells, TellsTwice, Quiet
    <3>2. PhoneLives /\ SyncTurn => SyncTurn'
      BY <2>q, <1>u DEF SyncTurn, Turn, Asks, Tells, Quiet
    <3> QED
      BY <3>1, <3>2, <1>u DEF IInv, Lockstep, PhoneLives, HubLives
  <2>3. Tidings' /\ Reason'
    BY <2>q, <1>u DEF IInv, Tidings, Reason, PhoneLives
  <2>4. Keys'
    <3>1. phone.at = "done" => PhoneLives
      BY DEF PhoneLives
    <3> QED
      BY <3>1, <2>q, <1>u DEF IInv, Keys, PhoneLives, HubLives
  <2> QED
    BY <2>1, <2>2, <2>3, <2>4, <1>t, <1>1, <1>2, <1>3, <1>4 DEF IInv
<1> QED
  BY <1>5, <1>6

-----------------------------------------------------------------------------
(* The invariant.                                                          *)

(* It holds before the first call. *)
LEMMA InvInit == Init => IInv
<1> SUFFICES ASSUME Init PROVE IInv
  OBVIOUS
<1>1. Types
  BY TypesInit
<1>2. ~PhoneLives /\ phone.at = "idle" /\ phone.at \notin {"done", "recording"}
  BY DEF Init, Idle, PhoneLives
<1>3. /\ hub = [c \in Call |-> NoTask] /\ toHub = [c \in Call |-> << >>]
      /\ toPhone = [c \in Call |-> << >>] /\ cut = {} /\ late = {}
      /\ outcome = [c \in Call |-> "none"] /\ hubEnd = [c \in Call |-> "none"]
  BY DEF Init
<1>4. \A c \in Call : ~HubLives(c)
  BY <1>3 DEF HubLives, NoTask
<1>5. Fresh
  BY <1>3 DEF Fresh
<1>6. Unopened /\ PhoneFits /\ Lockstep /\ Tidings /\ Reason
  BY <1>2 DEF Unopened, PhoneFits, Lockstep, Tidings, Reason
<1>7. HubFits
  BY <1>4 DEF HubFits, TaskFits
<1>8. Ends
  BY <1>3, <1>4 DEF Ends
<1>9. peer["phone"] # None => peer["phone"] \in recorded
  <2>1. PICK known \in {None, 1} :
          peer = [d \in Device |-> known] /\ recorded = {known} \ {None}
    BY DEF Init
  <2>2. peer["phone"] = known
    BY <2>1 DEF Device
  <2> QED
    BY <2>1, <2>2
<1>10. Keys
  BY <1>2, <1>3, <1>9 DEF Keys
<1> QED
  BY <1>1, <1>5, <1>6, <1>7, <1>8, <1>10 DEF IInv

(* A step that changes nothing keeps it. *)
LEMMA StutterKeeps ==
  ASSUME IInv, UNCHANGED vars
  PROVE  IInv'
<1>1. UNCHANGED <<phoneFrame, hubFrame, wireVars>> /\ UNCHANGED fileVars
  BY DEF vars, phoneFrame, hubFrame
<1>2. Types'
  BY <1>1, SameTypes DEF IInv, Types
<1>3. Keys'
  BY <1>1 DEF IInv, Keys, PhoneLives, HubLives, phoneFrame, hubFrame, wireVars, fileVars
<1> QED
  BY <1>1, <1>2, <1>3, AroundKeeps DEF IInv

(* Every step keeps it. *)
LEMMA InvStep == IInv /\ [Next]_vars => IInv'
<1> SUFFICES ASSUME IInv, [Next]_vars PROVE IInv'
  OBVIOUS
<1>1. CASE UNCHANGED vars
  BY <1>1, StutterKeeps
<1>2. CASE Next
  <2>1. CASE PhoneStep
    BY <2>1, PhoneStepKeeps
  <2>2. CASE Around
    <3>1. Types'
      BY <2>2, AroundTypes DEF IInv
    <3>2. UNCHANGED <<phoneFrame, hubFrame, wireVars>>
      BY <2>2, AroundFrame
    <3> QED
      BY <3>1, <3>2, <2>2, AroundKeeps, AroundKeys DEF IInv
  <2>3. CASE \E c \in Call : HubStep(c) \/ Cut(c)
    BY <2>3, HubStepKeeps, CutKeeps
  <2> QED
    BY <1>2, <2>1, <2>2, <2>3, StepKinds
<1> QED
  BY <1>1, <1>2

(* The two sides of a connection are in lockstep, the queues hold what     *)
(* their readers expect, and the ends of a call tell what they say, in     *)
(* every state.                                                            *)
THEOREM LinkInvariant == Spec => []IInv
<1> QED
  BY InvInit, InvStep, PTL DEF Spec

-----------------------------------------------------------------------------
(* What it says of the calls.                                              *)

(* On a connection that holds, the phone and the hub are never both left   *)
(* waiting for the other with nothing on its way: sync_as_phone and        *)
(* sync_as_hub, pair_as_phone and pair_as_hub, in any plan and whatever    *)
(* failed on an earlier connection.                                        *)
THEOREM NobodyWaits == Spec => []NobodyWaitsForNothing
<1>1. IInv => NobodyWaitsForNothing
  <2> SUFFICES ASSUME IInv, NEW c \in Call \ cut, PhoneWaits(c), HubWaits(c)
               PROVE  toHub[c] # << >> \/ toPhone[c] # << >>
    BY DEF NobodyWaitsForNothing
  <2>1. c = calls /\ PhoneLives
    BY DEF PhoneWaits, PhoneLives, PhoneOpens, PhoneTalks
  <2>2. HubLives(calls) /\ hub[calls].at \notin HubWorks
    BY <2>1 DEF HubWaits, HubLives, HubOpens, HubTalks, HubWorks
  <2>3. PairingTurn \/ SyncTurn
    BY <2>1, <2>2 DEF IInv, Lockstep
  <2>4. ~Quiet
    <3>1. \/ \E word : Asks(word) \/ Tells(word)
          \/ \E word, next : TellsTwice(word, next)
      BY <2>2, <2>3 DEF PairingTurn, SyncTurn, Turn, HubWorks
    <3> QED
      BY <3>1 DEF Asks, Tells, TellsTwice, Quiet
  <2>5. /\ toHub[c] = << >> => Len(toHub[c]) = 0
        /\ toPhone[c] = << >> => Len(toPhone[c]) = 0
    OBVIOUS
  <2> QED
    BY <2>1, <2>4, <2>5 DEF Quiet
<1> QED
  BY <1>1, LinkInvariant, PTL

(* Neither side ever reads a message it has no use for: no exchange of two *)
(* devices that follow this code ends in WireMessage::unexpected.          *)
THEOREM NothingIsUnexpected == Spec => []NothingUnexpected
<1>1. IInv => NothingUnexpected
  <2> SUFFICES ASSUME IInv PROVE NothingUnexpected
    OBVIOUS
  <2>t. /\ toHub \in [Call -> Seq(Carry(PhoneWord))]
        /\ toPhone \in [Call -> Seq(Carry(HubWord))]
    BY DEF IInv, Types, WireTypes
  <2>1. ASSUME PhoneWaits(calls), toPhone[calls] # << >>
        PROVE  NextOn(toPhone, calls) \in PhoneExpects
    <3>1. PhoneLives
      BY <2>1 DEF PhoneWaits, PhoneLives, PhoneOpens, PhoneTalks
    <3>2. calls \in Call
      BY <3>1, CallIsOpen DEF IInv
    <3>3. Len(toPhone[calls]) # 0 /\ NextOn(toPhone, calls) = toPhone[calls][1].is
      BY <2>1, <2>t, <3>2, NextIsHead
    <3> QED
      BY <3>1, <3>3 DEF IInv, PhoneFits
  <2>2. ASSUME NEW c \in Call, HubWaits(c), toHub[c] # << >>
        PROVE  NextOn(toHub, c) \in HubExpects(c)
    <3>1. HubLives(c) /\ hub[c].at \notin HubWorks
      BY <2>2 DEF HubWaits, HubLives, HubOpens, HubTalks, HubWorks
    <3>2. Len(toHub[c]) # 0 /\ NextOn(toHub, c) = toHub[c][1].is
      BY <2>2, <2>t, NextIsHead
    <3> QED
      BY <3>1, <3>2 DEF IInv, HubFits, TaskFits
  <2> QED
    BY <2>1, <2>2 DEF NothingUnexpected
<1> QED
  BY <1>1, LinkInvariant, PTL

(* What the phone reports as done the hub has done, and the hub a phone    *)
(* has on record had the phone on record first: hub_pairing says "done"    *)
(* only after pair_with_phone.                                             *)
THEOREM DoneMeansDone == Spec => []PhoneDoneMeansHubDone
<1>1. IInv => PhoneDoneMeansHubDone
  BY DEF IInv, Ends, Keys, PhoneDoneMeansHubDone
<1> QED
  BY <1>1, LinkInvariant, PTL

(* A phone that still waits on a connection that holds is told why the hub *)
(* ended its task: send_refusal and report_to_peer come before the close,  *)
(* and the hub has read all that the phone sent by then.                   *)
THEOREM ReasonsArrive == Spec => []ReasonReachesPhone
<1>1. IInv => ReasonReachesPhone
  BY DEF IInv, Ends, ReasonReachesPhone
<1> QED
  BY <1>1, LinkInvariant, PTL

=============================================================================

-------------------------- MODULE HubServiceProofs --------------------------
(***************************************************************************)
(* The safety properties of HubService, proved for any number of           *)
(* connections, codes and tries and for every bound.                       *)
(***************************************************************************)
EXTENDS HubService, TLAPS

(* An inactive code is NoCode, and a code or a pairing names an issue that *)
(* was shown.                                                              *)
IssuesShown ==
  /\ code.issue <= Len(shown)
  /\ code.issue = 0 => code = NoCode
  /\ \A c \in Conn : conn[c].issue <= Len(shown)
  /\ \A c \in Conn : conn[c].at \in {"attempt", "channel", "recording"} => conn[c].issue # 0

(* SlotIsOneSession, connection by connection. *)
Holds(c) == conn[c].at \in Holding

Slot ==
  /\ busy <=> \E c \in Conn : Holds(c)
  /\ \A c, e \in Conn : Holds(c) /\ Holds(e) => c = e

Attempted(i) == \E c \in Conn : conn[c].at = "attempt" /\ conn[c].issue = i

(* Every attempt begun with the active code has failed and was counted,    *)
(* except for the one that runs.                                           *)
TriesCounted ==
  /\ \A i \in Issue : i > Len(shown) => begun[i] = 0
  /\ code # NoCode => begun[code.issue] <= code.failures + 1
  /\ code # NoCode /\ ~Attempted(code.issue) => begun[code.issue] <= code.failures

(* Once an attempt with it has succeeded, an issue is no longer active, and *)
(* nobody tries it.                                                         *)
Used(i) == Pairing(i) \/ i \in detached \/ records[i] # 0

UsedUp ==
  \A i \in Issue : Used(i) => /\ i <= Len(shown) /\ i # code.issue
                              /\ ~Attempted(i)

(* The active code's failures happened since its digits were shown. *)
FailuresHappened == code # NoCode => code.failures <= wrong[shown[code.issue]]

(* The inductive invariant. *)
IInv ==
  /\ TypeOK /\ IssuesShown
  /\ Slot /\ OneListener
  /\ TriesCounted /\ TriesBounded
  /\ UsedUp /\ CodePairsOnce
  /\ FailuresHappened

(* What the helpers return. *)
LEMMA CodeTypes ==
  /\ NoCode \in Code
  /\ code \in Code => Current \in Code
  /\ code \in Code => \A d : \A ok \in BOOLEAN : Finish(d, ok) \in Code
<1> USE ServiceAssumption DEF Code, NoCode
<1>1. NoCode \in Code
  OBVIOUS
<1>2. code \in Code => Current \in Code
  BY DEF Current
<1>3. ASSUME code \in Code, NEW d, NEW ok \in BOOLEAN
      PROVE  Finish(d, ok) \in Code
  BY <1>3 DEF Finish
<1> QED
  BY <1>1, <1>2, <1>3

(* The end of an attempt leaves no code or the same issue. *)
LEMMA FinishKeeps ==
  ASSUME code \in Code, NEW d, NEW ok \in BOOLEAN
  PROVE  \/ Finish(d, ok) = NoCode
         \/ code # NoCode /\ Finish(d, ok).issue = code.issue
  BY DEF Finish, Code, NoCode

(* A connection's next phase is typed. *)
LEMMA TaskTypes ==
  ASSUME conn \in [Conn -> Task], NEW c \in Conn,
         NEW at \in {"closed", "open"} \cup Holding, NEW i \in 0..MaxIssues
  PROVE  [conn EXCEPT ![c] = [at |-> at, issue |-> i]] \in [Conn -> Task]
  BY DEF Task

(* One more in a table of counts. *)
LEMMA CountTypes ==
  ASSUME NEW S, NEW f \in [S -> Nat], NEW x
  PROVE  [f EXCEPT ![x] = @ + 1] \in [S -> Nat]
<1>1. CASE x \in S
  BY <1>1
<1>2. CASE x \notin S
  BY <1>2
<1> QED
  BY <1>1, <1>2

(* The types hold at the start. *)
LEMMA TypeInit == Init => TypeOK
<1> SUFFICES ASSUME Init PROVE TypeOK
  OBVIOUS
<1>1. Closed \in Task
  BY ServiceAssumption DEF Closed, Task
<1>2. shown \in Seq(Digits) /\ Len(shown) <= MaxIssues /\ code \in Code
  BY CodeTypes, ServiceAssumption DEF Init
<1>3. /\ conn \in [Conn -> Task] /\ detached \subseteq Issue
      /\ begun \in [Issue -> Nat] /\ wrong \in [Digits -> Nat] /\ records \in [Issue -> Nat]
  BY <1>1 DEF Init
<1> QED
  BY <1>2, <1>3 DEF Init, TypeOK

(* Every step keeps the types. *)
LEMMA TypeStep ==
  TypeOK /\ IssuesShown /\ [Next]_vars
    => TypeOK'
<1> SUFFICES ASSUME TypeOK, IssuesShown, [Next]_vars
             PROVE  TypeOK'
  OBVIOUS
<1> USE ServiceAssumption DEF TypeOK
<1>t. /\ Closed \in Task /\ 0 \in 0..MaxIssues
      /\ \A e \in Conn : /\ conn[e].issue \in 0..MaxIssues
                          /\ conn[e].at \in {"closed", "open"} \cup Holding
      /\ code.issue \in 0..MaxIssues
  BY DEF Closed, Task, Code
<1>1. ASSUME NEW d \in Digits, NewPairCode(d)
      PROVE  TypeOK'
  <2>1. shown' \in Seq(Digits) /\ Len(shown') = Len(shown) + 1 /\ Len(shown) \in Nat
    BY <1>1 DEF NewPairCode
  <2>2. code' \in Code
    BY <1>1, <2>1 DEF NewPairCode, Code
  <2>3. wrong' \in [Digits -> Nat]
    BY <1>1 DEF NewPairCode
  <2> QED
    BY <1>1, <2>1, <2>2, <2>3 DEF NewPairCode, sessionVars, listenerVars
<1>2. CASE Expire
  BY <1>2 DEF Expire, sessionVars, listenerVars, Code
<1>3. CASE Status
  BY <1>3, CodeTypes DEF Status, sessionVars, listenerVars
<1>4. CASE HeartbeatKeeps
  BY <1>4, CodeTypes DEF HeartbeatKeeps, sessionVars
<1>5. CASE HeartbeatBinds
  BY <1>5 DEF HeartbeatBinds, codeVars, sessionVars
<1>6. CASE BindSucceeds
  <2>1. binding' \in Nat /\ sockets' \in Nat
    BY <1>6 DEF BindSucceeds, sessionVars
  <2> QED
    BY <1>6, <2>1, CodeTypes DEF BindSucceeds, sessionVars
<1>7. CASE BindFails
  <2>1. binding' \in Nat /\ failedBinds' \in Nat /\ UNCHANGED <<sockets, restarts>>
    BY <1>7 DEF BindFails, sessionVars
  <2> QED
    BY <1>7, <2>1, CodeTypes DEF BindFails, sessionVars
<1>8. CASE GraceEnds
  BY <1>8 DEF GraceEnds, codeVars, sessionVars
<1>9. CASE LoopCloses
  <2>1. sockets' \in Nat
    BY <1>9 DEF LoopCloses, codeVars, sessionVars
  <2> QED
    BY <1>9, <2>1 DEF LoopCloses, codeVars, sessionVars
<1>10. CASE Restart
  <2>1. conn' \in [Conn -> Task] /\ restarts' \in Nat
    BY <1>10, <1>t DEF Restart
  <2> QED
    BY <1>10, <2>1, CodeTypes, <1>t DEF Restart
<1>11. ASSUME NEW c \in Conn, Connect(c)
      PROVE  TypeOK'
  BY <1>11, TaskTypes, <1>t DEF Connect, codeVars, listenerVars, Becomes, Holding
<1>12. ASSUME NEW c \in Conn, AttemptBegins(c)
      PROVE  TypeOK'
  <2>1. begun' \in [Issue -> Nat]
    BY <1>12, CountTypes DEF AttemptBegins
  <2>2. conn' \in [Conn -> Task]
    BY <1>12, TaskTypes, <1>t DEF AttemptBegins, Becomes, Holding
  <2> QED
    BY <1>12, <2>1, <2>2 DEF AttemptBegins, listenerVars
<1>13. ASSUME NEW c \in Conn, AttemptWithoutCode(c)
      PROVE  TypeOK'
  BY <1>13, CodeTypes, TaskTypes, <1>t DEF AttemptWithoutCode, listenerVars, Closed
<1>14. ASSUME NEW c \in Conn, AttemptFails(c)
      PROVE  TypeOK'
  <2>1. wrong' \in [Digits -> Nat]
    BY <1>14, CountTypes DEF AttemptFails, listenerVars
  <2> QED
    BY <1>14, <2>1, CodeTypes, TaskTypes, <1>t DEF AttemptFails, listenerVars, Closed
<1>15. ASSUME NEW c \in Conn, AttemptSucceeds(c)
      PROVE  TypeOK'
  BY <1>15, CodeTypes, TaskTypes, <1>t DEF AttemptSucceeds, listenerVars, Becomes, Holding
<1>16. ASSUME NEW c \in Conn, StartRecording(c)
      PROVE  TypeOK'
  BY <1>16, TaskTypes, <1>t DEF StartRecording, codeVars, listenerVars, Becomes, Holding
<1>17. ASSUME NEW c \in Conn, RecordingEnds(c)
      PROVE  TypeOK'
  <2>1. records' \in [Issue -> Nat]
    BY <1>17 DEF RecordingEnds, codeVars, listenerVars
  <2> QED
    BY <1>17, <2>1, TaskTypes, <1>t DEF RecordingEnds, codeVars, listenerVars, Closed
<1>18. ASSUME NEW c \in Conn, LimitReached(c)
      PROVE  TypeOK'
  <2>1. conn[c].issue \in Issue
    BY <1>18, <1>t DEF LimitReached, Issue, IssuesShown
  <2>2. detached' \subseteq Issue
    BY <1>18, <2>1 DEF LimitReached
  <2>3. conn' \in [Conn -> Task]
    BY <1>18, TaskTypes, <1>t DEF LimitReached, Closed
  <2> QED
    BY <1>18, <2>2, <2>3 DEF LimitReached, codeVars, listenerVars
<1>19. ASSUME NEW c \in Conn, RoundBegins(c)
      PROVE  TypeOK'
  BY <1>19, TaskTypes, <1>t DEF RoundBegins, codeVars, listenerVars, Becomes, Holding
<1>20. ASSUME NEW c \in Conn, Ends(c)
      PROVE  TypeOK'
  BY <1>20, TaskTypes, <1>t DEF Ends, codeVars, listenerVars, Closed
<1>21. ASSUME NEW i \in Issue, DetachedEnds(i)
      PROVE  TypeOK'
  <2>1. records' \in [Issue -> Nat]
    BY <1>21 DEF DetachedEnds, codeVars, listenerVars
  <2> QED
    BY <1>21, <2>1 DEF DetachedEnds, codeVars, listenerVars
<1>22. CASE UNCHANGED vars
  BY <1>22 DEF vars, codeVars, sessionVars, listenerVars
<1> QED
  BY <1>1, <1>2, <1>3, <1>4, <1>5, <1>6, <1>7, <1>8, <1>9, <1>10, <1>11, <1>12,
     <1>13, <1>14, <1>15, <1>16, <1>17, <1>18, <1>19, <1>20, <1>21, <1>22 DEF Next

(* Heartbeats, binds and the accept loop agree on the one socket. *)
LEMMA ListenerStep ==
  TypeOK /\ OneListener /\ [Next]_vars
    => OneListener'
<1> SUFFICES ASSUME TypeOK, OneListener, [Next]_vars
             PROVE  OneListener'
  OBVIOUS
<1> USE DEF OneListener
<1>t. /\ binding \in Nat /\ sockets \in Nat
      /\ listening \in BOOLEAN /\ starting \in BOOLEAN
  BY DEF TypeOK
<1>1. ASSUME NEW d \in Digits, NewPairCode(d)
      PROVE  OneListener'
  BY <1>1, <1>t DEF NewPairCode, sessionVars, listenerVars
<1>2. CASE Expire
  BY <1>2, <1>t DEF Expire, sessionVars, listenerVars
<1>3. CASE Status
  BY <1>3, <1>t DEF Status, sessionVars, listenerVars
<1>4. CASE HeartbeatKeeps
  BY <1>4, <1>t DEF HeartbeatKeeps, sessionVars
<1>5. CASE HeartbeatBinds
  BY <1>5, <1>t DEF HeartbeatBinds, codeVars, sessionVars
<1>6. CASE BindSucceeds
  BY <1>6, <1>t DEF BindSucceeds, sessionVars
<1>7. CASE BindFails
  BY <1>7, <1>t DEF BindFails, sessionVars
<1>8. CASE GraceEnds
  BY <1>8, <1>t DEF GraceEnds, codeVars, sessionVars
<1>9. CASE LoopCloses
  BY <1>9, <1>t DEF LoopCloses, codeVars, sessionVars
<1>10. CASE Restart
  BY <1>10, <1>t DEF Restart
<1>11. ASSUME NEW c \in Conn, Connect(c)
      PROVE  OneListener'
  BY <1>11, <1>t DEF Connect, codeVars, listenerVars
<1>12. ASSUME NEW c \in Conn, AttemptBegins(c)
      PROVE  OneListener'
  BY <1>12, <1>t DEF AttemptBegins, listenerVars
<1>13. ASSUME NEW c \in Conn, AttemptWithoutCode(c)
      PROVE  OneListener'
  BY <1>13, <1>t DEF AttemptWithoutCode, listenerVars
<1>14. ASSUME NEW c \in Conn, AttemptFails(c)
      PROVE  OneListener'
  BY <1>14, <1>t DEF AttemptFails, listenerVars
<1>15. ASSUME NEW c \in Conn, AttemptSucceeds(c)
      PROVE  OneListener'
  BY <1>15, <1>t DEF AttemptSucceeds, listenerVars
<1>16. ASSUME NEW c \in Conn, StartRecording(c)
      PROVE  OneListener'
  BY <1>16, <1>t DEF StartRecording, codeVars, listenerVars
<1>17. ASSUME NEW c \in Conn, RecordingEnds(c)
      PROVE  OneListener'
  BY <1>17, <1>t DEF RecordingEnds, codeVars, listenerVars
<1>18. ASSUME NEW c \in Conn, LimitReached(c)
      PROVE  OneListener'
  BY <1>18, <1>t DEF LimitReached, codeVars, listenerVars
<1>19. ASSUME NEW c \in Conn, RoundBegins(c)
      PROVE  OneListener'
  BY <1>19, <1>t DEF RoundBegins, codeVars, listenerVars
<1>20. ASSUME NEW c \in Conn, Ends(c)
      PROVE  OneListener'
  BY <1>20, <1>t DEF Ends, codeVars, listenerVars
<1>21. ASSUME NEW i \in Issue, DetachedEnds(i)
      PROVE  OneListener'
  BY <1>21, <1>t DEF DetachedEnds, codeVars, listenerVars
<1>22. CASE UNCHANGED vars
  BY <1>22, <1>t DEF vars, codeVars, sessionVars, listenerVars
<1> QED
  BY <1>1, <1>2, <1>3, <1>4, <1>5, <1>6, <1>7, <1>8, <1>9, <1>10, <1>11, <1>12,
     <1>13, <1>14, <1>15, <1>16, <1>17, <1>18, <1>19, <1>20, <1>21, <1>22 DEF Next

(* Issues keep naming what was shown. *)
LEMMA IssuesStep ==
  TypeOK /\ IssuesShown /\ [Next]_vars
    => IssuesShown'
<1> SUFFICES ASSUME TypeOK, IssuesShown, [Next]_vars
             PROVE  IssuesShown'
  OBVIOUS
<1> USE DEF IssuesShown
<1>t. /\ code \in Code /\ conn \in [Conn -> Task]
      /\ shown \in Seq(Digits) /\ Len(shown) \in Nat
  BY DEF TypeOK
<1>i. \A e \in Conn : conn[e].issue \in 0..MaxIssues
  BY DEF TypeOK, Task
<1>1. ASSUME NEW d \in Digits, NewPairCode(d)
      PROVE  IssuesShown'
  <2>1. Len(shown') = Len(shown) + 1
    BY <1>1, <1>t DEF NewPairCode
  <2> QED
    BY <1>1, <2>1, <1>t, <1>i DEF NewPairCode, sessionVars, NoCode
<1>2. CASE Expire
  BY <1>2, <1>t DEF Expire, sessionVars, listenerVars, Code, NoCode
<1>3. CASE Status
  BY <1>3, <1>t DEF Status, sessionVars, listenerVars, Current, NoCode
<1>4. CASE HeartbeatKeeps
  BY <1>4, <1>t DEF HeartbeatKeeps, sessionVars, Current, NoCode
<1>5. CASE HeartbeatBinds
  BY <1>5, <1>t DEF HeartbeatBinds, codeVars, sessionVars
<1>6. CASE BindSucceeds
  BY <1>6, <1>t DEF BindSucceeds, sessionVars, Current, NoCode
<1>7. CASE BindFails
  BY <1>7, <1>t DEF BindFails, sessionVars, Current, NoCode
<1>8. CASE GraceEnds
  BY <1>8, <1>t DEF GraceEnds, codeVars, sessionVars
<1>9. CASE LoopCloses
  BY <1>9, <1>t DEF LoopCloses, codeVars, sessionVars
<1>10. CASE Restart
  BY <1>10, <1>t DEF Restart, Closed, NoCode
<1>11. ASSUME NEW c \in Conn, Connect(c)
      PROVE  IssuesShown'
  BY <1>11, <1>t DEF Connect, codeVars, listenerVars, Becomes
<1>12. ASSUME NEW c \in Conn, AttemptBegins(c)
      PROVE  IssuesShown'
  BY <1>12, <1>t DEF AttemptBegins, listenerVars, Becomes, Current, NoCode
<1>13. ASSUME NEW c \in Conn, AttemptWithoutCode(c)
      PROVE  IssuesShown'
  BY <1>13, <1>t DEF AttemptWithoutCode, listenerVars, Closed, NoCode
<1>14. ASSUME NEW c \in Conn, AttemptFails(c)
      PROVE  IssuesShown'
  <2>1. code' = NoCode \/ (code # NoCode /\ code'.issue = code.issue)
    BY <1>14, <1>t, FinishKeeps DEF AttemptFails
  <2>2. UNCHANGED shown /\ \A e \in Conn : conn'[e] = IF e = c THEN Closed ELSE conn[e]
    BY <1>14, <1>t DEF AttemptFails
  <2> QED
    BY <2>1, <2>2, <1>t, <1>i DEF Closed, NoCode
<1>15. ASSUME NEW c \in Conn, AttemptSucceeds(c)
      PROVE  IssuesShown'
  <2>1. code' = NoCode \/ (code # NoCode /\ code'.issue = code.issue)
    BY <1>15, <1>t, FinishKeeps DEF AttemptSucceeds
  <2>2. /\ UNCHANGED shown
        /\ \A e \in Conn :
             conn'[e] = IF e = c THEN [at |-> "channel", issue |-> conn[c].issue] ELSE conn[e]
    BY <1>15, <1>t DEF AttemptSucceeds, Becomes
  <2>3. conn[c].issue # 0
    BY <1>15 DEF AttemptSucceeds
  <2> QED
    BY <2>1, <2>2, <2>3, <1>t, <1>i DEF NoCode
<1>16. ASSUME NEW c \in Conn, StartRecording(c)
      PROVE  IssuesShown'
  BY <1>16, <1>t DEF StartRecording, codeVars, listenerVars, Becomes
<1>17. ASSUME NEW c \in Conn, RecordingEnds(c)
      PROVE  IssuesShown'
  BY <1>17, <1>t DEF RecordingEnds, codeVars, listenerVars, Closed
<1>18. ASSUME NEW c \in Conn, LimitReached(c)
      PROVE  IssuesShown'
  BY <1>18, <1>t DEF LimitReached, codeVars, listenerVars, Closed
<1>19. ASSUME NEW c \in Conn, RoundBegins(c)
      PROVE  IssuesShown'
  BY <1>19, <1>t DEF RoundBegins, codeVars, listenerVars, Becomes
<1>20. ASSUME NEW c \in Conn, Ends(c)
      PROVE  IssuesShown'
  BY <1>20, <1>t DEF Ends, codeVars, listenerVars, Closed
<1>21. ASSUME NEW i \in Issue, DetachedEnds(i)
      PROVE  IssuesShown'
  BY <1>21, <1>t DEF DetachedEnds, codeVars, listenerVars
<1>22. CASE UNCHANGED vars
  BY <1>22, <1>t DEF vars, codeVars, sessionVars, listenerVars
<1> QED
  BY <1>1, <1>2, <1>3, <1>4, <1>5, <1>6, <1>7, <1>8, <1>9, <1>10, <1>11, <1>12,
     <1>13, <1>14, <1>15, <1>16, <1>17, <1>18, <1>19, <1>20, <1>21, <1>22 DEF Next

(* Every step takes and gives back the slot with its connection. *)
LEMMA SlotStep ==
  TypeOK /\ Slot /\ [Next]_vars
    => Slot'
<1> SUFFICES ASSUME TypeOK, Slot, [Next]_vars
             PROVE  Slot'
  OBVIOUS
<1> USE DEF Slot, Holds, Holding
<1>t. busy \in BOOLEAN /\ conn \in [Conn -> Task]
  BY DEF TypeOK
<1>1. ASSUME NEW d \in Digits, NewPairCode(d)
      PROVE  Slot'
  BY <1>1, <1>t DEF NewPairCode, sessionVars, listenerVars
<1>2. CASE Expire
  BY <1>2, <1>t DEF Expire, sessionVars, listenerVars
<1>3. CASE Status
  BY <1>3, <1>t DEF Status, sessionVars, listenerVars
<1>4. CASE HeartbeatKeeps
  BY <1>4, <1>t DEF HeartbeatKeeps, sessionVars
<1>5. CASE HeartbeatBinds
  BY <1>5, <1>t DEF HeartbeatBinds, codeVars, sessionVars
<1>6. CASE BindSucceeds
  BY <1>6, <1>t DEF BindSucceeds, sessionVars
<1>7. CASE BindFails
  BY <1>7, <1>t DEF BindFails, sessionVars
<1>8. CASE GraceEnds
  BY <1>8, <1>t DEF GraceEnds, codeVars, sessionVars
<1>9. CASE LoopCloses
  BY <1>9, <1>t DEF LoopCloses, codeVars, sessionVars
<1>10. CASE Restart
  BY <1>10, <1>t DEF Restart, Closed
<1>11. ASSUME NEW c \in Conn, Connect(c)
      PROVE  Slot'
  BY <1>11, <1>t DEF Connect, codeVars, listenerVars, Becomes, Closed
<1>12. ASSUME NEW c \in Conn, AttemptBegins(c)
      PROVE  Slot'
  BY <1>12, <1>t DEF AttemptBegins, listenerVars, Becomes
<1>13. ASSUME NEW c \in Conn, AttemptWithoutCode(c)
      PROVE  Slot'
  BY <1>13, <1>t DEF AttemptWithoutCode, listenerVars, Closed
<1>14. ASSUME NEW c \in Conn, AttemptFails(c)
      PROVE  Slot'
  BY <1>14, <1>t DEF AttemptFails, listenerVars, Closed
<1>15. ASSUME NEW c \in Conn, AttemptSucceeds(c)
      PROVE  Slot'
  BY <1>15, <1>t DEF AttemptSucceeds, listenerVars, Becomes
<1>16. ASSUME NEW c \in Conn, StartRecording(c)
      PROVE  Slot'
  BY <1>16, <1>t DEF StartRecording, codeVars, listenerVars, Becomes
<1>17. ASSUME NEW c \in Conn, RecordingEnds(c)
      PROVE  Slot'
  BY <1>17, <1>t DEF RecordingEnds, codeVars, listenerVars, Closed
<1>18. ASSUME NEW c \in Conn, LimitReached(c)
      PROVE  Slot'
  BY <1>18, <1>t DEF LimitReached, codeVars, listenerVars, Closed
<1>19. ASSUME NEW c \in Conn, RoundBegins(c)
      PROVE  Slot'
  BY <1>19, <1>t DEF RoundBegins, codeVars, listenerVars, Becomes
<1>20. ASSUME NEW c \in Conn, Ends(c)
      PROVE  Slot'
  BY <1>20, <1>t DEF Ends, codeVars, listenerVars, Closed
<1>21. ASSUME NEW i \in Issue, DetachedEnds(i)
      PROVE  Slot'
  BY <1>21, <1>t DEF DetachedEnds, codeVars, listenerVars
<1>22. CASE UNCHANGED vars
  BY <1>22, <1>t DEF vars, codeVars, sessionVars, listenerVars
<1> QED
  BY <1>1, <1>2, <1>3, <1>4, <1>5, <1>6, <1>7, <1>8, <1>9, <1>10, <1>11, <1>12,
     <1>13, <1>14, <1>15, <1>16, <1>17, <1>18, <1>19, <1>20, <1>21, <1>22 DEF Next

(* An attempt is begun only while the active code has a try left. *)
LEMMA TriesStep ==
  TypeOK /\ IssuesShown /\ Slot /\ TriesCounted /\ TriesBounded /\ [Next]_vars
    => TriesCounted' /\ TriesBounded'
<1> SUFFICES ASSUME TypeOK, IssuesShown, Slot, TriesCounted, TriesBounded, [Next]_vars
             PROVE  TriesCounted' /\ TriesBounded'
  OBVIOUS
<1> USE ServiceAssumption DEF TriesCounted, TriesBounded, Attempted, IssuesShown
<1>t. /\ code \in Code /\ conn \in [Conn -> Task]
      /\ shown \in Seq(Digits) /\ Len(shown) \in Nat
      /\ begun \in [Issue -> Nat] /\ wrong \in [Digits -> Nat]
      /\ code.issue \in 0..MaxIssues /\ code.failures \in 0..(Attempts - 1)
  BY DEF TypeOK, Code
<1>1. ASSUME NEW d \in Digits, NewPairCode(d)
      PROVE  TriesCounted' /\ TriesBounded'
  <2>1. Len(shown') = Len(shown) + 1
    BY <1>1, <1>t DEF NewPairCode
  <2>2. /\ code'.issue = Len(shown) + 1 /\ code'.failures = 0 /\ begun' = begun
        /\ Len(shown) + 1 \in Issue
    BY <1>1, <1>t DEF NewPairCode, Issue
  <2>3. begun[Len(shown) + 1] = 0
    BY <2>2, <1>t
  <2>4. \A i \in Issue : i > Len(shown) + 1 => begun[i] = 0
    BY <1>t DEF Issue
  <2> QED
    BY <2>1, <2>2, <2>3, <2>4, <1>t
<1>2. CASE Expire
  BY <1>2, <1>t DEF Expire, sessionVars, listenerVars, NoCode
<1>3. CASE Status
  BY <1>3, <1>t DEF Status, sessionVars, listenerVars, Current, NoCode
<1>4. CASE HeartbeatKeeps
  BY <1>4, <1>t DEF HeartbeatKeeps, sessionVars, Current, NoCode
<1>5. CASE HeartbeatBinds
  BY <1>5, <1>t DEF HeartbeatBinds, codeVars, sessionVars
<1>6. CASE BindSucceeds
  BY <1>6, <1>t DEF BindSucceeds, sessionVars, Current, NoCode
<1>7. CASE BindFails
  BY <1>7, <1>t DEF BindFails, sessionVars, Current, NoCode
<1>8. CASE GraceEnds
  BY <1>8, <1>t DEF GraceEnds, codeVars, sessionVars
<1>9. CASE LoopCloses
  BY <1>9, <1>t DEF LoopCloses, codeVars, sessionVars
<1>10. CASE Restart
  BY <1>10, <1>t DEF Restart, Closed, NoCode
<1>11. ASSUME NEW c \in Conn, Connect(c)
      PROVE  TriesCounted' /\ TriesBounded'
  <2>1. /\ UNCHANGED <<shown, code, begun>>
        /\ \A e \in Conn : conn[e].at = "attempt" => conn'[e] = conn[e]
    BY <1>11, <1>t DEF Connect, codeVars, Becomes, Closed
  <2> QED
    BY <2>1, <1>t
<1>12. ASSUME NEW c \in Conn, AttemptBegins(c)
      PROVE  TriesCounted' /\ TriesBounded'
  <2>1. code # NoCode /\ code.issue \in Issue
    BY <1>12, <1>t DEF AttemptBegins, Current, Issue
  <2>2. ~Attempted(code.issue)
    BY <1>12 DEF AttemptBegins, Slot, Holds, Holding
  <2>3. /\ begun'[code.issue] = begun[code.issue] + 1
        /\ \A i \in Issue : i # code.issue => begun'[i] = begun[i]
        /\ UNCHANGED <<shown, code>>
    BY <1>12, <2>1, <1>t DEF AttemptBegins
  <2>4. conn'[c].at = "attempt" /\ conn'[c].issue = code.issue
    BY <1>12, <1>t DEF AttemptBegins, Becomes
  <2>5. begun'[code.issue] <= code.failures + 1
    BY <2>1, <2>2, <2>3, <1>t
  <2> QED
    BY <2>1, <2>3, <2>4, <2>5, <1>t
<1>13. ASSUME NEW c \in Conn, AttemptWithoutCode(c)
      PROVE  TriesCounted' /\ TriesBounded'
  BY <1>13, <1>t DEF AttemptWithoutCode, listenerVars, Closed, NoCode
<1>14. ASSUME NEW c \in Conn, AttemptFails(c)
      PROVE  TriesCounted' /\ TriesBounded'
  <2>1. \/ code' = NoCode
        \/ /\ code # NoCode /\ code'.issue = code.issue
           /\ code'.failures = code.failures + 1
        \/ code' = code /\ conn[c].issue # code.issue
    BY <1>14, <1>t DEF AttemptFails, Finish
  <2>2. /\ UNCHANGED <<shown, begun>>
        /\ \A e \in Conn : conn'[e] = IF e = c THEN Closed ELSE conn[e]
    BY <1>14, <1>t DEF AttemptFails
  <2>3. ASSUME code' = code, conn[c].issue # code.issue, Attempted(code.issue)
        PROVE  Attempted(code.issue)'
    BY <2>2, <2>3
  <2>4. CASE code' = NoCode
    BY <2>2, <2>4, <1>t
  <2>5. CASE /\ code # NoCode /\ code'.issue = code.issue
             /\ code'.failures = code.failures + 1
    <3>1. code.issue \in Issue /\ begun[code.issue] \in Nat
      BY <2>5, <1>t DEF Issue
    <3> QED
      BY <2>2, <2>5, <3>1, <1>t
  <2>6. CASE code' = code /\ conn[c].issue # code.issue
    BY <2>2, <2>3, <2>6, <1>t
  <2> QED
    BY <2>1, <2>4, <2>5, <2>6
<1>15. ASSUME NEW c \in Conn, AttemptSucceeds(c)
      PROVE  TriesCounted' /\ TriesBounded'
  BY <1>15, <1>t DEF AttemptSucceeds, listenerVars, Becomes, Finish, NoCode
<1>16. ASSUME NEW c \in Conn, StartRecording(c)
      PROVE  TriesCounted' /\ TriesBounded'
  BY <1>16, <1>t DEF StartRecording, codeVars, listenerVars, Becomes
<1>17. ASSUME NEW c \in Conn, RecordingEnds(c)
      PROVE  TriesCounted' /\ TriesBounded'
  BY <1>17, <1>t DEF RecordingEnds, codeVars, listenerVars, Closed
<1>18. ASSUME NEW c \in Conn, LimitReached(c)
      PROVE  TriesCounted' /\ TriesBounded'
  BY <1>18, <1>t DEF LimitReached, codeVars, listenerVars, Closed
<1>19. ASSUME NEW c \in Conn, RoundBegins(c)
      PROVE  TriesCounted' /\ TriesBounded'
  BY <1>19, <1>t DEF RoundBegins, codeVars, listenerVars, Becomes
<1>20. ASSUME NEW c \in Conn, Ends(c)
      PROVE  TriesCounted' /\ TriesBounded'
  BY <1>20, <1>t DEF Ends, codeVars, listenerVars, Closed
<1>21. ASSUME NEW i \in Issue, DetachedEnds(i)
      PROVE  TriesCounted' /\ TriesBounded'
  BY <1>21, <1>t DEF DetachedEnds, codeVars, listenerVars
<1>22. CASE UNCHANGED vars
  BY <1>22, <1>t DEF vars, codeVars, sessionVars, listenerVars
<1> QED
  BY <1>1, <1>2, <1>3, <1>4, <1>5, <1>6, <1>7, <1>8, <1>9, <1>10, <1>11, <1>12,
     <1>13, <1>14, <1>15, <1>16, <1>17, <1>18, <1>19, <1>20, <1>21, <1>22 DEF Next

(* An issue that paired is gone, and no attempt with it is left. *)
LEMMA UsedStep ==
  TypeOK /\ IssuesShown /\ Slot /\ UsedUp /\ CodePairsOnce /\ [Next]_vars
    => UsedUp' /\ CodePairsOnce'
<1> SUFFICES ASSUME TypeOK, IssuesShown, Slot, UsedUp, CodePairsOnce, [Next]_vars
             PROVE  UsedUp' /\ CodePairsOnce'
  OBVIOUS
<1> USE
   DEF UsedUp, Used, CodePairsOnce, Pairing, Attempted, IssuesShown, Slot, Holds, Holding, Issue
<1>t. /\ code \in Code /\ conn \in [Conn -> Task]
      /\ shown \in Seq(Digits) /\ Len(shown) \in Nat
      /\ records \in [Issue -> Nat] /\ detached \subseteq Issue
      /\ code.issue \in 0..MaxIssues
  BY DEF TypeOK, Code
<1>i. \A e \in Conn : conn[e].issue \in 0..MaxIssues
  BY DEF TypeOK, Task
<1>1. ASSUME NEW d \in Digits, NewPairCode(d)
      PROVE  UsedUp' /\ CodePairsOnce'
  <2>1. Len(shown') = Len(shown) + 1
    BY <1>1, <1>t DEF NewPairCode
  <2> QED
    BY <1>1, <2>1, <1>t DEF NewPairCode, sessionVars, NoCode, Issue
<1>2. CASE Expire
  BY <1>2, <1>t DEF Expire, sessionVars, listenerVars, NoCode
<1>3. CASE Status
  BY <1>3, <1>t DEF Status, sessionVars, listenerVars, Current, NoCode
<1>4. CASE HeartbeatKeeps
  BY <1>4, <1>t DEF HeartbeatKeeps, sessionVars, Current, NoCode
<1>5. CASE HeartbeatBinds
  BY <1>5, <1>t DEF HeartbeatBinds, codeVars, sessionVars
<1>6. CASE BindSucceeds
  BY <1>6, <1>t DEF BindSucceeds, sessionVars, Current, NoCode
<1>7. CASE BindFails
  BY <1>7, <1>t DEF BindFails, sessionVars, Current, NoCode
<1>8. CASE GraceEnds
  BY <1>8, <1>t DEF GraceEnds, codeVars, sessionVars
<1>9. CASE LoopCloses
  BY <1>9, <1>t DEF LoopCloses, codeVars, sessionVars
<1>10. CASE Restart
  BY <1>10, <1>t DEF Restart, Closed, NoCode
<1>11. ASSUME NEW c \in Conn, Connect(c)
      PROVE  UsedUp' /\ CodePairsOnce'
  BY <1>11, <1>t DEF Connect, codeVars, listenerVars, Becomes
<1>12. ASSUME NEW c \in Conn, AttemptBegins(c)
      PROVE  UsedUp' /\ CodePairsOnce'
  BY <1>12, <1>t DEF AttemptBegins, listenerVars, Becomes, Current, NoCode, Slot, Holds, Holding
<1>13. ASSUME NEW c \in Conn, AttemptWithoutCode(c)
      PROVE  UsedUp' /\ CodePairsOnce'
  BY <1>13, <1>t DEF AttemptWithoutCode, listenerVars, Closed, NoCode
<1>14. ASSUME NEW c \in Conn, AttemptFails(c)
      PROVE  UsedUp' /\ CodePairsOnce'
  BY <1>14, <1>t, FinishKeeps DEF AttemptFails, listenerVars, Closed, Finish, NoCode
<1>15. ASSUME NEW c \in Conn, AttemptSucceeds(c)
      PROVE  UsedUp' /\ CodePairsOnce'
  BY <1>15, <1>t DEF AttemptSucceeds, listenerVars, Becomes, Finish, NoCode
<1>16. ASSUME NEW c \in Conn, StartRecording(c)
      PROVE  UsedUp' /\ CodePairsOnce'
  BY <1>16, <1>t DEF StartRecording, codeVars, listenerVars, Becomes
<1>17. ASSUME NEW c \in Conn, RecordingEnds(c)
      PROVE  UsedUp' /\ CodePairsOnce'
  <2> DEFINE j == conn[c].issue
  <2>1. /\ UNCHANGED <<shown, code, detached>>
        /\ \A e \in Conn : conn'[e] = IF e = c THEN Closed ELSE conn[e]
    BY <1>17, <1>t DEF RecordingEnds, codeVars
  <2>2. /\ j \in Issue /\ Pairing(j) /\ records[j] = 0 /\ j \notin detached
        /\ \A e \in Conn : conn[e].at \in Holding => e = c
    BY <1>17, <1>t, <1>i DEF RecordingEnds
  <2>3. \A i \in Issue : ~Pairing(i)' /\ ~Attempted(i)'
    BY <2>1, <2>2, <1>t DEF Closed
  <2>4. \A i \in Issue : records'[i] = records[i] \/ (i = j /\ records'[i] = 1)
    <3>1. CASE records' = [records EXCEPT ![j] = @ + 1]
      BY <3>1, <2>2, <1>t
    <3>2. CASE UNCHANGED records
      BY <3>2
    <3> QED
      BY <1>17, <3>1, <3>2 DEF RecordingEnds
  <2> QED
    BY <2>1, <2>2, <2>3, <2>4, <1>t
<1>18. ASSUME NEW c \in Conn, LimitReached(c)
      PROVE  UsedUp' /\ CodePairsOnce'
  BY <1>18, <1>t DEF LimitReached, codeVars, listenerVars, Closed
<1>19. ASSUME NEW c \in Conn, RoundBegins(c)
      PROVE  UsedUp' /\ CodePairsOnce'
  BY <1>19, <1>t DEF RoundBegins, codeVars, listenerVars, Becomes
<1>20. ASSUME NEW c \in Conn, Ends(c)
      PROVE  UsedUp' /\ CodePairsOnce'
  BY <1>20, <1>t DEF Ends, codeVars, listenerVars, Closed
<1>21. ASSUME NEW i \in Issue, DetachedEnds(i)
      PROVE  UsedUp' /\ CodePairsOnce'
  <2>1. /\ UNCHANGED <<shown, code, conn>>
        /\ detached' = detached \ {i}
        /\ \A k \in Issue : records'[k] = records[k] \/ (k = i /\ records'[k] = records[i] + 1)
    BY <1>21, <1>t DEF DetachedEnds, codeVars
  <2>2. i \in detached /\ records[i] = 0 /\ ~Pairing(i)
    BY <1>21, <1>t DEF DetachedEnds
  <2>3. \A k \in Issue : Pairing(k)' = Pairing(k) /\ Attempted(k)' = Attempted(k)
    BY <2>1
  <2> QED
    BY <2>1, <2>2, <2>3, <1>t
<1>22. CASE UNCHANGED vars
  BY <1>22, <1>t DEF vars, codeVars, sessionVars, listenerVars
<1> QED
  BY <1>1, <1>2, <1>3, <1>4, <1>5, <1>6, <1>7, <1>8, <1>9, <1>10, <1>11, <1>12,
     <1>13, <1>14, <1>15, <1>16, <1>17, <1>18, <1>19, <1>20, <1>21, <1>22 DEF Next

(* A failure is counted only where an attempt with those digits failed. *)
LEMMA FailuresStep ==
  TypeOK /\ IssuesShown /\ FailuresHappened /\ [Next]_vars
    => FailuresHappened'
<1> SUFFICES ASSUME TypeOK, IssuesShown, FailuresHappened, [Next]_vars
             PROVE  FailuresHappened'
  OBVIOUS
<1> USE ServiceAssumption DEF FailuresHappened, IssuesShown
<1>t. /\ code \in Code /\ conn \in [Conn -> Task]
      /\ shown \in Seq(Digits) /\ Len(shown) \in Nat
      /\ begun \in [Issue -> Nat] /\ wrong \in [Digits -> Nat]
      /\ code.issue \in 0..MaxIssues /\ code.failures \in 0..(Attempts - 1)
  BY DEF TypeOK, Code
<1>i. \A e \in Conn : conn[e].issue \in 0..MaxIssues
  BY DEF TypeOK, Task
<1>1. ASSUME NEW d \in Digits, NewPairCode(d)
      PROVE  FailuresHappened'
  <2>1. Len(shown') = Len(shown) + 1
    BY <1>1, <1>t DEF NewPairCode
  <2> QED
    BY <1>1, <2>1, <1>t DEF NewPairCode, sessionVars, NoCode, Issue
<1>2. CASE Expire
  BY <1>2, <1>t DEF Expire, sessionVars, listenerVars, NoCode
<1>3. CASE Status
  BY <1>3, <1>t DEF Status, sessionVars, listenerVars, Current, NoCode
<1>4. CASE HeartbeatKeeps
  BY <1>4, <1>t DEF HeartbeatKeeps, sessionVars, Current, NoCode
<1>5. CASE HeartbeatBinds
  BY <1>5, <1>t DEF HeartbeatBinds, codeVars, sessionVars
<1>6. CASE BindSucceeds
  BY <1>6, <1>t DEF BindSucceeds, sessionVars, Current, NoCode
<1>7. CASE BindFails
  BY <1>7, <1>t DEF BindFails, sessionVars, Current, NoCode
<1>8. CASE GraceEnds
  BY <1>8, <1>t DEF GraceEnds, codeVars, sessionVars
<1>9. CASE LoopCloses
  BY <1>9, <1>t DEF LoopCloses, codeVars, sessionVars
<1>10. CASE Restart
  BY <1>10, <1>t DEF Restart, Closed, NoCode
<1>11. ASSUME NEW c \in Conn, Connect(c)
      PROVE  FailuresHappened'
  BY <1>11, <1>t DEF Connect, codeVars, listenerVars, Becomes
<1>12. ASSUME NEW c \in Conn, AttemptBegins(c)
      PROVE  FailuresHappened'
  BY <1>12, <1>t DEF AttemptBegins, listenerVars, Becomes, Current, NoCode
<1>13. ASSUME NEW c \in Conn, AttemptWithoutCode(c)
      PROVE  FailuresHappened'
  BY <1>13, <1>t DEF AttemptWithoutCode, listenerVars, Closed, NoCode
<1>14. ASSUME NEW c \in Conn, AttemptFails(c)
      PROVE  FailuresHappened'
  <2> DEFINE d == shown[conn[c].issue]
  <2>1. d \in Digits
    BY <1>14, <1>t, <1>i DEF AttemptFails
  <2>2. wrong'[d] = wrong[d] + 1 /\ \A x \in Digits : x # d => wrong'[x] = wrong[x]
    BY <1>14, <2>1, <1>t DEF AttemptFails
  <2>3. UNCHANGED shown
    BY <1>14 DEF AttemptFails
  <2>4. \/ code' = NoCode
        \/ /\ code # NoCode /\ shown[code.issue] = d
           /\ code'.issue = code.issue /\ code'.failures = code.failures + 1
        \/ code' = code /\ (code # NoCode => shown[code.issue] # d)
    BY <1>14, <1>t DEF AttemptFails, Finish
  <2>5. code # NoCode => shown[code.issue] \in Digits
    BY <1>t
  <2>6. CASE code' = NoCode
    BY <2>6
  <2>7. CASE /\ code # NoCode /\ shown[code.issue] = d
             /\ code'.issue = code.issue /\ code'.failures = code.failures + 1
    BY <2>1, <2>2, <2>3, <2>7, <1>t
  <2>8. CASE code' = code /\ (code # NoCode => shown[code.issue] # d)
    BY <2>1, <2>2, <2>3, <2>5, <2>8, <1>t
  <2> QED
    BY <2>4, <2>6, <2>7, <2>8
<1>15. ASSUME NEW c \in Conn, AttemptSucceeds(c)
      PROVE  FailuresHappened'
  BY <1>15, <1>t DEF AttemptSucceeds, listenerVars, Becomes, Finish, NoCode
<1>16. ASSUME NEW c \in Conn, StartRecording(c)
      PROVE  FailuresHappened'
  BY <1>16, <1>t DEF StartRecording, codeVars, listenerVars, Becomes
<1>17. ASSUME NEW c \in Conn, RecordingEnds(c)
      PROVE  FailuresHappened'
  BY <1>17, <1>t DEF RecordingEnds, codeVars, listenerVars, Closed
<1>18. ASSUME NEW c \in Conn, LimitReached(c)
      PROVE  FailuresHappened'
  BY <1>18, <1>t DEF LimitReached, codeVars, listenerVars, Closed
<1>19. ASSUME NEW c \in Conn, RoundBegins(c)
      PROVE  FailuresHappened'
  BY <1>19, <1>t DEF RoundBegins, codeVars, listenerVars, Becomes
<1>20. ASSUME NEW c \in Conn, Ends(c)
      PROVE  FailuresHappened'
  BY <1>20, <1>t DEF Ends, codeVars, listenerVars, Closed
<1>21. ASSUME NEW i \in Issue, DetachedEnds(i)
      PROVE  FailuresHappened'
  BY <1>21, <1>t DEF DetachedEnds, codeVars, listenerVars
<1>22. CASE UNCHANGED vars
  BY <1>22, <1>t DEF vars, codeVars, sessionVars, listenerVars
<1> QED
  BY <1>1, <1>2, <1>3, <1>4, <1>5, <1>6, <1>7, <1>8, <1>9, <1>10, <1>11, <1>12,
     <1>13, <1>14, <1>15, <1>16, <1>17, <1>18, <1>19, <1>20, <1>21, <1>22 DEF Next

-----------------------------------------------------------------------------
(* The theorems. *)

(* The two forms of the slot's invariant say the same. *)
LEMMA SlotMeansOneSession == Slot <=> SlotIsOneSession
  BY DEF Slot, SlotIsOneSession, Holds

(* The inductive invariant holds at the start. *)
LEMMA InvariantInit == Init => IInv
<1> SUFFICES ASSUME Init
             PROVE  IInv
  OBVIOUS
<1>1. TypeOK
  BY TypeInit
<1>2. IssuesShown /\ FailuresHappened
  BY ServiceAssumption DEF Init, IssuesShown, FailuresHappened, NoCode, Closed
<1>3. Slot /\ OneListener
  BY DEF Init, Slot, OneListener, Holds, Holding, Closed
<1>4. TriesCounted /\ TriesBounded
  BY ServiceAssumption DEF Init, TriesCounted, TriesBounded, NoCode
<1>5. UsedUp /\ CodePairsOnce
  BY DEF Init, UsedUp, CodePairsOnce, Used, Pairing, Closed
<1> QED
  BY <1>1, <1>2, <1>3, <1>4, <1>5 DEF IInv

(* Every step keeps the inductive invariant. *)
LEMMA InvariantStep ==
  IInv /\ [Next]_vars
    => IInv'
  BY TypeStep, IssuesStep, SlotStep, ListenerStep, TriesStep, UsedStep, FailuresStep DEF IInv

(* The strengthening of all the safety properties holds of the hub's state *)
(* in sync_service.rs, for any number of connections, codes and tries.     *)
THEOREM ServiceInvariant == Spec => []IInv
<1>1. Init => IInv
  BY InvariantInit
<1>2. IInv /\ [Next]_vars => IInv'
  BY InvariantStep
<1> QED
  BY <1>1, <1>2, PTL DEF Spec

(* The types, and that an active code has tries left (PairCodeSlot). *)
THEOREM TypeCorrect == Spec => []TypeOK
<1>1. IInv => TypeOK
  BY DEF IInv
<1> QED
  BY <1>1, ServiceInvariant, PTL

(* SessionSlot: the flag is set exactly while one connection holds it. *)
THEOREM OneSessionAtATime == Spec => []SlotIsOneSession
<1>1. IInv => SlotIsOneSession
  BY SlotMeansOneSession DEF IInv
<1> QED
  BY <1>1, ServiceInvariant, PTL

(* PairCodeSlot::finish and the slot: a code pairs one phone. *)
THEOREM CodesPairOnce == Spec => []CodePairsOnce
<1>1. IInv => CodePairsOnce
  BY DEF IInv
<1> QED
  BY <1>1, ServiceInvariant, PTL

(* PAIR_CODE_ATTEMPTS is a bound on the attempts, not only on the failures. *)
THEOREM TriesAreBounded == Spec => []TriesBounded
<1>1. IInv => TriesBounded
  BY DEF IInv
<1> QED
  BY <1>1, ServiceInvariant, PTL

(* heartbeat and accept_loop: one listener, and flags that are true of it. *)
THEOREM ListenerIsOne == Spec => []OneListener
<1>1. IInv => OneListener
  BY DEF IInv
<1> QED
  BY <1>1, ServiceInvariant, PTL

(* No step withdraws a code without cause. *)
LEMMA WithdrawalStep ==
  IInv /\ [Next]_vars
    => WithdrawalHasCause
<1> DEFINE Cause == \/ wrong'[shown[code.issue]] >= Attempts
                    \/ \E c \in Conn :
                         /\ conn[c].at = "attempt" /\ conn'[c].at = "channel"
                         /\ shown[conn[c].issue] = shown[code.issue]
<1> SUFFICES ASSUME IInv, [Next]_vars,
                    code # NoCode, code' = NoCode, ~code.expired, restarts' = restarts
             PROVE  Cause
  BY DEF WithdrawalHasCause
<1>t. /\ code \in Code /\ conn \in [Conn -> Task] /\ shown \in Seq(Digits) /\ Len(shown) \in Nat
      /\ code.issue \in 1..Len(shown) /\ code.failures \in Nat /\ restarts \in Nat
      /\ wrong \in [Digits -> Nat] /\ code.failures <= wrong[shown[code.issue]]
      /\ Attempts \in Nat
  BY ServiceAssumption DEF IInv, TypeOK, IssuesShown, FailuresHappened, Code
<1>1. ASSUME NEW d \in Digits, NewPairCode(d)
      PROVE  Cause
  BY <1>1, <1>t DEF NewPairCode, NoCode
<1>2. CASE Expire
  BY <1>2, <1>t DEF Expire, NoCode
<1>3. CASE Status
  BY <1>3 DEF Status, sessionVars, listenerVars, Current
<1>4. CASE HeartbeatKeeps
  BY <1>4 DEF HeartbeatKeeps, sessionVars, Current
<1>5. CASE HeartbeatBinds
  BY <1>5 DEF HeartbeatBinds, codeVars, sessionVars
<1>6. CASE BindSucceeds
  BY <1>6 DEF BindSucceeds, sessionVars, Current
<1>7. CASE BindFails
  BY <1>7 DEF BindFails, sessionVars, Current
<1>8. CASE GraceEnds
  BY <1>8 DEF GraceEnds, codeVars, sessionVars
<1>9. CASE LoopCloses
  BY <1>9 DEF LoopCloses, codeVars, sessionVars
<1>10. CASE Restart
  BY <1>10, <1>t DEF Restart
<1>11. ASSUME NEW c \in Conn, Connect(c)
      PROVE  Cause
  BY <1>11 DEF Connect, codeVars, listenerVars
<1>12. ASSUME NEW c \in Conn, AttemptBegins(c)
      PROVE  Cause
  BY <1>12 DEF AttemptBegins, listenerVars
<1>13. ASSUME NEW c \in Conn, AttemptWithoutCode(c)
      PROVE  Cause
  BY <1>13 DEF AttemptWithoutCode, listenerVars, Current
<1>14. ASSUME NEW c \in Conn, AttemptFails(c)
      PROVE  Cause
  <2> DEFINE d == shown[conn[c].issue]
  <2>1. shown[code.issue] = d /\ code.failures + 1 >= Attempts
    BY <1>14, <1>t DEF AttemptFails, Finish, NoCode, Code
  <2>2. d \in Digits
    BY <2>1, <1>t
  <2>3. wrong'[d] = wrong[d] + 1
    BY <1>14, <2>2, <1>t DEF AttemptFails
  <2>4. code.failures <= wrong[d]
    BY <2>1, <1>t
  <2> QED
    BY <2>1, <2>2, <2>3, <2>4, <1>t
<1>15. ASSUME NEW c \in Conn, AttemptSucceeds(c)
      PROVE  Cause
  <2>1. shown[code.issue] = shown[conn[c].issue]
    BY <1>15 DEF AttemptSucceeds, Finish
  <2>2. conn[c].at = "attempt" /\ conn'[c].at = "channel"
    BY <1>15, <1>t DEF AttemptSucceeds, Becomes
  <2> QED
    BY <2>1, <2>2
<1>16. ASSUME NEW c \in Conn, StartRecording(c)
      PROVE  Cause
  BY <1>16 DEF StartRecording, codeVars, listenerVars
<1>17. ASSUME NEW c \in Conn, RecordingEnds(c)
      PROVE  Cause
  BY <1>17 DEF RecordingEnds, codeVars, listenerVars
<1>18. ASSUME NEW c \in Conn, LimitReached(c)
      PROVE  Cause
  BY <1>18 DEF LimitReached, codeVars, listenerVars
<1>19. ASSUME NEW c \in Conn, RoundBegins(c)
      PROVE  Cause
  BY <1>19 DEF RoundBegins, codeVars, listenerVars
<1>20. ASSUME NEW c \in Conn, Ends(c)
      PROVE  Cause
  BY <1>20 DEF Ends, codeVars, listenerVars
<1>21. ASSUME NEW i \in Issue, DetachedEnds(i)
      PROVE  Cause
  BY <1>21 DEF DetachedEnds, codeVars, listenerVars
<1>22. CASE UNCHANGED vars
  BY <1>22 DEF vars, codeVars, sessionVars, listenerVars
<1> QED
  BY <1>1, <1>2, <1>3, <1>4, <1>5, <1>6, <1>7, <1>8, <1>9, <1>10, <1>11, <1>12,
     <1>13, <1>14, <1>15, <1>16, <1>17, <1>18, <1>19, <1>20, <1>21, <1>22 DEF Next

(* PairCodeSlot::finish: an attempt with a replaced code costs the new code *)
(* nothing, and a code is withdrawn only for failures or for a pairing.     *)
THEOREM WithdrawnOnlyForCause == Spec => WithdrawnForCause
<1>1. IInv /\ [Next]_vars => WithdrawalHasCause
  BY WithdrawalStep
<1> QED
  BY <1>1, ServiceInvariant, PTL DEF Spec, WithdrawnForCause

=============================================================================

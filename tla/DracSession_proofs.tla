------------------------- MODULE DracSession_proofs -------------------------
(***************************************************************************)
(* Proofs about DracSession: its inductive invariant, and from it the      *)
(* safety properties, for any number of sessions, viewers and requests.    *)
(***************************************************************************)
EXTENDS DracSession, FiniteSetTheorems, TLAPS

(* The members that are counted are finitely many, so a counter that is    *)
(* not positive has none.                                                  *)
LEMMA CountedMembers ==
  ASSUME NEW s \in Sessions
  PROVE  /\ IsFiniteSet(Members(s) \cap Others)
         /\ Cardinality(Members(s) \cap Others) \in Nat
         /\ Cardinality(Members(s) \cap Others) = 0 <=> Members(s) \cap Others = {}
<1>1. IsFiniteSet(Members(s) \cap Others)
  BY ClientAssumption, FS_Subset, Members(s) \cap Others \subseteq Others
<1> QED BY <1>1, FS_CardinalityType, FS_EmptySet

(* What dracHandler reads off the list and the counter is the truth about  *)
(* the clients.                                                            *)
LEMMA NoClientsNoMembers ==
  ASSUME NEW s \in Sessions, MemberInv(s), NoClients(s)
  PROVE  Members(s) = {}
<1>1. Members(s) \cap Viewers = {}
  BY DEF MemberInv, NoClients
<1>2. Members(s) \cap Others = {}
  <2> DEFINE n == Cardinality(Members(s) \cap Others)
  <2>1. n \in Nat /\ (n = 0 <=> Members(s) \cap Others = {})
    BY CountedMembers
  <2>2. n <= 0
    BY DEF MemberInv, NoClients
  <2> HIDE DEF n
  <2> QED BY <2>1, <2>2
<1>3. Members(s) \subseteq Viewers \cup Others
  BY DEF Members, Clients
<1> QED BY <1>1, <1>2, <1>3

USE DEF registryVars, handlerVars, ctrlVars, videoVars, updateVars, frameVars, viewerVars

(* Every step keeps the types; the counter stays a natural number because  *)
(* whoever decrements it is one of those it counts.                        *)
LEMMA TypeStep ==
  ASSUME IInv, Next
  PROVE  TypeOK'
<1> USE DEF TypeOK
<1>0. TypeOK
  BY DEF IInv
<1>1. ASSUME NEW c \in Clients, NEW s \in Sessions, Setup(c, s) PROVE TypeOK'
  <2>1. /\ vncClients' \in [Sessions -> SUBSET Viewers]
        /\ otherClientCount' \in [Sessions -> Nat]
    BY <1>0, <1>1 DEF Setup, CountAfterJoin
  <2>2. /\ dracmap' \in Sessions \cup {NoSession}
        /\ handler' \in [Sessions -> HandlerStates]
        /\ ctrl' \in [Sessions -> CtrlStates]
    BY <1>0, <1>1 DEF Setup, HandlerStates, CtrlStates
  <2>4. status' \in [sess : Sessions \cup {NoSession}, state : StatusValues]
    <3>1. status' = status \/ status' = [sess |-> s, state |-> "connecting"]
      BY <1>1 DEF Setup, Writes
    <3>2. status \in [sess : Sessions \cup {NoSession}, state : StatusValues]
      BY <1>0
    <3>3. [sess |-> s, state |-> "connecting"]
             \in [sess : Sessions \cup {NoSession}, state : StatusValues]
      BY DEF StatusValues
    <3> QED BY <3>1, <3>2, <3>3
  <2>3. /\ client' \in [Clients -> ClientStates]
        /\ sess' \in [Clients -> Sessions \cup {NoSession}]
    BY <1>0, <1>1 DEF Setup, ClientStates
  <2> QED BY <1>0, <1>1, <2>1, <2>2, <2>3, <2>4 DEF Setup
<1>2. ASSUME NEW c \in Clients, NEW s \in Sessions, ClientEvent(s, c) PROVE TypeOK'
  <2>1. AfterEvent(c) \in ClientStates /\ EventLeadsTo(s) \in HandlerStates
    BY DEF AfterEvent, EventLeadsTo, ClientStates, HandlerStates
  <2> QED BY <1>0, <1>2, <2>1 DEF ClientEvent
<1>3. ASSUME NEW v \in Viewers, ViewerStep(v) PROVE TypeOK'
  <2>1. v \in Clients
    BY DEF Clients
  <2>2. CASE HangUp(v)
    BY <1>0, <2>1, <2>2 DEF HangUp
  <2>3. CASE InputWithoutContext(v)
    BY <1>0, <2>1, <2>3 DEF InputWithoutContext, Panics
  <2>4. CASE ReadError(v)
    BY <1>0, <2>1, <2>4 DEF ReadError, ClientStates
  <2>5. CASE TeardownViewer(v)
    BY <1>0, <2>1, <2>5 DEF TeardownViewer, ClientStates
  <2> QED BY <1>3, <2>2, <2>3, <2>4, <2>5 DEF ViewerStep
<1>4. ASSUME NEW r \in Requests, ReadFrame(r) \/ Written(r) PROVE TypeOK'
  <2>1. r \in Clients
    BY DEF Clients, Others
  <2> QED BY <1>0, <1>4, <2>1 DEF ReadFrame, Written, ClientStates
<1>5. ASSUME NEW c \in Others, TeardownRequest(c) PROVE TypeOK'
  <2> DEFINE s == sess[c]
             n == Cardinality(Members(s) \cap Others)
  <2>1. c \in Clients /\ client[c] = "leaving"
    BY <1>5 DEF TeardownRequest, Clients
  <2>2. s \in Sessions /\ c \in Members(s)
    BY <1>0, <2>1 DEF Members, IInv, ClientInv
  <2>3. otherClientCount[s] = n /\ n \in Nat /\ n # 0
    BY <2>2, CountedMembers DEF IInv, MemberInv
  <2>4. otherClientCount[s] - 1 \in Nat
    <3> HIDE DEF n, s
    <3> QED BY <2>3
  <2> QED BY <1>0, <1>5, <2>1, <2>2, <2>4 DEF TeardownRequest, ClientStates
<1>6. ASSUME NEW s \in Sessions, KillSession(s) \/ HandlerStep(s) PROVE TypeOK'
  <2>1. CASE KillSession(s)
    BY <1>0, <2>1 DEF KillSession, SocketStates
  <2>2. CASE FinishEvent(s)
    BY <1>0, <2>2 DEF FinishEvent, HandlerStates, CtrlStates
  <2>3. CASE HandlerFinish(s)
    BY <1>0, <2>3 DEF HandlerFinish, HandlerStates
  <2>4. CASE HandlerCheck(s)
    BY <1>0, <2>4 DEF HandlerCheck, HandlerStates
  <2>5. CASE HandlerTimeout(s)
    BY <1>0, <2>5 DEF HandlerTimeout, HandlerStates
  <2>6. CASE HandlerReap(s)
    BY <1>0, <2>6 DEF HandlerReap, ReapedSocket, HandlerStates, SocketStates
  <2>7. CASE HandlerCleanup(s)
    BY <1>0, <2>7 DEF HandlerCleanup, HandlerStates
  <2> QED BY <1>6, <2>1, <2>2, <2>3, <2>4, <2>5, <2>6, <2>7 DEF HandlerStep
<1>7. ASSUME NEW s \in Sessions, CtrlStep(s) PROVE TypeOK'
  <2>1. CASE DetectFails(s)
    BY <1>0, <2>1 DEF DetectFails, Writes, CtrlStates, StatusValues
  <2>2. CASE DetectUnknown(s)
    BY <1>0, <2>2 DEF DetectUnknown, Panics
  <2>3. CASE DetectOk(s)
    BY <1>0, <2>3 DEF DetectOk, CtrlStates
  <2>4. CASE DialFails(s)
    BY <1>0, <2>4 DEF DialFails, Writes, CtrlStates, StatusValues
  <2>5. CASE DialOk(s)
    BY <1>0, <2>5 DEF DialOk, Writes, CtrlStates, StatusValues, SocketStates
  <2>6. CASE StartCtrl(s)
    BY <1>0, <2>6 DEF StartCtrl, CtrlStates
  <2>7. CASE LoginOk(s)
    BY <1>0, <2>7 DEF LoginOk, CtrlStates
  <2>8. CASE LoginFails(s)
    BY <1>0, <2>8 DEF LoginFails, Writes, StatusValues
  <2>9. CASE VideoDialFails(s)
    BY <1>0, <2>9 DEF VideoDialFails, Writes, CtrlStates, StatusValues, SocketStates
  <2>10. CASE VideoDialOk(s)
    BY <1>0, <2>10 DEF VideoDialOk, Writes, CtrlStates, StatusValues, SocketStates, VideoStates
  <2>11. CASE CtrlReadFails(s)
    BY <1>0, <2>11 DEF CtrlReadFails, CtrlStates
  <2>12. CASE CtrlClose(s)
    BY <1>0, <2>12 DEF CtrlClose, AfterClose, CtrlStates, SocketStates
  <2>13. CASE VideoFinished(s)
    BY <1>0, <2>13 DEF VideoFinished, CtrlStates, VideoStates
  <2> QED BY <1>7, <2>1, <2>2, <2>3, <2>4, <2>5, <2>6, <2>7, <2>8, <2>9, <2>10, <2>11, <2>12, <2>13 DEF CtrlStep
<1>8. ASSUME NEW s \in Sessions, UpdateStep(s) PROVE TypeOK'
  <2>1. CASE VideoReadFails(s)
    BY <1>0, <2>1 DEF VideoReadFails, VideoStates
  <2>2. CASE BeginUpdate(s)
    BY <1>0, <2>2 DEF BeginUpdate, CtrlStates, VideoStates
  <2>3. CASE SaveFrame(s)
    BY <1>0, <2>3 DEF SaveFrame
  <2>4. CASE \E v \in Viewers : NextElement(s, v)
    BY <1>0, <2>4 DEF NextElement
  <2>5. CASE SendFrame(s)
    BY <1>0, <2>5 DEF SendFrame
  <2>6. CASE SendOnClosed(s)
    BY <1>0, <2>6 DEF SendOnClosed, Panics
  <2>7. CASE EndUpdate(s)
    BY <1>0, <2>7 DEF EndUpdate, Writes, CtrlStates, StatusValues, VideoStates
  <2> QED BY <1>8, <2>1, <2>2, <2>3, <2>4, <2>5, <2>6, <2>7 DEF UpdateStep
<1> QED BY <1>1, <1>2, <1>3, <1>4, <1>5, <1>6, <1>7, <1>8 DEF Next

(* No step of any session disturbs the order in which the goroutines of a  *)
(* session end: only the current session changes dracmap, and a reader     *)
(* still runs wherever a step gives it something to do.                    *)
LEMMA SessionStep ==
  ASSUME IInv, Next, NEW t \in Sessions
  PROVE  SessionInv(t)'
<1> USE SessionAssumption DEF SessionInv
<1>0. /\ TypeOK
      /\ \A s \in Sessions : SessionInv(s)
  BY DEF IInv
<1>1. ASSUME NEW c \in Clients, NEW s \in Sessions, Setup(c, s) PROVE SessionInv(t)'
  BY <1>0, <1>1 DEF TypeOK, Setup
<1>2. ASSUME NEW c \in Clients, NEW s \in Sessions, ClientEvent(s, c) PROVE SessionInv(t)'
  BY <1>0, <1>2 DEF TypeOK, ClientEvent, EventLeadsTo
<1>3. ASSUME NEW v \in Viewers, ViewerStep(v) PROVE SessionInv(t)'
  <2>1. UNCHANGED <<dracmap, handlerVars, ctrlVars, videoVars, updateVars, ctx>>
    BY <1>3 DEF ViewerStep, HangUp, InputWithoutContext, ReadError, TeardownViewer
  <2> QED BY <1>0, <2>1 DEF TypeOK
<1>4. ASSUME NEW r \in Requests, ReadFrame(r) \/ Written(r) PROVE SessionInv(t)'
  BY <1>0, <1>4 DEF TypeOK, ReadFrame, Written
<1>5. ASSUME NEW c \in Others, TeardownRequest(c) PROVE SessionInv(t)'
  BY <1>0, <1>5 DEF TypeOK, TeardownRequest
<1>6. ASSUME NEW s \in Sessions, KillSession(s) \/ HandlerStep(s) PROVE SessionInv(t)'
  <2>1. CASE KillSession(s)
    BY <1>0, <2>1 DEF KillSession, TypeOK
  <2>2. CASE FinishEvent(s)
    BY <1>0, <2>2 DEF FinishEvent, TypeOK
  <2>3. CASE HandlerFinish(s)
    BY <1>0, <2>3 DEF HandlerFinish, TypeOK
  <2>4. CASE HandlerCheck(s)
    BY <1>0, <2>4 DEF HandlerCheck, TypeOK
  <2>5. CASE HandlerTimeout(s)
    BY <1>0, <2>5 DEF HandlerTimeout, TypeOK
  <2>6. CASE HandlerReap(s)
    BY <1>0, <2>6 DEF HandlerReap, TypeOK
  <2>7. CASE HandlerCleanup(s)
    BY <1>0, <2>7 DEF HandlerCleanup, TypeOK
  <2> QED BY <1>6, <2>1, <2>2, <2>3, <2>4, <2>5, <2>6, <2>7 DEF HandlerStep
<1>7. ASSUME NEW s \in Sessions, CtrlStep(s) PROVE SessionInv(t)'
  <2>1. CASE DetectFails(s)
    <3>1. /\ ctrl[s] = "detect" /\ ctrl' = [ctrl EXCEPT ![s] = "closing"]
          /\ UNCHANGED <<dracmap, handlerVars, videoVars, update, ctx>>
      BY <2>1 DEF DetectFails
    <3> QED BY <1>0, <3>1 DEF TypeOK
  <2>2. CASE DetectUnknown(s)
    BY <1>0, <2>2 DEF DetectUnknown, TypeOK
  <2>3. CASE DetectOk(s)
    BY <1>0, <2>3 DEF DetectOk, TypeOK
  <2>4. CASE DialFails(s)
    <3>1. /\ ctrl[s] = "dial" /\ ctrl' = [ctrl EXCEPT ![s] = "closing"]
          /\ UNCHANGED <<dracmap, handlerVars, videoVars, update, ctx>>
      BY <2>4 DEF DialFails
    <3> QED BY <1>0, <3>1 DEF TypeOK
  <2>5. CASE DialOk(s)
    BY <1>0, <2>5 DEF DialOk, TypeOK, Writes
  <2>6. CASE StartCtrl(s)
    BY <1>0, <2>6 DEF StartCtrl, TypeOK
  <2>7. CASE LoginOk(s)
    BY <1>0, <2>7 DEF LoginOk, TypeOK
  <2>8. CASE LoginFails(s)
    BY <1>0, <2>8 DEF LoginFails, TypeOK, Writes
  <2>9. CASE VideoDialFails(s)
    <3>1. /\ ctrl[s] = "dialVideo" /\ ctrl' = [ctrl EXCEPT ![s] = "closing"]
          /\ UNCHANGED <<dracmap, handlerVars, videoVars, update, ctx>>
      BY <2>9 DEF VideoDialFails
    <3> QED BY <1>0, <3>1 DEF TypeOK
  <2>10. CASE VideoDialOk(s)
    <3>1. /\ ctrl[s] = "dialVideo" /\ ctrl' = [ctrl EXCEPT ![s] = "read"]
          /\ video' = [video EXCEPT ![s] = "read"]
          /\ videoSocket' = [videoSocket EXCEPT ![s] = "open"]
          /\ UNCHANGED <<dracmap, handlerVars, update, ctx>>
      BY <2>10 DEF VideoDialOk
    <3> QED BY <1>0, <3>1 DEF TypeOK
  <2>11. CASE CtrlReadFails(s)
    BY <1>0, <2>11 DEF CtrlReadFails, TypeOK
  <2>12. CASE CtrlClose(s)
    BY <1>0, <2>12 DEF CtrlClose, TypeOK, AfterClose
  <2>13. CASE VideoFinished(s)
    BY <1>0, <2>13 DEF VideoFinished, TypeOK
  <2> QED BY <1>7, <2>1, <2>2, <2>3, <2>4, <2>5, <2>6, <2>7, <2>8, <2>9, <2>10, <2>11, <2>12, <2>13 DEF CtrlStep
<1>8. ASSUME NEW s \in Sessions, UpdateStep(s) PROVE SessionInv(t)'
  <2>1. CASE VideoReadFails(s)
    BY <1>0, <2>1 DEF VideoReadFails, TypeOK
  <2>2. CASE BeginUpdate(s)
    BY <1>0, <2>2 DEF BeginUpdate, TypeOK
  <2>3. CASE SaveFrame(s)
    BY <1>0, <2>3 DEF SaveFrame, TypeOK
  <2>4. CASE \E v \in Viewers : NextElement(s, v)
    BY <1>0, <2>4 DEF NextElement, TypeOK
  <2>5. CASE SendFrame(s)
    BY <1>0, <2>5 DEF SendFrame, TypeOK
  <2>6. CASE SendOnClosed(s)
    BY <1>0, <2>6 DEF SendOnClosed, TypeOK
  <2>7. CASE EndUpdate(s)
    BY <1>0, <2>7 DEF EndUpdate, TypeOK
  <2> QED BY <1>8, <2>1, <2>2, <2>3, <2>4, <2>5, <2>6, <2>7 DEF UpdateStep
<1> QED BY <1>1, <1>2, <1>3, <1>4, <1>5, <1>6, <1>7, <1>8 DEF Next

(* Steps that leave the clients and the lists alone.                       *)
LEMMA MembersKept ==
  ASSUME NEW t \in Sessions, MemberInv(t), UNCHANGED <<registryVars, client>>,
         handler'[t] = handler[t]
           \/ handler'[t] \notin {"unborn", "cleanup", "exited"}
           \/ NoClients(t)
  PROVE  MemberInv(t)'
<1>1. Members(t)' = Members(t)
  BY DEF Members
<1>2. NoClients(t) => Members(t) = {}
  BY NoClientsNoMembers
<1> QED BY <1>1, <1>2 DEF MemberInv

(* A step of one client: who is a member, what the list and the counter    *)
(* say, before and after.                                                  *)
LEMMA MemberStepOfClient ==
  ASSUME IInv, Next, NEW t \in Sessions,
         \/ \E c \in Clients, s \in Sessions : Setup(c, s) \/ ClientEvent(s, c)
         \/ \E v \in Viewers : ViewerStep(v)
         \/ \E r \in Requests : ReadFrame(r) \/ Written(r)
         \/ \E c \in Others : TeardownRequest(c)
  PROVE  MemberInv(t)'
<1>0. /\ TypeOK /\ ClientInv
      /\ SessionInv(t) /\ MemberInv(t)
  BY DEF IInv
<1>fin. IsFiniteSet(Members(t) \cap Others)
  BY CountedMembers
<1>1. ASSUME NEW c \in Clients, NEW s \in Sessions, Setup(c, s) PROVE MemberInv(t)'
  <2>1. /\ client[c] = "new"
        /\ sess' = [sess EXCEPT ![c] = s]
        /\ client' = [client EXCEPT ![c] = "joining"]
    BY <1>1 DEF Setup
  <2>2. CASE s # t
    <3>1. Members(t)' = Members(t)
      BY <1>0, <2>1, <2>2 DEF Members, TypeOK
    <3>2. /\ vncClients'[t] = vncClients[t] /\ otherClientCount'[t] = otherClientCount[t]
          /\ handler'[t] = handler[t]
      BY <1>0, <1>1, <2>2 DEF Setup, TypeOK
    <3> QED BY <1>0, <3>1, <3>2 DEF MemberInv
  <2>3. CASE s = t
    <3>1. Members(t)' = Members(t) \cup {c} /\ c \notin Members(t)
      BY <1>0, <2>1, <2>3 DEF Members, TypeOK
    <3>2. handler'[t] \notin {"unborn", "cleanup", "exited"}
      BY <1>0, <1>1, <2>3, SessionAssumption DEF Setup, TypeOK, SessionInv
    <3>3. CASE c \in Viewers
      <4>1. /\ vncClients'[t] = vncClients[t] \cup {c}
            /\ otherClientCount'[t] = otherClientCount[t]
        BY <1>0, <1>1, <2>3, <3>3 DEF Setup, TypeOK
      <4>2. Members(t)' \cap Others = Members(t) \cap Others
        BY <3>1, <3>3, ClientAssumption
      <4> QED BY <1>0, <3>1, <3>2, <3>3, <4>1, <4>2 DEF MemberInv
    <3>4. CASE c \in Others
      <4>1. /\ vncClients'[t] = vncClients[t]
            /\ otherClientCount'[t] = otherClientCount[t] + 1
        BY <1>0, <1>1, <2>3, <3>4, ClientAssumption DEF Setup, CountAfterJoin, TypeOK
      <4>2. Members(t)' \cap Viewers = Members(t) \cap Viewers
        BY <3>1, <3>4, ClientAssumption
      <4>3. /\ Members(t)' \cap Others = (Members(t) \cap Others) \cup {c}
            /\ c \notin Members(t) \cap Others
        BY <3>1, <3>4
      <4>4. Cardinality(Members(t)' \cap Others) = Cardinality(Members(t) \cap Others) + 1
        BY <1>fin, <4>3, FS_AddElement
      <4> QED BY <1>0, <3>1, <3>2, <4>1, <4>2, <4>4 DEF MemberInv
    <3> QED BY <3>3, <3>4 DEF Clients
  <2> QED BY <2>2, <2>3
<1>2. ASSUME NEW c \in Clients, NEW s \in Sessions, ClientEvent(s, c) PROVE MemberInv(t)'
  <2>1. Members(t)' = Members(t)
    BY <1>0, <1>2 DEF ClientEvent, AfterEvent, Members, TypeOK
  <2>2. handler'[t] = handler[t] \/ handler'[t] \notin {"unborn", "cleanup", "exited"}
    BY <1>0, <1>2 DEF ClientEvent, EventLeadsTo, TypeOK
  <2> QED BY <1>0, <1>2, <2>1, <2>2 DEF ClientEvent, MemberInv
<1>3. ASSUME NEW v \in Viewers, ViewerStep(v) PROVE MemberInv(t)'
  <2>0. v \in Clients /\ v \notin Others
    BY ClientAssumption DEF Clients
  <2>1. CASE HangUp(v) \/ InputWithoutContext(v)
    BY <1>0, <2>1, MembersKept DEF HangUp, InputWithoutContext
  <2>2. CASE ReadError(v)
    <3>1. Members(t)' = Members(t)
      BY <1>0, <2>0, <2>2 DEF ReadError, Members, TypeOK
    <3> QED BY <1>0, <2>2, <3>1 DEF ReadError, MemberInv
  <2>3. CASE TeardownViewer(v)
    <3>1. Members(t)' = Members(t) \ {v}
      BY <1>0, <2>0, <2>3 DEF TeardownViewer, Members, TypeOK
    <3>2. vncClients'[t] = vncClients[t] \ {v}
      <4>1. CASE sess[v] = t
        BY <1>0, <2>3, <4>1 DEF TeardownViewer, TypeOK
      <4>2. CASE sess[v] # t
        <5>1. v \notin Members(t)
          BY <4>2 DEF Members
        <5> QED BY <1>0, <2>3, <4>2, <5>1 DEF TeardownViewer, TypeOK, MemberInv
      <4> QED BY <4>1, <4>2
    <3>3. Members(t)' \cap Others = Members(t) \cap Others
      BY <2>0, <3>1
    <3> QED BY <1>0, <2>3, <3>1, <3>2, <3>3 DEF TeardownViewer, MemberInv
  <2> QED BY <1>3, <2>1, <2>2, <2>3 DEF ViewerStep
<1>4. ASSUME NEW r \in Requests, ReadFrame(r) \/ Written(r) PROVE MemberInv(t)'
  <2>1. r \in Clients
    BY DEF Clients, Others
  <2>2. Members(t)' = Members(t)
    BY <1>0, <1>4, <2>1 DEF ReadFrame, Written, Members, TypeOK
  <2> QED BY <1>0, <1>4, <2>2 DEF ReadFrame, Written, MemberInv
<1>5. ASSUME NEW c \in Others, TeardownRequest(c) PROVE MemberInv(t)'
  <2>0. c \in Clients /\ c \notin Viewers
    BY ClientAssumption DEF Clients
  <2>1. Members(t)' = Members(t) \ {c}
    BY <1>0, <1>5, <2>0 DEF TeardownRequest, Members, TypeOK
  <2>2. Members(t)' \cap Viewers = Members(t) \cap Viewers
    BY <2>0, <2>1
  <2>3. otherClientCount'[t] = Cardinality(Members(t)' \cap Others)
    <3>1. CASE sess[c] = t
      <4>1. c \in Members(t) \cap Others
        BY <1>5, <2>0, <3>1 DEF TeardownRequest, Members
      <4>2. Members(t)' \cap Others = (Members(t) \cap Others) \ {c}
        BY <2>1
      <4>3. Cardinality(Members(t)' \cap Others) = Cardinality(Members(t) \cap Others) - 1
        BY <1>fin, <4>1, <4>2, FS_RemoveElement
      <4>4. otherClientCount'[t] = otherClientCount[t] - 1
        BY <1>0, <1>5, <3>1 DEF TeardownRequest, TypeOK
      <4> QED BY <1>0, <4>3, <4>4 DEF MemberInv
    <3>2. CASE sess[c] # t
      <4>1. c \notin Members(t)
        BY <3>2 DEF Members
      <4>2. Members(t)' = Members(t)
        BY <2>1, <4>1
      <4>3. otherClientCount'[t] = otherClientCount[t]
        BY <1>0, <1>5, <3>2 DEF TeardownRequest, TypeOK
      <4> QED BY <1>0, <4>2, <4>3 DEF MemberInv
    <3> QED BY <3>1, <3>2
  <2> QED BY <1>0, <1>5, <2>1, <2>2, <2>3 DEF TeardownRequest, MemberInv
<1> QED BY <1>1, <1>2, <1>3, <1>4, <1>5

(* A step of a session: dracHandler leaves its loop only when the list and *)
(* the counter, and so the clients themselves, are gone.                   *)
LEMMA MemberStep ==
  ASSUME IInv, Next, NEW t \in Sessions
  PROVE  MemberInv(t)'
<1>0. TypeOK /\ SessionInv(t) /\ MemberInv(t)
  BY DEF IInv
<1>1. ASSUME NEW s \in Sessions, HandlerStep(s) PROVE MemberInv(t)'
  <2>1. CASE FinishEvent(s)
    BY <1>0, <2>1, MembersKept DEF FinishEvent, TypeOK
  <2>2. CASE HandlerFinish(s)
    <3>1. Members(t)' = Members(t)
      BY <2>2 DEF HandlerFinish, Members
    <3>2. handler'[t] = handler[t] \/ handler'[t] = "select" \/ NoClients(t)
      BY <1>0, <2>2 DEF HandlerFinish, TypeOK
    <3>3. NoClients(t) => Members(t) = {}
      BY <1>0, NoClientsNoMembers
    <3> QED BY <1>0, <2>2, <3>1, <3>2, <3>3 DEF HandlerFinish, MemberInv
  <2>3. CASE HandlerCheck(s)
    BY <1>0, <2>3, MembersKept DEF HandlerCheck, TypeOK
  <2>4. CASE HandlerTimeout(s)
    BY <1>0, <2>4, MembersKept DEF HandlerTimeout, TypeOK
  <2>5. CASE HandlerReap(s)
    BY <1>0, <2>5, MembersKept DEF HandlerReap, TypeOK
  <2>6. CASE HandlerCleanup(s)
    <3>1. Members(t)' = Members(t)
      BY <2>6 DEF HandlerCleanup, Members
    <3>2. handler'[t] = handler[t] \/ (t = s /\ handler[t] = "cleanup" /\ handler'[t] = "exited")
      BY <1>0, <2>6 DEF HandlerCleanup, TypeOK
    <3> QED BY <1>0, <2>6, <3>1, <3>2 DEF HandlerCleanup, MemberInv
  <2> QED BY <1>1, <2>1, <2>2, <2>3, <2>4, <2>5, <2>6 DEF HandlerStep
<1>2. ASSUME NEW s \in Sessions, KillSession(s) \/ CtrlStep(s) \/ UpdateStep(s)
      PROVE  MemberInv(t)'
  <2>1. CASE KillSession(s)
    BY <1>0, <2>1, MembersKept DEF KillSession
  <2>2. CASE CtrlStep(s)
    <3>1. UNCHANGED <<registryVars, client, handler>>
      BY <2>2 DEF CtrlStep, DetectFails, DetectUnknown, DetectOk, DialFails, DialOk, StartCtrl,
                  LoginOk, LoginFails, VideoDialFails, VideoDialOk, CtrlReadFails, CtrlClose,
                  VideoFinished
    <3> QED BY <1>0, <3>1, MembersKept
  <2>3. CASE UpdateStep(s)
    <3>1. UNCHANGED <<registryVars, client, handler>>
      BY <2>3 DEF UpdateStep, VideoReadFails, BeginUpdate, SaveFrame, NextElement, SendFrame,
                  SendOnClosed, EndUpdate
    <3> QED BY <1>0, <3>1, MembersKept
  <2> QED BY <1>2, <2>1, <2>2, <2>3
<1> QED BY <1>1, <1>2, MemberStepOfClient DEF Next

(* A request that writes a frame is a member, so nobody releases the       *)
(* frame; and only Setup gives a client its session.                       *)
LEMMA ClientStep ==
  ASSUME IInv, Next
  PROVE  ClientInv'
<1> USE DEF ClientInv, FrameStaysDuringWrite
<1>0. TypeOK /\ ClientInv /\ \A s \in Sessions : MemberInv(s)
  BY DEF IInv
<1>r. Requests \subseteq Clients /\ Viewers \subseteq Clients /\ Others \subseteq Clients
  BY DEF Clients, Others
<1>1. ASSUME NEW c \in Clients, NEW s \in Sessions, Setup(c, s) PROVE ClientInv'
  BY <1>0, <1>1, <1>r, SessionAssumption DEF TypeOK, Setup
<1>2. ASSUME NEW c \in Clients, NEW s \in Sessions, ClientEvent(s, c) PROVE ClientInv'
  <2>1. AfterEvent(c) \notin {"new", "writing"}
    BY DEF AfterEvent
  <2> QED BY <1>0, <1>2, <1>r, <2>1 DEF TypeOK, ClientEvent
<1>3. ASSUME NEW v \in Viewers, ViewerStep(v) PROVE ClientInv'
  <2>1. CASE HangUp(v) \/ InputWithoutContext(v)
    BY <1>0, <2>1 DEF HangUp, InputWithoutContext
  <2>2. CASE ReadError(v)
    BY <1>0, <1>r, <2>2 DEF TypeOK, ReadError
  <2>3. CASE TeardownViewer(v)
    BY <1>0, <1>r, <2>3 DEF TypeOK, TeardownViewer
  <2> QED BY <1>3, <2>1, <2>2, <2>3 DEF ViewerStep
<1>4. ASSUME NEW r \in Requests, ReadFrame(r) \/ Written(r) PROVE ClientInv'
  BY <1>0, <1>4, <1>r DEF TypeOK, ReadFrame, Written
<1>5. ASSUME NEW c \in Others, TeardownRequest(c) PROVE ClientInv'
  BY <1>0, <1>5, <1>r DEF TypeOK, TeardownRequest
<1>6. ASSUME NEW s \in Sessions, KillSession(s) \/ HandlerStep(s) PROVE ClientInv'
  <2>1. CASE HandlerCleanup(s)
    <3>1. Members(s) = {}
      BY <1>0, <2>1 DEF HandlerCleanup, MemberInv
    <3>2. \A r \in Requests : client[r] = "writing" => sess[r] # s
      BY <1>r, <3>1 DEF Members
    <3> QED BY <1>0, <2>1, <3>2 DEF TypeOK, HandlerCleanup
  <2>2. CASE ~ HandlerCleanup(s)
    <3>1. UNCHANGED <<client, sess, hasFrame>>
      BY <1>6, <2>2 DEF KillSession, HandlerStep, FinishEvent, HandlerFinish, HandlerCheck,
                        HandlerTimeout, HandlerReap
    <3> QED BY <1>0, <3>1
  <2> QED BY <2>1, <2>2
<1>7. ASSUME NEW s \in Sessions, CtrlStep(s) PROVE ClientInv'
  <2>1. UNCHANGED <<client, sess, hasFrame>>
    BY <1>7 DEF CtrlStep, DetectFails, DetectUnknown, DetectOk, DialFails, DialOk, StartCtrl,
                LoginOk, LoginFails, VideoDialFails, VideoDialOk, CtrlReadFails, CtrlClose,
                VideoFinished
  <2> QED BY <1>0, <2>1
<1>8. ASSUME NEW s \in Sessions, UpdateStep(s) PROVE ClientInv'
  <2>1. UNCHANGED <<client, sess>> /\ \A t \in Sessions : hasFrame[t] => hasFrame'[t]
    <3>1. CASE SaveFrame(s)
      BY <1>0, <3>1 DEF TypeOK, SaveFrame
    <3>2. CASE ~ SaveFrame(s)
      BY <1>8, <3>2 DEF UpdateStep, VideoReadFails, BeginUpdate, NextElement, SendFrame,
                        SendOnClosed, EndUpdate
    <3> QED BY <3>1, <3>2
  <2>2. \A r \in Requests : client[r] = "writing" => sess[r] \in Sessions
    BY <1>0, <1>r DEF TypeOK
  <2> QED BY <1>0, <2>1, <2>2
<1> QED BY <1>1, <1>2, <1>3, <1>4, <1>5, <1>6, <1>7, <1>8 DEF Next

(* IInv is inductive.                                                      *)
LEMMA IInvInit == Init => IInv
<1> SUFFICES ASSUME Init PROVE IInv
  OBVIOUS
<1>1. TypeOK
  BY DEF Init, TypeOK, HandlerStates, CtrlStates, VideoStates, SocketStates, ClientStates,
         StatusValues, Panics
<1>2. \A s \in Sessions : SessionInv(s)
  BY SessionAssumption DEF Init, SessionInv
<1>3. \A s \in Sessions : MemberInv(s)
  <2> TAKE s \in Sessions
  <2>1. Members(s) = {}
    BY DEF Init, Members
  <2> QED BY <2>1, FS_EmptySet DEF Init, MemberInv
<1>4. ClientInv
  BY DEF Init, ClientInv, FrameStaysDuringWrite, Clients, Others
<1> QED BY <1>1, <1>2, <1>3, <1>4 DEF IInv

LEMMA IInvStep == IInv /\ [Next]_vars => IInv'
<1>1. ASSUME IInv, Next PROVE IInv'
  BY <1>1, TypeStep, SessionStep, MemberStep, ClientStep DEF IInv
<1>2. ASSUME IInv, UNCHANGED vars PROVE IInv'
  <2>1. TypeOK'
    BY <1>2 DEF vars, IInv, TypeOK
  <2>2. ASSUME NEW s \in Sessions PROVE SessionInv(s)' /\ MemberInv(s)'
    <3>1. SessionInv(s)'
      BY <1>2 DEF vars, IInv, SessionInv
    <3>2. Members(s)' = Members(s)
      BY <1>2 DEF vars, Members
    <3>3. MemberInv(s)'
      BY <1>2, <3>2 DEF vars, IInv, MemberInv
    <3> QED BY <3>1, <3>3
  <2>3. ClientInv'
    BY <1>2 DEF vars, IInv, ClientInv, FrameStaysDuringWrite
  <2> QED BY <2>1, <2>2, <2>3 DEF IInv
<1> QED BY <1>1, <1>2

LEMMA Invariance == Spec => []IInv
BY IInvInit, IInvStep, PTL DEF Spec

(* The variables keep their types; in particular otherClientCount, which   *)
(* is decremented by whoever was counted, never becomes negative.          *)
THEOREM TypeCorrect == Spec => []TypeOK
<1>1. IInv => TypeOK
  BY DEF IInv
<1> QED BY <1>1, Invariance, PTL

(* dracHandler frees the C context after both readers have ended and the   *)
(* last client has left.                                                   *)
THEOREM FreedLast == Spec => []NoUseAfterFree
<1>1. IInv => NoUseAfterFree
  <2> SUFFICES ASSUME IInv, NEW s \in Sessions, ctx[s] = "freed"
               PROVE  /\ ctrl[s] = "exited"
                      /\ video[s] \in {"none", "exited"}
                      /\ Members(s) = {}
    BY DEF NoUseAfterFree
  <2>1. handler[s] = "exited"
    BY DEF IInv, SessionInv
  <2> QED BY <2>1 DEF IInv, SessionInv, MemberInv
<1> QED BY <1>1, Invariance, PTL

(* A frame is not released while a request writes it.                      *)
THEOREM FramesStay == Spec => []FrameStaysDuringWrite
<1>1. IInv => FrameStaysDuringWrite
  BY DEF IInv, ClientInv
<1> QED BY <1>1, Invariance, PTL

(* Only the current session of the host reports its state.                 *)
THEOREM StatusIsCurrent == Spec => StatusFromCurrent
<1>1. ASSUME IInv, Next, status' # status PROVE status'.sess = dracmap'
  <2>0. TypeOK /\ \A s \in Sessions : SessionInv(s)
    BY <1>1 DEF IInv
  <2>1. ASSUME NEW c \in Clients, NEW s \in Sessions, Setup(c, s)
        PROVE  status'.sess = dracmap'
    BY <1>1, <2>1 DEF Setup, Writes
  <2>2. ASSUME NEW s \in Sessions, CtrlStep(s)
        PROVE  status'.sess = dracmap'
    <3>1. ctrl[s] \notin {"unborn", "exited"} /\ status'.sess = s /\ dracmap' = dracmap
      <4>1. \/ DetectFails(s) \/ DialFails(s) \/ DialOk(s) \/ LoginFails(s)
            \/ VideoDialFails(s) \/ VideoDialOk(s)
        BY <1>1, <2>2 DEF CtrlStep, DetectUnknown, DetectOk, StartCtrl, LoginOk,
                          CtrlReadFails, CtrlClose, VideoFinished
      <4>2. \E state : Writes(s, state)
        BY <4>1 DEF DetectFails, DialFails, DialOk, LoginFails, VideoDialFails, VideoDialOk
      <4>3. ctrl[s] \notin {"unborn", "exited"} /\ dracmap' = dracmap
        BY <4>1 DEF DetectFails, DialFails, DialOk, LoginFails, VideoDialFails, VideoDialOk
      <4> QED BY <4>2, <4>3 DEF Writes
    <3> QED BY <2>0, <3>1 DEF SessionInv
  <2>3. ASSUME NEW s \in Sessions, UpdateStep(s)
        PROVE  status'.sess = dracmap'
    <3>1. update[s] = "next" /\ status'.sess = s /\ dracmap' = dracmap
      <4>1. EndUpdate(s)
        BY <1>1, <2>3 DEF UpdateStep, VideoReadFails, BeginUpdate, SaveFrame, NextElement,
                          SendFrame, SendOnClosed
      <4> QED BY <4>1 DEF EndUpdate, Writes
    <3>2. ctrl[s] = "update" \/ video[s] = "update"
      BY <2>0, <3>1 DEF SessionInv
    <3>3. ctrl[s] # "exited"
      BY <2>0, <3>2 DEF SessionInv
    <3>4. ctrl[s] # "unborn"
      BY <2>0, <3>2 DEF SessionInv
    <3> QED BY <2>0, <3>1, <3>3, <3>4 DEF SessionInv
  <2>4. CASE \E c \in Clients, s \in Sessions : ClientEvent(s, c)
    BY <1>1, <2>4 DEF ClientEvent
  <2>5. CASE \E v \in Viewers : ViewerStep(v)
    BY <1>1, <2>5 DEF ViewerStep, HangUp, InputWithoutContext, ReadError, TeardownViewer
  <2>6. CASE \/ \E r \in Requests : ReadFrame(r) \/ Written(r)
             \/ \E c \in Others : TeardownRequest(c)
    BY <1>1, <2>6 DEF ReadFrame, Written, TeardownRequest
  <2>7. CASE \E s \in Sessions : KillSession(s) \/ HandlerStep(s)
    BY <1>1, <2>7 DEF KillSession, HandlerStep, FinishEvent, HandlerFinish, HandlerCheck,
         HandlerTimeout, HandlerReap, HandlerCleanup
  <2> QED BY <1>1, <2>1, <2>2, <2>3, <2>4, <2>5, <2>6, <2>7 DEF Next
<1>2. IInv /\ [Next]_vars => [status' # status => status'.sess = dracmap']_vars
  BY <1>1
<1> QED BY <1>2, Invariance, PTL DEF Spec, StatusFromCurrent

(* The abstract members and phases of the sessions a step does not touch.  *)
LEMMA PhaseKept ==
  ASSUME NEW s \in Sessions,
         handler'[s] = handler[s]
           \/ (handler[s] \notin {"unborn", "exited"} /\ handler'[s] \notin {"unborn", "exited"}),
         dracFinished'[s] = dracFinished[s]
  PROVE  Phase(s)' = Phase(s)
BY DEF Phase

(* Every step of the goroutines is a step of the registry, or none.        *)
LEMMA RegistryStep ==
  ASSUME IInv, Next
  PROVE  Registry!Next \/ UNCHANGED Registry!registry
<1> DEFINE phase == [s \in Sessions |-> Phase(s)]
           members == [s \in Sessions |-> Members(s)]
           seen == {c \in Clients : client[c] # "new"}
<1>0. /\ TypeOK /\ ClientInv
      /\ \A s \in Sessions : SessionInv(s) /\ MemberInv(s)
  BY DEF IInv
<1>s. ASSUME dracmap' = dracmap, phase' = phase, members' = members, seen' = seen
      PROVE  UNCHANGED Registry!registry
  BY <1>s DEF Registry!registry
<1>1. ASSUME NEW c \in Clients, NEW s \in Sessions, Setup(c, s) PROVE Registry!Next
  <2>1. /\ client[c] = "new"
        /\ client' = [client EXCEPT ![c] = "joining"]
        /\ sess' = [sess EXCEPT ![c] = s]
        /\ dracFinished' = dracFinished
    BY <1>1 DEF Setup
  <2>2. Registry!Enter(c, s)
    <3>1. c \notin seen /\ seen' = seen \cup {c}
      BY <1>0, <2>1 DEF TypeOK
    <3>2. members' = [members EXCEPT ![s] = @ \cup {c}]
      <4>1. ASSUME NEW t \in Sessions, t # s PROVE Members(t)' = Members(t)
        BY <1>0, <2>1, <4>1 DEF TypeOK, Members
      <4>2. Members(s)' = Members(s) \cup {c}
        BY <1>0, <2>1 DEF TypeOK, Members
      <4> QED BY <4>1, <4>2
    <3> QED BY <3>1, <3>2 DEF Registry!Enter
  <2>3. CASE dracmap = NoSession
    <3>1. /\ dracmap' = s
          /\ handler[s] = "unborn" /\ handler' = [handler EXCEPT ![s] = "select"]
      BY <1>1, <2>3 DEF Setup
    <3>2. ~ dracFinished[s]
      <4>1. ctrl[s] # "exited"
        BY <1>0, <3>1 DEF SessionInv
      <4> QED BY <1>0, <4>1 DEF SessionInv, TypeOK
    <3>3. Phase(s) = "unborn" /\ Phase(s)' = "live"
      BY <1>0, <2>1, <3>1, <3>2 DEF Phase, TypeOK
    <3>4. ASSUME NEW t \in Sessions, t # s PROVE Phase(t)' = Phase(t)
      BY <1>0, <2>1, <3>1, <3>4, PhaseKept DEF TypeOK
    <3>5. phase' = [phase EXCEPT ![s] = "live"]
      BY <3>3, <3>4
    <3>6. Registry!Open(c, s)
      BY <2>2, <2>3, <3>1, <3>3, <3>5 DEF Registry!Open
    <3> QED BY <3>6 DEF Registry!Next
  <2>4. CASE dracmap # NoSession
    <3>1. dracmap = s /\ UNCHANGED <<dracmap, handler>>
      BY <1>1, <2>4 DEF Setup
    <3>2. phase' = phase
      BY <2>1, <3>1, PhaseKept
    <3>3. Registry!Join(c, s)
      BY <2>2, <3>1, <3>2 DEF Registry!Join
    <3> QED BY <3>3 DEF Registry!Next
  <2> QED BY <2>3, <2>4
<1>2. ASSUME NEW c \in Clients, NEW s \in Sessions, ClientEvent(s, c)
      PROVE  UNCHANGED Registry!registry
  <2>1. phase' = phase
    <3>1. \A t \in Sessions : Phase(t)' = Phase(t)
      BY <1>0, <1>2, PhaseKept DEF ClientEvent, EventLeadsTo, TypeOK
    <3> QED BY <3>1
  <2>2. members' = members /\ seen' = seen /\ dracmap' = dracmap
    BY <1>0, <1>2 DEF ClientEvent, AfterEvent, Members, TypeOK
  <2> QED BY <1>s, <2>1, <2>2
<1>l. ASSUME NEW c \in Clients, client[c] = "leaving",
             client' = [client EXCEPT ![c] = "left"],
             UNCHANGED <<dracmap, sess, handlerVars>>
      PROVE  Registry!Next
  <2>1. sess[c] \in Sessions
    BY <1>0, <1>l DEF TypeOK, ClientInv
  <2>2. c \in members[sess[c]]
    BY <1>l, <2>1 DEF Members
  <2>3. members' = [members EXCEPT ![sess[c]] = @ \ {c}]
    <3>1. \A t \in Sessions : Members(t)' = IF t = sess[c] THEN Members(t) \ {c} ELSE Members(t)
      BY <1>0, <1>l, <2>1 DEF TypeOK, Members
    <3> QED BY <3>1
  <2>4. phase' = phase /\ seen' = seen
    BY <1>0, <1>l DEF Phase, TypeOK
  <2>5. Registry!Leave(c, sess[c])
    BY <1>l, <2>2, <2>3, <2>4 DEF Registry!Leave
  <2> QED BY <2>1, <2>5 DEF Registry!Next
<1>k. ASSUME UNCHANGED <<dracmap, sess, handlerVars>>,
             NEW c \in Clients, client[c] \in {"serving", "waiting", "writing"},
             client' = [client EXCEPT ![c] = "writing"]
               \/ client' = [client EXCEPT ![c] = "leaving"]
      PROVE  UNCHANGED Registry!registry
  <2>1. phase' = phase
    BY <1>k DEF Phase
  <2>2. members' = members /\ seen' = seen
    BY <1>0, <1>k DEF Members, TypeOK
  <2> QED BY <1>k, <1>s, <2>1, <2>2
<1>3. ASSUME NEW v \in Viewers, ViewerStep(v)
      PROVE  Registry!Next \/ UNCHANGED Registry!registry
  <2>0. v \in Clients
    BY DEF Clients
  <2>1. CASE TeardownViewer(v)
    BY <1>l, <2>0, <2>1 DEF TeardownViewer
  <2>2. CASE HangUp(v) \/ InputWithoutContext(v)
    <3>1. phase' = phase /\ members' = members /\ seen' = seen /\ dracmap' = dracmap
      BY <2>2 DEF HangUp, InputWithoutContext, Phase, Members
    <3> QED BY <1>s, <3>1
  <2>3. CASE ReadError(v)
    <3>1. /\ client[v] = "serving"
          /\ client' = [client EXCEPT ![v] = "leaving"]
          /\ UNCHANGED <<dracmap, sess, handlerVars>>
      BY <2>3 DEF ReadError
    <3> QED BY <1>k, <2>0, <3>1
  <2> QED BY <1>3, <2>1, <2>2, <2>3 DEF ViewerStep
<1>4. ASSUME NEW r \in Requests, ReadFrame(r) \/ Written(r)
      PROVE  UNCHANGED Registry!registry
  <2>0. r \in Clients
    BY DEF Clients, Others
  <2>1. /\ client[r] \in {"waiting", "writing"}
        /\ client' = [client EXCEPT ![r] = "writing"] \/ client' = [client EXCEPT ![r] = "leaving"]
        /\ UNCHANGED <<dracmap, sess, handlerVars>>
    BY <1>4 DEF ReadFrame, Written
  <2> QED BY <1>k, <2>0, <2>1
<1>5. ASSUME NEW c \in Others, TeardownRequest(c) PROVE Registry!Next
  BY <1>l, <1>5 DEF TeardownRequest, Clients
<1>6. ASSUME NEW s \in Sessions, HandlerStep(s)
      PROVE  Registry!Next \/ UNCHANGED Registry!registry
  <2>1. members' = members /\ seen' = seen
    BY <1>6 DEF HandlerStep, FinishEvent, HandlerFinish, HandlerCheck, HandlerTimeout,
                HandlerReap, HandlerCleanup, Members
  <2>2. CASE HandlerFinish(s)
    <3>1. dracmap = s /\ ~ dracFinished[s]
      BY <1>0, <2>2 DEF HandlerFinish, SessionInv
    <3>2. /\ dracFinished' = [dracFinished EXCEPT ![s] = TRUE]
          /\ dracmap' = NoSession
          /\ handler'[s] \in {"cleanup", "select"}
          /\ \A t \in Sessions : t # s => handler'[t] = handler[t]
      BY <1>0, <2>2 DEF HandlerFinish, TypeOK
    <3>3. Phase(s)' = "over"
      BY <1>0, <3>2 DEF Phase, TypeOK
    <3>4. \A t \in Sessions : t # s => Phase(t)' = Phase(t)
      BY <1>0, <3>2, PhaseKept DEF TypeOK
    <3>5. phase' = [phase EXCEPT ![s] = "over"]
      BY <3>3, <3>4
    <3>6. Registry!End(s)
      BY <2>1, <3>1, <3>2, <3>5 DEF Registry!End
    <3> QED BY <3>6 DEF Registry!Next
  <2>3. CASE HandlerCleanup(s)
    <3>1. handler[s] = "cleanup" /\ dracFinished[s] /\ Members(s) = {}
      BY <1>0, <2>3 DEF HandlerCleanup, SessionInv, MemberInv
    <3>2. /\ handler' = [handler EXCEPT ![s] = "exited"]
          /\ UNCHANGED <<dracmap, dracFinished>>
      BY <2>3 DEF HandlerCleanup
    <3>3. Phase(s) = "over" /\ Phase(s)' = "released"
      BY <1>0, <3>1, <3>2 DEF Phase, TypeOK
    <3>4. \A t \in Sessions : t # s => Phase(t)' = Phase(t)
      BY <1>0, <3>2, PhaseKept DEF TypeOK
    <3>5. phase' = [phase EXCEPT ![s] = "released"]
      BY <3>3, <3>4
    <3>6. Registry!Release(s)
      BY <2>1, <3>1, <3>2, <3>3, <3>5 DEF Registry!Release
    <3> QED BY <3>6 DEF Registry!Next
  <2>4. CASE ~ HandlerFinish(s) /\ ~ HandlerCleanup(s)
    <3>1. UNCHANGED <<dracmap, dracFinished>>
      BY <1>6, <2>4 DEF HandlerStep, FinishEvent, HandlerCheck, HandlerTimeout, HandlerReap
    <3>2. \A t \in Sessions : \/ handler'[t] = handler[t]
                              \/ /\ handler[t] \notin {"unborn", "exited"}
                                 /\ handler'[t] \notin {"unborn", "exited"}
      BY <1>0, <1>6, <2>4 DEF HandlerStep, FinishEvent, HandlerCheck, HandlerTimeout,
                              HandlerReap, TypeOK
    <3>3. phase' = phase
      BY <3>1, <3>2, PhaseKept
    <3> QED BY <1>s, <2>1, <3>1, <3>3
  <2> QED BY <2>2, <2>3, <2>4
<1>7. ASSUME NEW s \in Sessions, KillSession(s) \/ CtrlStep(s) \/ UpdateStep(s)
      PROVE  UNCHANGED Registry!registry
  <2>1. UNCHANGED <<dracmap, sess, client, handlerVars>>
    <3>1. CASE KillSession(s)
      BY <3>1 DEF KillSession
    <3>2. CASE CtrlStep(s)
      BY <3>2 DEF CtrlStep, DetectFails, DetectUnknown, DetectOk, DialFails, DialOk, StartCtrl,
                  LoginOk, LoginFails, VideoDialFails, VideoDialOk, CtrlReadFails, CtrlClose,
                  VideoFinished
    <3>3. CASE UpdateStep(s)
      BY <3>3 DEF UpdateStep, VideoReadFails, BeginUpdate, SaveFrame, NextElement, SendFrame,
                  SendOnClosed, EndUpdate
    <3> QED BY <1>7, <3>1, <3>2, <3>3
  <2>2. phase' = phase /\ members' = members /\ seen' = seen
    BY <2>1 DEF Phase, Members
  <2> QED BY <1>s, <2>1, <2>2
<1> QED BY <1>1, <1>2, <1>3, <1>4, <1>5, <1>6, <1>7 DEF Next

(* The daemon implements SessionRegistry.                                  *)
THEOREM RegistryImplemented == Spec => ImplementsRegistry
<1>1. Init => Registry!Init
  <2> SUFFICES ASSUME Init PROVE Registry!Init
    OBVIOUS
  <2>1. \A s \in Sessions : Phase(s) = "unborn" /\ Members(s) = {}
    BY DEF Init, Phase, Members
  <2> QED BY <2>1 DEF Init, Registry!Init
<1>2. IInv /\ [Next]_vars => [Registry!Next]_Registry!registry
  <2>1. ASSUME UNCHANGED vars PROVE UNCHANGED Registry!registry
    BY <2>1 DEF vars, Registry!registry, Phase, Members
  <2> QED BY <2>1, RegistryStep
<1> QED BY <1>1, <1>2, Invariance, PTL DEF Spec, ImplementsRegistry, Registry!Spec
=============================================================================

------------------------- MODULE GatewayClientProofs -------------------------
(***************************************************************************)
(* The safety of GatewayClient, proved for any sessions, requests and      *)
(* foreign runs: IInv is inductive, and the properties follow from it.     *)
(***************************************************************************)
EXTENDS GatewayClient, FiniteSetTheorems, WellFoundedInduction, TLAPS

TableTypeOK ==
    /\ pendingByReqId \in SUBSET Req
    /\ ahead \in [Req -> SUBSET Req]
    /\ runId \in [Req -> Run \cup {NoReq}]
    /\ pendingByRunId \in [Run -> Req \cup {NoReq}]
    /\ timer \in SUBSET Req
    /\ outcome \in [Req -> Outcome]

TableInv ==
    /\ TableTypeOK
    /\ PendingIsWaiting /\ RunIdIsOwn /\ RunIndexIsExact /\ InsertionOrder

Settled == Outcome \ {"unsent", "waiting"}

-----------------------------------------------------------------------------
(* What the operations on the request table keep.                          *)

\* evict() together with the settlement of the promises removes any set of
\* requests and leaves the two maps, the timers and the order in agreement.
LEMMA EvictKeepsTable ==
    ASSUME TableInv, NEW S \in SUBSET Req, NEW o \in Settled, Evict(S), Settle(S, o)
    PROVE  TableInv'
<1> USE DEF TableInv, TableTypeOK, Evict, Settle, Settled, Outcome
<1>1. TableTypeOK'
  OBVIOUS
<1>2. PendingIsWaiting'
  BY DEF PendingIsWaiting
<1>3. RunIdIsOwn'
  BY DEF RunIdIsOwn
<1>4. RunIndexIsExact'
  BY NoReqIsNoReq DEF RunIndexIsExact, RunIdIsOwn, Run
<1>5. InsertionOrder'
  <2>1. IsFiniteSet(pendingByReqId')
    BY FS_Subset DEF InsertionOrder
  <2>2. QED
    BY <2>1 DEF InsertionOrder
<1>6. QED
  BY <1>1, <1>2, <1>3, <1>4, <1>5

\* rejectAllPending() empties the table.
LEMMA RejectAllKeepsTable ==
    ASSUME TableInv, RejectAllPending
    PROVE  TableInv' /\ pendingByReqId' = {}
<1> USE DEF TableInv, TableTypeOK, RejectAllPending, Settle, Outcome, ErrorCode
<1>1. TableTypeOK'
  OBVIOUS
<1>2. PendingIsWaiting'
  BY DEF PendingIsWaiting
<1>3. RunIdIsOwn'
  BY DEF RunIdIsOwn
<1>4. RunIndexIsExact'
  BY NoReqIsNoReq DEF RunIndexIsExact, Run
<1>5. InsertionOrder'
  BY FS_EmptySet DEF InsertionOrder
<1>6. QED
  BY <1>1, <1>2, <1>3, <1>4, <1>5

\* sendChat() enters a fresh request at the end of the map.
LEMMA RegisterKeepsTable ==
    ASSUME TableInv, NEW r \in Req, outcome[r] = "unsent", Register(r)
    PROVE  TableInv'
<1> USE DEF TableInv, TableTypeOK, Register, Outcome
<1>1. r \notin pendingByReqId
  BY DEF PendingIsWaiting
<1>2. TableTypeOK'
  OBVIOUS
<1>3. PendingIsWaiting'
  BY DEF PendingIsWaiting
<1>4. RunIdIsOwn'
  BY DEF RunIdIsOwn
<1>5. RunIndexIsExact'
  <2>1. runId[r] = NoReq /\ NoReq \notin Run
    BY NoReqIsNoReq DEF RunIdIsOwn
  <2>2. QED
    BY <2>1, <1>1 DEF RunIndexIsExact
<1>6. InsertionOrder'
  <2>1. IsFiniteSet(pendingByReqId')
    BY FS_AddElement DEF InsertionOrder
  <2>2. QED
    BY <1>1, <2>1 DEF InsertionOrder
<1>7. QED
  BY <1>2, <1>3, <1>4, <1>5, <1>6

\* An ack that names the run enters the request in the second map.
LEMMA AckKeepsTable ==
    ASSUME TableInv, NEW r \in pendingByReqId,
           runId' = [runId EXCEPT ![r] = r],
           pendingByRunId' = [pendingByRunId EXCEPT ![r] = r],
           UNCHANGED <<pendingByReqId, ahead, timer, outcome>>
    PROVE  TableInv'
<1> USE DEF TableInv, TableTypeOK
<1>1. r \in Req /\ r \in Run /\ outcome[r] = "waiting"
  BY DEF Run, PendingIsWaiting
<1>2. TableTypeOK'
  BY <1>1
<1>3. PendingIsWaiting' /\ InsertionOrder'
  BY DEF PendingIsWaiting, InsertionOrder
<1>4. RunIdIsOwn'
  BY <1>1 DEF RunIdIsOwn
<1>5. RunIndexIsExact'
  BY <1>1, NoReqIsNoReq DEF RunIndexIsExact, RunIdIsOwn
<1>6. QED
  BY <1>2, <1>3, <1>4, <1>5

LEMMA UnchangedTable ==
    ASSUME TableInv, UNCHANGED <<tableVars, outcome>>
    PROVE  TableInv'
BY DEF TableInv, TableTypeOK, tableVars, PendingIsWaiting, RunIdIsOwn, RunIndexIsExact,
       InsertionOrder

\* A promise that was never opened leaves no trace in the table.
LEMMA RejectAtOnceKeepsTable ==
    ASSUME TableInv, NEW r \in Req, outcome[r] = "unsent", NEW o \in Settled,
           outcome' = [outcome EXCEPT ![r] = o], UNCHANGED tableVars
    PROVE  TableInv'
BY DEF TableInv, TableTypeOK, Settled, tableVars, Outcome, PendingIsWaiting, RunIdIsOwn,
       RunIndexIsExact, InsertionOrder

\* An event only ever finds requests that are pending, and of its session.
LEMMA FindPendingSound ==
    ASSUME TableInv, NEW i \in Run, NEW r \in FindPending(i)
    PROVE  r \in pendingByReqId /\ SessionOf[r] = SessionOf[i]
BY NoReqIsNoReq DEF TableInv, TableTypeOK, FindPending, RunIndexIsExact, RunIdIsOwn, Run

-----------------------------------------------------------------------------
(* Every action keeps the table.                                           *)

LEMMA NextKeepsTable ==
    ASSUME TypeOK, TableInv, [Next]_vars
    PROVE  TableInv'
<1>1. CASE UNCHANGED vars
  BY <1>1, UnchangedTable DEF vars, requestVars
<1>2. CASE OnReconnectTimer \/ OnOpen \/ GatewayCloses
  BY <1>2, UnchangedTable DEF OnReconnectTimer, OnOpen, GatewayCloses, requestVars
<1>3. CASE OnClose \/ Close
  BY <1>3, RejectAllKeepsTable DEF OnClose, Close
<1>4. CASE OnChallenge \/ OnHelloOk \/ OnConnectError \/ ApproveDevice
  BY <1>4, UnchangedTable DEF OnChallenge, OnHelloOk, OnConnectError, ApproveDevice, requestVars
<1>5. ASSUME NEW r \in Req, SendChat(r)
      PROVE  TableInv'
  <2>1. outcome[r] = "unsent"
    BY <1>5 DEF SendChat
  <2>2. ASSUME NEW o \in Settled, RejectAtOnce(r, o)
        PROVE  TableInv'
    BY <2>1, <2>2, RejectAtOnceKeepsTable DEF RejectAtOnce
  <2>3. CASE Register(r)
    BY <2>1, <2>3, RegisterKeepsTable
  <2>4. QED
    BY <1>5, <2>2, <2>3 DEF SendChat, Settled, Outcome, ErrorCode
<1>6. ASSUME NEW r \in Req, GatewayAccepts(r)
      PROVE  TableInv'
  BY <1>6, UnchangedTable DEF GatewayAccepts, requestVars
<1>7. ASSUME NEW r \in Req, OnAck(r)
      PROVE  TableInv'
  <2>1. CASE UNCHANGED <<runId, pendingByRunId>>
    BY <1>7, <2>1, UnchangedTable DEF OnAck, requestVars, tableVars
  <2>2. CASE r \in pendingByReqId /\ runId' = [runId EXCEPT ![r] = r]
             /\ pendingByRunId' = [pendingByRunId EXCEPT ![r] = r]
    BY <1>7, <2>2, AckKeepsTable DEF OnAck, requestVars
  <2>3. QED
    BY <1>7, <2>1, <2>2 DEF OnAck
<1>8. ASSUME NEW r \in Req, NEW o \in Settled, SettleReject(r, o)
      PROVE  TableInv'
  BY <1>8, EvictKeepsTable DEF SettleReject
<1>9. ASSUME NEW r \in Req, OnSendError(r)
      PROVE  TableInv'
  <2>1. CASE r \in pendingByReqId
    BY <1>8, <1>9, <2>1 DEF OnSendError, Settled, Outcome, ErrorCode
  <2>2. CASE r \notin pendingByReqId
    BY <1>9, <2>2, UnchangedTable DEF OnSendError
  <2>3. QED
    BY <2>1, <2>2
<1>10. ASSUME NEW r \in Req, OnReplyTimeout(r)
       PROVE  TableInv'
  <2>1. r \in pendingByReqId
    BY <1>10 DEF OnReplyTimeout, TableInv, PendingIsWaiting
  <2>2. QED
    BY <1>8, <1>10, <2>1 DEF OnReplyTimeout, Settled, Outcome, ErrorCode
<1>11. ASSUME NEW i \in Run, NEW o \in {"reply", "gateway_error"}, OnChatEnd(i, o)
       PROVE  TableInv'
  <2>1. FindPending(i) \in SUBSET Req
    BY FindPendingSound DEF TableInv, TableTypeOK
  <2>2. o \in Settled
    BY DEF Settled, Outcome, ErrorCode
  <2>3. QED
    BY <1>11, <2>1, <2>2, EvictKeepsTable DEF OnChatEnd
<1>12. ASSUME NEW i \in Run, OnChatChunk(i) \/ EndUnheard(i) \/ StartOtherRun(i)
       PROVE  TableInv'
  BY <1>12, UnchangedTable DEF OnChatChunk, EndUnheard, StartOtherRun, requestVars
<1>13. OtherRun \subseteq Run
  BY DEF Run
<1>14. QED
  BY <1>1, <1>2, <1>3, <1>4, <1>5, <1>6, <1>7, <1>9, <1>10, <1>11, <1>12, <1>13 DEF Next

-----------------------------------------------------------------------------
(* Every action keeps the types.                                           *)

LEMMA NextKeepsTypes ==
    ASSUME TypeOK, TableInv, [Next]_vars
    PROVE  TypeOK'
<1>1. TableTypeOK'
  BY NextKeepsTable DEF TableInv
<1> DEFINE RestOK ==
        /\ state \in GatewayState
        /\ socket \in BOOLEAN /\ connectReqId \in BOOLEAN
        /\ closedByUser \in BOOLEAN /\ reconnectTimer \in BOOLEAN
        /\ answeredBy \in [Req -> Run \cup {NoReq}]
        /\ chunkFrom \in [Req -> Run \cup {NoReq}]
        /\ ws \in {"none", "CONNECTING", "OPEN", "CLOSING"}
        /\ link \in {"none", "open", "challenged", "connect_sent", "authenticated", "refused"}
        /\ admission \in {"approved", "unapproved", "bad_token"}
        /\ toGateway \in SUBSET Req
        /\ ackDue \in SUBSET Req
        /\ run \in [Run -> {"idle", "running", "ended"}]
<1>2. RestOK
  BY DEF TypeOK
<1>3. Req \subseteq Run /\ OtherRun \subseteq Run
  BY DEF Run
<1> HIDE DEF Run
<1> USE DEF clientVars, tableVars, requestVars, gatewayVars, GatewayState
<1>4. ASSUME UNCHANGED vars PROVE RestOK'
  BY <1>2, <1>4 DEF vars
<1>5. ASSUME OnReconnectTimer \/ OnOpen \/ GatewayCloses \/ OnClose \/ Close
      PROVE  RestOK'
  BY <1>2, <1>5 DEF OnReconnectTimer, OpenSocket, OnOpen, GatewayCloses, OnClose, Close,
                    RejectAllPending, ScheduleReconnect
<1>6. ASSUME OnChallenge \/ OnHelloOk \/ OnConnectError \/ ApproveDevice
      PROVE  RestOK'
  BY <1>2, <1>6 DEF OnChallenge, OnHelloOk, OnConnectError, ApproveDevice
<1>7. ASSUME NEW r \in Req,
             SendChat(r) \/ GatewayAccepts(r) \/ OnAck(r) \/ OnSendError(r) \/ OnReplyTimeout(r)
      PROVE  RestOK'
  <2>1. CASE SendChat(r)
    BY <1>2, <2>1 DEF SendChat, RejectAtOnce, Register
  <2>2. CASE GatewayAccepts(r)
    BY <1>2, <1>3, <2>2 DEF GatewayAccepts
  <2>3. CASE OnAck(r) \/ OnSendError(r) \/ OnReplyTimeout(r)
    BY <1>2, <2>3 DEF OnAck, OnSendError, OnReplyTimeout
  <2>4. QED
    BY <1>7, <2>1, <2>2, <2>3
<1>8. ASSUME NEW i \in Run, NEW o \in {"reply", "gateway_error"},
             OnChatChunk(i) \/ OnChatEnd(i, o) \/ EndUnheard(i) \/ StartOtherRun(i)
      PROVE  RestOK'
  <2>1. CASE OnChatChunk(i)
    BY <1>2, <2>1 DEF OnChatChunk
  <2>2. CASE OnChatEnd(i, o)
    BY <1>2, <2>2 DEF OnChatEnd
  <2>3. CASE EndUnheard(i) \/ StartOtherRun(i)
    BY <1>2, <2>3 DEF EndUnheard, StartOtherRun
  <2>4. QED
    BY <1>8, <2>1, <2>2, <2>3
<1>9. RestOK'
  BY <1>3, <1>4, <1>5, <1>6, <1>7, <1>8 DEF Next
<1>10. QED
  BY <1>1, <1>9 DEF TypeOK, TableTypeOK

-----------------------------------------------------------------------------
(* Every action keeps the connection in order.                             *)

ConnInv ==
    /\ AlwaysSomethingToWaitFor /\ LinkNeedsSocket /\ ReadyOnThisConnection
    /\ PendingOnlyOnLiveSocket /\ CloseIsFinal

LEMMA NextKeepsConnection ==
    ASSUME TypeOK, TableInv, ConnInv, [Next]_vars
    PROVE  ConnInv'
<1> USE DEF ConnInv, AlwaysSomethingToWaitFor, LinkNeedsSocket, ReadyOnThisConnection,
            PendingOnlyOnLiveSocket, CloseIsFinal, TypeOK
<1> USE DEF clientVars, tableVars, requestVars, gatewayVars
<1>1. CASE UNCHANGED vars
  BY <1>1 DEF vars
<1>2. CASE OnReconnectTimer
  BY <1>2 DEF OnReconnectTimer, OpenSocket
<1>3. CASE OnOpen
  BY <1>3 DEF OnOpen
<1>4. CASE GatewayCloses
  BY <1>4 DEF GatewayCloses
<1>5. CASE OnClose
  BY <1>5, RejectAllKeepsTable DEF OnClose, ScheduleReconnect
<1>6. CASE Close
  BY <1>6, RejectAllKeepsTable DEF Close
<1>7. CASE OnChallenge
  BY <1>7 DEF OnChallenge
<1>8. CASE OnHelloOk
  BY <1>8 DEF OnHelloOk
<1>9. CASE OnConnectError
  BY <1>9 DEF OnConnectError
<1>10. CASE ApproveDevice
  BY <1>10 DEF ApproveDevice
<1>11. ASSUME NEW r \in Req, SendChat(r)
       PROVE  ConnInv'
  BY <1>11 DEF SendChat, RejectAtOnce, Register
<1>12. ASSUME NEW r \in Req, GatewayAccepts(r)
       PROVE  ConnInv'
  BY <1>12 DEF GatewayAccepts
<1>13. ASSUME NEW r \in Req, OnAck(r)
       PROVE  ConnInv'
  BY <1>13 DEF OnAck
<1>14. ASSUME NEW r \in Req, OnSendError(r)
       PROVE  ConnInv'
  BY <1>14 DEF OnSendError, SettleReject, Evict
<1>15. ASSUME NEW r \in Req, OnReplyTimeout(r)
       PROVE  ConnInv'
  BY <1>15 DEF OnReplyTimeout, SettleReject, Evict
<1>16. ASSUME NEW i \in Run, NEW o \in {"reply", "gateway_error"}, OnChatEnd(i, o)
       PROVE  ConnInv'
  BY <1>16 DEF OnChatEnd, Evict
<1>17. ASSUME NEW i \in Run, OnChatChunk(i) \/ EndUnheard(i) \/ StartOtherRun(i)
       PROVE  ConnInv'
  BY <1>17 DEF OnChatChunk, EndUnheard, StartOtherRun
<1>18. OtherRun \subseteq Run
  BY DEF Run
<1>19. QED
  BY <1>1, <1>2, <1>3, <1>4, <1>5, <1>6, <1>7, <1>8, <1>9, <1>10, <1>11, <1>12, <1>13,
     <1>14, <1>15, <1>16, <1>17, <1>18 DEF Next

-----------------------------------------------------------------------------
(* The invariant and what follows from it.                                 *)

LEMMA IInvParts == IInv <=> TypeOK /\ TableInv /\ ConnInv
BY DEF IInv, TypeOK, TableInv, TableTypeOK, ConnInv

LEMMA InitIInv == Init => IInv
<1> SUFFICES ASSUME Init PROVE IInv
  OBVIOUS
<1> USE DEF Init
<1>1. TypeOK
  BY DEF TypeOK, GatewayState, Outcome
<1>2. PendingIsWaiting /\ RunIdIsOwn /\ RunIndexIsExact /\ InsertionOrder
  BY NoReqIsNoReq, FS_EmptySet
     DEF PendingIsWaiting, RunIdIsOwn, RunIndexIsExact, InsertionOrder, Run
<1>3. AlwaysSomethingToWaitFor /\ LinkNeedsSocket /\ ReadyOnThisConnection
      /\ PendingOnlyOnLiveSocket /\ CloseIsFinal
  BY DEF AlwaysSomethingToWaitFor, LinkNeedsSocket, ReadyOnThisConnection,
         PendingOnlyOnLiveSocket, CloseIsFinal
<1>4. QED
  BY <1>1, <1>2, <1>3 DEF IInv

LEMMA NextIInv == IInv /\ [Next]_vars => IInv'
BY NextKeepsTypes, NextKeepsTable, NextKeepsConnection,
   IInvParts DEF IInv, TypeOK, TableInv, TableTypeOK, ConnInv

LEMMA AlwaysIInv == Spec => []IInv
BY InitIInv, NextIInv, PTL DEF Spec

\* Every variable keeps its type.
THEOREM TypeCorrect == Spec => []TypeOK
<1>1. IInv => TypeOK
  BY DEF IInv
<1>2. QED
  BY <1>1, AlwaysIInv, PTL

\* The client never holds a request, or calls itself ready, on a connection that
\* is gone, never stops for want of an event to wait for, and close() is final.
THEOREM ConnectionIsSound == Spec => []ConnectionIsConsistent
<1>1. IInv => ConnectionIsConsistent
  BY DEF IInv, ConnectionIsConsistent
<1>2. QED
  BY <1>1, AlwaysIInv, PTL

-----------------------------------------------------------------------------
\* findPending meets at most one request; and, the pending requests being
\* finitely many in one line, it meets one whenever the session has any.
LEMMA FindPendingUnique ==
    ASSUME TableInv, NEW i \in Run, NEW p \in FindPending(i), NEW q \in FindPending(i)
    PROVE  p = q
<1>1. CASE pendingByRunId[i] # NoReq
  BY <1>1 DEF FindPending
<1>2. CASE pendingByRunId[i] = NoReq
  <2>1. /\ p \in pendingByReqId /\ q \in pendingByReqId
        /\ SessionOf[p] = SessionOf[q]
        /\ p \notin ahead[q] /\ q \notin ahead[p]
    BY <1>2 DEF FindPending
  <2>2. QED
    BY <2>1 DEF TableInv, InsertionOrder
<1>3. QED
  BY <1>1, <1>2

LEMMA FindPendingFinds ==
    ASSUME TableInv, NEW i \in Run, NEW r \in pendingByReqId, SessionOf[r] = SessionOf[i]
    PROVE  FindPending(i) # {}
<1> DEFINE mine == {q \in pendingByReqId : SessionOf[q] = SessionOf[i]}
<1> DEFINE less == StrictSubsetOrdering(pendingByReqId)
<1> DEFINE lines == {ahead[q] : q \in mine}
<1>1. IsWellFoundedOn(less, FiniteSubsetsOf(pendingByReqId))
  BY FS_StrictSubsetOrderingWellFounded
<1>2. mine \subseteq Req /\ IsFiniteSet(pendingByReqId)
  BY DEF TableInv, TableTypeOK, InsertionOrder
<1>3. \A q \in mine : ahead[q] \in SUBSET pendingByReqId
  BY <1>2 DEF TableInv, InsertionOrder
<1>4. lines \subseteq FiniteSubsetsOf(pendingByReqId)
  BY <1>2, <1>3, FS_Subset DEF FiniteSubsetsOf
<1>5. lines # {}
  OBVIOUS
<1>6. PICK line \in lines : \A m \in lines : ~ (<<m, line>> \in less)
  <2> HIDE DEF lines, less
  <2>1. QED
    BY <1>1, <1>4, <1>5, WFMin
<1>7. PICK first \in mine : ahead[first] = line
  BY <1>6
<1>8. ahead[first] \cap mine = {}
  <2>1. SUFFICES ASSUME NEW q \in ahead[first], q \in mine PROVE FALSE
    OBVIOUS
  <2>2. /\ first \in Req /\ q \in Req
        /\ ahead[q] \subseteq ahead[first] \ {q}
    BY <1>2, <2>1 DEF TableInv, InsertionOrder
  <2>3. <<ahead[q], line>> \in less
    BY <1>3, <1>7, <2>1, <2>2 DEF StrictSubsetOrdering
  <2>4. QED
    BY <1>6, <2>1, <2>3
<1>9. QED
  BY <1>7, <1>8 DEF FindPending

\* Whatever is pending and in whichever order it was sent and settled, a chat
\* event is handed to one request, and to none only if its session has none.
THEOREM EventsFindOneRequest == Spec => []EventFindsOneRequest
<1>1. ASSUME IInv PROVE EventFindsOneRequest
  <2>1. TableInv
    BY <1>1, IInvParts
  <2>2. ASSUME NEW i \in Run, NEW p \in FindPending(i), NEW q \in FindPending(i)
        PROVE  p = q
    BY <2>1, FindPendingUnique
  <2>3. ASSUME NEW i \in Run, FindPending(i) = {}, NEW r \in pendingByReqId
        PROVE  SessionOf[r] # SessionOf[i]
    BY <2>1, <2>3, FindPendingFinds
  <2>4. QED
    BY <2>2, <2>3 DEF EventFindsOneRequest
<1>2. QED
  BY <1>1, AlwaysIInv, PTL

\* A request is in the table, with its timer armed, exactly while its promise is open, the
\* two maps agree, and every event finds its request: none is forgotten, none is kept after
\* it settled.
THEOREM TableIsExact == Spec => []RequestTableIsExact
<1>1. IInv => PendingIsWaiting /\ RunIndexIsExact
  BY DEF IInv
<1>2. PendingIsWaiting /\ RunIndexIsExact /\ EventFindsOneRequest => RequestTableIsExact
  BY DEF RequestTableIsExact
<1>3. QED
  BY <1>1, <1>2, EventsFindOneRequest, AlwaysIInv, PTL

-----------------------------------------------------------------------------
\* No reply, error text or partial text ever reaches a request of another
\* session, for any number of sessions, requests and foreign runs (FR-011).
THEOREM SessionsAreSeparate == Spec => []NoCrossSessionReply
<1> DEFINE Heard == answeredBy' = answeredBy /\ chunkFrom' = chunkFrom
<1>1. Init => NoCrossSessionReply
  BY DEF Init, NoCrossSessionReply
<1>2. ASSUME IInv, NoCrossSessionReply, [Next]_vars
      PROVE  NoCrossSessionReply'
  <2>1. TypeOK /\ TableInv
    BY <1>2, IInvParts
  <2>2. ASSUME Heard PROVE NoCrossSessionReply'
    BY <1>2, <2>2 DEF NoCrossSessionReply
  <2>3. ASSUME NEW i \in Run, OnChatChunk(i)
        PROVE  NoCrossSessionReply'
    <3>1. \A r \in FindPending(i) : SessionOf[r] = SessionOf[i]
      BY <2>1, FindPendingSound
    <3>2. QED
      BY <1>2, <2>1, <2>3, <3>1 DEF OnChatChunk, NoCrossSessionReply, TypeOK, requestVars
  <2>4. ASSUME NEW i \in Run, NEW o \in {"reply", "gateway_error"}, OnChatEnd(i, o)
        PROVE  NoCrossSessionReply'
    <3>1. \A r \in FindPending(i) : SessionOf[r] = SessionOf[i]
      BY <2>1, FindPendingSound
    <3>2. QED
      BY <1>2, <2>1, <2>4, <3>1 DEF OnChatEnd, NoCrossSessionReply, TypeOK
  <2> USE DEF requestVars
  <2>5. CASE UNCHANGED vars
    BY <2>2, <2>5 DEF vars
  <2>6. CASE OnReconnectTimer \/ OnOpen \/ GatewayCloses \/ OnClose \/ Close
    BY <2>2, <2>6 DEF OnReconnectTimer, OnOpen, GatewayCloses, OnClose, Close, RejectAllPending
  <2>7. CASE OnChallenge \/ OnHelloOk \/ OnConnectError \/ ApproveDevice
    BY <2>2, <2>7 DEF OnChallenge, OnHelloOk, OnConnectError, ApproveDevice
  <2>8. ASSUME NEW r \in Req, SendChat(r) \/ GatewayAccepts(r) \/ OnAck(r)
                              \/ OnSendError(r) \/ OnReplyTimeout(r)
        PROVE  NoCrossSessionReply'
    BY <2>2, <2>8 DEF SendChat, GatewayAccepts, OnAck, OnSendError, OnReplyTimeout
  <2>9. ASSUME NEW i \in Run, EndUnheard(i) \/ StartOtherRun(i)
        PROVE  NoCrossSessionReply'
    BY <2>2, <2>9 DEF EndUnheard, StartOtherRun
  <2>10. OtherRun \subseteq Run
    BY DEF Run
  <2>11. QED
    BY <1>2, <2>3, <2>4, <2>5, <2>6, <2>7, <2>8, <2>9, <2>10 DEF Next
<1>3. QED
  BY <1>1, <1>2, AlwaysIInv, PTL DEF Spec

-----------------------------------------------------------------------------
\* Once a promise is settled nothing touches its request any more: neither
\* a chunk nor another outcome, whatever events are still on their way.
THEOREM SettledIsFinal == Spec => SilentOnceSettled
<1> DEFINE Silent(r) ==
        outcome'[r] = outcome[r] /\ answeredBy'[r] = answeredBy[r] /\ chunkFrom'[r] = chunkFrom[r]
<1>1. ASSUME IInv, [Next]_vars,
             NEW r \in Req, outcome[r] \notin {"unsent", "waiting"}
      PROVE  Silent(r)
  <2>1. TypeOK /\ TableInv
    BY <1>1, IInvParts
  <2>2. r \notin pendingByReqId
    BY <1>1, <2>1 DEF TableInv, PendingIsWaiting
  <2>3. \A i \in Run : r \notin FindPending(i)
    BY <2>1, <2>2, FindPendingSound
  <2> USE DEF requestVars, TypeOK, Settle
  <2>4. CASE UNCHANGED vars
    BY <2>4 DEF vars
  <2>5. CASE OnReconnectTimer \/ OnOpen \/ GatewayCloses
    BY <2>5 DEF OnReconnectTimer, OnOpen, GatewayCloses
  <2>6. CASE OnClose \/ Close
    BY <1>1, <2>6 DEF OnClose, Close, RejectAllPending
  <2>7. CASE OnChallenge \/ OnHelloOk \/ OnConnectError \/ ApproveDevice
    BY <2>7 DEF OnChallenge, OnHelloOk, OnConnectError, ApproveDevice
  <2>8. ASSUME NEW q \in Req, SendChat(q)
        PROVE  Silent(r)
    BY <1>1, <2>1, <2>8 DEF SendChat, RejectAtOnce, Register
  <2>9. ASSUME NEW q \in Req, GatewayAccepts(q) \/ OnAck(q)
        PROVE  Silent(r)
    BY <2>9 DEF GatewayAccepts, OnAck
  <2>10. ASSUME NEW q \in Req, OnSendError(q) \/ OnReplyTimeout(q)
         PROVE  Silent(r)
    BY <1>1, <2>10 DEF OnSendError, OnReplyTimeout, SettleReject
  <2>11. ASSUME NEW i \in Run, OnChatChunk(i)
         PROVE  Silent(r)
    BY <2>1, <2>3, <2>11 DEF OnChatChunk
  <2>12. ASSUME NEW i \in Run, NEW o \in {"reply", "gateway_error"}, OnChatEnd(i, o)
         PROVE  Silent(r)
    BY <1>1, <2>1, <2>3, <2>12 DEF OnChatEnd
  <2>13. ASSUME NEW i \in Run, EndUnheard(i) \/ StartOtherRun(i)
         PROVE  Silent(r)
    BY <2>13 DEF EndUnheard, StartOtherRun
  <2>14. OtherRun \subseteq Run
    BY DEF Run
  <2> HIDE DEF Silent
  <2>15. QED
    BY <1>1, <2>4, <2>5, <2>6, <2>7, <2>8, <2>9, <2>10, <2>11, <2>12, <2>13, <2>14 DEF Next
<1>2. IInv /\ [Next]_vars =>
        [\A r \in Req : outcome[r] \notin {"unsent", "waiting"} =>
            /\ outcome'[r] = outcome[r]
            /\ answeredBy'[r] = answeredBy[r]
            /\ chunkFrom'[r] = chunkFrom[r]]_vars
  BY <1>1
<1>3. QED
  BY <1>2, AlwaysIInv, PTL DEF Spec, SilentOnceSettled

\* A chat.send is put on the wire at most once: no reconnect replays it.
THEOREM NothingIsReplayed == Spec => NoReplay
<1>1. ASSUME [Next]_vars, NEW r \in Req, r \in toGateway', r \notin toGateway
      PROVE  outcome[r] = "unsent"
  <2> USE DEF gatewayVars
  <2>1. ASSUME NEW q \in Req, SendChat(q)
        PROVE  outcome[r] = "unsent"
    BY <1>1, <2>1 DEF SendChat, RejectAtOnce, Register
  <2>2. ASSUME NEW q \in Req, GatewayAccepts(q) \/ OnAck(q) \/ OnSendError(q) \/ OnReplyTimeout(q)
        PROVE  FALSE
    BY <1>1, <2>2 DEF GatewayAccepts, OnAck, OnSendError, OnReplyTimeout
  <2>3. ASSUME NEW i \in Run, NEW o \in {"reply", "gateway_error"},
               OnChatChunk(i) \/ OnChatEnd(i, o) \/ EndUnheard(i) \/ StartOtherRun(i)
        PROVE  FALSE
    BY <1>1, <2>3 DEF OnChatChunk, OnChatEnd, EndUnheard, StartOtherRun
  <2>4. CASE OnReconnectTimer \/ OnOpen \/ GatewayCloses \/ OnClose \/ Close
    BY <1>1, <2>4 DEF OnReconnectTimer, OnOpen, GatewayCloses, OnClose, Close
  <2>5. CASE OnChallenge \/ OnHelloOk \/ OnConnectError \/ ApproveDevice
    BY <1>1, <2>5 DEF OnChallenge, OnHelloOk, OnConnectError, ApproveDevice
  <2>6. CASE UNCHANGED vars
    BY <1>1, <2>6 DEF vars
  <2>7. OtherRun \subseteq Run
    BY DEF Run
  <2>8. QED
    BY <1>1, <2>1, <2>2, <2>3, <2>4, <2>5, <2>6, <2>7 DEF Next
<1>2. [Next]_vars =>
        [\A r \in Req : r \in toGateway' /\ r \notin toGateway => outcome[r] = "unsent"]_vars
  BY <1>1
<1>3. QED
  BY <1>2, PTL DEF Spec, NoReplay
=============================================================================

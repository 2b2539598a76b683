--------------------------- MODULE GatewayClient ---------------------------
(***************************************************************************)
(* The chat relay's WebSocket client (chat-backend/src/gateway-client.ts): *)
(* one socket to the OpenClaw gateway, the connect handshake, transport    *)
(* reconnect, and the table of chat.send requests waiting for a reply.     *)
(*                                                                         *)
(* The gateway is external.  A frame's emission and its delivery are one   *)
(* step: nothing observes it in between, and the gateway may take any time *)
(* before it emits, so late, crossed and never-sent frames are all there.  *)
(***************************************************************************)
EXTENDS Naturals, FiniteSets

CONSTANTS
    Session,    \* session keys (sessionKeyFor)
    Req,        \* chat.send request ids, each a fresh UUID used once
    OtherRun,   \* runs of those sessions that this client did not start
    SessionOf,  \* the session key of a request, or of another client's run
    NoReq       \* "no entry" in pendingByRunId

\* Each chat.send carries a fresh idempotencyKey, so the gateway starts at
\* most one run for it; that run is named after the request.
Run == Req \cup OtherRun

ASSUME SessionOfType == SessionOf \in [Run -> Session]
ASSUME RunsAreFresh  == Req \cap OtherRun = {}
ASSUME NoReqIsNoReq  == NoReq \notin Run

VARIABLES
    state,          \* _state
    socket,         \* socket # null
    connectReqId,   \* connectReqId # null
    closedByUser,
    reconnectTimer, \* reconnectTimer # null
    pendingByReqId, \* the keys of the map
    ahead,          \* ahead[r]: the entries of the map in front of r
    runId,          \* the runId field of a pending request; NoReq when unset
    pendingByRunId,
    timer,          \* the requests whose reply timer is armed
    outcome,        \* how each sendChat promise stands
    answeredBy,     \* the run whose event settled the request
    chunkFrom,      \* the run whose text was last handed to onChunk
    ws,             \* readyState of the underlying WebSocket
    link,           \* how far the gateway got with this connection
    admission,      \* what the gateway thinks of this device and token
    toGateway,      \* chat.send frames on their way
    ackDue,         \* accepted requests whose ack is not delivered
    run             \* the life of each run at the gateway

clientVars  == <<state, socket, connectReqId, closedByUser, reconnectTimer>>
tableVars   == <<pendingByReqId, ahead, runId, pendingByRunId, timer>>
requestVars == <<outcome, answeredBy, chunkFrom>>
gatewayVars == <<link, admission, toGateway, ackDue, run>>
vars == <<clientVars, tableVars, requestVars, ws, gatewayVars>>

GatewayState ==
    {"connecting", "authenticating", "ready", "pairing_required", "closed"}
ErrorCode == {"gateway_unavailable", "pairing_required", "gateway_error", "timeout"}
Outcome   == {"unsent", "waiting", "reply"} \cup ErrorCode

TypeOK ==
    /\ state \in GatewayState
    /\ socket \in BOOLEAN
    /\ connectReqId \in BOOLEAN
    /\ closedByUser \in BOOLEAN
    /\ reconnectTimer \in BOOLEAN
    /\ pendingByReqId \in SUBSET Req
    /\ ahead \in [Req -> SUBSET Req]
    /\ runId \in [Req -> Run \cup {NoReq}]
    /\ pendingByRunId \in [Run -> Req \cup {NoReq}]
    /\ timer \in SUBSET Req
    /\ outcome \in [Req -> Outcome]
    /\ answeredBy \in [Req -> Run \cup {NoReq}]
    /\ chunkFrom \in [Req -> Run \cup {NoReq}]
    /\ ws \in {"none", "CONNECTING", "OPEN", "CLOSING"}
    /\ link \in {"none", "open", "challenged", "connect_sent", "authenticated", "refused"}
    /\ admission \in {"approved", "unapproved", "bad_token"}
    /\ toGateway \in SUBSET Req
    /\ ackDue \in SUBSET Req
    /\ run \in [Run -> {"idle", "running", "ended"}]

\* main() has built the client and called connect().
Init ==
    /\ state = "connecting"
    /\ socket = TRUE
    /\ connectReqId = FALSE
    /\ closedByUser = FALSE
    /\ reconnectTimer = FALSE
    /\ pendingByReqId = {}
    /\ ahead = [r \in Req |-> {}]
    /\ runId = [r \in Req |-> NoReq]
    /\ pendingByRunId = [i \in Run |-> NoReq]
    /\ timer = {}
    /\ outcome = [r \in Req |-> "unsent"]
    /\ answeredBy = [r \in Req |-> NoReq]
    /\ chunkFrom = [r \in Req |-> NoReq]
    /\ ws = "CONNECTING"
    /\ link = "none"
    /\ admission \in {"approved", "unapproved", "bad_token"}
    /\ toGateway = {}
    /\ ackDue = {}
    /\ run = [i \in Run |-> "idle"]

-----------------------------------------------------------------------------
(* The request table.                                                      *)

\* A promise that is settled stays as it is.
Settle(S, o) ==
    outcome' = [r \in Req |-> IF r \in S /\ outcome[r] = "waiting" THEN o ELSE outcome[r]]

\* Mutants of Evict: the reply timer keeps running; the run index keeps the entry.
EvictKeepsTimer(S) ==
    /\ pendingByReqId' = pendingByReqId \ S
    /\ ahead' = [r \in Req |-> IF r \in S THEN {} ELSE ahead[r] \ S]
    /\ pendingByRunId' = [i \in Run |->
            IF \E r \in S : runId[r] = i THEN NoReq ELSE pendingByRunId[i]]
    /\ UNCHANGED <<runId, timer>>

EvictKeepsRun(S) ==
    /\ timer' = timer \ S
    /\ pendingByReqId' = pendingByReqId \ S
    /\ ahead' = [r \in Req |-> IF r \in S THEN {} ELSE ahead[r] \ S]
    /\ UNCHANGED <<runId, pendingByRunId>>

Evict(S) ==
    /\ timer' = timer \ S
    /\ pendingByReqId' = pendingByReqId \ S
    /\ ahead' = [r \in Req |-> IF r \in S THEN {} ELSE ahead[r] \ S]
    /\ pendingByRunId' = [i \in Run |->
            IF \E r \in S : runId[r] = i THEN NoReq ELSE pendingByRunId[i]]
    /\ UNCHANGED runId

SettleReject(r, o) ==
    /\ Evict({r})
    /\ Settle({r}, o)

\* Mutant: a dropped socket leaves its requests to their timers.
RejectNone == UNCHANGED <<tableVars, requestVars>>

\* Both maps are drained: a request may sit in either.
RejectAllPending ==
    LET all == pendingByReqId \cup {pendingByRunId[i] : i \in Run}
    IN  /\ timer' = timer \ all
        /\ Settle(all, "gateway_unavailable")
        /\ pendingByReqId' = {}
        /\ ahead' = [r \in Req |-> {}]
        /\ pendingByRunId' = [i \in Run |-> NoReq]
        /\ UNCHANGED <<runId, answeredBy, chunkFrom>>

\* Mutants: any entry of the session; the oldest entry of any session.
FindPendingAny(i) ==
    IF pendingByRunId[i] # NoReq
    THEN {pendingByRunId[i]}
    ELSE {r \in pendingByReqId : SessionOf[r] = SessionOf[i]}

FindPendingOldest(i) ==
    IF pendingByRunId[i] # NoReq
    THEN {pendingByRunId[i]}
    ELSE {r \in pendingByReqId : ahead[r] = {}}

\* The registered request, or else the first entry of the run's session.
FindPending(i) ==
    IF pendingByRunId[i] # NoReq
    THEN {pendingByRunId[i]}
    ELSE LET mine == {r \in pendingByReqId : SessionOf[r] = SessionOf[i]}
         IN  {r \in mine : ahead[r] \cap mine = {}}

-----------------------------------------------------------------------------
(* Opening, losing and closing the socket.                                 *)

\* Mutant: a state of its own for the second attempt.
OpenSocketReconnecting ==
    /\ state' = IF reconnectTimer THEN "reconnecting" ELSE "connecting"
    /\ socket' = TRUE
    /\ ws' = "CONNECTING"

OpenSocket ==
    /\ state' = "connecting"
    /\ socket' = TRUE
    /\ ws' = "CONNECTING"

\* Mutant: what the lost connection left unanswered is sent once more.
OnReconnectReplay ==
    /\ reconnectTimer
    /\ reconnectTimer' = FALSE
    /\ OpenSocket
    /\ toGateway' = {r \in Req : outcome[r] = "gateway_unavailable"}
    /\ UNCHANGED <<connectReqId, closedByUser, tableVars, requestVars, link, admission,
                   ackDue, run>>

OnReconnectTimer ==
    /\ reconnectTimer
    /\ reconnectTimer' = FALSE
    /\ OpenSocket
    /\ UNCHANGED <<connectReqId, closedByUser, tableVars, requestVars, gatewayVars>>

\* Mutant: an open socket is taken for a handshake.
OnOpenReady ==
    /\ ws = "CONNECTING"
    /\ ws' = "OPEN"
    /\ link' = "open"
    /\ state' = "ready"
    /\ UNCHANGED <<socket, connectReqId, closedByUser, reconnectTimer,
                   tableVars, requestVars, admission, toGateway, ackDue, run>>

OnOpen ==
    /\ ws = "CONNECTING"
    /\ ws' = "OPEN"
    /\ link' = "open"
    /\ state' = "authenticating"
    /\ UNCHANGED <<socket, connectReqId, closedByUser, reconnectTimer,
                   tableVars, requestVars, admission, toGateway, ackDue, run>>

\* The gateway starts to close: it says and hears nothing more, yet the
\* client learns of it only from the close event.
GatewayCloses ==
    /\ ws = "OPEN"
    /\ ws' = "CLOSING"
    /\ link' = "none"
    /\ toGateway' = {}
    /\ ackDue' = {}
    /\ UNCHANGED <<clientVars, tableVars, requestVars, admission, run>>

\* Mutant: only an established connection is worth another attempt.
ScheduleReconnectIfReady ==
    reconnectTimer' = IF closedByUser \/ state # "ready" THEN reconnectTimer ELSE TRUE

ScheduleReconnect == reconnectTimer' = IF closedByUser THEN reconnectTimer ELSE TRUE

OnClose ==
    /\ ws # "none"
    /\ ws' = "none"
    /\ link' = "none"
    /\ toGateway' = {}
    /\ ackDue' = {}
    /\ RejectAllPending
    /\ socket' = FALSE
    /\ connectReqId' = FALSE
    /\ state' = IF closedByUser THEN "closed" ELSE "connecting"
    /\ ScheduleReconnect
    /\ UNCHANGED <<closedByUser, admission, run>>

\* Mutant: the timer of a reconnect under way is not cleared.
CloseKeepsTimer ==
    /\ ~closedByUser
    /\ closedByUser' = TRUE
    /\ RejectAllPending
    /\ socket' = FALSE
    /\ ws' = IF socket THEN "CLOSING" ELSE ws
    /\ state' = "closed"
    /\ UNCHANGED <<connectReqId, reconnectTimer, gatewayVars>>

\* close(), called by the shutdown handler.  The handlers of the socket stay
\* attached, and connectReqId stays set, until its close event.
Close ==
    /\ ~closedByUser
    /\ closedByUser' = TRUE
    /\ reconnectTimer' = FALSE
    /\ RejectAllPending
    /\ socket' = FALSE
    /\ ws' = IF socket THEN "CLOSING" ELSE ws
    /\ state' = "closed"
    /\ UNCHANGED <<connectReqId, gatewayVars>>

-----------------------------------------------------------------------------
(* The handshake.                                                          *)

\* The connect request of sendConnect is lost on a socket that is closing.
OnChallenge ==
    /\ link = "open"
    /\ connectReqId' = TRUE
    /\ link' = IF socket /\ ws = "OPEN" THEN "connect_sent" ELSE "challenged"
    /\ UNCHANGED <<state, socket, closedByUser, reconnectTimer, tableVars,
                   requestVars, ws, admission, toGateway, ackDue, run>>

OnHelloOk ==
    /\ link = "connect_sent"
    /\ admission = "approved"
    /\ link' = "authenticated"
    /\ state' = IF connectReqId THEN "ready" ELSE state
    /\ UNCHANGED <<socket, connectReqId, closedByUser, reconnectTimer,
                   tableVars, requestVars, ws, admission, toGateway, ackDue, run>>

OnConnectError ==
    /\ link = "connect_sent"
    /\ admission # "approved"
    /\ link' = "refused"
    /\ state' = CASE ~connectReqId              -> state
                  [] admission = "unapproved"   -> "pairing_required"
                  [] OTHER                      -> "authenticating"
    /\ UNCHANGED <<socket, connectReqId, closedByUser, reconnectTimer,
                   tableVars, requestVars, ws, admission, toGateway, ackDue, run>>

\* The operator approves the device at the gateway.
ApproveDevice ==
    /\ admission = "unapproved"
    /\ admission' = "approved"
    /\ UNCHANGED <<clientVars, tableVars, requestVars, ws, link, toGateway, ackDue, run>>

-----------------------------------------------------------------------------
(* chat.send and its acknowledgement.                                      *)

RejectAtOnce(r, o) ==
    /\ outcome' = [outcome EXCEPT ![r] = o]
    /\ UNCHANGED <<tableVars, toGateway>>

\* Mutant: no reply timer.
RegisterUntimed(r) ==
    /\ outcome' = [outcome EXCEPT ![r] = "waiting"]
    /\ pendingByReqId' = pendingByReqId \cup {r}
    /\ ahead' = [ahead EXCEPT ![r] = pendingByReqId]
    /\ toGateway' = IF ws = "OPEN" THEN toGateway \cup {r} ELSE toGateway
    /\ UNCHANGED <<runId, pendingByRunId, timer>>

Register(r) ==
    /\ outcome' = [outcome EXCEPT ![r] = "waiting"]
    /\ timer' = timer \cup {r}
    /\ pendingByReqId' = pendingByReqId \cup {r}
    /\ ahead' = [ahead EXCEPT ![r] = pendingByReqId]
    /\ toGateway' = IF ws = "OPEN" THEN toGateway \cup {r} ELSE toGateway
    /\ UNCHANGED <<runId, pendingByRunId>>

SendChat(r) ==
    /\ outcome[r] = "unsent"
    /\ \/ /\ state = "pairing_required"
          /\ RejectAtOnce(r, "pairing_required")
       \/ /\ state # "pairing_required"
          /\ state # "ready" \/ ~socket
          /\ RejectAtOnce(r, "gateway_unavailable")
       \/ /\ state = "ready" /\ socket
          /\ Register(r)
    /\ UNCHANGED <<clientVars, answeredBy, chunkFrom, ws, link, admission, ackDue, run>>

\* The gateway takes a chat.send and starts its run.
GatewayAccepts(r) ==
    /\ r \in toGateway
    /\ toGateway' = toGateway \ {r}
    /\ ackDue' = ackDue \cup {r}
    /\ run' = [run EXCEPT ![r] = "running"]
    /\ UNCHANGED <<clientVars, tableVars, requestVars, ws, link, admission>>

\* onRes for an accepted chat.send; the ack may come without a runId.
OnAck(r) ==
    /\ r \in ackDue
    /\ ackDue' = ackDue \ {r}
    /\ \/ UNCHANGED <<runId, pendingByRunId>>
       \/ /\ r \in pendingByReqId
          /\ runId' = [runId EXCEPT ![r] = r]
          /\ pendingByRunId' = [pendingByRunId EXCEPT ![r] = r]
    /\ UNCHANGED <<clientVars, pendingByReqId, ahead, timer, requestVars, ws,
                   link, admission, toGateway, run>>

\* onRes for a chat.send the gateway turns down; mapResError gives the code.
OnSendError(r) ==
    /\ r \in toGateway
    /\ toGateway' = toGateway \ {r}
    /\ IF r \in pendingByReqId
       THEN \E o \in {"pairing_required", "gateway_error"} : SettleReject(r, o)
       ELSE UNCHANGED <<tableVars, outcome>>
    /\ UNCHANGED <<clientVars, answeredBy, chunkFrom, ws, link, admission, ackDue, run>>

-----------------------------------------------------------------------------
(* Chat events of a run, and the reply timer.                              *)

CanReceive(i) == link = "authenticated" /\ run[i] = "running"

OnChatChunk(i) ==
    /\ CanReceive(i)
    /\ chunkFrom' = [r \in Req |-> IF r \in FindPending(i) THEN i ELSE chunkFrom[r]]
    /\ UNCHANGED <<clientVars, tableVars, outcome, answeredBy, ws, gatewayVars>>

\* The final event (o = "reply") or the error event (o = "gateway_error").
OnChatEnd(i, o) ==
    /\ CanReceive(i)
    /\ run' = [run EXCEPT ![i] = "ended"]
    /\ Evict(FindPending(i))
    /\ Settle(FindPending(i), o)
    /\ answeredBy' = [r \in Req |-> IF r \in FindPending(i) THEN i ELSE answeredBy[r]]
    /\ UNCHANGED <<clientVars, chunkFrom, ws, link, admission, toGateway, ackDue>>

\* A run that ends while this client is not connected: its events are gone.
EndUnheard(i) ==
    /\ run[i] = "running"
    /\ link # "authenticated"
    /\ run' = [run EXCEPT ![i] = "ended"]
    /\ UNCHANGED <<clientVars, tableVars, requestVars, ws, link, admission, toGateway, ackDue>>

\* Another client of the gateway starts a run in one of the sessions.
StartOtherRun(i) ==
    /\ run[i] = "idle"
    /\ run' = [run EXCEPT ![i] = "running"]
    /\ UNCHANGED <<clientVars, tableVars, requestVars, ws, link, admission, toGateway, ackDue>>

OnReplyTimeout(r) ==
    /\ r \in timer
    /\ IF r \in pendingByReqId
       THEN SettleReject(r, "timeout")
       ELSE /\ timer' = timer \ {r}
            /\ UNCHANGED <<pendingByReqId, ahead, runId, pendingByRunId, outcome>>
    /\ UNCHANGED <<clientVars, answeredBy, chunkFrom, ws, gatewayVars>>

-----------------------------------------------------------------------------
Next ==
    \/ OnReconnectTimer \/ OnOpen \/ GatewayCloses \/ OnClose \/ Close
    \/ OnChallenge \/ OnHelloOk \/ OnConnectError \/ ApproveDevice
    \/ \E r \in Req : \/ SendChat(r) \/ GatewayAccepts(r) \/ OnAck(r)
                      \/ OnSendError(r) \/ OnReplyTimeout(r)
    \/ \E i \in Run : \/ OnChatChunk(i) \/ EndUnheard(i)
                      \/ \E o \in {"reply", "gateway_error"} : OnChatEnd(i, o)
    \/ \E i \in OtherRun : StartOtherRun(i)

Spec == Init /\ [][Next]_vars

\* Timers fire (setTimeout).
TimersFire ==
    /\ WF_vars(OnReconnectTimer)
    /\ \A r \in Req : WF_vars(OnReplyTimeout(r))

\* The gateway's side: connection attempts do not fail for ever (strong
\* fairness, a dropped connection disables the next step), and a closing
\* socket closes.
NetworkWorks ==
    /\ SF_vars(OnOpen)
    /\ SF_vars(OnChallenge)
    /\ SF_vars(OnHelloOk)
    /\ WF_vars(OnConnectError)
    /\ WF_vars(ws = "CLOSING" /\ OnClose)

LiveSpec == Spec /\ TimersFire /\ NetworkWorks

-----------------------------------------------------------------------------
(* Safety.                                                                 *)

\* The bookkeeping agrees with the promises: a request is in pendingByReqId
\* exactly while its promise is open, and exactly then its timer is armed.
\* A request in neither would hang its HTTP caller for ever.
PendingIsWaiting ==
    /\ pendingByReqId = {r \in Req : outcome[r] = "waiting"}
    /\ timer = pendingByReqId

\* The two maps agree: an entry of pendingByRunId belongs to a request that is
\* still pending and knows that run, and a pending request that learned its run
\* is reachable under it.  A stale entry would catch the next run's events and
\* is never removed again.
RunIndexIsExact ==
    \A i \in Run, r \in Req :
        pendingByRunId[i] = r <=> r \in pendingByReqId /\ runId[r] = i

\* findPending is a function: whatever is pending and in whichever order it was
\* sent, replied to and evicted, an event finds at most one request, and
\* none only if nothing of its run or session is pending.
EventFindsOneRequest ==
    \A i \in Run :
        /\ \A p, q \in FindPending(i) : p = q
        /\ FindPending(i) = {} => \A r \in pendingByReqId : SessionOf[r] # SessionOf[i]

\* The bookkeeping of requests as a whole: promises, timers, both maps and the event
\* lookup agree, whatever is sent, acknowledged, evicted, timed out or cut off.
RequestTableIsExact == PendingIsWaiting /\ RunIndexIsExact /\ EventFindsOneRequest

\* Replies, error texts and partial texts never cross sessions (FR-011),
\* whatever runs of this or other clients overlap, end late or outlive a
\* reconnect.
NoCrossSessionReply ==
    \A r \in Req : \A i \in {answeredBy[r], chunkFrom[r]} \ {NoReq} :
        SessionOf[i] = SessionOf[r]

\* Nothing waits on a connection that is gone: a request is pending only while
\* the client holds the socket it was sent on, past the handshake, so that the
\* close event of that very socket is still to come.
PendingOnlyOnLiveSocket ==
    pendingByReqId # {} => socket /\ ws \in {"OPEN", "CLOSING"} /\ state = "ready"

\* "ready" is earned on the present connection: every reconnect has to
\* repeat the handshake before chat.send is let through.  It may outlast
\* the gateway's hold on the connection only until the close event.
ReadyOnThisConnection ==
    state = "ready" => link = "authenticated" \/ (link = "none" /\ ws = "CLOSING")

\* After close() the client is on its way down for good: no socket to send on,
\* no reconnect scheduled, nothing pending; a late hello-ok or close event of the
\* old socket does not change that.
CloseIsFinal ==
    closedByUser =>
        /\ ~socket /\ ~reconnectTimer
        /\ ws \in {"none", "CLOSING"}
        /\ pendingByReqId = {}

\* At any time exactly one thing keeps the client going: a live or closing
\* socket, the reconnect timer, or the decision to stay closed.
AlwaysSomethingToWaitFor ==
    /\ ~closedByUser => (reconnectTimer <=> ws = "none")
    /\ socket <=> ws # "none" /\ ~closedByUser

\* The connection as a whole: it is never left with nothing to happen next, "ready" and
\* pending requests belong to the present socket, and close() is final.
ConnectionIsConsistent ==
    /\ PendingOnlyOnLiveSocket /\ ReadyOnThisConnection
    /\ CloseIsFinal /\ AlwaysSomethingToWaitFor

\* The inductive invariant behind the safety properties: they strengthen one
\* another, and need besides what the handlers rely on silently.
RunIdIsOwn ==
    \A r \in Req : /\ runId[r] \in {NoReq, r}
                   /\ outcome[r] = "unsent" => runId[r] = NoReq

\* The map lists its entries in one line, none twice.
InsertionOrder ==
    /\ IsFiniteSet(pendingByReqId)
    /\ \A r \in Req :
          /\ ahead[r] \subseteq pendingByReqId \ {r}
          /\ r \notin pendingByReqId => ahead[r] = {}
          /\ \A q \in ahead[r] : ahead[q] \subseteq ahead[r] \ {q}
    /\ \A p, q \in pendingByReqId : p # q => (p \in ahead[q] <=> q \notin ahead[p])

\* The gateway hears this client only over an established connection.
LinkNeedsSocket ==
    /\ link # "none" => ws \in {"OPEN", "CLOSING"}
    /\ ws = "CONNECTING" => state = "connecting"
    /\ toGateway \cup ackDue # {} => link = "authenticated"

IInv ==
    /\ TypeOK
    /\ PendingIsWaiting /\ RunIdIsOwn /\ RunIndexIsExact /\ InsertionOrder
    /\ AlwaysSomethingToWaitFor /\ LinkNeedsSocket /\ ReadyOnThisConnection
    /\ PendingOnlyOnLiveSocket /\ CloseIsFinal

\* A settled promise hears nothing more: no partial text after the reply,
\* and the first outcome stands.
SilentOnceSettled ==
    [][\A r \in Req : outcome[r] \notin {"unsent", "waiting"} =>
            /\ outcome'[r] = outcome[r]
            /\ answeredBy'[r] = answeredBy[r]
            /\ chunkFrom'[r] = chunkFrom[r]]_vars

\* Transport-only reconnect (FR-013): what was sent on one connection is never
\* sent again on another, so the gateway starts at most one run per request.
NoReplay ==
    [][\A r \in Req : r \in toGateway' /\ r \notin toGateway => outcome[r] = "unsent"]_vars

-----------------------------------------------------------------------------
(* Liveness.                                                               *)

\* Bounded wait (FR-010): every accepted request settles, even if the gateway
\* never says another word.  Only the client's own timers are fair.
EveryRequestSettles ==
    \A r \in Req : outcome[r] = "waiting" ~> outcome[r] # "waiting"

\* Reconnect (FR-013): with an approved device, a client that is connecting
\* gets to ready again unless it is closed.
ReconnectReachesReady ==
    state = "connecting" /\ admission = "approved" ~> state = "ready" \/ closedByUser

-----------------------------------------------------------------------------
(* What the documents say and the code does not do.                        *)

\* FR-011 within a session ("replies are not mixed up"): of two requests whose
\* acks have told the client their runs, neither is answered by the other's
\* run.  findPending falls back to the session for any run that is not
\* registered at the moment, the run of a timed-out request included.
RepliesNotMixedUp ==
    [][\A r, q \in Req :
            r # q /\ runId[r] = r /\ runId[q] = q /\ answeredBy[r] = NoReq
                => answeredBy'[r] # q]_vars
=============================================================================

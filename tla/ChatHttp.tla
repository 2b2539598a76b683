------------------------------ MODULE ChatHttp ------------------------------
(***************************************************************************)
(* POST /chat (chat-backend/src/http-server.ts) on top of GatewayClient:   *)
(* validation, the relay of partial texts as server-sent events, and the   *)
(* continuation that answers when the sendChat promise settles.  The       *)
(* promise settles in a socket or timer callback; its continuation is a    *)
(* microtask of its own, so other events may come in between.              *)
(***************************************************************************)
EXTENDS GatewayClient, Sequences

CONSTANT MaxChunks      \* bound on the partial texts written per response

ASSUME MaxChunksIsNat == MaxChunks \in Nat

VARIABLES
    sent,           \* what each response has written so far
    streamStarted,  \* the requests whose SSE head is written
    clientGone,     \* the responses that saw their "close" event
    responded       \* the requests whose then/catch has run

httpVars == <<sent, streamStarted, clientGone, responded>>
allVars  == <<vars, httpVars>>

\* "json" is a complete JSON error response; "head" the SSE status and headers.
Written == {"json", "head", "chunk", "done", "error"}

HttpTypeOK ==
    /\ TypeOK
    /\ sent \in [Req -> Seq(Written)]
    /\ streamStarted \in SUBSET Req
    /\ clientGone \in SUBSET Req
    /\ responded \in SUBSET Req

HttpInit ==
    /\ Init
    /\ sent = [r \in Req |-> <<>>]
    /\ streamStarted = {}
    /\ clientGone = {}
    /\ responded = {}

-----------------------------------------------------------------------------
\* Mutant: the head goes out with every chunk.
HeadAlways(r) == <<"head">>

\* ensureStreamStarted: the head goes out before the first event.
Head1(r) == IF r \in streamStarted THEN <<>> ELSE <<"head">>

\* A body that is too large, not JSON or not a ChatRequest never reaches the
\* gateway (FR-007).
RefuseBody(r) ==
    /\ outcome[r] = "unsent" /\ sent[r] = <<>>
    /\ sent' = [sent EXCEPT ![r] = <<"json">>]
    /\ UNCHANGED <<vars, streamStarted, clientGone, responded>>

PostChat(r) ==
    /\ sent[r] = <<>>
    /\ SendChat(r)
    /\ UNCHANGED httpVars

\* Mutant: partial texts are written whether the caller is there or not.
ForwardToAll(i) == FindPending(i)

ForwardTo(i) == FindPending(i) \ clientGone

\* The onChunk callback of the request the event was found to belong to.
ForwardChunk(i) ==
    /\ OnChatChunk(i)
    /\ \A r \in ForwardTo(i) : Len(sent[r]) <= MaxChunks
    /\ sent' = [r \in Req |->
            IF r \in ForwardTo(i) THEN sent[r] \o Head1(r) \o <<"chunk">> ELSE sent[r]]
    /\ streamStarted' = streamStarted \cup ForwardTo(i)
    /\ UNCHANGED <<clientGone, responded>>

\* What then() and catch() write.
Answer(r) ==
    IF outcome[r] = "reply" THEN Head1(r) \o <<"done">>
    ELSE IF r \in streamStarted THEN <<"error">> ELSE <<"json">>

\* Mutant: the continuation does not look whether the caller is still there.
RespondUnchecked(r) ==
    /\ outcome[r] \notin {"unsent", "waiting"}
    /\ r \notin responded
    /\ responded' = responded \cup {r}
    /\ sent' = [sent EXCEPT ![r] = @ \o Answer(r)]
    /\ UNCHANGED <<vars, streamStarted, clientGone>>

Respond(r) ==
    /\ outcome[r] \notin {"unsent", "waiting"}
    /\ r \notin responded
    /\ responded' = responded \cup {r}
    /\ IF r \in clientGone
       THEN UNCHANGED <<sent, streamStarted>>
       ELSE /\ sent' = [sent EXCEPT ![r] = @ \o Answer(r)]
            /\ streamStarted' = IF outcome[r] = "reply" THEN streamStarted \cup {r}
                                ELSE streamStarted
    /\ UNCHANGED <<vars, clientGone>>

\* The caller goes away while its response is open.
ClientLeaves(r) ==
    /\ outcome[r] # "unsent"
    /\ r \notin clientGone \cup responded
    /\ clientGone' = clientGone \cup {r}
    /\ UNCHANGED <<vars, sent, streamStarted, responded>>

-----------------------------------------------------------------------------
\* The steps of the client that no HTTP handler takes part in.
ClientStep ==
    \/ OnReconnectTimer \/ OnOpen \/ GatewayCloses \/ OnClose \/ Close
    \/ OnChallenge \/ OnHelloOk \/ OnConnectError \/ ApproveDevice
    \/ \E r \in Req : GatewayAccepts(r) \/ OnAck(r) \/ OnSendError(r) \/ OnReplyTimeout(r)
    \/ \E i \in Run : EndUnheard(i) \/ \E o \in {"reply", "gateway_error"} : OnChatEnd(i, o)
    \/ \E i \in OtherRun : StartOtherRun(i)

HttpNext ==
    \/ \E r \in Req : RefuseBody(r) \/ PostChat(r) \/ Respond(r) \/ ClientLeaves(r)
    \/ \E i \in Run : ForwardChunk(i)
    \/ ClientStep /\ UNCHANGED httpVars

HttpSpec == HttpInit /\ [][HttpNext]_allVars

\* Reply timers fire and microtasks run; the gateway need do nothing.
HttpFairSpec ==
    /\ HttpSpec
    /\ \A r \in Req : WF_allVars(OnReplyTimeout(r) /\ UNCHANGED httpVars)
    /\ \A r \in Req : WF_allVars(Respond(r))

-----------------------------------------------------------------------------
\* The responses in terms of the exchange the contract promises.
Ends(r, how) == \E n \in 1..Len(sent[r]) : sent[r][n] \in how

ExchangePhase ==
    [r \in Req |->
        IF Ends(r, {"done"}) THEN "answered"
        ELSE IF Ends(r, {"json", "error"}) THEN "failed"
        ELSE IF r \in clientGone THEN "abandoned"
        ELSE IF r \in streamStarted THEN "streaming"
        ELSE IF outcome[r] # "unsent" THEN "open"
        ELSE "idle"]

Exchange == INSTANCE ChatExchange WITH phase <- ExchangePhase

\* The relay keeps the promise of ChatExchange, whatever the gateway does and
\* whenever the caller leaves: no second answer, no way back to an open stream.
ExchangeKept == Exchange!Spec

\* A response is one JSON error, or one head, then chunks, then at most one
\* terminal event; nothing follows a terminal event. All else has its type.
ResponseWellFormed ==
    /\ HttpTypeOK
    /\ \A r \in Req :
        LET s == sent[r] IN
        \A n \in 1..Len(s) :
            /\ s[n] = "json"  => Len(s) = 1
            /\ s[n] = "head" <=> n = 1 /\ s[n] # "json"
            /\ s[n] \in {"done", "error"} => n = Len(s)

\* Once the caller has left nothing is written to its response any more.
SilentOnceGone ==
    [][\A r \in clientGone : sent'[r] = sent[r]]_allVars

\* Bounded wait, at the HTTP side (FR-010): every exchange that was opened is
\* finished or left, even if the gateway never answers.
EveryPostIsAnswered == Exchange!Answered
=============================================================================

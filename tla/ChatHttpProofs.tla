--------------------------- MODULE ChatHttpProofs ---------------------------
(* The safety of POST /chat, proved for any requests and any number of       *)
(* partial texts: HttpInv is inductive, and the shape of responses, their    *)
(* silence after the caller has left and the refinement of ChatExchange      *)
(* follow from it.                                                           *)
EXTENDS ChatHttp, GatewayClientProofs, SequenceTheorems

-----------------------------------------------------------------------------
(* What a response has written, at each stage of its life *)

Chunks(s, from, to) == \A n \in from .. to : s[n] = "chunk"

Streaming(s) ==
    s \in Seq(Written) /\ Len(s) >= 1 /\ s[1] = "head" /\ Chunks(s, 2, Len(s))

Finished(s) ==
    /\ s \in Seq(Written) /\ Len(s) >= 2 /\ s[1] = "head" /\ Chunks(s, 2, Len(s) - 1)
    /\ s[Len(s)] \in {"done", "error"}

\* While no answer is written: nothing, or the beginning of a stream.
Going(s, started) == IF started THEN Streaming(s) ELSE s = <<>>

\* After then() or catch() has found the caller there.
Over(s, started) == IF started THEN Finished(s) ELSE s = <<"json">>

\* A response is refused or not begun before the call; it has an answer if and only if the
\* continuation has run, unless the caller had left by then.
ResponseInv(r) ==
    IF outcome[r] = "unsent"
    THEN /\ r \notin streamStarted \cup clientGone \cup responded
         /\ sent[r] \in {<<>>, <<"json">>}
    ELSE /\ outcome[r] = "waiting" => r \notin responded
         /\ IF r \in responded /\ r \notin clientGone
            THEN Over(sent[r], r \in streamStarted)
            ELSE Going(sent[r], r \in streamStarted)

HttpTypes ==
    /\ sent = [r \in Req |-> sent[r]]
    /\ streamStarted \subseteq Req /\ clientGone \subseteq Req /\ responded \subseteq Req

HttpInv == IInv /\ HttpTypes /\ \A r \in Req : ResponseInv(r)

-----------------------------------------------------------------------------
LEMMA OneMore ==
    ASSUME NEW s \in Seq(Written), NEW x \in Written
    PROVE  LET t == s \o <<x>> IN
           /\ t \in Seq(Written) /\ Len(t) = Len(s) + 1 /\ t[Len(t)] = x
           /\ \A n \in 1 .. Len(s) : t[n] = s[n]
<1>1. <<x>> \in Seq(Written) /\ Len(<<x>>) = 1 /\ <<x>>[1] = x
    OBVIOUS
<1>2. /\ s \o <<x>> \in Seq(Written) /\ Len(s \o <<x>>) = Len(s) + 1
      /\ \A n \in 1 .. Len(s) + 1 : (s \o <<x>>)[n] = IF n <= Len(s) THEN s[n] ELSE <<x>>[n - Len(s)]
    BY <1>1, ConcatProperties
<1>3. Len(s) \in Nat
    OBVIOUS
<1> QED BY <1>1, <1>2, <1>3

\* The head where it is missing, and then one of these, whichever way they are put together.
LEMMA HeadAndOne ==
    ASSUME NEW r, NEW s, Going(s, r \in streamStarted), NEW x \in {"chunk", "done"}
    PROVE  LET t == (s \o Head1(r)) \o <<x>> IN
           /\ x = "chunk" => Streaming(t)
           /\ x = "done" => Finished(t) /\ t[Len(t)] = "done"
           /\ t = s \o (Head1(r) \o <<x>>)
<1> DEFINE u == s \o Head1(r)
<1>1. Streaming(u)
    <2>1. CASE r \in streamStarted
        BY <2>1, ConcatEmptySeq DEF Going, Streaming, Head1
    <2>2. CASE r \notin streamStarted
        <3>1. s = <<>> /\ Head1(r) = <<"head">>
            BY <2>2 DEF Going, Head1
        <3>2. <<"head">> \in Seq(Written)
            BY DEF Written
        <3>3. u = <<"head">>
            BY <3>1, <3>2, ConcatEmptySeq
        <3> QED BY <3>2, <3>3 DEF Streaming, Chunks
    <2> QED BY <2>1, <2>2
<1>2. u \in Seq(Written) /\ x \in Written
    BY <1>1 DEF Streaming, Written
<1>3. LET t == u \o <<x>> IN
      /\ t \in Seq(Written) /\ Len(t) = Len(u) + 1 /\ t[Len(t)] = x
      /\ \A n \in 1 .. Len(u) : t[n] = u[n]
    <2> HIDE DEF u
    <2> QED BY <1>2, OneMore
<1>4. (s \o Head1(r)) \o <<x>> = s \o (Head1(r) \o <<x>>)
    <2>1. s \in Seq(Written) /\ Head1(r) \in Seq(Written) /\ <<x>> \in Seq(Written)
        BY <1>2 DEF Going, Streaming, Head1, Written
    <2> QED BY <2>1, ConcatAssociative
<1> HIDE DEF u
<1>5. x = "chunk" => Streaming(u \o <<x>>)
    BY <1>1, <1>3 DEF Streaming, Chunks
<1>6. x = "done" => Finished(u \o <<x>>) /\ (u \o <<x>>)[Len(u \o <<x>>)] = "done"
    BY <1>1, <1>3 DEF Streaming, Finished, Chunks
<1> QED BY <1>4, <1>5, <1>6 DEF u

\* The continuation ends whatever was going on.
LEMMA AnswerEnds ==
    ASSUME NEW r, NEW s, Going(s, r \in streamStarted)
    PROVE  LET t == s \o Answer(r) IN
           /\ outcome[r] = "reply" => Finished(t) /\ t[Len(t)] = "done"
           /\ outcome[r] # "reply" => /\ Over(t, r \in streamStarted)
                                      /\ t[Len(t)] \in {"json", "error"}
<1>1. CASE outcome[r] = "reply"
    BY <1>1, HeadAndOne DEF Answer
<1>2. CASE outcome[r] # "reply" /\ r \in streamStarted
    <2>1. Streaming(s) /\ Answer(r) = <<"error">>
        BY <1>2 DEF Going, Answer
    <2>2. LET t == s \o <<"error">> IN
          /\ t \in Seq(Written) /\ Len(t) = Len(s) + 1 /\ t[Len(t)] = "error"
          /\ \A n \in 1 .. Len(s) : t[n] = s[n]
        BY <2>1, OneMore DEF Streaming, Written
    <2>3. Finished(s \o <<"error">>)
        BY <2>1, <2>2 DEF Streaming, Finished, Chunks
    <2> QED BY <1>2, <2>1, <2>2, <2>3 DEF Over
<1>3. CASE outcome[r] # "reply" /\ r \notin streamStarted
    <2>1. s = <<>> /\ Answer(r) = <<"json">>
        BY <1>3 DEF Going, Answer
    <2>2. <<"json">> \in Seq(Written)
        BY DEF Written
    <2>3. s \o Answer(r) = <<"json">>
        BY <2>1, <2>2, ConcatEmptySeq
    <2> QED BY <1>3, <2>3 DEF Over
<1> QED BY <1>1, <1>2, <1>3

-----------------------------------------------------------------------------
(* What the client does to promises outside of sendChat *)

\* Promises are settled, and not unsettled; none is opened.
LEMMA ClientOnlySettles ==
    ASSUME IInv, ClientStep, NEW r \in Req
    PROVE  \/ outcome'[r] = outcome[r]
           \/ outcome[r] = "waiting" /\ outcome'[r] \notin {"unsent", "waiting"}
<1> DEFINE Settling == \/ outcome'[r] = outcome[r]
                       \/ outcome[r] = "waiting" /\ outcome'[r] \notin {"unsent", "waiting"}
<1>0. ASSUME NEW S, NEW o \in {"reply", "gateway_unavailable", "pairing_required", "gateway_error", "timeout"},
             Settle(S, o)
      PROVE  Settling
    BY <1>0 DEF Settle
<1>1. CASE OnReconnectTimer \/ OnOpen \/ GatewayCloses
    BY <1>1 DEF OnReconnectTimer, OnOpen, GatewayCloses, requestVars
<1>2. CASE OnClose \/ Close
    BY <1>0, <1>2 DEF OnClose, Close, RejectAllPending
<1>3. CASE OnChallenge \/ OnHelloOk \/ OnConnectError \/ ApproveDevice
    BY <1>3 DEF OnChallenge, OnHelloOk, OnConnectError, ApproveDevice, requestVars
<1>4. ASSUME NEW q \in Req, GatewayAccepts(q) \/ OnAck(q)
      PROVE  Settling
    BY <1>4 DEF GatewayAccepts, OnAck, requestVars
<1>5. ASSUME NEW q \in Req, OnSendError(q) \/ OnReplyTimeout(q)
      PROVE  Settling
    <2> HIDE DEF Settling
    <2>1. ASSUME NEW o \in {"pairing_required", "gateway_error", "timeout"}, SettleReject(q, o)
          PROVE  Settling
        BY <1>0, <2>1 DEF SettleReject
    <2>2. CASE outcome' = outcome
        BY <2>2 DEF Settling
    <2> QED BY <1>5, <2>1, <2>2 DEF OnSendError, OnReplyTimeout
<1>6. ASSUME NEW i \in Run, NEW o \in {"reply", "gateway_error"}, OnChatEnd(i, o)
      PROVE  Settling
    BY <1>0, <1>6 DEF OnChatEnd
<1>7. ASSUME NEW i, EndUnheard(i) \/ StartOtherRun(i)
      PROVE  Settling
    BY <1>7 DEF EndUnheard, StartOtherRun, requestVars
<1> HIDE DEF Settling
<1>8. ASSUME NEW q \in Req, GatewayAccepts(q) \/ OnAck(q) \/ OnSendError(q) \/ OnReplyTimeout(q)
      PROVE  Settling
    BY <1>4, <1>5, <1>8
<1>9. ASSUME NEW i \in Run, EndUnheard(i) \/ \E o \in {"reply", "gateway_error"} : OnChatEnd(i, o)
      PROVE  Settling
    BY <1>6, <1>7, <1>9
<1>10. Settling
    <2>1. CASE OnReconnectTimer \/ OnOpen \/ GatewayCloses \/ OnClose \/ Close
        BY <1>1, <1>2, <2>1 DEF Settling
    <2>2. CASE OnChallenge \/ OnHelloOk \/ OnConnectError \/ ApproveDevice
        BY <1>3, <2>2 DEF Settling
    <2> QED BY <2>1, <2>2, <1>7, <1>8, <1>9 DEF ClientStep
<1> QED BY <1>10 DEF Settling

LEMMA HttpIsClient == [HttpNext]_allVars => [Next]_vars
<1> SUFFICES ASSUME HttpNext PROVE [Next]_vars
    BY DEF allVars
<1>1. ASSUME NEW r \in Req, RefuseBody(r) \/ PostChat(r) \/ Respond(r) \/ ClientLeaves(r)
      PROVE  [Next]_vars
    BY <1>1 DEF RefuseBody, PostChat, Respond, ClientLeaves, Next
<1>2. ASSUME NEW i \in Run, ForwardChunk(i)
      PROVE  [Next]_vars
    BY <1>2 DEF ForwardChunk, Next
<1>3. CASE ClientStep
    BY <1>3 DEF ClientStep, Next
<1> QED BY <1>1, <1>2, <1>3 DEF HttpNext

\* The request a partial text is forwarded to: one, whose call is open.
LEMMA ForwardIsOpen ==
    ASSUME HttpInv, NEW i \in Run, NEW r \in ForwardTo(i)
    PROVE  /\ r \in Req /\ ForwardTo(i) = {r} /\ outcome[r] = "waiting"
           /\ r \notin clientGone \cup responded /\ Going(sent[r], r \in streamStarted)
<1>1. TableInv
    BY IInvParts DEF HttpInv
<1>2. r \in FindPending(i) /\ r \notin clientGone
    BY DEF ForwardTo
<1>3. r \in pendingByReqId
    BY <1>1, <1>2, FindPendingSound
<1>4. r \in Req /\ outcome[r] = "waiting"
    BY <1>1, <1>3 DEF TableInv, TableTypeOK, PendingIsWaiting
<1>5. \A q \in FindPending(i) : q = r
    BY <1>1, <1>2, FindPendingUnique
<1>6. ForwardTo(i) = {r}
    BY <1>5 DEF ForwardTo
<1>7. ResponseInv(r)
    BY <1>4 DEF HttpInv
<1> QED BY <1>2, <1>4, <1>6, <1>7 DEF ResponseInv

-----------------------------------------------------------------------------
(* Every step keeps HttpInv, and is a step of ChatExchange or none *)

\* Nothing happens to the response of r, whatever may happen to its promise.
Calm(r) ==
    /\ sent'[r] = sent[r]
    /\ r \in streamStarted' <=> r \in streamStarted
    /\ r \in clientGone' <=> r \in clientGone
    /\ r \in responded' <=> r \in responded
    /\ \/ outcome'[r] = outcome[r]
       \/ outcome[r] = "waiting" /\ outcome'[r] \notin {"unsent", "waiting"}

LEMMA CalmKeeps ==
    ASSUME NEW r \in Req, ResponseInv(r), Calm(r)
    PROVE  ResponseInv(r)' /\ ExchangePhase'[r] = ExchangePhase[r]
<1>1. ResponseInv(r)'
    BY DEF ResponseInv, Calm, Going, Over
<1>2. ExchangePhase'[r] = ExchangePhase[r]
    <2>1. /\ Ends(r, {"done"})' <=> Ends(r, {"done"})
          /\ Ends(r, {"json", "error"})' <=> Ends(r, {"json", "error"})
        BY DEF Calm, Ends
    <2> QED BY <2>1 DEF ExchangePhase, Calm
<1> QED BY <1>1, <1>2

\* The phase of a response, read off its text.
LEMMA PhaseRead ==
    ASSUME NEW r \in Req
    PROVE  /\ sent[r] = <<>> /\ outcome[r] = "unsent" /\ r \notin clientGone \cup streamStarted
                  => ExchangePhase[r] = "idle"
           /\ Going(sent[r], r \in streamStarted) /\ outcome[r] # "unsent" =>
                  ExchangePhase[r] = IF r \in clientGone THEN "abandoned"
                                     ELSE IF r \in streamStarted THEN "streaming" ELSE "open"
           /\ sent[r] = <<"json">> => ExchangePhase[r] = "failed"
           /\ Finished(sent[r]) /\ sent[r][Len(sent[r])] = "error" => ExchangePhase[r] = "failed"
           /\ Finished(sent[r]) /\ sent[r][Len(sent[r])] = "done" => ExchangePhase[r] = "answered"
<1>1. sent[r] = <<>> \/ Going(sent[r], r \in streamStarted)
          => ~Ends(r, {"done"}) /\ ~Ends(r, {"json", "error"})
    BY DEF Ends, Going, Streaming, Chunks
<1>2. sent[r] = <<"json">> => ~Ends(r, {"done"}) /\ Ends(r, {"json", "error"})
    BY DEF Ends
<1>3. Finished(sent[r]) => \A n \in 1 .. Len(sent[r]) - 1 : sent[r][n] \in {"head", "chunk"}
    BY DEF Finished, Chunks
<1>4. Finished(sent[r]) /\ sent[r][Len(sent[r])] = "error" => ~Ends(r, {"done"}) /\ Ends(r, {"json", "error"})
    BY <1>3 DEF Ends, Finished
<1>5. Finished(sent[r]) /\ sent[r][Len(sent[r])] = "done" => Ends(r, {"done"})
    BY DEF Ends, Finished
<1> QED BY <1>1, <1>2, <1>4, <1>5 DEF ExchangePhase

\* All responses but that of r are left alone.
Alone(r) == \A q \in Req \ {r} : Calm(q)

LEMMA OneMoves ==
    ASSUME HttpInv, NEW r \in Req, Alone(r), HttpTypes', IInv', ResponseInv(r)'
    PROVE  /\ HttpInv'
           /\ ExchangePhase' = [ExchangePhase EXCEPT ![r] = ExchangePhase'[r]]
<1>1. \A q \in Req \ {r} : ResponseInv(q)' /\ ExchangePhase'[q] = ExchangePhase[q]
    BY CalmKeeps DEF HttpInv, Alone
<1>2. /\ ExchangePhase = [q \in Req |-> ExchangePhase[q]]
      /\ ExchangePhase' = [q \in Req |-> ExchangePhase'[q]]
    BY DEF ExchangePhase
<1>3. ExchangePhase' = [ExchangePhase EXCEPT ![r] = ExchangePhase'[r]]
    BY <1>1, <1>2
<1> QED BY <1>1, <1>3 DEF HttpInv

LEMMA RefuseStep ==
    ASSUME HttpInv, NEW r \in Req, RefuseBody(r), IInv'
    PROVE  HttpInv' /\ Exchange!Refuse(r)
<1>1. /\ outcome[r] = "unsent" /\ sent[r] = <<>> /\ sent' = [sent EXCEPT ![r] = <<"json">>]
      /\ outcome' = outcome /\ UNCHANGED <<streamStarted, clientGone, responded>>
    BY DEF RefuseBody, vars, requestVars
<1>2. ResponseInv(r) /\ HttpTypes
    BY DEF HttpInv
<1>3. sent'[r] = <<"json">> /\ HttpTypes' /\ Alone(r)
    BY <1>1, <1>2 DEF HttpTypes, Alone, Calm
<1>4. ResponseInv(r)'
    BY <1>1, <1>2, <1>3 DEF ResponseInv
<1>5. ExchangePhase[r] = "idle"
    BY <1>1, <1>2, PhaseRead DEF ResponseInv
<1>6. ExchangePhase'[r] = "failed"
    BY <1>3 DEF ExchangePhase, Ends
<1> QED BY <1>3, <1>4, <1>5, <1>6, OneMoves DEF Exchange!Refuse, Exchange!Move

LEMMA PostStep ==
    ASSUME HttpInv, NEW r \in Req, PostChat(r), IInv'
    PROVE  HttpInv' /\ Exchange!Post(r)
<1>1. outcome[r] = "unsent" /\ sent[r] = <<>> /\ UNCHANGED httpVars
    BY DEF PostChat, SendChat
<1>2. ResponseInv(r) /\ HttpTypes /\ outcome \in [Req -> Outcome]
    BY DEF HttpInv, IInv, TypeOK
<1>3. outcome'[r] # "unsent" /\ \A q \in Req \ {r} : outcome'[q] = outcome[q]
    BY <1>2 DEF PostChat, SendChat, RejectAtOnce, Register
<1>4. HttpTypes' /\ Alone(r)
    BY <1>1, <1>2, <1>3 DEF httpVars, HttpTypes, Alone, Calm
<1>5. ResponseInv(r)'
    BY <1>1, <1>2, <1>3 DEF httpVars, ResponseInv, Going
<1>6. ExchangePhase[r] = "idle"
    BY <1>1, <1>2, PhaseRead DEF ResponseInv
<1>7. ExchangePhase'[r] = "open"
    BY <1>1, <1>2, <1>3 DEF ResponseInv, httpVars, ExchangePhase, Ends
<1> QED BY <1>4, <1>5, <1>6, <1>7, OneMoves DEF Exchange!Post, Exchange!Move

LEMMA LeaveStep ==
    ASSUME HttpInv, NEW r \in Req, ClientLeaves(r), IInv'
    PROVE  HttpInv' /\ Exchange!Abandon(r)
<1>1. /\ outcome[r] # "unsent" /\ r \notin clientGone \cup responded
      /\ clientGone' = clientGone \cup {r}
      /\ outcome' = outcome /\ UNCHANGED <<sent, streamStarted, responded>>
    BY DEF ClientLeaves, vars, requestVars
<1>2. ResponseInv(r) /\ HttpTypes
    BY DEF HttpInv
<1>3. HttpTypes' /\ Alone(r)
    BY <1>1, <1>2 DEF HttpTypes, Alone, Calm
<1>4. Going(sent[r], r \in streamStarted) /\ ResponseInv(r)'
    BY <1>1, <1>2 DEF ResponseInv
<1>5. ExchangePhase[r] \in {"streaming", "open"}
    BY <1>1, <1>4, PhaseRead
<1>6. ~Ends(r, {"done"}) /\ ~Ends(r, {"json", "error"})
    BY <1>4 DEF Ends, Going, Streaming, Chunks
<1>7. ExchangePhase'[r] = "abandoned"
    BY <1>1, <1>6 DEF ExchangePhase, Ends
<1> QED BY <1>3, <1>4, <1>5, <1>7, OneMoves DEF Exchange!Abandon, Exchange!Unfinished, Exchange!Move

LEMMA RespondStep ==
    ASSUME HttpInv, NEW r \in Req, Respond(r), IInv'
    PROVE  HttpInv' /\ (Exchange!Finish(r) \/ UNCHANGED ExchangePhase)
<1>1. /\ outcome[r] \notin {"unsent", "waiting"} /\ r \notin responded
      /\ responded' = responded \cup {r}
      /\ outcome' = outcome /\ UNCHANGED clientGone
    BY DEF Respond, vars, requestVars
<1>2. ResponseInv(r) /\ HttpTypes
    BY DEF HttpInv
<1>3. Going(sent[r], r \in streamStarted)
    BY <1>1, <1>2 DEF ResponseInv
<1>4. CASE r \in clientGone
    <2>1. UNCHANGED <<sent, streamStarted>>
        BY <1>4 DEF Respond
    <2>2. HttpTypes' /\ Alone(r) /\ ResponseInv(r)'
        BY <1>1, <1>2, <1>3, <1>4, <2>1 DEF HttpTypes, Alone, Calm, ResponseInv
    <2>3. UNCHANGED ExchangePhase
        BY <1>1, <2>1 DEF ExchangePhase, Ends
    <2> QED BY <2>2, <2>3, OneMoves
<1>5. CASE r \notin clientGone
    <2>1. /\ sent' = [sent EXCEPT ![r] = @ \o Answer(r)]
          /\ streamStarted' = IF outcome[r] = "reply" THEN streamStarted \cup {r} ELSE streamStarted
        BY <1>5 DEF Respond
    <2>2. sent'[r] = sent[r] \o Answer(r)
        BY <1>2, <2>1 DEF HttpTypes
    <2>3. HttpTypes' /\ Alone(r)
        BY <1>1, <1>2, <2>1 DEF HttpTypes, Alone, Calm
    <2>4. /\ outcome[r] = "reply" => Finished(sent'[r]) /\ sent'[r][Len(sent'[r])] = "done"
          /\ outcome[r] # "reply" => /\ Over(sent'[r], r \in streamStarted)
                                     /\ sent'[r][Len(sent'[r])] \in {"json", "error"}
        <3>1. LET t == sent[r] \o Answer(r) IN
              /\ outcome[r] = "reply" => Finished(t) /\ t[Len(t)] = "done"
              /\ outcome[r] # "reply" => /\ Over(t, r \in streamStarted)
                                         /\ t[Len(t)] \in {"json", "error"}
            BY <1>3, AnswerEnds, Zenon
        <3> QED BY <2>2, <3>1
    <2>5. Over(sent'[r], r \in streamStarted')
        BY <2>1, <2>4 DEF Over
    <2>6. ResponseInv(r)'
        BY <1>1, <1>5, <2>5 DEF ResponseInv
    <2>7. ExchangePhase[r] \in {"streaming", "open"}
        BY <1>1, <1>3, <1>5, PhaseRead
    <2>8. ExchangePhase'[r] \in {"answered", "failed"}
        <3>1. sent'[r] = <<"json">> \/ Finished(sent'[r])
            BY <2>5 DEF Over
        <3>2. Len(sent'[r]) \in 1 .. Len(sent'[r]) /\ sent'[r][Len(sent'[r])] \in {"json", "done", "error"}
            BY <3>1 DEF Finished
        <3>3. Ends(r, {"done"})' \/ Ends(r, {"json", "error"})'
            BY <3>2 DEF Ends
        <3> QED BY <3>3 DEF ExchangePhase
    <2> QED BY <2>3, <2>6, <2>7, <2>8, OneMoves DEF Exchange!Finish, Exchange!Unfinished, Exchange!Move
<1> QED BY <1>4, <1>5

LEMMA ForwardStep ==
    ASSUME HttpInv, NEW i \in Run, ForwardChunk(i), IInv'
    PROVE  /\ HttpInv'
           /\ (\E r \in Req : Exchange!Stream(r)) \/ UNCHANGED ExchangePhase
<1>1. /\ sent' = [r \in Req |->
              IF r \in ForwardTo(i) THEN sent[r] \o Head1(r) \o <<"chunk">> ELSE sent[r]]
      /\ streamStarted' = streamStarted \cup ForwardTo(i)
      /\ UNCHANGED <<clientGone, responded>> /\ outcome' = outcome
    BY DEF ForwardChunk, OnChatChunk
<1>2. HttpTypes /\ \A r \in Req : ResponseInv(r)
    BY DEF HttpInv
<1>3. CASE ForwardTo(i) = {}
    <2>1. UNCHANGED <<sent, streamStarted>>
        BY <1>1, <1>2, <1>3 DEF HttpTypes
    <2>2. HttpTypes'
        BY <1>1, <1>2, <2>1 DEF HttpTypes
    <2>3. \A r \in Req : ResponseInv(r)'
        BY <1>1, <1>2, <2>1 DEF ResponseInv
    <2>4. UNCHANGED ExchangePhase
        BY <1>1, <2>1 DEF ExchangePhase, Ends
    <2> QED BY <2>2, <2>3, <2>4 DEF HttpInv
<1>4. ASSUME NEW r \in ForwardTo(i)
      PROVE  HttpInv' /\ (Exchange!Stream(r) \/ UNCHANGED ExchangePhase) /\ r \in Req
    <2>1. /\ r \in Req /\ ForwardTo(i) = {r} /\ outcome[r] = "waiting"
          /\ r \notin clientGone \cup responded /\ Going(sent[r], r \in streamStarted)
        BY <1>4, ForwardIsOpen
    <2>2. sent'[r] = sent[r] \o Head1(r) \o <<"chunk">> /\ streamStarted' = streamStarted \cup {r}
        BY <1>1, <2>1
    <2>3. Streaming(sent'[r])
        BY <2>1, <2>2, HeadAndOne
    <2>4. HttpTypes' /\ Alone(r)
        BY <1>1, <1>2, <2>1 DEF HttpTypes, Alone, Calm
    <2>5. ResponseInv(r)'
        BY <1>1, <2>1, <2>2, <2>3 DEF ResponseInv, Going
    <2>6. ExchangePhase[r] = IF r \in streamStarted THEN "streaming" ELSE "open"
        BY <2>1, PhaseRead
    <2>7. ExchangePhase'[r] = "streaming"
        <3>1. ~Ends(r, {"done"})' /\ ~Ends(r, {"json", "error"})'
            BY <2>3 DEF Ends, Streaming, Chunks
        <3> QED BY <1>1, <2>1, <2>2, <3>1 DEF ExchangePhase
    <2>8. HttpInv' /\ ExchangePhase' = [ExchangePhase EXCEPT ![r] = "streaming"]
        BY <2>1, <2>4, <2>5, <2>7, OneMoves
    <2>9. CASE r \in streamStarted
        <3>1. ExchangePhase = [q \in Req |-> ExchangePhase[q]]
            BY DEF ExchangePhase
        <3>2. UNCHANGED ExchangePhase
            BY <2>6, <2>8, <2>9, <3>1
        <3> QED BY <2>1, <2>8, <3>2
    <2>10. CASE r \notin streamStarted
        BY <2>1, <2>6, <2>8, <2>10 DEF Exchange!Stream, Exchange!Move
    <2> QED BY <2>9, <2>10
<1> QED BY <1>3, <1>4

LEMMA ClientStepIsCalm ==
    ASSUME HttpInv, ClientStep, UNCHANGED httpVars, IInv'
    PROVE  HttpInv' /\ UNCHANGED ExchangePhase
<1>1. \A r \in Req : Calm(r)
    BY ClientOnlySettles DEF HttpInv, Calm, httpVars
<1>2. \A r \in Req : ResponseInv(r)' /\ ExchangePhase'[r] = ExchangePhase[r]
    BY <1>1, CalmKeeps DEF HttpInv
<1>3. HttpTypes'
    BY DEF HttpInv, HttpTypes, httpVars
<1>4. /\ ExchangePhase = [q \in Req |-> ExchangePhase[q]]
      /\ ExchangePhase' = [q \in Req |-> ExchangePhase'[q]]
    BY DEF ExchangePhase
<1> QED BY <1>2, <1>3, <1>4 DEF HttpInv

LEMMA HttpStep == HttpInv /\ [HttpNext]_allVars => HttpInv' /\ [Exchange!Next]_ExchangePhase
<1> SUFFICES ASSUME HttpInv, [HttpNext]_allVars
             PROVE  HttpInv' /\ [Exchange!Next]_ExchangePhase
    OBVIOUS
<1>1. IInv'
    BY HttpIsClient, NextIInv DEF HttpInv
<1>2. ASSUME NEW r \in Req, RefuseBody(r)
      PROVE  HttpInv' /\ [Exchange!Next]_ExchangePhase
    BY <1>1, <1>2, RefuseStep DEF Exchange!Next
<1>3. ASSUME NEW r \in Req, PostChat(r)
      PROVE  HttpInv' /\ [Exchange!Next]_ExchangePhase
    BY <1>1, <1>3, PostStep DEF Exchange!Next
<1>4. ASSUME NEW r \in Req, Respond(r)
      PROVE  HttpInv' /\ [Exchange!Next]_ExchangePhase
    BY <1>1, <1>4, RespondStep DEF Exchange!Next
<1>5. ASSUME NEW r \in Req, ClientLeaves(r)
      PROVE  HttpInv' /\ [Exchange!Next]_ExchangePhase
    BY <1>1, <1>5, LeaveStep DEF Exchange!Next
<1>6. ASSUME NEW i \in Run, ForwardChunk(i)
      PROVE  HttpInv' /\ [Exchange!Next]_ExchangePhase
    BY <1>1, <1>6, ForwardStep DEF Exchange!Next
<1>7. CASE ClientStep /\ UNCHANGED httpVars
    BY <1>1, <1>7, ClientStepIsCalm
<1>8. CASE UNCHANGED allVars
    <2>1. UNCHANGED <<sent, streamStarted, clientGone, responded, outcome>>
        BY <1>8 DEF allVars, httpVars, vars, requestVars
    <2>2. HttpInv'
        BY <1>1, <2>1 DEF HttpInv, HttpTypes, ResponseInv
    <2>3. UNCHANGED ExchangePhase
        BY <2>1 DEF ExchangePhase, Ends
    <2> QED BY <2>2, <2>3
<1> QED BY <1>2, <1>3, <1>4, <1>5, <1>6, <1>7, <1>8 DEF HttpNext

LEMMA HttpBegins == HttpInit => HttpInv /\ Exchange!Init
<1> SUFFICES ASSUME HttpInit PROVE HttpInv /\ Exchange!Init
    OBVIOUS
<1>1. IInv
    BY InitIInv DEF HttpInit
<1>2. HttpTypes /\ \A r \in Req : ResponseInv(r)
    BY DEF HttpInit, Init, HttpTypes, ResponseInv
<1>3. Exchange!Init
    BY DEF HttpInit, Init, Exchange!Init, ExchangePhase, Ends
<1> QED BY <1>1, <1>2, <1>3 DEF HttpInv

LEMMA HttpInvariant == HttpSpec => []HttpInv
BY HttpBegins, HttpStep, PTL DEF HttpSpec

-----------------------------------------------------------------------------
(* The theorems *)

\* However events, partial texts and the caller's leaving interleave, a response is one JSON
\* error, or one head, its chunks and at most one terminal event, which is the last thing
\* written (ensureStreamStarted, then and catch of handleChat).
THEOREM ResponsesAreWellFormed == HttpSpec => []ResponseWellFormed
<1>1. ASSUME HttpInv PROVE ResponseWellFormed
    <2>1. ASSUME NEW r \in Req
          PROVE  sent[r] = <<>> \/ sent[r] = <<"json">> \/ Streaming(sent[r]) \/ Finished(sent[r])
        BY <1>1 DEF HttpInv, ResponseInv, Going, Over
    <2>2. <<>> \in Seq(Written) /\ <<"json">> \in Seq(Written)
        BY DEF Written
    <2>3. HttpTypeOK
        BY <1>1, <2>1, <2>2 DEF HttpInv, IInv, HttpTypes, HttpTypeOK, Streaming, Finished
    <2>4. ASSUME NEW r \in Req, NEW n \in 1 .. Len(sent[r])
          PROVE  /\ sent[r][n] = "json" => Len(sent[r]) = 1
                 /\ sent[r][n] = "head" <=> n = 1 /\ sent[r][n] # "json"
                 /\ sent[r][n] \in {"done", "error"} => n = Len(sent[r])
        <3>1. CASE sent[r] = <<"json">>
            BY <3>1
        <3>2. CASE Streaming(sent[r])
            BY <3>2 DEF Streaming, Chunks
        <3>3. CASE Finished(sent[r])
            BY <3>3 DEF Finished, Chunks
        <3>4. CASE sent[r] = <<>>
            BY <3>4
        <3> QED BY <2>1, <3>1, <3>2, <3>3, <3>4
    <2> QED BY <2>3, <2>4 DEF ResponseWellFormed
<1> QED BY <1>1, HttpInvariant, PTL

\* POST /chat implements ChatExchange: each request is answered once, by one error or by one
\* stream that ends, or its caller has left; whatever the gateway does.
THEOREM ExchangeIsKept == HttpSpec => ExchangeKept
BY HttpBegins, HttpStep, HttpInvariant, PTL DEF HttpSpec, ExchangeKept, Exchange!Spec

\* A response whose caller has left is not written to again: neither by a partial text that was
\* on its way nor by the continuation (clientGone).
THEOREM SilenceIsKept == HttpSpec => SilentOnceGone
<1>1. ASSUME HttpInv, HttpNext, NEW r \in clientGone
      PROVE  sent'[r] = sent[r]
    <2>1. r \in Req /\ outcome[r] # "unsent"
        BY <1>1 DEF HttpInv, HttpTypes, ResponseInv
    <2>2. ASSUME NEW q \in Req, RefuseBody(q) \/ PostChat(q) \/ Respond(q) \/ ClientLeaves(q)
          PROVE  sent'[r] = sent[r]
        BY <1>1, <2>1, <2>2 DEF RefuseBody, PostChat, Respond, ClientLeaves, httpVars, HttpInv, HttpTypes
    <2>3. ASSUME NEW i \in Run, ForwardChunk(i)
          PROVE  sent'[r] = sent[r]
        BY <1>1, <2>1, <2>3 DEF ForwardChunk, ForwardTo
    <2>4. CASE ClientStep /\ UNCHANGED httpVars
        BY <2>4 DEF httpVars
    <2> QED BY <1>1, <2>2, <2>3, <2>4 DEF HttpNext
<1>2. HttpInv /\ [HttpNext]_allVars => [\A r \in clientGone : sent'[r] = sent[r]]_allVars
    BY <1>1
<1> QED BY <1>2, HttpInvariant, PTL DEF HttpSpec, SilentOnceGone
=============================================================================

------------------------------ MODULE DomRelay ------------------------------
(***************************************************************************)
(* The extension's end of the bridge: content scripts (content-script.js)  *)
(* that connect a port and REGISTER their context_id, and the service      *)
(* worker (background.js) that keeps one WebSocket per registered context. *)
(* A worker may be stopped at any time and forgets everything; the bridge  *)
(* may drop any connection.                                                *)
(*                                                                         *)
(* A port delivers in order and at once.  What the bridge does with        *)
(* dom.register is taken from DomBridge, both ends of a socket in one      *)
(* state.  The bridge's URL is a valid one.                                *)
(***************************************************************************)
EXTENDS Naturals, Sequences

CONSTANTS
    Page,       \* page loads of /buildpc, each with a content script of its own
    Tab,
    Id,         \* context_ids
    Ctx,        \* bound on the ctx objects of the worker alive at a time
    FirstId,    \* what localStorage holds at first
    NoId, NoCtx,
    TabOf       \* the tab a page is loaded in

ASSUME PageInTab  == TabOf \in [Page -> Tab]
ASSUME FirstIsId  == FirstId \in Id
ASSUME NoIdIsNoId == NoId \notin Id
ASSUME NoCtxIsNoCtx == NoCtx \notin Ctx

VARIABLES
    page,       \* the life of each page
    contextId,  \* the contextId of its content script
    stored,     \* localStorage "buildmate_session_id", shared by all tabs
    fresh,      \* UUIDs not drawn yet
    ports,      \* the open ports of a page, by the contextId the worker noted
    reconnects, \* armed setTimeout(connectBridge, 1000)
    contexts,   \* the worker's map contextId -> ctx
    ctx,        \* the ctx objects
    mapped      \* the bridge's map contextId -> socket of a ctx

pageVars   == <<page, contextId, stored, fresh, ports, reconnects>>
workerVars == <<contexts, ctx>>
vars == <<pageVars, workerVars, mapped>>

\* life: "resolving" while registerContext awaits the URL, "closed" after
\* teardown until the close event.  sock: "REGISTERED" once dom.register is handled.
CtxRecord ==
    [life  : {"unused", "resolving", "active", "closed"},
     id    : Id \cup {NoId},
     tab   : Tab \cup {NoId},
     sock  : {"none", "CONNECTING", "OPEN", "REGISTERED", "CLOSING"},
     timer : BOOLEAN]

Unused == [life |-> "unused", id |-> NoId, tab |-> NoId, sock |-> "none", timer |-> FALSE]

RelayTypeOK ==
    /\ page \in [Page -> {"none", "open", "gone"}]
    /\ contextId \in [Page -> Id \cup {NoId}]
    /\ stored \in Id
    /\ fresh \in SUBSET Id
    /\ ports \in [Page -> Seq(Id)]
    /\ reconnects \in [Page -> Nat]
    /\ contexts \in [Id -> Ctx \cup {NoCtx}]
    /\ ctx \in [Ctx -> CtxRecord]
    /\ mapped \in [Id -> Ctx \cup {NoCtx}]

Init ==
    /\ page = [p \in Page |-> "none"]
    /\ contextId = [p \in Page |-> NoId]
    /\ stored = FirstId
    /\ fresh = Id \ {FirstId}
    /\ ports = [p \in Page |-> <<>>]
    /\ reconnects = [p \in Page |-> 0]
    /\ contexts = [i \in Id |-> NoCtx]
    /\ ctx = [c \in Ctx |-> Unused]
    /\ mapped = [i \in Id |-> NoCtx]

-----------------------------------------------------------------------------
(* The worker's contexts.                                                  *)

\* A ctx whose reconnecting is over goes when its socket has gone.
Closed(x) ==
    IF x.sock = "none" THEN Unused
    ELSE [x EXCEPT !.life = "closed", !.sock = "CLOSING", !.timer = FALSE]

\* The ctx objects after teardown of the ids in I.
TornDown(I) ==
    [c \in Ctx |-> IF \E i \in I : contexts[i] = c THEN Closed(ctx[c]) ELSE ctx[c]]

\* Mutant: the ctx stays in the map.
TeardownKeepsEntry(I) ==
    /\ ctx' = TornDown(I)
    /\ UNCHANGED contexts

Teardown(I) ==
    /\ ctx' = TornDown(I)
    /\ contexts' = [i \in Id |-> IF i \in I THEN NoCtx ELSE contexts[i]]

\* registerContext up to its await: teardown of i, and a new ctx that is not in
\* the map yet.  D: the ids torn down by a disconnect just before.
RegisterContext(D, i, t) ==
    LET free == {c \in Ctx : ctx[c] = Unused}
        new  == CHOOSE c \in free : TRUE
    IN  /\ free # {}
        /\ ctx' = [TornDown(D \cup {i}) EXCEPT ![new] =
               [Unused EXCEPT !.life = "resolving", !.id = i, !.tab = t]]
        /\ contexts' = [k \in Id |-> IF k \in D \cup {i} THEN NoCtx ELSE contexts[k]]

\* ... and from there: resolveUrl is done.
OnUrlResolved(c) ==
    /\ ctx[c].life = "resolving"
    /\ contexts' = [contexts EXCEPT ![ctx[c].id] = c]
    /\ ctx' = [ctx EXCEPT ![c].life = "active", ![c].sock = "CONNECTING"]
    /\ UNCHANGED <<pageVars, mapped>>

\* Mutant: the open socket gets a name of its own.
OnWsOpenUnnamed(c) ==
    /\ ctx[c].sock = "CONNECTING"
    /\ ctx' = [ctx EXCEPT ![c].sock = "CONNECTED"]
    /\ UNCHANGED <<pageVars, contexts, mapped>>

\* The socket opens and sends dom.register.
OnWsOpen(c) ==
    /\ ctx[c].sock = "CONNECTING"
    /\ ctx' = [ctx EXCEPT ![c].sock = "OPEN"]
    /\ UNCHANGED <<pageVars, contexts, mapped>>

\* The bridge handles dom.register: the last registration wins.
BridgeRegisters(c) ==
    /\ ctx[c].sock = "OPEN"
    /\ LET i == ctx[c].id
           prev == mapped[i]
       IN  /\ mapped' = [mapped EXCEPT ![i] = c]
           /\ ctx' = [d \in Ctx |->
                 IF d = c THEN [ctx[d] EXCEPT !.sock = "REGISTERED"]
                 ELSE IF d = prev THEN [ctx[d] EXCEPT !.sock = "CLOSING"]
                 ELSE ctx[d]]
    /\ UNCHANGED <<pageVars, contexts>>

\* Mutants of what follows a close event: a ctx that is closed reconnects as
\* well; none does.
AfterCloseAlways(x) == [x EXCEPT !.sock = "none", !.timer = TRUE]

AfterCloseNever(x) ==
    IF x.life = "closed" THEN Unused ELSE [x EXCEPT !.sock = "none"]

\* scheduleReconnect, unless ctx.closed.
AfterClose(x) ==
    IF x.life = "closed" THEN Unused ELSE [x EXCEPT !.sock = "none", !.timer = TRUE]

\* The close event, whoever closed the socket or failed to open it.
OnWsClose(c) ==
    /\ ctx[c].sock # "none"
    /\ ctx' = [ctx EXCEPT ![c] = AfterClose(@)]
    /\ mapped' = [i \in Id |-> IF mapped[i] = c THEN NoCtx ELSE mapped[i]]
    /\ UNCHANGED <<pageVars, contexts>>

OnReconnectTimer(c) ==
    /\ ctx[c].timer
    /\ ctx' = [ctx EXCEPT ![c].timer = FALSE, ![c].sock = "CONNECTING"]
    /\ UNCHANGED <<pageVars, contexts, mapped>>

-----------------------------------------------------------------------------
(* Content scripts.                                                        *)

\* connectBridge in page p, with what the worker does on REGISTER.
Connect(p, D, i) ==
    /\ RegisterContext(D, i, TabOf[p])
    /\ ports' = [ports EXCEPT ![p] =
          Append(IF D = {} THEN @ ELSE SubSeq(@, 1, Len(@) - 1), i)]

\* One page at a time in a tab; its script reads localStorage and connects.
PageLoads(p) ==
    /\ page[p] = "none"
    /\ \A q \in Page : page[q] = "open" => TabOf[q] # TabOf[p]
    /\ page' = [page EXCEPT ![p] = "open"]
    /\ contextId' = [contextId EXCEPT ![p] = stored]
    /\ Connect(p, {}, stored)
    /\ UNCHANGED <<stored, fresh, reconnects, mapped>>

\* The timer that a port's onDisconnect has set.
OnConnectTimer(p) ==
    /\ reconnects[p] > 0
    /\ reconnects' = [reconnects EXCEPT ![p] = @ - 1]
    /\ Connect(p, {}, contextId[p])
    /\ UNCHANGED <<page, contextId, stored, fresh, mapped>>

\* onClearChat: a new context; bridgePort, the port made last, is exchanged.  A
\* connect timer that is armed stays armed.
ClearChat(p) ==
    /\ page[p] = "open"
    /\ \E i \in fresh :
          /\ fresh' = fresh \ {i}
          /\ contextId' = [contextId EXCEPT ![p] = i]
          /\ stored' = i
          /\ Connect(p, IF ports[p] = <<>> THEN {} ELSE {ports[p][Len(ports[p])]}, i)
    /\ UNCHANGED <<page, reconnects, mapped>>

\* pagehide and the end of the document: all its ports disconnect.
PageGoes(p) ==
    /\ page[p] = "open"
    /\ page' = [page EXCEPT ![p] = "gone"]
    /\ Teardown({ports[p][n] : n \in 1..Len(ports[p])})
    /\ ports' = [ports EXCEPT ![p] = <<>>]
    /\ reconnects' = [reconnects EXCEPT ![p] = 0]
    /\ UNCHANGED <<contextId, stored, fresh, mapped>>

\* Mutant: a port that disconnects is not connected again.
WorkerStopsForGood ==
    /\ contexts' = [i \in Id |-> NoCtx]
    /\ ctx' = [c \in Ctx |-> Unused]
    /\ mapped' = [i \in Id |-> NoCtx]
    /\ ports' = [p \in Page |-> <<>>]
    /\ UNCHANGED <<page, contextId, stored, fresh, reconnects>>

\* The browser stops the worker: sockets and contexts are gone, and each port's
\* onDisconnect sets a timer.
WorkerStops ==
    /\ contexts' = [i \in Id |-> NoCtx]
    /\ ctx' = [c \in Ctx |-> Unused]
    /\ mapped' = [i \in Id |-> NoCtx]
    /\ reconnects' = [p \in Page |-> reconnects[p] + Len(ports[p])]
    /\ ports' = [p \in Page |-> <<>>]
    /\ UNCHANGED <<page, contextId, stored, fresh>>

-----------------------------------------------------------------------------
Next ==
    \/ \E p \in Page : PageLoads(p) \/ OnConnectTimer(p) \/ ClearChat(p) \/ PageGoes(p)
    \/ \E c \in Ctx : \/ OnUrlResolved(c) \/ OnWsOpen(c) \/ BridgeRegisters(c)
                      \/ OnWsClose(c) \/ OnReconnectTimer(c)
    \/ WorkerStops

Spec == Init /\ [][Next]_vars

\* The browser stops the worker, or a socket that neither end closed is lost.
Interrupted ==
    \/ WorkerStops
    \/ \E c \in Ctx : ctx[c].sock # "CLOSING" /\ OnWsClose(c)

\* Timers, awaits and handshakes end, and interruptions come to an end, as often
\* as they came and at whatever stage.
LiveSpec ==
    /\ Spec
    /\ <>[][~Interrupted]_vars
    /\ \A p \in Page : WF_vars(OnConnectTimer(p))
    /\ \A c \in Ctx : /\ WF_vars(OnUrlResolved(c)) /\ WF_vars(OnReconnectTimer(c))
                      /\ WF_vars(OnWsOpen(c)) /\ WF_vars(BridgeRegisters(c))
                      /\ WF_vars(ctx[c].sock = "CLOSING" /\ OnWsClose(c))

-----------------------------------------------------------------------------
(* Properties.                                                             *)

\* The worker's map names contexts that are alive, each under its own id:
\* neither a teardown nor a REGISTER that was waiting leaves a closed one in it.
RegistryIsOpen ==
    \A i \in Id : contexts[i] # NoCtx =>
        ctx[contexts[i]].life = "active" /\ ctx[contexts[i]].id = i

\* A context that was torn down rests: whichever of its socket's events and
\* timers were under way, it never connects again.
ClosedContextsRest ==
    \A c \in Ctx : ctx[c].life = "closed" => ctx[c].sock = "CLOSING" /\ ~ctx[c].timer

\* A live context has a socket or a reconnect timer, never both and never
\* neither: it neither stops trying nor opens a second socket.
OneThingToWaitFor ==
    \A c \in Ctx :
        /\ ctx[c].life = "active" => (ctx[c].timer <=> ctx[c].sock = "none")
        /\ ctx[c].life \in {"unused", "resolving"} => ~ctx[c].timer /\ ctx[c].sock = "none"

\* What a worker knows of its contexts, as a whole: the map names the live ones, each of them
\* is on its way to the bridge, and the others rest.
ContextsAreSound == RegistryIsOpen /\ ClosedContextsRest /\ OneThingToWaitFor

\* A page that stays and keeps its context gets (back) on line in its tab,
\* whatever was interrupted, worker or sockets, and even if sockets of one
\* context replace each other.
PageComesOnline ==
    \A p \in Page, i \in Id :
        page[p] = "open" /\ contextId[p] = i
            ~> \/ mapped[i] # NoCtx /\ ctx[mapped[i]].tab = TabOf[p]
               \/ page[p] # "open" \/ contextId[p] # i

\* The comment at teardown in registerContext, "drop any prior socket for this
\* tab": a context has one ctx, hence one socket.
OneSocketPerTab ==
    \A c, d \in Ctx :
        ctx[c].life = "active" /\ ctx[d].life = "active" /\ ctx[c].id = ctx[d].id => c = d
=============================================================================

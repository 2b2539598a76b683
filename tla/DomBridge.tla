------------------------------ MODULE DomBridge ------------------------------
(***************************************************************************)
(* The DOM executor bridge (chat-backend/src/dom-bridge.ts): context_id -> *)
(* socket for the registered tabs, the table of commands that wait for a   *)
(* dom.result, and the shutdown of the process (index.ts).                 *)
(*                                                                         *)
(* The tab's side (the extension) is external here: it registers each      *)
(* connection once, for one context, and sends a command's result over     *)
(* the connection the command came in on.                                  *)
(***************************************************************************)
EXTENDS FiniteSets

CONSTANTS
    Context,    \* context_ids
    Conn,       \* WebSocket connections, each used once
    Cmd,        \* POST /dom-commands calls; a commandId is a fresh UUID
    ContextOf,  \* the context a connection registers
    Target,     \* the context a command is addressed to
    NoConn      \* "no entry" in sockets

ASSUME ContextOfType  == ContextOf \in [Conn -> Context]
ASSUME TargetType     == Target \in [Cmd -> Context]
ASSUME NoConnIsNoConn == NoConn \notin Conn

VARIABLES
    sockets,    \* the map context_id -> socket
    conn,       \* readyState at the bridge
    registered, \* the connections whose contextId # null
    pending,    \* the keys of the map of pending commands
    timer,      \* the commands whose TTL timer is armed
    http,       \* how each HTTP call stands
    via,        \* the socket a command was written to
    frame,      \* where the command or its result is
    executed,   \* the commands a tab has started to execute
    shutdown,   \* the signal handler has run
    exited

tabVars    == <<via, frame, executed>>
bridgeVars == <<pending, timer, http>>
socketVars == <<sockets, conn, registered>>
vars == <<socketVars, bridgeVars, tabVars, shutdown, exited>>

\* "peer_closed" is readyState CLOSING on a socket the peer has closed: no frame
\* comes in any more.  The bridge's own CLOSING still hears the peer.
ConnState == {"unused", "OPEN", "CLOSING", "peer_closed", "closed"}
Closing   == {"CLOSING", "peer_closed"}
Answer    == {"ok", "error", "VERIFY_TIMEOUT", "CONTEXT_OFFLINE", "BAD_REQUEST"}

BridgeTypeOK ==
    /\ sockets \in [Context -> Conn \cup {NoConn}]
    /\ conn \in [Conn -> ConnState]
    /\ registered \in SUBSET Conn
    /\ pending \in SUBSET Cmd
    /\ timer \in SUBSET Cmd
    /\ http \in [Cmd -> {"none", "reading", "open", "abandoned"} \cup Answer]
    /\ via \in [Cmd -> Conn \cup {NoConn}]
    /\ frame \in [Cmd -> {"none", "to_tab", "at_tab", "ok", "error", "lost"}]
    /\ executed \in SUBSET Cmd
    /\ shutdown \in BOOLEAN
    /\ exited \in BOOLEAN

Init ==
    /\ sockets = [k \in Context |-> NoConn]
    /\ conn = [w \in Conn |-> "unused"]
    /\ registered = {}
    /\ pending = {}
    /\ timer = {}
    /\ http = [c \in Cmd |-> "none"]
    /\ via = [c \in Cmd |-> NoConn]
    /\ frame = [c \in Cmd |-> "none"]
    /\ executed = {}
    /\ shutdown = FALSE
    /\ exited = FALSE

-----------------------------------------------------------------------------
(* Sockets.                                                                *)

\* The upgrade of a connection; wss.close() refuses further ones.
Open(w) ==
    /\ conn[w] = "unused"
    /\ ~shutdown
    /\ conn' = [conn EXCEPT ![w] = "OPEN"]
    /\ UNCHANGED <<sockets, registered, bridgeVars, tabVars, shutdown, exited>>

\* ws.close() starts the closing handshake of an open socket.
CloseAll(S) == [w \in Conn |-> IF w \in S /\ conn[w] = "OPEN" THEN "CLOSING" ELSE conn[w]]

\* Mutant: the socket that is replaced stays open.
RegisterKeepsPrev(w) ==
    /\ conn[w] = "OPEN"
    /\ w \notin registered
    /\ registered' = registered \cup {w}
    /\ sockets' = [sockets EXCEPT ![ContextOf[w]] = w]
    /\ UNCHANGED <<conn, bridgeVars, tabVars, shutdown, exited>>

\* dom.register: last registration wins.
Register(w) ==
    /\ conn[w] = "OPEN"
    /\ w \notin registered
    /\ registered' = registered \cup {w}
    /\ conn' = CloseAll({sockets[ContextOf[w]]})
    /\ sockets' = [sockets EXCEPT ![ContextOf[w]] = w]
    /\ UNCHANGED <<bridgeVars, tabVars, shutdown, exited>>

\* What is in flight on a connection that ends is lost.
LoseFrames(w) ==
    frame' = [c \in Cmd |->
        IF via[c] = w /\ frame[c] \in {"to_tab", "ok", "error"} THEN "lost" ELSE frame[c]]

\* The tab goes away; the close event is still to come.
PeerCloses(w) ==
    /\ conn[w] \in {"OPEN", "CLOSING"}
    /\ conn' = [conn EXCEPT ![w] = "peer_closed"]
    /\ LoseFrames(w)
    /\ UNCHANGED <<sockets, registered, bridgeVars, via, executed, shutdown, exited>>

\* Mutants of OnClose: the entry goes whoever holds it; the entry stays.
OnCloseAny(w) ==
    /\ conn[w] \in Closing
    /\ conn' = [conn EXCEPT ![w] = "closed"]
    /\ sockets' = [k \in Context |->
            IF w \in registered /\ ContextOf[w] = k THEN NoConn ELSE sockets[k]]
    /\ LoseFrames(w)
    /\ UNCHANGED <<registered, bridgeVars, via, executed, shutdown, exited>>

OnCloseKeepsEntry(w) ==
    /\ conn[w] \in Closing
    /\ conn' = [conn EXCEPT ![w] = "closed"]
    /\ LoseFrames(w)
    /\ UNCHANGED <<sockets, registered, bridgeVars, via, executed, shutdown, exited>>

\* The close event.  Commands sent over the socket stay pending.
OnClose(w) ==
    /\ conn[w] \in Closing
    /\ conn' = [conn EXCEPT ![w] = "closed"]
    /\ sockets' = [k \in Context |->
            IF w \in registered /\ ContextOf[w] = k /\ sockets[k] = w THEN NoConn ELSE sockets[k]]
    /\ LoseFrames(w)
    /\ UNCHANGED <<registered, bridgeVars, via, executed, shutdown, exited>>

-----------------------------------------------------------------------------
(* Commands.                                                               *)

\* The MCP server calls; its body is being read.
Post(c) ==
    /\ http[c] = "none"
    /\ ~shutdown
    /\ http' = [http EXCEPT ![c] = "reading"]
    /\ UNCHANGED <<socketVars, pending, timer, tabVars, shutdown, exited>>

\* Too large, not JSON, no context_id, or an action that is not in VALID_ACTIONS.
RefuseBody(c) ==
    /\ http[c] = "reading"
    /\ http' = [http EXCEPT ![c] = "BAD_REQUEST"]
    /\ UNCHANGED <<socketVars, pending, timer, tabVars, shutdown, exited>>

IsOnline(k) == sockets[k] # NoConn /\ conn[sockets[k]] = "OPEN"

\* Mutant: no TTL timer.
DispatchUntimed(c) ==
    /\ http[c] = "reading"
    /\ \/ /\ ~IsOnline(Target[c])
          /\ http' = [http EXCEPT ![c] = "CONTEXT_OFFLINE"]
          /\ UNCHANGED <<pending, timer, via, frame>>
       \/ /\ IsOnline(Target[c])
          /\ http' = [http EXCEPT ![c] = "open"]
          /\ pending' = pending \cup {c}
          /\ via' = [via EXCEPT ![c] = sockets[Target[c]]]
          /\ frame' = [frame EXCEPT ![c] = "to_tab"]
          /\ UNCHANGED timer
    /\ UNCHANGED <<socketVars, executed, shutdown, exited>>

Dispatch(c) ==
    /\ http[c] = "reading"
    /\ \/ /\ ~IsOnline(Target[c])
          /\ http' = [http EXCEPT ![c] = "CONTEXT_OFFLINE"]
          /\ UNCHANGED <<pending, timer, via, frame>>
       \/ /\ IsOnline(Target[c])
          /\ http' = [http EXCEPT ![c] = "open"]
          /\ pending' = pending \cup {c}
          /\ timer' = timer \cup {c}
          /\ via' = [via EXCEPT ![c] = sockets[Target[c]]]
          /\ frame' = [frame EXCEPT ![c] = "to_tab"]
    /\ UNCHANGED <<socketVars, executed, shutdown, exited>>

\* resolve() and the response that follows it; nothing is heard by a caller
\* that has left.
Resolve(c, answer) ==
    http' = [http EXCEPT ![c] = IF @ = "open" THEN answer ELSE @]

\* Mutant: the TTL timer survives the result.
OnResultKeepsTimer(c) ==
    /\ frame[c] \in {"ok", "error"}
    /\ frame' = [frame EXCEPT ![c] = "none"]
    /\ pending' = pending \ {c}
    /\ IF c \in pending THEN Resolve(c, frame[c]) ELSE UNCHANGED http
    /\ UNCHANGED <<socketVars, timer, via, executed, shutdown, exited>>

\* dom.result; one for a command that is not pending any more is dropped.
OnResult(c) ==
    /\ frame[c] \in {"ok", "error"}
    /\ frame' = [frame EXCEPT ![c] = "none"]
    /\ pending' = pending \ {c}
    /\ timer' = IF c \in pending THEN timer \ {c} ELSE timer
    /\ IF c \in pending THEN Resolve(c, frame[c]) ELSE UNCHANGED http
    /\ UNCHANGED <<socketVars, via, executed, shutdown, exited>>

\* Mutants of OnTimeout: the error code of the chat relay; the wrong error code.
OnTimeoutOtherCode(c) ==
    /\ c \in timer
    /\ timer' = timer \ {c}
    /\ pending' = pending \ {c}
    /\ Resolve(c, "timeout")
    /\ UNCHANGED <<socketVars, tabVars, shutdown, exited>>

OnTimeoutOffline(c) ==
    /\ c \in timer
    /\ timer' = timer \ {c}
    /\ pending' = pending \ {c}
    /\ Resolve(c, "CONTEXT_OFFLINE")
    /\ UNCHANGED <<socketVars, tabVars, shutdown, exited>>

OnTimeout(c) ==
    /\ c \in timer
    /\ timer' = timer \ {c}
    /\ pending' = pending \ {c}
    /\ Resolve(c, "VERIFY_TIMEOUT")
    /\ UNCHANGED <<socketVars, tabVars, shutdown, exited>>

\* The MCP server's fetch gives up.
CallerGivesUp(c) ==
    /\ http[c] = "open"
    /\ http' = [http EXCEPT ![c] = "abandoned"]
    /\ UNCHANGED <<socketVars, pending, timer, tabVars, shutdown, exited>>

-----------------------------------------------------------------------------
(* The tab.                                                                *)

TabReceives(c) ==
    /\ frame[c] = "to_tab"
    /\ frame' = [frame EXCEPT ![c] = "at_tab"]
    /\ executed' = executed \cup {c}
    /\ UNCHANGED <<socketVars, bridgeVars, via, shutdown, exited>>

\* The service worker finds no content script in the tab.
TabUnavailable(c) ==
    /\ frame[c] = "to_tab"
    /\ frame' = [frame EXCEPT ![c] = "error"]
    /\ UNCHANGED <<socketVars, bridgeVars, via, executed, shutdown, exited>>

\* A result for a socket that has closed meanwhile goes nowhere.
TabFinishes(c) ==
    /\ frame[c] = "at_tab"
    /\ \E result \in {"ok", "error"} :
          frame' = [frame EXCEPT ![c] =
              IF conn[via[c]] \in {"OPEN", "CLOSING"} THEN result ELSE "lost"]
    /\ UNCHANGED <<socketVars, bridgeVars, via, executed, shutdown, exited>>

-----------------------------------------------------------------------------
(* Shutdown.                                                               *)

\* close() drops the pending commands without resolving them, and closes the
\* sockets that are in the map.
Close ==
    /\ ~shutdown
    /\ shutdown' = TRUE
    /\ timer' = timer \ pending
    /\ pending' = {}
    /\ conn' = CloseAll({sockets[k] : k \in Context})
    /\ sockets' = [k \in Context |-> NoConn]
    /\ UNCHANGED <<registered, http, tabVars, exited>>

\* server.close() calls back when no connection is left.
Exit ==
    /\ shutdown /\ ~exited
    /\ \A w \in Conn : conn[w] \in {"unused", "closed"}
    /\ \A c \in Cmd : http[c] \notin {"reading", "open"}
    /\ exited' = TRUE
    /\ UNCHANGED <<socketVars, bridgeVars, tabVars, shutdown>>

-----------------------------------------------------------------------------
Next ==
    \/ \E w \in Conn : Open(w) \/ Register(w) \/ PeerCloses(w) \/ OnClose(w)
    \/ \E c \in Cmd : \/ Post(c) \/ RefuseBody(c) \/ Dispatch(c) \/ OnResult(c)
                      \/ OnTimeout(c) \/ CallerGivesUp(c)
                      \/ TabReceives(c) \/ TabUnavailable(c) \/ TabFinishes(c)
    \/ Close \/ Exit

Spec == Init /\ [][Next]_vars

\* Timers fire, bodies are read, a tab registers once it is connected, and a
\* closing handshake ends (ws enforces it).  Neither tab nor caller need do
\* anything about a command.
LiveSpec ==
    /\ Spec
    /\ \A c \in Cmd : WF_vars(OnTimeout(c)) /\ WF_vars(Dispatch(c) \/ RefuseBody(c))
    /\ \A w \in Conn : WF_vars(OnClose(w)) /\ WF_vars(Register(w))
    /\ WF_vars(Exit)

-----------------------------------------------------------------------------
(* Properties.                                                             *)

\* The map never names a socket that is gone, nor one that registered another
\* context: commands do not vanish into a closed socket, /healthz does not count it.
MapIsLive ==
    \A k \in Context : sockets[k] # NoConn =>
        /\ sockets[k] \in registered
        /\ ContextOf[sockets[k]] = k
        /\ conn[sockets[k]] \in {"OPEN"} \cup Closing

\* Last registration wins, and keeps winning: an open registered socket is the
\* one its context maps to, also when the close event of the socket it replaced
\* comes after its own registration.  Otherwise a connected tab that takes itself
\* for registered would be CONTEXT_OFFLINE for good.
LastRegistrationWins ==
    \A w \in registered : conn[w] = "OPEN" => sockets[ContextOf[w]] = w

\* The map and the open registered sockets agree, in both directions.
SocketMapIsExact == MapIsLive /\ LastRegistrationWins

\* A call that waits has a pending entry with a running TTL, whatever becomes of
\* the socket its command went out on; only shutdown drops it.
WaitingIsTimed ==
    /\ timer = pending
    /\ ~shutdown => {c \in Cmd : http[c] = "open"} \subseteq pending

\* A command is on the wire at most once, and its result comes from a tab.
FramesAreSound ==
    \A c \in Cmd :
        /\ http[c] \in {"none", "reading", "BAD_REQUEST", "CONTEXT_OFFLINE"} =>
              frame[c] = "none" /\ c \notin executed
        /\ http[c] \in {"ok", "error"} => frame[c] = "none"
        /\ frame[c] = "to_tab" => c \notin executed
        /\ frame[c] \in {"at_tab", "ok"} => c \in executed
        /\ c \in pending => http[c] \in {"open", "abandoned"}
        /\ frame[c] \in {"to_tab", "at_tab"} => via[c] \in Conn

\* What of the map is inductive besides.
MapIsSound ==
    /\ MapIsLive /\ LastRegistrationWins
    /\ \A w \in registered : conn[w] # "unused"

BridgeInv == BridgeTypeOK /\ MapIsSound /\ WaitingIsTimed /\ FramesAreSound

\* The bridge implements DomCommand: one answer per call, "ok" only after the tab
\* has executed, and never an execution behind a CONTEXT_OFFLINE, with late
\* results, closed sockets and timeouts in any order.
Promise == INSTANCE DomCommand WITH call <- http
CommandKept == Promise!Spec

\* Every dispatched command is answered within its TTL though the tab stays silent
\* or is gone, as long as the process runs and the caller listens.
EveryCommandAnswered ==
    \A c \in Cmd : http[c] = "open" ~> http[c] # "open" \/ shutdown

\* close() looks for sockets in the map only, yet it reaches every socket that has
\* ever registered and is still open: none is left to keep the process alive
\* but those that were not registered at that moment.
CloseReachesRegistered ==
    [][~shutdown /\ shutdown' => \A w \in registered : conn'[w] # "OPEN"]_vars
=============================================================================

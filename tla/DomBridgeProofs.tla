--------------------------- MODULE DomBridgeProofs ---------------------------
(***************************************************************************)
(* Proofs about DomBridge, for every set of contexts, connections and      *)
(* commands: the map of sockets, the table of commands, and that the       *)
(* bridge implements DomCommand.                                           *)
(***************************************************************************)
EXTENDS DomBridge, TLAPS

USE ContextOfType, TargetType, NoConnIsNoConn

LEMMA InitBridge == Init => BridgeInv
<1> SUFFICES ASSUME Init PROVE BridgeInv
  OBVIOUS
<1> USE DEF Init
<1>1. BridgeTypeOK
  BY DEF BridgeTypeOK, ConnState, Answer
<1>2. MapIsSound
  BY DEF MapIsSound, MapIsLive, LastRegistrationWins
<1>3. WaitingIsTimed /\ FramesAreSound
  BY DEF WaitingIsTimed, FramesAreSound
<1>4. QED
  BY <1>1, <1>2, <1>3 DEF BridgeInv

\* The map of sockets: its type and what is claimed of it.
SocketTypes ==
    /\ sockets \in [Context -> Conn \cup {NoConn}]
    /\ conn \in [Conn -> ConnState]
    /\ registered \in SUBSET Conn

SocketInv == SocketTypes /\ MapIsSound

\* Each operation on sockets keeps the map; nothing else touches it.
LEMMA SocketStep == SocketInv /\ [Next]_vars => SocketInv'
<1> SUFFICES ASSUME SocketInv, [Next]_vars PROVE SocketInv'
  OBVIOUS
<1> USE DEF SocketInv, SocketTypes, MapIsSound, MapIsLive, LastRegistrationWins,
            ConnState, Closing
<1>1. ASSUME NEW w \in Conn, Open(w) PROVE SocketInv'
  BY <1>1 DEF Open
<1>2. ASSUME NEW w \in Conn, Register(w) PROVE SocketInv'
  BY <1>2 DEF Register, CloseAll
<1>3. ASSUME NEW w \in Conn, PeerCloses(w) PROVE SocketInv'
  BY <1>3 DEF PeerCloses
<1>4. ASSUME NEW w \in Conn, OnClose(w) PROVE SocketInv'
  BY <1>4 DEF OnClose
<1>5. CASE Close
  BY <1>5 DEF Close, CloseAll
<1>6. CASE UNCHANGED socketVars
  BY <1>6 DEF socketVars
<1>7. QED
  BY <1>1, <1>2, <1>3, <1>4, <1>5, <1>6
     DEF Next, vars, Post, RefuseBody, Dispatch, OnResult, OnTimeout, CallerGivesUp,
         TabReceives, TabUnavailable, TabFinishes, Exit

-----------------------------------------------------------------------------
\* The table of commands, the calls that wait and the frames between.
CommandTypes ==
    /\ pending \in SUBSET Cmd
    /\ timer \in SUBSET Cmd
    /\ http \in [Cmd -> {"none", "reading", "open", "abandoned"} \cup Answer]
    /\ via \in [Cmd -> Conn \cup {NoConn}]
    /\ frame \in [Cmd -> {"none", "to_tab", "at_tab", "ok", "error", "lost"}]
    /\ executed \in SUBSET Cmd
    /\ shutdown \in BOOLEAN
    /\ exited \in BOOLEAN

CommandInv == CommandTypes /\ WaitingIsTimed /\ FramesAreSound

\* A connection that ends takes frames with it and nothing else.
LEMMA LoseFramesKeepsCommands ==
  ASSUME NEW w \in Conn, CommandInv, LoseFrames(w),
         UNCHANGED <<bridgeVars, via, executed, shutdown, exited>>
  PROVE  CommandInv'
<1> USE DEF CommandInv, bridgeVars
<1>1. CommandTypes'
  BY DEF CommandTypes, LoseFrames
<1>2. WaitingIsTimed'
  BY DEF WaitingIsTimed
<1>3. FramesAreSound'
  <2>1. \A c \in Cmd : /\ frame'[c] \in {frame[c], "lost"}
                       /\ frame'[c] # frame[c] => frame[c] \in {"to_tab", "ok", "error"}
    BY DEF CommandTypes, LoseFrames
  <2>2. QED
    BY <2>1 DEF CommandTypes, FramesAreSound
<1>4. QED
  BY <1>1, <1>2, <1>3

LEMMA CommandStep == CommandInv /\ SocketInv /\ [Next]_vars => CommandInv'
<1> SUFFICES ASSUME CommandInv, SocketInv, [Next]_vars PROVE CommandInv'
  OBVIOUS
<1> USE DEF CommandInv, CommandTypes, WaitingIsTimed, FramesAreSound, Answer
<1>1. ASSUME NEW w \in Conn, PeerCloses(w) \/ OnClose(w) PROVE CommandInv'
  <2>1. LoseFrames(w) /\ UNCHANGED <<bridgeVars, via, executed, shutdown, exited>>
    BY <1>1 DEF PeerCloses, OnClose
  <2>2. QED
    BY <2>1, LoseFramesKeepsCommands
<1>2. ASSUME NEW c \in Cmd, Post(c) \/ RefuseBody(c) \/ CallerGivesUp(c) PROVE CommandInv'
  BY <1>2 DEF Post, RefuseBody, CallerGivesUp, tabVars
<1>3. ASSUME NEW c \in Cmd, Dispatch(c) PROVE CommandInv'
  <2>1. CASE ~IsOnline(Target[c])
    BY <1>3, <2>1 DEF Dispatch
  <2>2. CASE IsOnline(Target[c])
    <3>1. sockets[Target[c]] \in Conn
      BY <2>2 DEF IsOnline, SocketInv, SocketTypes
    <3>2. frame[c] = "none" /\ c \notin executed
      BY <1>3 DEF Dispatch
    <3>3. QED
      BY <1>3, <2>2, <3>1, <3>2 DEF Dispatch
  <2>3. QED
    BY <2>1, <2>2
<1>4. ASSUME NEW c \in Cmd, OnResult(c) PROVE CommandInv'
  BY <1>4 DEF OnResult, Resolve
<1>5. ASSUME NEW c \in Cmd, OnTimeout(c) PROVE CommandInv'
  BY <1>5 DEF OnTimeout, Resolve, tabVars
<1>6. ASSUME NEW c \in Cmd, TabReceives(c) \/ TabUnavailable(c) \/ TabFinishes(c)
      PROVE  CommandInv'
  BY <1>6 DEF TabReceives, TabUnavailable, TabFinishes, bridgeVars
<1>7. CASE Close
  BY <1>7 DEF Close, tabVars
<1>8. CASE Exit
  BY <1>8 DEF Exit, bridgeVars, tabVars
<1>9. CASE UNCHANGED <<bridgeVars, tabVars, shutdown, exited>>
  BY <1>9 DEF bridgeVars, tabVars
<1>10. QED
  BY <1>1, <1>2, <1>3, <1>4, <1>5, <1>6, <1>7, <1>8, <1>9 DEF Next, vars, Open, Register

-----------------------------------------------------------------------------
LEMMA BridgeInvParts == BridgeInv <=> SocketInv /\ CommandInv
  BY DEF BridgeInv, BridgeTypeOK, SocketInv, SocketTypes, CommandInv, CommandTypes

LEMMA AlwaysBridgeInv == Spec => []BridgeInv
<1>1. BridgeInv /\ [Next]_vars => BridgeInv'
  <2>1. BridgeInv' <=> SocketInv' /\ CommandInv'
    BY BridgeInvParts, PTL
  <2>2. QED
    BY <2>1, BridgeInvParts, SocketStep, CommandStep
<1>2. QED
  BY InitBridge, <1>1, PTL DEF Spec

\* Type correctness of the bridge.
THEOREM BridgeTypeCorrect == Spec => []BridgeTypeOK
  BY AlwaysBridgeInv, PTL DEF BridgeInv

\* The map names only live sockets of the right tab, and every open registered
\* socket is the one its context maps to, whatever close events come late.
THEOREM RegistrationsAreExact == Spec => []SocketMapIsExact
<1>1. BridgeInv => SocketMapIsExact
  BY DEF BridgeInv, MapIsSound, SocketMapIsExact
<1>2. QED
  BY AlwaysBridgeInv, <1>1, PTL

\* Each call that waits has its TTL running, until shutdown.
THEOREM WaitingCallsAreTimed == Spec => []WaitingIsTimed
  BY AlwaysBridgeInv, PTL DEF BridgeInv

\* close() reaches every open socket that has registered.
THEOREM CloseIsThorough == Spec => CloseReachesRegistered
<1>1. SocketInv /\ [Next]_vars /\ ~shutdown /\ shutdown'
        => \A w \in registered : conn'[w] # "OPEN"
  <2> SUFFICES ASSUME SocketInv, [Next]_vars, ~shutdown, shutdown', NEW w \in registered
               PROVE  conn'[w] # "OPEN"
    OBVIOUS
  <2>1. Close
    BY DEF Next, vars, Open, Register, PeerCloses, OnClose, Post, RefuseBody, Dispatch,
           OnResult, OnTimeout, CallerGivesUp, TabReceives, TabUnavailable, TabFinishes, Exit
  <2>2. conn[w] = "OPEN" => \E k \in Context : sockets[k] = w
    BY DEF SocketInv, SocketTypes, MapIsSound, LastRegistrationWins
  <2>3. QED
    BY <2>1, <2>2 DEF Close, CloseAll, SocketInv, SocketTypes
<1>2. QED
  BY <1>1, AlwaysBridgeInv, BridgeInvParts, PTL DEF CloseReachesRegistered, Spec

-----------------------------------------------------------------------------
\* A step of the bridge is a step of the promise, or none.
LEMMA StepKeepsPromise ==
  BridgeInv /\ [Next]_vars => [Promise!Next]_<<http, executed>>
<1> SUFFICES ASSUME BridgeInv, [Next]_vars, ~UNCHANGED <<http, executed>>
             PROVE  Promise!Next
  OBVIOUS
<1> USE DEF BridgeInv, BridgeTypeOK, Answer, WaitingIsTimed, FramesAreSound,
            Promise!Next, Promise!Move
<1>1. ASSUME NEW c \in Cmd, Post(c) \/ RefuseBody(c) \/ CallerGivesUp(c) PROVE Promise!Next
  BY <1>1 DEF Post, RefuseBody, CallerGivesUp, tabVars,
              Promise!Post, Promise!TurnDown, Promise!Abandon
<1>2. ASSUME NEW c \in Cmd, Dispatch(c) PROVE Promise!Next
  BY <1>2 DEF Dispatch, Promise!TurnDown, Promise!Accept
<1>3. ASSUME NEW c \in Cmd, OnResult(c) PROVE Promise!Next
  BY <1>3 DEF OnResult, Resolve, Promise!Fail, Promise!Succeed
<1>4. ASSUME NEW c \in Cmd, OnTimeout(c) PROVE Promise!Next
  BY <1>4 DEF OnTimeout, Resolve, tabVars, Promise!Fail
<1>5. ASSUME NEW c \in Cmd, TabReceives(c) PROVE Promise!Next
  BY <1>5 DEF TabReceives, bridgeVars, Promise!Execute
<1>6. QED
  BY <1>1, <1>2, <1>3, <1>4, <1>5
     DEF Next, vars, socketVars, bridgeVars, tabVars, Open, Register, PeerCloses, OnClose,
         TabUnavailable, TabFinishes, Close, Exit

\* The bridge implements DomCommand.
THEOREM PromiseIsKept == Spec => CommandKept
<1>1. Init => Promise!Init
  BY DEF Init, Promise!Init
<1>2. QED
  BY <1>1, AlwaysBridgeInv, StepKeepsPromise, PTL DEF Spec, CommandKept, Promise!Spec
=============================================================================

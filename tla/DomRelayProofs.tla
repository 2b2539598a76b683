--------------------------- MODULE DomRelayProofs ---------------------------
(***************************************************************************)
(* Proofs about DomRelay's safety, for every set of pages, tabs, ids and   *)
(* ctx objects.                                                            *)
(***************************************************************************)
EXTENDS DomRelay, SequenceTheorems, TLAPS

USE PageInTab, FirstIsId, NoIdIsNoId, NoCtxIsNoCtx

\* The two ends agree on a socket: what the bridge maps has been registered
\* under that id, and not all of it is gone.
MappedHasSocket ==
    \A i \in Id : mapped[i] # NoCtx =>
        ctx[mapped[i]].id = i /\ ctx[mapped[i]].sock \in {"REGISTERED", "CLOSING"}

WorkerTypes ==
    /\ contexts \in [Id -> Ctx \cup {NoCtx}]
    /\ ctx \in [Ctx -> CtxRecord]
    /\ \A c \in Ctx : ctx[c].life # "unused" => ctx[c].id \in Id
    /\ mapped \in [Id -> Ctx \cup {NoCtx}]

PageTypes ==
    /\ page \in [Page -> {"none", "open", "gone"}]
    /\ contextId \in [Page -> Id \cup {NoId}]
    /\ \A p \in Page : page[p] = "none" => ports[p] = <<>> /\ reconnects[p] = 0
    /\ \A p \in Page : page[p] # "none" => contextId[p] \in Id
    /\ stored \in Id
    /\ fresh \in SUBSET Id
    /\ ports \in [Page -> Seq(Id)]
    /\ reconnects \in [Page -> Nat]

\* RegistryIsOpen says that the map is injective, which a teardown relies on;
\* MappedHasSocket that what a registration closes had a socket to close.
WorkerInv ==
    /\ WorkerTypes
    /\ RegistryIsOpen
    /\ ClosedContextsRest
    /\ OneThingToWaitFor
    /\ MappedHasSocket

RelayInv == PageTypes /\ WorkerInv

LEMMA InitRelay == Init => RelayInv
<1> SUFFICES ASSUME Init PROVE RelayInv
  OBVIOUS
<1> USE DEF Init, Unused
<1>1. PageTypes
  BY DEF PageTypes
<1>2. WorkerInv
  BY DEF WorkerInv, WorkerTypes, CtxRecord, RegistryIsOpen, ClosedContextsRest,
         OneThingToWaitFor, MappedHasSocket
<1>3. QED
  BY <1>1, <1>2 DEF RelayInv

-----------------------------------------------------------------------------
\* What a teardown of the ids in I leaves of the ctx objects: those in the map
\* under one of them end, the others stay as they are.
TornKeeps(after, I) ==
    /\ after \in [Ctx -> CtxRecord]
    /\ \A c \in Ctx : \/ after[c] = ctx[c]
                      \/ after[c] = Unused /\ ctx[c].sock = "none"
                      \/ /\ after[c].life = "closed" /\ after[c].sock = "CLOSING"
                         /\ ~after[c].timer
                         /\ after[c].id = ctx[c].id /\ ctx[c].life # "unused"
    /\ \A i \in Id : contexts[i] # NoCtx /\ i \notin I =>
           after[contexts[i]] = ctx[contexts[i]]

LEMMA TornDownContexts ==
  ASSUME WorkerInv, NEW I \in SUBSET Id
  PROVE  TornKeeps(TornDown(I), I)
<1> USE DEF WorkerInv, WorkerTypes
<1>1. ASSUME NEW c \in Ctx
      PROVE  /\ Closed(ctx[c]) \in CtxRecord
             /\ \/ Closed(ctx[c]) = Unused /\ ctx[c].sock = "none"
                \/ /\ Closed(ctx[c]).life = "closed"
                   /\ Closed(ctx[c]).sock = "CLOSING"
                   /\ Closed(ctx[c]).id = ctx[c].id
                   /\ ctx[c].life # "unused"
                   /\ ~Closed(ctx[c]).timer
  <2>1. ctx[c] \in CtxRecord
    OBVIOUS
  <2>2. CASE ctx[c].sock = "none"
    BY <2>2 DEF Closed, Unused, CtxRecord
  <2>3. CASE ctx[c].sock # "none"
    <3>1. Closed(ctx[c]) = [ctx[c] EXCEPT !.life = "closed", !.sock = "CLOSING",
                                          !.timer = FALSE]
      BY <2>3 DEF Closed
    <3>2. ctx[c].life # "unused"
      BY <2>3 DEF OneThingToWaitFor
    <3>3. QED
      BY <2>1, <3>1, <3>2 DEF CtxRecord
  <2>4. QED
    BY <2>2, <2>3
<1>2. TornDown(I) = [c \in Ctx |-> IF \E i \in I : contexts[i] = c
                                   THEN Closed(ctx[c]) ELSE ctx[c]]
  BY DEF TornDown
<1>3. ASSUME NEW i \in Id, contexts[i] # NoCtx, i \notin I
      PROVE  TornDown(I)[contexts[i]] = ctx[contexts[i]]
  <2>1. \A k \in I : contexts[k] # contexts[i]
    BY <1>3 DEF RegistryIsOpen
  <2>2. QED
    BY <1>2, <1>3, <2>1
<1>4. ASSUME NEW c \in Ctx
      PROVE  TornDown(I)[c] \in {ctx[c], Closed(ctx[c])}
  BY <1>2
<1> HIDE DEF WorkerInv, WorkerTypes
<1>5. \A c \in Ctx : ctx[c] \in CtxRecord
  BY DEF WorkerInv, WorkerTypes
<1>6. TornDown(I) \in [Ctx -> CtxRecord]
  BY <1>1, <1>2, <1>5
<1>7. ASSUME NEW c \in Ctx
      PROVE  \/ TornDown(I)[c] = ctx[c]
             \/ TornDown(I)[c] = Unused /\ ctx[c].sock = "none"
             \/ /\ TornDown(I)[c].life = "closed"
                /\ TornDown(I)[c].sock = "CLOSING"
                /\ TornDown(I)[c].id = ctx[c].id
                /\ ctx[c].life # "unused"
                /\ ~TornDown(I)[c].timer
  BY <1>1, <1>4
<1>8. QED
  <2>1. \A i \in Id : contexts[i] # NoCtx /\ i \notin I =>
           TornDown(I)[contexts[i]] = ctx[contexts[i]]
    BY <1>3
  <2>2. \A c \in Ctx : \/ TornDown(I)[c] = ctx[c]
                       \/ TornDown(I)[c] = Unused /\ ctx[c].sock = "none"
                       \/ /\ TornDown(I)[c].life = "closed" /\ TornDown(I)[c].sock = "CLOSING"
                          /\ ~TornDown(I)[c].timer
                          /\ TornDown(I)[c].id = ctx[c].id /\ ctx[c].life # "unused"
    BY <1>7, Zenon
  <2>3. QED
    BY <1>6, <2>1, <2>2, Zenon DEF TornKeeps

\* The steps of a socket and of its ctx.
LEMMA SocketStep ==
  ASSUME WorkerInv, NEW c \in Ctx,
         OnUrlResolved(c) \/ OnWsOpen(c) \/ BridgeRegisters(c) \/ OnWsClose(c)
             \/ OnReconnectTimer(c)
  PROVE  WorkerInv'
<1> USE DEF WorkerInv, WorkerTypes, CtxRecord, RegistryIsOpen, ClosedContextsRest,
            OneThingToWaitFor, MappedHasSocket
<1>1. CASE OnUrlResolved(c)
  BY <1>1 DEF OnUrlResolved
<1>2. CASE OnWsOpen(c)
  BY <1>2 DEF OnWsOpen
<1>3. CASE BridgeRegisters(c)
  <2>0. ctx[c].sock = "OPEN"
    BY <1>3 DEF BridgeRegisters
  <2>1. ctx[c].sock = "OPEN" /\ ctx[c].life = "active" /\ ctx[c].id \in Id /\ ~ctx[c].timer
        /\ mapped[ctx[c].id] # c
    BY <2>0
  <2> DEFINE prev == mapped[ctx[c].id]
  <2>2. prev # NoCtx => ctx[prev].sock \in {"REGISTERED", "CLOSING"} /\ ~ctx[prev].timer
    BY <2>1
  <2>3. /\ mapped' = [mapped EXCEPT ![ctx[c].id] = c]
        /\ ctx' = [d \in Ctx |->
               IF d = c THEN [ctx[d] EXCEPT !.sock = "REGISTERED"]
               ELSE IF d = prev THEN [ctx[d] EXCEPT !.sock = "CLOSING"]
               ELSE ctx[d]]
        /\ UNCHANGED contexts
    BY <1>3 DEF BridgeRegisters
  <2> HIDE DEF prev
  <2>4. WorkerTypes'
    BY <2>1, <2>3
  <2>5. QED
    BY <2>1, <2>2, <2>3, <2>4
<1>4. CASE OnWsClose(c)
  <2>0. ctx[c] \in CtxRecord
    OBVIOUS
  <2>1. AfterClose(ctx[c]) \in CtxRecord /\ AfterClose(ctx[c]).sock = "none"
    BY <2>0 DEF AfterClose, Unused
  <2>2. IF ctx[c].life = "closed" THEN AfterClose(ctx[c]) = Unused
        ELSE /\ AfterClose(ctx[c]).life = ctx[c].life
             /\ AfterClose(ctx[c]).id = ctx[c].id
             /\ AfterClose(ctx[c]).timer
    BY DEF AfterClose
  <2>3. /\ ctx' = [ctx EXCEPT ![c] = AfterClose(ctx[c])]
        /\ mapped' = [i \in Id |-> IF mapped[i] = c THEN NoCtx ELSE mapped[i]]
        /\ UNCHANGED contexts
        /\ ctx[c].life \in {"active", "closed"}
    BY <1>4 DEF OnWsClose
  <2>4. QED
    BY <2>1, <2>2, <2>3 DEF Unused
<1>5. CASE OnReconnectTimer(c)
  BY <1>5 DEF OnReconnectTimer
<1>6. QED
  BY <1>1, <1>2, <1>3, <1>4, <1>5

\* A teardown, by itself and followed by a registration.
LEMMA TeardownStep ==
  ASSUME WorkerInv, NEW I \in SUBSET Id, Teardown(I), UNCHANGED mapped
  PROVE  WorkerInv'
<1>1. /\ ctx' = TornDown(I)
      /\ contexts' = [i \in Id |-> IF i \in I THEN NoCtx ELSE contexts[i]]
      /\ UNCHANGED mapped
  BY DEF Teardown
<1>2. TornKeeps(TornDown(I), I)
  BY TornDownContexts
<1>3. WorkerTypes'
  BY <1>1, <1>2 DEF TornKeeps, WorkerInv, WorkerTypes, Unused
<1>4. RegistryIsOpen'
  BY <1>1, <1>2 DEF TornKeeps, WorkerInv, WorkerTypes, RegistryIsOpen
<1>5. ClosedContextsRest' /\ OneThingToWaitFor'
  BY <1>1, <1>2 DEF TornKeeps, WorkerInv, ClosedContextsRest, OneThingToWaitFor, Unused
<1>6. MappedHasSocket'
  BY <1>1, <1>2 DEF TornKeeps, WorkerInv, WorkerTypes, MappedHasSocket
<1>7. QED
  BY <1>3, <1>4, <1>5, <1>6 DEF WorkerInv

LEMMA RegisterStep ==
  ASSUME WorkerInv, NEW D \in SUBSET Id, NEW i \in Id, NEW t \in Tab,
         RegisterContext(D, i, t), UNCHANGED mapped
  PROVE  WorkerInv'
<1> DEFINE new == CHOOSE c \in {c \in Ctx : ctx[c] = Unused} : TRUE
           made == [Unused EXCEPT !.life = "resolving", !.id = i, !.tab = t]
<1>1. new \in Ctx /\ ctx[new] = Unused
  BY DEF RegisterContext
<1>2. /\ ctx' = [TornDown(D \cup {i}) EXCEPT ![new] = made]
      /\ contexts' = [k \in Id |-> IF k \in D \cup {i} THEN NoCtx ELSE contexts[k]]
  BY DEF RegisterContext
<1>3. made \in CtxRecord /\ made.life = "resolving" /\ ~made.timer /\ made.sock = "none"
  BY DEF Unused, CtxRecord
<1> HIDE DEF new, made
<1>4. \A k \in Id : contexts[k] # new /\ mapped[k] # new
  BY <1>1 DEF WorkerInv, RegistryIsOpen, MappedHasSocket, Unused
<1>5. TornKeeps(TornDown(D \cup {i}), D \cup {i})
  BY TornDownContexts
<1>6. made.id = i
  BY DEF made, Unused
<1>7. WorkerTypes'
  BY <1>1, <1>2, <1>3, <1>5, <1>6 DEF TornKeeps, WorkerInv, WorkerTypes, Unused
<1>8. \A c \in Ctx : ctx'[c] = IF c = new THEN made ELSE TornDown(D \cup {i})[c]
  BY <1>1, <1>2, <1>5 DEF TornKeeps
<1> DEFINE after == TornDown(D \cup {i})
<1>9. TornKeeps(after, D \cup {i})
  BY <1>5
<1> HIDE DEF after
<1>10. \A c \in Ctx : ctx'[c] = IF c = new THEN made ELSE after[c]
  BY <1>8 DEF after
<1>11. RegistryIsOpen'
  <2>1. SUFFICES ASSUME NEW k \in Id, contexts'[k] # NoCtx
                 PROVE  ctx'[contexts'[k]].life = "active" /\ ctx'[contexts'[k]].id = k
    BY DEF RegistryIsOpen
  <2>2. k \notin D \cup {i} /\ contexts'[k] = contexts[k] /\ contexts[k] \in Ctx
    BY <1>2, <2>1 DEF WorkerInv, WorkerTypes
  <2>3. ctx'[contexts[k]] = ctx[contexts[k]]
    BY <1>4, <1>9, <1>10, <2>2 DEF TornKeeps
  <2>4. QED
    BY <2>2, <2>3 DEF WorkerInv, RegistryIsOpen
<1>12. ClosedContextsRest' /\ OneThingToWaitFor'
  BY <1>3, <1>9, <1>10
     DEF TornKeeps, WorkerInv, ClosedContextsRest, OneThingToWaitFor, Unused
<1>13. MappedHasSocket'
  BY <1>1, <1>4, <1>9, <1>10 DEF TornKeeps, WorkerInv, WorkerTypes, MappedHasSocket
<1>14. QED
  BY <1>7, <1>11, <1>12, <1>13 DEF WorkerInv

-----------------------------------------------------------------------------
\* The steps of a page.
LEMMA PortIds ==
  ASSUME PageTypes, NEW p \in Page
  PROVE  {ports[p][n] : n \in 1..Len(ports[p])} \in SUBSET Id
BY DEF PageTypes

\* What a connect makes of the ports.
LEMMA ConnectPorts ==
  ASSUME PageTypes, NEW p \in Page, NEW D, NEW i \in Id, Connect(p, D, i),
         D # {} => ports[p] # <<>>
  PROVE  ports' \in [Page -> Seq(Id)] /\ \A q \in Page : q # p => ports'[q] = ports[q]
<1> DEFINE old == IF D = {} THEN ports[p] ELSE SubSeq(ports[p], 1, Len(ports[p]) - 1)
<1>1. old \in Seq(Id)
  <2>1. ports[p] \in Seq(Id) /\ Len(ports[p]) \in Nat
    BY LenProperties DEF PageTypes
  <2>2. CASE D = {}
    BY <2>1, <2>2
  <2>3. CASE D # {}
    <3>1. Len(ports[p]) >= 1
      BY <2>1, <2>3, EmptySeq, LenProperties
    <3>2. SubSeq(ports[p], 1, Len(ports[p]) - 1) \in Seq(Id)
      BY <2>1, <3>1, SubSeqProperties
    <3>3. QED
      BY <2>3, <3>2
  <2>4. QED
    BY <2>2, <2>3
<1>2. ports' = [ports EXCEPT ![p] = Append(old, i)]
  BY DEF Connect
<1> HIDE DEF old
<1>3. Append(old, i) \in Seq(Id)
  BY <1>1, AppendProperties
<1>4. QED
  BY <1>2, <1>3 DEF PageTypes

LEMMA ConnectWorker ==
  ASSUME WorkerInv, NEW p \in Page, NEW D \in SUBSET Id, NEW i \in Id, Connect(p, D, i),
         UNCHANGED mapped
  PROVE  WorkerInv'
<1>1. TabOf[p] \in Tab
  OBVIOUS
<1>2. QED
  BY <1>1, RegisterStep DEF Connect

LEMMA PageStep ==
  ASSUME RelayInv, NEW p \in Page,
         PageLoads(p) \/ OnConnectTimer(p) \/ ClearChat(p) \/ PageGoes(p)
  PROVE  RelayInv'
<1> USE DEF RelayInv
<1>1. CASE PageLoads(p)
  <2>1. Connect(p, {}, stored) /\ stored \in Id
    BY <1>1 DEF PageLoads, PageTypes
  <2>2. ports' \in [Page -> Seq(Id)] /\ \A q \in Page : q # p => ports'[q] = ports[q]
    BY <2>1, ConnectPorts
  <2>3. PageTypes'
    <3>1. /\ page' = [page EXCEPT ![p] = "open"]
          /\ contextId' = [contextId EXCEPT ![p] = stored]
          /\ UNCHANGED <<stored, fresh, reconnects>>
      BY <1>1 DEF PageLoads
    <3>2. \A q \in Page : page'[q] = "none" => q # p /\ page[q] = "none"
      BY <3>1 DEF PageTypes
    <3>3. \A q \in Page : page'[q] # "none" => contextId'[q] \in Id
      BY <2>1, <3>1 DEF PageTypes
    <3>4. page' \in [Page -> {"none", "open", "gone"}] /\ contextId' \in [Page -> Id \cup {NoId}]
      BY <2>1, <3>1 DEF PageTypes
    <3>5. QED
      BY <2>2, <3>1, <3>2, <3>3, <3>4 DEF PageTypes
  <2>4. WorkerInv'
    BY <1>1, <2>1, ConnectWorker DEF PageLoads
  <2>5. QED
    BY <2>3, <2>4
<1>2. CASE OnConnectTimer(p)
  <2>1. Connect(p, {}, contextId[p]) /\ contextId[p] \in Id /\ page[p] # "none"
    BY <1>2 DEF OnConnectTimer, PageTypes
  <2>2. ports' \in [Page -> Seq(Id)] /\ \A q \in Page : q # p => ports'[q] = ports[q]
    BY <2>1, ConnectPorts
  <2>3. PageTypes'
    <3>1. /\ reconnects[p] > 0
          /\ reconnects' = [reconnects EXCEPT ![p] = @ - 1]
          /\ UNCHANGED <<page, contextId, stored, fresh>>
      BY <1>2 DEF OnConnectTimer
    <3>2. reconnects' \in [Page -> Nat]
      BY <3>1 DEF PageTypes
    <3>3. \A q \in Page : page'[q] = "none" => ports'[q] = <<>> /\ reconnects'[q] = 0
      <4>1. \A q \in Page : page'[q] = "none" => q # p /\ reconnects'[q] = reconnects[q]
        BY <2>1, <3>1 DEF PageTypes
      <4>2. QED
        BY <2>2, <3>1, <4>1 DEF PageTypes
    <3>4. QED
      BY <2>2, <3>1, <3>2, <3>3 DEF PageTypes
  <2>4. WorkerInv'
    BY <1>2, <2>1, ConnectWorker DEF OnConnectTimer
  <2>5. QED
    BY <2>3, <2>4
<1>3. CASE ClearChat(p)
  <2> DEFINE D == IF ports[p] = <<>> THEN {} ELSE {ports[p][Len(ports[p])]}
  <2>1. PICK i \in fresh : /\ fresh' = fresh \ {i}
                          /\ contextId' = [contextId EXCEPT ![p] = i]
                          /\ stored' = i
                          /\ Connect(p, D, i)
    BY <1>3 DEF ClearChat
  <2>2. page[p] = "open" /\ UNCHANGED <<page, reconnects, mapped>> /\ i \in Id
    BY <1>3 DEF ClearChat, PageTypes
  <2>3. D \in SUBSET Id /\ (D # {} => ports[p] # <<>>)
    <3>1. CASE ports[p] # <<>>
      <4>1. ports[p] \in Seq(Id) /\ Len(ports[p]) \in 1..Len(ports[p])
        BY <3>1, EmptySeq, LenProperties DEF PageTypes
      <4>2. ports[p][Len(ports[p])] \in Id
        BY <4>1, ElementOfSeq
      <4>3. QED
        BY <3>1, <4>2
    <3>2. QED
      BY <3>1
  <2> HIDE DEF D
  <2>4. ports' \in [Page -> Seq(Id)] /\ \A q \in Page : q # p => ports'[q] = ports[q]
    BY <2>1, <2>2, <2>3, ConnectPorts
  <2>5. PageTypes'
    BY <2>1, <2>2, <2>4 DEF PageTypes
  <2>6. WorkerInv'
    BY <2>1, <2>2, <2>3, ConnectWorker
  <2>7. QED
    BY <2>5, <2>6
<1>4. CASE PageGoes(p)
  <2>1. WorkerInv'
    BY <1>4, PortIds, TeardownStep DEF PageGoes
  <2>2. <<>> \in Seq(Id)
    OBVIOUS
  <2>3. PageTypes'
    BY <1>4, <2>2 DEF PageGoes, PageTypes
  <2>4. QED
    BY <2>1, <2>3
<1>5. QED
  BY <1>1, <1>2, <1>3, <1>4

\* The end of the worker.
LEMMA StopStep == RelayInv /\ WorkerStops => RelayInv'
<1> SUFFICES ASSUME RelayInv, WorkerStops PROVE RelayInv'
  OBVIOUS
<1> USE DEF RelayInv, WorkerStops
<1>1. PageTypes'
  <2>1. \A p \in Page : Len(ports[p]) \in Nat /\ (ports[p] = <<>> => Len(ports[p]) = 0)
    BY LenProperties DEF PageTypes
  <2>2. <<>> \in Seq(Id)
    OBVIOUS
  <2>3. reconnects' \in [Page -> Nat]
    BY <2>1 DEF PageTypes
  <2>4. QED
    BY <2>1, <2>2, <2>3 DEF PageTypes
<1>2. WorkerInv'
  BY DEF WorkerInv, WorkerTypes, CtxRecord, RegistryIsOpen, ClosedContextsRest,
         OneThingToWaitFor, MappedHasSocket, Unused
<1>3. QED
  BY <1>1, <1>2

LEMMA StepKeepsRelayInv == RelayInv /\ [Next]_vars => RelayInv'
<1> SUFFICES ASSUME RelayInv, [Next]_vars PROVE RelayInv'
  OBVIOUS
<1>1. ASSUME NEW p \in Page,
             PageLoads(p) \/ OnConnectTimer(p) \/ ClearChat(p) \/ PageGoes(p)
      PROVE  RelayInv'
  BY <1>1, PageStep
<1>2. ASSUME NEW c \in Ctx,
             OnUrlResolved(c) \/ OnWsOpen(c) \/ BridgeRegisters(c) \/ OnWsClose(c)
                 \/ OnReconnectTimer(c)
      PROVE  RelayInv'
  <2>1. UNCHANGED pageVars
    BY <1>2 DEF OnUrlResolved, OnWsOpen, BridgeRegisters, OnWsClose, OnReconnectTimer
  <2>2. WorkerInv'
    BY <1>2, SocketStep DEF RelayInv
  <2>3. PageTypes'
    BY <2>1 DEF pageVars, PageTypes, RelayInv
  <2>4. QED
    BY <2>2, <2>3 DEF RelayInv
<1>3. CASE WorkerStops
  BY <1>3, StopStep
<1>4. CASE UNCHANGED vars
  BY <1>4 DEF vars, pageVars, workerVars, RelayInv, PageTypes, WorkerInv, WorkerTypes,
     RegistryIsOpen, ClosedContextsRest, OneThingToWaitFor, MappedHasSocket
<1>5. QED
  BY <1>1, <1>2, <1>3, <1>4 DEF Next

-----------------------------------------------------------------------------
\* The state of pages, worker and bridge is always as RelayTypeOK says.
THEOREM RelayTypeCorrect == Spec => []RelayTypeOK
<1>1. RelayInv => RelayTypeOK
  BY DEF RelayInv, PageTypes, WorkerInv, WorkerTypes, RelayTypeOK
<1>2. QED
  BY <1>1, InitRelay, StepKeepsRelayInv, PTL DEF Spec

\* Whatever stops, reloads and clears come between the two halves of a
\* registration, the worker's map names contexts that are alive, under their id;
\* each of them has a socket or a timer that will make one, and one only; and no
\* event or timer under way revives a context that was torn down.
THEOREM ContextsStaySound == Spec => []ContextsAreSound
<1>1. RelayInv => ContextsAreSound
  BY DEF RelayInv, WorkerInv, ContextsAreSound
<1>2. QED
  BY <1>1, InitRelay, StepKeepsRelayInv, PTL DEF Spec
=============================================================================

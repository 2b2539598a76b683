# BuildMate: a TLA+ verification project

BuildMate helps a customer put a PC together on `phongvu.vn/buildpc`. A chat in a
Chrome extension is relayed to an OpenClaw agent; the agent reads and changes the
build in the customer's tab through MCP tools, and checks it with a compiler of
compatibility rules. The parts run in four processes and two browser worlds and
talk over HTTP, WebSockets, ports and the DOM. This directory models the parts
that carry state between those events, checks them with TLC and proves the central
properties with TLAPS.

Paths in this file are relative to `src/`; `chat-backend/` stands for
`packages/chat-backend/src/`, `extension/` for `apps/chrome-extension/`.

## The system

```
 panel ─ content script ─ port ─ service worker ─ WebSocket ─┐
   │          │                                              │
   │       DOM adapter ─ the shop's page            DOM bridge (dom-bridge.ts)
   │                                                         │ POST /dom-commands
   └── POST /chat ── chat endpoint (http-server.ts)      MCP server ── OpenClaw agent
                          │                                                │
                     gateway client (gateway-client.ts) ── WebSocket ── OpenClaw gateway
```

| component | state | operations | what makes it correct |
|---|---|---|---|
| gateway client `chat-backend/gateway-client.ts` | connection state, socket, handshake request, reconnect timer, two maps of pending requests | `connect`, `close`, `sendChat`; socket open, message, close; reply and reconnect timers | every `sendChat` settles once, with an event of its own session; one attempt to connect at a time, for ever; nothing replayed |
| chat endpoint `chat-backend/http-server.ts` | per request: stream started, caller gone | `POST /chat`, `GET /healthz`; chunk, settle and close callbacks | one well-formed answer per request, silence after the caller has left |
| DOM bridge `chat-backend/dom-bridge.ts` | `context_id -> socket`, pending commands with TTL | upgrade, `dom.register`, `dom.result`, `dom.ping`, close, `POST /dom-commands`, `close()` | the last registration of a tab is the one that gets its commands; one truthful answer per command, in bounded time |
| device identity `chat-backend/device-auth.ts`, `config.ts` | none | key from seed, sign, read the environment | deterministic identity |
| service worker `extension/background.js` | per context: socket, reconnect timer, closed flag | port connect, REGISTER, HEARTBEAT, disconnect; socket events | one socket per tab, and none for a tab that is gone |
| content script `extension/content-script.js` | context id, port, heartbeat, `actionInFlight`, abort controller of the chat | DOM commands, chat, clear chat, page hide | one page action at a time; a new chat is a new context |
| DOM adapter `extension/dom-adapter.js` | none of its own; the page | `addComponent`, `removeComponent`, `setQuantity`, `readBuild` | changes exactly the component asked for, replaces none unasked, answers what the page shows |
| panel and chat stream `extension/panel.js`, `shared/chat-stream.js`, chat call of `content-script.js` | messages, dots, generation of the conversation, the turn the abort controller belongs to; per turn the merged text and a frame asked for | ask, clear, change language, reload; storage answers, chunks, frames, end and failure of a stream; suggestions | an answer appears once, whole, and in the conversation it was asked in; one request under way; the form comes back |
| compiler and repair `packages/compiler/src` | none; build, findings and plan are the agent's | `validate`, `repairBuild`; tools `compile_build`, `detect_errors`, `repair_build` | a build is called valid exactly if its parts go together; repairs undo neither each other nor what was well, and come to an end |
| catalog search `packages/catalog/src/search.ts`, `data-loader.ts` | a cache of files for the life of the process; per search what was gathered before an `await` | `searchComponents`, `searchComponentsMock`, live fetch with timeout and fallback | the label of an answer is true, answers do not change within a life, each search ends |
| catalog acquisition `packages/catalog/scripts`, `phongvu-*.ts`, `apify/` | the script's listing, workers and results; the snapshot files | pages, details, saving; three mappings from a product to a component | a saved file has each place of the listings once, in order, with all that the rules read, in their words |
| MCP server `packages/buildpc-mcp-server/src` | none (one server per request) | seven tools | passes on what bridge, compiler and catalog say |

They interact by calls (endpoint to client, MCP server to bridge), callbacks (the
promise of `sendChat`, `onChunk`), messages (the two WebSockets, ports) and the
shared page, which the customer changes as well. Hard are: events of runs the client
has given up on; timers racing with answers; sockets that close late or are
replaced; callers that leave; a page that changes between a check and a click;
shutdown with everything still under way; frames and awaits that outlive the conversation
they were begun in; repairs planned together and carried out one by one, while the customer
changes the build; files that are read while they are written. `PROJECT.json` lists these hazards at
their lines, with the properties that watch them.

## Modules

| module | models | state and actions in terms of the code |
|---|---|---|
| `GatewayClient` | `gateway-client.ts`, `index.ts` | one variable per field of the class; maps are sets of keys (`pendingByReqId`, with `ahead` for the insertion order `findPending` walks in) or functions (`pendingByRunId`). One action per handler: `OnOpen`, `OnClose`, `OnChallenge`, `OnHelloOk`, `OnConnectError`, `OnAck`, `OnSendError`, `OnChatChunk`, `OnChatEnd`, `OnReplyTimeout`, `OnReconnectTimer`, `SendChat`, `Close`. Helpers (`Evict`, `SettleReject`, `RejectAllPending`, `FindPending`, `OpenSocket`) carry the names of the methods. The gateway (`link`, `admission`, `toGateway`, `ackDue`, `run`) is external: it may be silent, slow, drop connections, and runs of other clients may send events for the same session. |
| `ChatHttp` | `http-server.ts`, on top of `GatewayClient` | `sent` is what a response has written; `streamStarted` and `clientGone` are the closure's variables. `Respond` is the `then`/`catch` continuation, a step of its own after the promise has settled. |
| `ChatExchange` | the promise of `POST /chat` | abstract; `ChatHttp!ExchangeKept` is the refinement |
| `DomBridge` | `dom-bridge.ts`, `index.ts` shutdown | `sockets`, `pending` as in the class; `conn` is `readyState`, `registered` the closure's `contextId`. Actions: `Open`, `Register`, `OnClose`, `Dispatch`, `OnResult`, `OnTimeout`, `Close`, `Exit`. The tab is external: it may never answer, answer late, or go away at any moment. |
| `DomCommand` | the promise of `POST /dom-commands` | abstract; `DomBridge!CommandKept` is the refinement |
| `DomRelay` | `background.js`, the ports of `content-script.js` | `contexts` is the worker's map, `ctx` the objects behind it, alive or orphaned; `ports`, `reconnects`, `contextId`, `stored` (localStorage) are the pages'. `RegisterContext` ends at the `await` of `resolveUrl`, `OnUrlResolved` goes on from there; `Connect`, `ClearChat`, `PageGoes`, `OnConnectTimer` are the content script's, `OnWsOpen`, `OnWsClose`, `OnReconnectTimer`, `Teardown` the worker's. `WorkerStops` is Chrome's. `BridgeRegisters` is `DomBridge!Register`, with both ends of a socket in one state. |
| `DomAdapter` | `dom-adapter.js`, `executeAdd`/`executeRemove` of `content-script.js` | `row`, `open`, `currentCategory`, `loaded` are the page: the mock BuildPC page of `tools/dom-bridge-simulator.mjs`, which may also load a list late, react to a click late or ignore it. `CustomerMoves` uses it too. `actionInFlight` is the content script's; `stage` is the `await` a command stands at. `StartAdd` and `StartRemove` end at the first one; `OnFound` and `OnTimeout` are what follows a `waitFor` that found or did not; `SetQuantityFrom` is the loop of `setQuantity`, `End` the `finally`. `before` and `disturbed` are history: the rows when the action began, and whether anyone else has used the page since. |
| `BuildCompiler` | `packages/compiler/src`: all rules, `validate`, `repairBuild` | no state. A build is a set of components, which have those attributes that are neither undefined nor null; findings are a set. `Check...` are the rules, `FixesFor` the repairs of a finding, `Apply` what carrying out a fix means in the package's tests. |
| `RepairLoop` | the tools `compile_build`, `detect_errors`, `repair_build` and the agent that uses them, on `BuildCompiler` | `build` is what is in the tab; `errors`, `plan` and `repaired` are the agent's, since the server keeps nothing between calls. The agent carries out any fix of any finding in any order; `CustomerMoves` changes the build meanwhile. |
| `ChatPanel` | `panel.js`, `onChatMessage` and `clearChat` of `content-script.js`, `shared/chat-stream.js`, `createBridgeAdapter` | one action per task of the page: `Send` up to its `await`, `Fetch` after it, `Delta`, `Final`, `Frame`, `End`, `Fail`, `StorageFails` of a turn; `ClearChat`, `ToggleLanguage`, `Reload`, `Suggest`. `turns` are the calls of `sendChatMessage` with their local variables. The backend is external: it streams tokens or cumulative texts, ends with or without a done event, or fails. |
| `CatalogMapping` | `phongvu-detail.ts`, `phongvu-transformer.ts`, `apify/mapper.ts`, `mock-data.ts`, the predicates of `filter.ts`, `form-factor.ts` and `search.ts` | no state. A product is what the three sources state of it; regular expressions and attribute codes are tables of the forms they find. |
| `Catalog` | `fetch-phongvu-catalog.ts`, `data-loader.ts`, `search.ts`, on `CatalogMapping` | `job` is the script with its page, workers and results, `files` the directory `data/`, `cache` is `CATALOG_CACHE`, `searches` holds the locals of each call of `searchComponents`, which goes on at `FetchEnds` after each `await`. `Truncate` and `Write` are the two halves of `writeFileSync` as another process sees it. The shop and the scraper are external. |
| `GatewayClientProofs`, `ChatHttpProofs`, `DomBridgeProofs`, `DomRelayProofs`, `DomAdapterProofs`, `RepairLoopProofs`, `ChatPanelProofs`, `CatalogProofs` | theorems | see below |
| `MCGatewayClient`, `MCChatHttp`, `MCDomBridge`, `MCDomRelay`, `MCDomAdapter`, `MCRepairLoop`, `MCChatPanel`, `MCCatalog` | instances for TLC | |

An action is a whole handler: JavaScript runs a callback to its end. Where a
promise continuation reads state that other callbacks may change in between, it is
an action of its own (`Respond`); where it reads none (`result.then` in the bridge), it is
part of the step that resolves.

Operators named in comments as mutants (`EvictKeepsRun`, `LeaveFrame`, ...) are plausible
bugs of the operator that follows them; they are part of no specification. Each property
is known to fail once the operator is exchanged for its mutant.

## Runs

| run | instance | shows |
|---|---|---|
| `gateway_client` | 2 requests of one session, 1 foreign run of another session | the table of requests is exact (`RequestTableIsExact`: pending is waiting, the two maps agree, an event finds one request), nothing crosses sessions, the connection is consistent (`ConnectionIsConsistent`: nothing pending without a live socket, `ready` earned on this connection, `close()` final, always something to wait for), settled requests stay settled, nothing is replayed; every request settles by the client's timers alone; the client reaches `ready` again after any number of disconnects |
| `gateway_reply_mixup` | 2 requests of one session | **violated**: a late final of a timed-out run answers the session's next request |
| `chat_http` | 2 requests of one session, 1 partial text each | `POST /chat` implements `ChatExchange`; streams are well formed; each exchange ends |
| `dom_bridge` | 2 connections of one tab, 1 of another, 2 commands | the socket map is exact (`SocketMapIsExact`: it is live and names the last registration), the bridge implements `DomCommand`, every command is answered within its TTL, close() reaches every registered socket |
| `dom_relay` | 2 page loads in one tab, 3 context ids, 3 ctx objects alive at a time | `ContextsAreSound`: the worker's map names live contexts under their own id, teardown is final, a live context has a socket or a timer and not both; a page that stays gets back on line |
| `dom_relay_overlap` | the same, 2 context ids | **violated**: two registrations overlap across the `await`, and a context has two sockets |
| `dom_adapter` | 2 adds, 1 removal; 2 slots, 3 products, quantities to 3, 2 moves of the customer | one action at a time; `ok` means exactly what was asked for and a refusal means nothing, on a page left alone; every action ends, whatever page and customer do |
| `dom_adapter_success` | the same, 3 moves | **violated**: an empty row reads as quantity 1, so an add may answer `ok` for a product that is gone |
| `repair_loop` | 32 builds with one fault or two that meet, 1 move of the customer | `is_valid` is exactly compatibility; what is repaired stays repaired, but for RAM that no generation fits, and brings up nothing new; for each finding that can be repaired, repairing comes to an end |
| `repair_contract` | the same | **violated**: a fix of E002 need not resolve it |
| `chat_panel` | 2 turns, 1 clearing, change of language or reload, 1 suggestion; the answer is two equal tokens | answers stay in their conversation and are shown once and whole; one request under way; the dots go away |
| `catalog` | 5 shops with all eight types between them, 6 searches, 2 in a row, 1 restart, 1 fetch; pages of 2, 2 workers | saved files are sound however pages and details end; answers and labels are sound in each mode; searches end |

**Bounds.** Requests, connections and commands are used once (their ids are fresh
UUIDs), so the size of their sets bounds a behaviour; disconnects, reconnects and timer
firings are not bounded. Two requests of one session are the
least at which order in the map and session fallback matter; the foreign run, of another session, stands for
any event the client did not ask for and is what could cross; events of the requests' own session
that no registered run claims come from a run whose request has timed out. The theorems are for any requests,
sessions and foreign runs. Two connections of one tab are
the least at which replacement and late close events meet. `MaxChunks` bounds the
partial texts per response: one before and one after the head are all that the
properties tell apart. In `DomRelay` the two pages are a reload in one tab, two of the three ids are what two clears draw, and three ctx objects are one more than
overlapping registrations need; the worker may stop, and connections may break, at any
time and any number of times. In `DomAdapter` one slot has two products, so that one can stand in the
other's way; the other slot lets a modal be open for the wrong category; quantity 2 of 3 can be
reached from both sides; and two moves (`MaxMoves`) let the customer choose a product and
change it again, three do so while an action waits. In `RepairLoop` each start differs from a
sound build, with its PSU at the limit, in one part or in two that a rule relates: a fault in each
attribute, a missing part, no common generation, an empty list, an empty name, a second stick. One move of the customer
(`MaxMoves`) comes between any two calls or repairs. In `ChatPanel` two turns are the
least that overlap, two epochs (the one that is and the one after it) the least that an answer can
stray between, and two equal tokens the case in which a token can be taken for a cumulative text.
In `Catalog` a page of two makes a listing of three end in a short second page and leaves the two
workers a product to share; the products of `MCCatalog` lack a price, an attribute the
mapping cannot do without, or a stock level, each in one of the sources. Eight types at once would only
multiply the order of independent loops, so a shop has one type or two. The proofs do away with these bounds for the safety properties.

**Deadlock** checking is off: a client that is closed, or a process that has exited, stops.

**Fairness.** `TimersFire` is weak fairness of `setTimeout` callbacks. `NetworkWorks`, for
the reconnect property only, is strong fairness of the gateway's side of the handshake:
connections may break any number of times but not always before the handshake is
through; and a closing socket closes, which `ws` enforces with a timer. `HttpFairSpec` adds that
microtasks run and asks nothing of the gateway. `LiveSpec` of the bridge has its timers,
the reading of bodies, the registration a tab sends on `open` and the closing handshake;
tabs and callers owe nothing. `LiveSpec` of
`DomRelay` has the timers, the `await`, the handshakes and the closing of sockets, and
assumes that interruptions (a worker stopped, a connection lost) come to an end: without
that a tab need not ever be on line. Two contexts that replace each other's sockets are not
an interruption and may go on for ever. `LiveSpec` of `DomAdapter` is weak fairness of the adapter's
polls: `setInterval` runs until its check holds or its time is over, so a wait always
goes on; page and customer owe nothing. `LiveSpec` of `RepairLoop` is an agent that goes on
asking (weak fairness) and, if it is offered repairs of one kind of finding again and again, sooner or later
carries one out (strong fairness per code, since asking anew replaces the plan). That is assumed of the agent,
not of the code: RAM that nothing fits is offered a useless repair for ever, and an agent that
does nothing but follow it gets nowhere. The customer's moves are bounded, or nothing would ever be
compatible for long. `LiveSpec` of `ChatPanel` has the storage answer and the backend end what it
streams (`EveryPostIsAnswered` is the backend's side of it): the extension has no timeout of its own,
so no less will do. `LiveSpec` of `Catalog` is, for each search, the ten-second timer of `fetchType`; that the
scraper ever answers is not assumed. The requests of the
fetching script have no timeout, so that it ends is not claimed.

**Arithmetic.** The code compares a wattage with `total * 1.2` in doubles, and rounds the product
up; the model does both in integers (`5 * wattage < 6 * total`). They agree: at multiples of 5 the product
rounds to the whole number, and elsewhere it is 0.2 or more away from one, far beyond the error.

## Proofs

Checked by TLAPS for every finite or infinite set of requests, sessions, connections,
contexts, commands, turns, answers, builds, offers, products and shops, from the named assumptions on constants (sessions of requests
are sessions, own and foreign runs are distinct, `NoReq` and `NoConn` are no ids; starts and offers are
builds and components with ids of their own; placeholders are among the names; answers are texts; prices are numbers; no product of the shop has a sku of the bundled catalog, nor the one
that marks a scraped component; a shop has some of the eight types, each with
listings that are sequences of products; pages and pools have a size; bounds are numbers).

`GatewayClientProofs` proves `IInv` inductive. The properties do not hold by induction
alone: that a request is in `pendingByReqId` exactly while its promise is open needs the two
maps to agree (`RunIndexIsExact`), since `Settle` and `Evict` are reached through either;
that needs an ack to name the request's own run (`RunIdIsOwn`); `ReadyOnThisConnection`
needs what the link can be in each state of the socket (`LinkNeedsSocket`); and that
`FindPending` returns at most one request needs the map to be a finite linear order
(`InsertionOrder`) – its existence half is a minimum over a finite set. The table's part is
proved per table operation (`EvictKeepsTable`, `RejectAllKeepsTable`, `RegisterKeepsTable`,
`AckKeepsTable`), the connection's part per handler. `TypeCorrect`, `TableIsExact`,
`ConnectionIsSound`, `EventsFindOneRequest` and `SessionsAreSeparate` follow; `SettledIsFinal` and
`NothingIsReplayed` are action properties from the same invariant.

`ChatHttpProofs` adds the responses to that invariant. `ResponseInv` ties what a response has written to where
its call stands: before the call it is refused or not begun, it goes on while there is no answer, and after
the continuation it is over unless its caller had left. A chunk or an answer of the client must
then concern a response that goes on, which is what `PendingIsWaiting` and `EventsFindOneRequest` are for
(`ForwardIsOpen`); a step of the client alone touches no response (`CalmKeeps`, `ClientOnlySettles`).
`ResponsesAreWellFormed` and `SilenceIsKept` follow, and `ExchangeIsKept` proves the refinement
`HttpSpec => ChatExchange!Spec` step by step.

`DomBridgeProofs` splits `BridgeInv` into the map of sockets (`SocketInv`, inductive by
itself) and the commands (`CommandInv`, which needs the first for the socket a command
is written to). `RegistrationsAreExact`, `WaitingCallsAreTimed` and `BridgeTypeCorrect`
follow, and `PromiseIsKept` proves the refinement `Spec => DomCommand!Spec` step by step.

`DomRelayProofs` proves `RelayInv`. `RegistryIsOpen` makes the worker's map injective, so that a
teardown ends one ctx and leaves the others (`TornDownContexts`); `MappedHasSocket` says that what
the bridge maps has a socket that was registered under that id, so that a registration closes
a socket and revives nothing. A registration is then safe although its ctx is in
no map during the `await` (`RegisterStep`). `RelayTypeCorrect` and `ContextsStaySound` follow.

`DomAdapterProofs` proves `AdapterInv`. Its core is `Progress`: for each `await`, what an action has
done so far to a page that is left alone, and which one click is still to be handled.
That it is kept needs mutual exclusion, so that no other command clicks in between
(`CommandIsAlone`), and that products stay in their slots (`RowsFit`), since the check after
a click looks for the product anywhere in the build (`VerifiedRow`). In the quantity loop it
says that the row holds the quantity before the last click or after it (`Counts`), so that a
wait that has found its quantity knows that its click is handled (`CountedRow`). From it follow
`AdapterTypeCorrect`, `OneActionAtATime`, and the action properties `OkIsWhatWasAsked` and
`RefusalsAreHarmless`, for every quantity and every number of slots and products.

`RepairLoopProofs` begins with the rules: one lemma per rule says when it finds no error, and
`ValidIsCompatible` puts them together: for every build, `validate` reports no error exactly if
`Compatible` holds. The point is the missing attributes: each rule gives up at the first one, and the theorem
says that whatever one rule did not come to judge another has reported. `RepairInv` then says that the build is
well formed, that findings name attributes and values a repair can use (`ValidateReports`), and that a
report nothing was done since is `validate` of the build there is (`Fresh`). Its inductive step needs that each fix is
of the type of the attribute it changes (`FixesAreFixes`) and that carrying it out
keeps ids and slots (`ApplyKeepsBuild`), for which parts added by a repair must be known to be bare (`BareIsBare`).
`RepairTypes` and `ReportExact` follow.

What repairs bring about needs `PlanInv` beside it: while nobody else changes the build, a finding still planned for is
still found, with the very fixes that were planned, and one that was repaired is `Settled`. The first half is
`OthersStay`: a fix of one finding leaves all others and their fixes as they were, so the order does
not matter. `Settled` is stronger than "not found": it says that the parts are there and every attribute that the rule
reads is stated and agrees; not being found alone is not inductive, since a rule is also silent about a
part that is missing or an attribute unsaid, which a later repair supplies. `RepairsStay` and
`RepairsBreakNothing` follow, and `RepairsMakeProgress`: each repair is a step down in the lexicographic order of missing
parts, unsaid attributes and findings (`Progress`), by inclusion; only that of RAM which nothing fits is none, and it loses
nothing that the others have reached (`NothingLost`). `RepairsStay` is exact: such RAM, and nothing else, is found again, since
whatever generation it is given, CPU or mainboard lacks it (`HopelessIsFound`). That is why no two repairs can undo each other; what
`RepairsEnd` adds is that the agent goes on.

`ChatPanelProofs` proves `PanelInv`, four conjuncts per turn. `ShownOK` counts bubbles: an open turn has one exactly
if a frame has added it, so that a frame or an end knows whether to add or to change one; it needs `TurnOK`, since a frame
that outlived its stream would add a second one. `ControlOK` says that what is outstanding is the
controller's and of the present session, so that `Abort` leaves nothing outstanding (`AbortDoes`): hence a
question whose storage was slow carries no later session. `TextOK` says what a reply is a beginning of.
`StepKeeps` settles the other turns once and for all: a step of one turn changes neither their bubbles nor their fields.
`PanelTypes`, `ConversationsAreSeparate`, `OneRequestIsOpen` and `AnswersStay` follow.

`CatalogProofs` begins with the mapping: `EveryComponentIsJudgeable` says that, whatever a product's details or text
state, and in which words, the transformers make of it nothing or one component that has all that the rules read, its sizes
in their words. Then the order. `Picked` says that a sequence
is what is left of another when some of it is left out, and `Stem` that components are made of some products in
their order; both survive concatenation (`PickedInTurn`, `MadeInTurn`). `ScriptInv` says of the script what it has in hand: while it
pages, products picked from the listings before and from the pages it has asked for (`Pages`), a failed page being the case
in which more is left out; then products of all listings, and in each place of the results nothing or the component
of the product in that place (`Collected`); and of the workers that none is idle while products are left (`Workers`). That the result is
*in its place* is what makes the invariant inductive whichever request ends first. What a file holds is then a
`Stem` of the listings (`FileOK`), also after an interruption. `SavedFilesAreJudgeable` follows and, with
`ServerInv` for the cache, `CatalogTypes`. `FlattenSeq` of the library recurses over a function: that it has
one and what it adds per step is proved with `Inductive`, an induction whose predicate is a set, which is what the
provers can instantiate.

Then the search. A filter is what `Among` leaves of a sequence (`AmongIs`), and it may be done on the parts
(`AmongConcat`). `SortByPrice` counts what comes before; `EveryPlaceIsTaken` says that this
gives every component a place of its own, an injection of a finite set into itself being onto it; so the sort loses and
invents nothing and is stable, and `SearchIsExact` says what filter and sort return. For the labels, a slice of one
type names its source (`SliceOK`): a file's comes from the shop or from the bundled catalog, never both, and
the assumption on skus makes `Origin` well defined. `AnswersAreSound` is about answers that are complete; the
invariant that carries it, `AnswersInv`, is also about those that still wait: without a scraper, where a search waits
for nothing, what it found is what the cache has of its types (`LocalOK`); with one, each type it has taken is either
scraped or among the failed (`LiveOK`). The first is stable since the cache keeps what it has read (`CacheGrows`),
whatever becomes of the files, and this is what makes an answer agree with its synchronous twin later on
(`TwinsAgree`). `AnswersAreTrue` follows.

Only model-checked: everything about liveness (`EveryRequestSettles`, `ReconnectReachesReady`,
`EveryPostIsAnswered`, `EveryCommandAnswered`, `PageComesOnline`, `EveryActionEnds`, `RepairsEnd`, `TypingEnds`,
`SearchesEnd`), since fairness and ENABLED are out of the prover's reach. Every other property of the passing runs is stated by a theorem.

## Where documents and code part

Four runs are expected to fail, see `findings` in `PROJECT.json`: replies of one session are mixed up after
a timeout (FR-011 of `specs/009-openclaw-chat-backend/spec.md`); a registration does not drop one of the same tab that is
under way; an add can answer `ok` without its product in the build; and a repair of E002 need not resolve it.

The models show, or were made to follow, the code where these say something else:

- **Repairs.** `specs/001-build-compiler-core/contracts/compiler-api.md:128-129`, `data-model.md:159`, FR-008 and SC-002 (`spec.md:91`, `110`)
  promise for each error at least one fix, and that any fix resolves it. If CPU and mainboard have no RAM generation in common,
  the fix of E002 names one that fits only one of them (`repair_contract`); `RepairedIsGone` says that no other fix fails. And
  there is no fix at all for E002 if both lists are empty (or what it would take from them is an empty name), for E001 if a socket is
  an empty name, nor for E005 if the case lists nothing and the part's size is an empty name (`AboutNameless`).
- **Missing TDP.** `specs/001-build-compiler-core/data-model.md:43` and `:109` want E006 for a CPU or GPU without a `tdp`. `rules/psu.ts:12-14`
  leaves it out of the sum, as FR-003 (`spec.md:86`) says; so does `Compatible`.
- **Pairing.** `gateway-client.ts:331-333` and `packages/chat-backend/README.md:50-51` say that the client keeps
  retrying after `PAIRING_REQUIRED`. It returns and arms no timer; only the gateway can end the connection.
- **Shutdown.** `dom-bridge.ts:189`: "Close all sockets and clear timers so the process can exit cleanly". Sockets that
  are not registered are not in the map and not closed (`CloseReachesRegistered` is about the others), and callers of
  dropped commands get no response.
- **One tab, one context.** `docs/dom-executor-bridge-contract.md:27` calls `context_id` a UUID of one open tab. It is
  kept in localStorage, which all tabs of the shop share; `DomRelay` allows for several tabs and its runs have one.
- **One turn at a time.** `apps/chrome-extension/README.md:19` says that the user sends at most one turn at a time. The
  goal buttons send at any time; what holds is that the turn before is aborted (`OneRequestAtATime`).
- **Cumulative streams.** `shared/chat-stream.js:110-114` normalises cumulative texts for the screen, while the reply is the
  concatenation of all chunks. Without a done event, the reply of a cumulative stream repeats itself.
- **Confirming an add.** `buildmate.build.request-add` opens a card (`panel.js:77-78`, `377-379`) whose buttons lead to
  no code that adds anything.
- **Fallback of the catalog.** `packages/catalog/src/config.ts:4-5` falls back to the mock slice "if a file is missing". It does
  so as well for a file that cannot be parsed, and for as long as the process runs. `packages/buildpc-mcp-server/src/http.ts:30`
  calls compiler and catalog pure; the catalog keeps a cache across calls.
- **Search from the bundled catalog.** `packages/catalog/README.md:15`, `43-47`, `92` and `FETCH_GUIDE.md:105` say that `searchComponentsMock`
  uses the mock data alone, and that the same input always has the same output. It calls `loadAllCatalogs` (`search.ts:115-116`) and so
  answers from the saved files, unless the mode is `mock`: its answers change with the files from one life of the process to
  the next. `AnswersAreSound` states what the code does: it answers as `searchComponents` does, and the same for one life.
- **Failed pages.** `FETCH_GUIDE.md:21`: "Automatically retry failed pages". A page that fails ends its listing (`fetch-phongvu-catalog.ts:151-154`), and what
  was fetched until then is saved over what there was. `FETCH_GUIDE.md:20` has the files in `src/data`; they are in `data`.
- **Products in two places.** The script keeps no list of the products it has. One that two listings of a type share, or that moves
  to a later page between two requests, is saved twice. `SavedIsJudgeable` counts places of listings, and the model
  assumes a shop whose listings stay as they are while the script goes through them.
- **Sizes of cases.** `phongvu-transformer.ts:194` says that a case supports its own form factor and every smaller one. From
  a detail answer the form factor is the first of the listed sizes, so a case that lists ITX before ATX is not found by a
  search for ATX. An E-ATX board fits no case: no list ever holds that size.
- **Three mappings.** The list's text turns mATX into ATX; it calls a socket LGA1700 where the detail says 1700; the scraper's
  `MATX` is in no table, so such a case supports no board and such a board fits no case; a scraped cooler may have no height
  (`mapper.ts:143-151`), which the compiler answers with E006, and a scraped price may be 0. `SavedIsJudgeable` is about saved files only. Unknown stock is `in_stock` in the list and `out_of_stock` in what is scraped.
  Mock and scraped RAM and mainboards lack `ram_gen`, so a search by it finds none of them.
- The description of the tool `search_components` does not name the source `phongvu`, the default.

## Not modelled, and what is left

Not modelled: device identity and environment (cryptography and strings); how HTML, markup and translations are made, the snapshot view
and its tracker, and the status line of an action, which follow events one to one; the regular expressions, of which the
tables of `CatalogMapping` are the results for the spellings they name; the mock catalog beyond the first component of each type; a page that returns
from the back/forward cache; `test-console.js`, `dom-probe.js`, the long-poll bridge of the
simulator and the reference client, which are aids for development; containers. In the adapter: how rows, buttons and cards are
recognised in the page, the search by id and the filter labels that are tried while a card is looked for (all part of the stage "finding"),
storage products that fit two slots, and a page that is reloaded while an action waits.

Left to do: a composition of `DomRelay` with the commands of `DomBridge`, in which a result is lost with the socket that is
replaced.

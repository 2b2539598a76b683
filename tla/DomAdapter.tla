----------------------------- MODULE DomAdapter -----------------------------
(***************************************************************************)
(* What a DOM command does to the BuildPC page: executeAdd, executeRemove  *)
(* (content-script.js) and addComponent, removeComponent, setQuantity      *)
(* (dom-adapter.js), step by step from one await to the next, on a page    *)
(* that the customer uses at the same time.                                *)
(*                                                                         *)
(* The page is the mock page of tools/dom-bridge-simulator.mjs: one row    *)
(* per slot and one modal, whose list outlives it.  As the shop's own page *)
(* does, it may load a list late, react to a click late, or not at all.    *)
(* Commands are well formed and name the category of their product, every  *)
(* slot has a row with its buttons, and search and filters only make a     *)
(* list load.                                                              *)
(***************************************************************************)
EXTENDS Naturals, Sequences

CONSTANTS
    Cmd,            \* commands
    Product, Slot,
    SlotOf,         \* the slot of a product
    Asked,          \* what each command asks for
    None,           \* no product, no slot, no revision
    MaxQuantity,    \* the page's own limit
    MaxMoves        \* bound on the customer's moves

CmdRecord == [action : {"add", "remove"}, product : Product,
              quantity : 1..MaxQuantity, replace : BOOLEAN]

ASSUME SlotOfType == SlotOf \in [Product -> Slot]
ASSUME AskedType == Asked \in [Cmd -> CmdRecord]
ASSUME NoneIsNothing == None \notin Product /\ None \notin Slot
ASSUME MaxQuantityType == MaxQuantity \in Nat \ {0}
ASSUME MaxMovesType == MaxMoves \in Nat

VARIABLES
    row,            \* what each slot holds
    open,           \* is the modal visible?
    currentCategory, \* the slot whose list the modal holds
    loaded,         \* is that list there?
    clicks,         \* the adapter's clicks that the page has not handled yet
    moves,          \* the customer's moves so far
    actionInFlight, \* of the content script
    stage,          \* where each command waits
    expected,       \* the quantity that its loop waits for
    answer,         \* its result
    seen,           \* the revision that the agent has read last
    before,         \* history: the rows when the action in flight began,
    disturbed       \* and whether anything else has touched the page since

pageVars    == <<row, open, currentCategory, loaded, moves>>
historyVars == <<before, disturbed>>
vars == <<pageVars, clicks, actionInFlight, stage, expected, answer, seen, historyVars>>

Kept     == [product : Product \cup {None}, qty : 1..MaxQuantity]
Empty    == [product |-> None, qty |-> 1]
Click    == [on : {"open", "close", "select", "increase", "decrease", "remove"},
             slot : Slot \cup {None}, product : Product \cup {None}]
Waiting  == {"opening", "products", "finding", "verifying", "quantity", "removing", "closing"}

\* Failures before anything of the build has been clicked.  NOT_CHOSEN stands for
\* those that close the modal: PRODUCT_LIST_TIMEOUT, PRODUCT_NOT_FOUND,
\* PRODUCT_OUT_OF_STOCK, PRODUCT_BUTTON_NOT_FOUND.
Refusal == {"ACTION_IN_PROGRESS", "COMPONENT_ALREADY_SELECTED", "MODAL_TIMEOUT",
            "NOT_CHOSEN", "REVERT_CONFLICT", "COMPONENT_NOT_SELECTED"}
Timeout == {"VERIFY_TIMEOUT", "QUANTITY_VERIFY_TIMEOUT", "REMOVE_VERIFY_TIMEOUT"}

\* readBuild().revision.
Revision == {<<row[s].product, row[s].qty>> : s \in {s \in Slot : row[s].product # None}}

SlotAsked(c) == SlotOf[Asked[c].product]
InBuild(p)   == \E s \in Slot : row[s].product = p

\* What the adapter finds in the page: the row of a slot, the modal, the first
\* product of its list, the card of the product asked for after search and filters.
RowAsked(c)  == row[SlotAsked(c)]
ModalShown   == open
ListShown    == loaded
CardShown(c) == loaded /\ currentCategory = SlotAsked(c)

AdapterTypeOK ==
    /\ row \in [Slot -> Kept]
    /\ open \in BOOLEAN
    /\ currentCategory \in Slot \cup {None}
    /\ loaded \in BOOLEAN
    /\ clicks \in Seq(Click)
    /\ moves \in 0..MaxMoves
    /\ actionInFlight \in BOOLEAN
    /\ stage \in [Cmd -> {"none", "done"} \cup Waiting]
    /\ expected \in [Cmd -> 0..MaxQuantity]
    /\ answer \in [Cmd -> {"none", "ok"} \cup Refusal \cup Timeout]
    /\ seen \in {None} \cup (SUBSET (Product \X (1..MaxQuantity)))
    /\ before \in [Slot -> Kept]
    /\ disturbed \in BOOLEAN

Init ==
    /\ row = [s \in Slot |-> Empty]
    /\ open = FALSE
    /\ currentCategory = None
    /\ loaded = FALSE
    /\ clicks = <<>>
    /\ moves = 0
    /\ actionInFlight = FALSE
    /\ stage = [c \in Cmd |-> "none"]
    /\ expected = [c \in Cmd |-> 0]
    /\ answer = [c \in Cmd |-> "none"]
    /\ seen = None
    /\ before = row
    /\ disturbed = FALSE

-----------------------------------------------------------------------------
(* The page.                                                               *)

Select(s, p) == row' = [row EXCEPT ![s] = [product |-> p, qty |-> 1]]

SetRowQuantity(s, q) ==
    row' = IF row[s].product # None /\ q \in 1..MaxQuantity THEN [row EXCEPT ![s].qty = q]
           ELSE row

OpenModal(s) ==
    /\ open' = TRUE
    /\ currentCategory' = s
    /\ loaded' = FALSE

\* The page's click handler.
Handle(k) ==
    \/ /\ k.on = "open"
       /\ OpenModal(k.slot)
       /\ UNCHANGED row
    \/ /\ k.on = "close"
       /\ open' = FALSE
       /\ UNCHANGED <<row, currentCategory, loaded>>
    \/ /\ k.on = "select"
       /\ Select(k.slot, k.product)
       /\ open' = FALSE
       /\ UNCHANGED <<currentCategory, loaded>>
    \/ /\ \/ k.on = "increase" /\ SetRowQuantity(k.slot, row[k.slot].qty + 1)
          \/ k.on = "decrease" /\ SetRowQuantity(k.slot, row[k.slot].qty - 1)
          \/ k.on = "remove"   /\ row' = [row EXCEPT ![k.slot] = Empty]
       /\ UNCHANGED <<open, currentCategory, loaded>>

PageHandles ==
    /\ clicks # <<>>
    /\ clicks' = Tail(clicks)
    /\ Handle(Head(clicks)) \/ UNCHANGED <<row, open, currentCategory, loaded>>
    /\ UNCHANGED <<moves, actionInFlight, stage, expected, answer, seen, historyVars>>

PageLoads ==
    /\ open /\ ~loaded
    /\ loaded' = TRUE
    /\ UNCHANGED <<row, open, currentCategory, moves, clicks, actionInFlight, stage, expected,
                   answer, seen, historyVars>>

CustomerMoves ==
    /\ moves < MaxMoves
    /\ moves' = moves + 1
    /\ disturbed' = TRUE
    /\ \/ \E s \in Slot : ~open /\ OpenModal(s) /\ UNCHANGED row
       \/ /\ open
          /\ open' = FALSE
          /\ UNCHANGED <<row, currentCategory, loaded>>
       \/ \E p \in Product :
             /\ open /\ loaded /\ SlotOf[p] = currentCategory
             /\ Select(currentCategory, p)
             /\ open' = FALSE
             /\ UNCHANGED <<currentCategory, loaded>>
       \/ \E s \in Slot :
             /\ row[s].product # None
             /\ \/ row' = [row EXCEPT ![s] = Empty]
                \/ SetRowQuantity(s, row[s].qty + 1)
             /\ UNCHANGED <<open, currentCategory, loaded>>
    /\ UNCHANGED <<clicks, actionInFlight, stage, expected, answer, seen, before>>

-----------------------------------------------------------------------------
(* Steps of an action.                                                     *)

\* Mutant: a failure leaves the flag set.
EndIfOk(c, a) ==
    /\ stage' = [stage EXCEPT ![c] = "done"]
    /\ answer' = [answer EXCEPT ![c] = a]
    /\ actionInFlight' = (a # "ok")

\* The result is sent and the content script is free again.
End(c, a) ==
    /\ stage' = [stage EXCEPT ![c] = "done"]
    /\ answer' = [answer EXCEPT ![c] = a]
    /\ actionInFlight' = FALSE

Await(c, where) ==
    /\ stage' = [stage EXCEPT ![c] = where]
    /\ actionInFlight' = TRUE
    /\ UNCHANGED answer

Clicks(on, s, p) == clicks' = Append(clicks, [on |-> on, slot |-> s, product |-> p])

\* Mutant: the loop always counts up.
ClickQuantityUp(c, q) ==
    /\ expected' = [expected EXCEPT ![c] = q + 1]
    /\ Clicks("increase", SlotAsked(c), None)
    /\ Await(c, "quantity")

\* One click of setQuantity's loop, from quantity q towards the one asked for.
ClickQuantity(c, q) ==
    LET up == q < Asked[c].quantity IN
    /\ expected' = [expected EXCEPT ![c] = IF up THEN q + 1 ELSE q - 1]
    /\ Clicks(IF up THEN "increase" ELSE "decrease", SlotAsked(c), None)
    /\ Await(c, "quantity")

\* Mutant: the loop stops one short.
SetQuantityFromShort(c, q) ==
    \/ /\ q \in {Asked[c].quantity, Asked[c].quantity - 1}
       /\ End(c, "ok")
       /\ UNCHANGED <<expected, clicks>>
    \/ q \notin {Asked[c].quantity, Asked[c].quantity - 1} /\ ClickQuantity(c, q)

\* setQuantity, which ends at once if nothing is to be done, and else clicks.
SetQuantityFrom(c, q) ==
    \/ /\ q = Asked[c].quantity
       /\ End(c, "ok")
       /\ UNCHANGED <<expected, clicks>>
    \/ q # Asked[c].quantity /\ ClickQuantity(c, q)

SetQuantity(c) == SetQuantityFrom(c, RowAsked(c).qty)

\* terminalFailure: the three ways to close a modal count as one click.
FailAndClose(c) ==
    /\ Clicks("close", None, None)
    /\ Await(c, "closing")
    /\ UNCHANGED expected

Started(c, action) ==
    /\ Asked[c].action = action
    /\ stage[c] = "none"
    /\ ~actionInFlight
    /\ before' = row
    /\ disturbed' = (clicks # <<>>)
    /\ UNCHANGED <<pageVars, seen>>

\* executeAdd, executeRemove: one at a time.
Refuse(c) ==
    /\ stage[c] = "none"
    /\ actionInFlight
    /\ stage' = [stage EXCEPT ![c] = "done"]
    /\ answer' = [answer EXCEPT ![c] = "ACTION_IN_PROGRESS"]
    /\ UNCHANGED <<pageVars, clicks, actionInFlight, expected, seen, historyVars>>

\* addComponent up to its first await.
StartAdd(c) ==
    /\ Started(c, "add")
    /\ LET current == RowAsked(c).product IN
       \/ current = Asked[c].product /\ SetQuantity(c)
       \/ /\ current \notin {None, Asked[c].product} /\ ~Asked[c].replace
          /\ End(c, "COMPONENT_ALREADY_SELECTED")
          /\ UNCHANGED <<clicks, expected>>
       \/ /\ current = None \/ (current # Asked[c].product /\ Asked[c].replace)
          /\ IF ModalShown THEN Await(c, "products") /\ UNCHANGED clicks
             ELSE Await(c, "opening") /\ Clicks("open", SlotAsked(c), None)
          /\ UNCHANGED expected

\* What follows a wait in addComponent and closeModal, once its check holds ...
OnFound(c) ==
    \/ /\ stage[c] = "opening" /\ ModalShown
       /\ Await(c, "products")
       /\ UNCHANGED <<clicks, expected>>
    \/ /\ stage[c] = "products" /\ ListShown
       /\ Await(c, "finding")
       /\ UNCHANGED <<clicks, expected>>
    \/ /\ stage[c] = "finding" /\ CardShown(c)
       /\ \/ /\ Clicks("select", currentCategory, Asked[c].product)
             /\ Await(c, "verifying")
             /\ UNCHANGED expected
          \/ FailAndClose(c)
    \/ /\ stage[c] = "verifying" /\ InBuild(Asked[c].product)
       /\ SetQuantity(c)
    \/ /\ stage[c] = "quantity" /\ RowAsked(c).qty = expected[c]
       /\ SetQuantityFrom(c, expected[c])
    \/ /\ stage[c] = "removing" /\ ~InBuild(Asked[c].product)
       /\ End(c, "ok")
       /\ UNCHANGED <<clicks, expected>>
    \/ /\ stage[c] = "closing" /\ ~ModalShown
       /\ End(c, "NOT_CHOSEN")
       /\ UNCHANGED <<clicks, expected>>

\* Mutant: the modal and the verification are waited for without a limit.
OnTimeoutOfLists(c) ==
    /\ \/ stage[c] = "products" /\ ~ListShown
       \/ stage[c] = "finding" /\ ~CardShown(c)
    /\ FailAndClose(c)

\* ... and when it has not held in time.
OnTimeout(c) ==
    \/ /\ \/ stage[c] = "products" /\ ~ListShown
          \/ stage[c] = "finding" /\ ~CardShown(c)
       /\ FailAndClose(c)
    \/ /\ \/ stage[c] = "opening" /\ ~ModalShown /\ End(c, "MODAL_TIMEOUT")
          \/ stage[c] = "verifying" /\ ~InBuild(Asked[c].product) /\ End(c, "VERIFY_TIMEOUT")
          \/ /\ stage[c] = "quantity" /\ RowAsked(c).qty # expected[c]
             /\ End(c, "QUANTITY_VERIFY_TIMEOUT")
          \/ /\ stage[c] = "removing" /\ InBuild(Asked[c].product)
             /\ End(c, "REMOVE_VERIFY_TIMEOUT")
          \/ stage[c] = "closing" /\ ModalShown /\ End(c, "NOT_CHOSEN")
       /\ UNCHANGED <<clicks, expected>>

Continue(c) ==
    /\ OnFound(c) \/ OnTimeout(c)
    /\ UNCHANGED <<pageVars, seen, historyVars>>

\* Mutant: it clicks before it looks at the revision.
StartRemoveEager(c) ==
    /\ Started(c, "remove")
    /\ RowAsked(c).product = Asked[c].product
    /\ Clicks("remove", SlotAsked(c), None)
    /\ IF seen \in {None, Revision} THEN Await(c, "removing") ELSE End(c, "REVERT_CONFLICT")
    /\ UNCHANGED expected

\* removeComponent up to its await.
StartRemove(c) ==
    /\ Started(c, "remove")
    /\ LET current == RowAsked(c).product IN
       \/ /\ seen \notin {None, Revision}
          /\ End(c, "REVERT_CONFLICT")
          /\ UNCHANGED clicks
       \/ /\ seen \in {None, Revision}
          /\ \/ /\ current = Asked[c].product
                /\ Clicks("remove", SlotAsked(c), None)
                /\ Await(c, "removing")
             \/ /\ current = None
                /\ End(c, "COMPONENT_NOT_SELECTED")
                /\ UNCHANGED clicks
             \/ /\ current \notin {None, Asked[c].product}
                /\ End(c, "REVERT_CONFLICT")
                /\ UNCHANGED clicks
    /\ UNCHANGED expected

\* read_build, at any time: the agent takes the revision of the snapshot.
ReadBuild ==
    /\ seen' = Revision
    /\ UNCHANGED <<pageVars, clicks, actionInFlight, stage, expected, answer, historyVars>>

-----------------------------------------------------------------------------
Next ==
    \/ PageHandles \/ PageLoads \/ CustomerMoves \/ ReadBuild
    \/ \E c \in Cmd : StartAdd(c) \/ StartRemove(c) \/ Refuse(c) \/ Continue(c)

Spec == Init /\ [][Next]_vars

\* Timers and polls run.  Page and customer owe nothing.
LiveSpec == Spec /\ \A c \in Cmd : WF_vars(Continue(c))

-----------------------------------------------------------------------------
(* Properties.                                                             *)

\* One action at a time works on the page, and the content script is free once
\* it has ended, whichever way it ended.
ActionIsExclusive ==
    LET inFlight == {c \in Cmd : stage[c] \in Waiting} IN
    /\ actionInFlight <=> inFlight # {}
    /\ \A c, d \in inFlight : c = d

\* Left alone, an action that answers ok has changed what was asked for, to what
\* was asked for, and nothing else; and has replaced nothing unasked.
OkIsExact ==
    [][\A c \in Cmd : answer[c] = "none" /\ answer'[c] = "ok" /\ ~disturbed' =>
          LET s == SlotAsked(c)
              p == Asked[c].product
          IN  IF Asked[c].action = "add"
              THEN /\ row' = [before' EXCEPT ![s] = [product |-> p, qty |-> Asked[c].quantity]]
                   /\ before'[s].product \in {None, p} \/ Asked[c].replace
              ELSE /\ row' = [before' EXCEPT ![s] = Empty]
                   /\ before'[s].product = p]_vars

\* Left alone, an action that is refused has changed nothing of the build, and
\* none of its clicks is going to.
RefusalIsHarmless ==
    [][\A c \in Cmd : answer[c] = "none" /\ answer'[c] \in Refusal \ {"ACTION_IN_PROGRESS"}
                          /\ ~disturbed' =>
          /\ row' = before'
          /\ \A n \in 1..Len(clicks') : clicks'[n].on \in {"open", "close"}]_vars

\* Whatever page and customer do, each action ends and frees the content script.
EveryActionEnds ==
    \A c \in Cmd : stage[c] \in Waiting ~> stage[c] = "done"

\* The contract, "MCP does not count a click as a success unless the SKU is
\* verified in BuildPC": an add that answers ok finds its product in the build.
OkIsInBuild ==
    [][\A c \in Cmd : Asked[c].action = "add" /\ answer[c] = "none" /\ answer'[c] = "ok" =>
          InBuild(Asked[c].product)']_vars
=============================================================================

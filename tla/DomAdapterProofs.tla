-------------------------- MODULE DomAdapterProofs --------------------------
(***************************************************************************)
(* Proofs about DomAdapter, for every set of commands, products and slots: *)
(* actions exclude each other, and what they do to a page that is left     *)
(* alone is what their answer says.                                        *)
(***************************************************************************)
EXTENDS DomAdapter, SequenceTheorems, TLAPS

USE SlotOfType, AskedType, NoneIsNothing, MaxQuantityType, MaxMovesType
USE DEF RowAsked, ModalShown, ListShown, CardShown

\* A product is only ever in its own slot.
RowsFit ==
    /\ \A s \in Slot : row[s].product # None => SlotOf[row[s].product] = s
    /\ \A n \in 1..Len(clicks) :
          /\ clicks[n].on = "select" =>
                clicks[n].product \in Product /\ clicks[n].slot = SlotOf[clicks[n].product]
          /\ clicks[n].on # "close" => clicks[n].slot \in Slot

\* It is alright for command c to put its product where the rows r have what
\* they have.
MayAdd(c, r) == r[SlotAsked(c)].product \in {None, Asked[c].product} \/ Asked[c].replace

\* The rows when the slot of c holds q of its product, and when it is empty.
With(c, q)   == [before EXCEPT ![SlotAsked(c)] = [product |-> Asked[c].product, qty |-> q]]
Without(c)   == [before EXCEPT ![SlotAsked(c)] = Empty]
One(on, s, p) == <<[on |-> on, slot |-> s, product |-> p]>>

\* One step of the quantity loop of c, from q.
Counts(c, q) ==
    \/ /\ expected[c] = q + 1 /\ q + 1 <= Asked[c].quantity
       /\ \/ row = With(c, q) /\ clicks \in {<<>>, One("increase", SlotAsked(c), None)}
          \/ row = With(c, q + 1) /\ clicks = <<>>
    \/ /\ expected[c] = q - 1 /\ q - 1 >= Asked[c].quantity
       /\ \/ row = With(c, q) /\ clicks \in {<<>>, One("decrease", SlotAsked(c), None)}
          \/ row = With(c, q - 1) /\ clicks = <<>>

\* What an action in flight has done so far to a page that is left alone.
Progress(c) ==
    LET s == SlotAsked(c)
        p == Asked[c].product
        adds == Asked[c].action = "add" /\ MayAdd(c, before)
    IN
    /\ stage[c] = "opening" =>
          /\ adds /\ before[s].product # p /\ row = before
          /\ clicks = <<>> \/ (clicks = One("open", s, None) /\ ~open)
    /\ stage[c] \in {"products", "finding"} =>
          adds /\ before[s].product # p /\ row = before /\ clicks = <<>>
    /\ stage[c] = "closing" =>
          adds /\ row = before /\ clicks \in {<<>>, One("close", None, None)}
    /\ stage[c] = "verifying" =>
          /\ adds /\ before[s].product # p
          /\ \/ row = before /\ clicks \in {<<>>, One("select", s, p)}
             \/ row = With(c, 1) /\ clicks = <<>>
    /\ stage[c] = "quantity" => adds /\ \E q \in 1..MaxQuantity : Counts(c, q)
    /\ stage[c] = "removing" =>
          /\ Asked[c].action = "remove" /\ before[s].product = p
          /\ \/ row = before /\ clicks \in {<<>>, One("remove", s, None)}
             \/ row = Without(c) /\ clicks = <<>>

AdapterInv ==
    /\ AdapterTypeOK
    /\ RowsFit
    /\ ActionIsExclusive
    /\ \A c \in Cmd : ~disturbed => Progress(c)

LEMMA InitAdapter == Init => AdapterInv
<1> SUFFICES ASSUME Init PROVE AdapterInv
  OBVIOUS
<1> USE DEF Init
<1>1. AdapterTypeOK
  <2>1. row \in [Slot -> Kept] /\ before \in [Slot -> Kept]
    BY DEF Kept, Empty
  <2>2. clicks \in Seq(Click)
    OBVIOUS
  <2>3. /\ expected \in [Cmd -> 0..MaxQuantity]
        /\ moves \in 0..MaxMoves
    OBVIOUS
  <2>4. /\ stage \in [Cmd -> {"none", "done"} \cup Waiting]
        /\ answer \in [Cmd -> {"none", "ok"} \cup Refusal \cup Timeout]
    OBVIOUS
  <2>5. /\ currentCategory \in Slot \cup {None}
        /\ seen \in {None} \cup (SUBSET (Product \X (1..MaxQuantity)))
    OBVIOUS
  <2>6. /\ open \in BOOLEAN /\ loaded \in BOOLEAN /\ actionInFlight \in BOOLEAN
        /\ disturbed \in BOOLEAN
    OBVIOUS
  <2>7. QED
    BY <2>1, <2>2, <2>3, <2>4, <2>5, <2>6 DEF AdapterTypeOK
<1>2. RowsFit /\ ActionIsExclusive /\ \A c \in Cmd : Progress(c)
  BY DEF RowsFit, Empty, ActionIsExclusive, Waiting, Progress
<1>3. QED
  BY <1>1, <1>2 DEF AdapterInv

LEMMA AskedOf ==
  ASSUME NEW c \in Cmd
  PROVE  /\ Asked[c].product \in Product /\ Asked[c].product # None
         /\ Asked[c].quantity \in 1..MaxQuantity
         /\ Asked[c].replace \in BOOLEAN
         /\ SlotAsked(c) \in Slot
BY DEF CmdRecord, SlotAsked

-----------------------------------------------------------------------------
\* Types.  What a click adds is a Click.
LEMMA ClicksType ==
  ASSUME AdapterTypeOK, NEW on, NEW s, NEW p,
         [on |-> on, slot |-> s, product |-> p] \in Click, Clicks(on, s, p)
  PROVE  clicks' \in Seq(Click)
BY AppendProperties DEF AdapterTypeOK, Clicks

\* What a step of command c may do, whatever it is.
StepTypes ==
    /\ clicks \in Seq(Click)
    /\ actionInFlight \in BOOLEAN
    /\ stage \in [Cmd -> {"none", "done"} \cup Waiting]
    /\ expected \in [Cmd -> 0..MaxQuantity]
    /\ answer \in [Cmd -> {"none", "ok"} \cup Refusal \cup Timeout]

LEMMA SetQuantityType ==
  ASSUME AdapterTypeOK, NEW c \in Cmd, NEW q \in 1..MaxQuantity, SetQuantityFrom(c, q)
  PROVE  StepTypes'
<1> USE AskedOf DEF AdapterTypeOK, StepTypes, SetQuantityFrom
<1>1. CASE q = Asked[c].quantity
  BY <1>1 DEF End
<1>2. CASE q # Asked[c].quantity
  <2>1. ClickQuantity(c, q)
    BY <1>2
  <2>2. expected' \in [Cmd -> 0..MaxQuantity]
    BY <1>2, <2>1 DEF ClickQuantity
  <2>3. clicks' \in Seq(Click)
    <3>1. Clicks(IF q < Asked[c].quantity THEN "increase" ELSE "decrease", SlotAsked(c), None)
      BY <2>1 DEF ClickQuantity
    <3>2. QED
      BY <3>1, ClicksType DEF Click
  <2>4. QED
    BY <2>1, <2>2, <2>3 DEF ClickQuantity, Await, Waiting
<1>3. QED
  BY <1>1, <1>2

LEMMA FailAndCloseType ==
  ASSUME AdapterTypeOK, NEW c \in Cmd, FailAndClose(c)
  PROVE  StepTypes'
<1>1. clicks' \in Seq(Click)
  <2>1. [on |-> "close", slot |-> None, product |-> None] \in Click
    BY DEF Click
  <2>2. QED
    BY <2>1, ClicksType DEF FailAndClose
<1>2. QED
  BY <1>1 DEF FailAndClose, AdapterTypeOK, StepTypes, Await, Waiting

LEMMA CommandType ==
  ASSUME AdapterTypeOK, NEW c \in Cmd,
         StartAdd(c) \/ StartRemove(c) \/ Refuse(c) \/ Continue(c)
  PROVE  AdapterTypeOK'
<1>1. StepTypes' => AdapterTypeOK'
  BY DEF AdapterTypeOK, StepTypes, StartAdd, StartRemove, Started, Refuse, Continue, pageVars,
         historyVars
<1>2. row[SlotAsked(c)].qty \in 1..MaxQuantity /\ expected[c] \in 0..MaxQuantity
  BY AskedOf DEF AdapterTypeOK, Kept
<1>3. CASE StartAdd(c)
  <2>1. CASE SetQuantity(c)
    BY <1>1, <1>2, <2>1, SetQuantityType DEF SetQuantity
  <2>2. CASE End(c, "COMPONENT_ALREADY_SELECTED") /\ UNCHANGED <<clicks, expected>>
    BY <1>1, <2>2 DEF End, AdapterTypeOK, StepTypes, Refusal
  <2>3. CASE Await(c, "products") /\ UNCHANGED <<clicks, expected>>
    BY <1>1, <2>3 DEF Await, AdapterTypeOK, StepTypes, Waiting
  <2>4. CASE Await(c, "opening") /\ Clicks("open", SlotAsked(c), None) /\ UNCHANGED expected
    <3>1. clicks' \in Seq(Click)
      BY <2>4, ClicksType, AskedOf DEF Click
    <3>2. QED
      BY <1>1, <2>4, <3>1 DEF Await, AdapterTypeOK, StepTypes, Waiting
  <2>5. QED
    BY <1>3, <2>1, <2>2, <2>3, <2>4 DEF StartAdd
<1>4. CASE StartRemove(c)
  <2>1. CASE /\ \E a \in {"REVERT_CONFLICT", "COMPONENT_NOT_SELECTED"} : End(c, a)
             /\ UNCHANGED <<clicks, expected>>
    BY <1>1, <2>1 DEF End, AdapterTypeOK, StepTypes, Refusal
  <2>2. CASE Await(c, "removing") /\ Clicks("remove", SlotAsked(c), None) /\ UNCHANGED expected
    <3>1. clicks' \in Seq(Click)
      BY <2>2, ClicksType, AskedOf DEF Click
    <3>2. QED
      BY <1>1, <2>2, <3>1 DEF Await, AdapterTypeOK, StepTypes, Waiting
  <2>3. QED
    BY <1>4, <2>1, <2>2 DEF StartRemove
<1>5. CASE Refuse(c)
  BY <1>5 DEF Refuse, AdapterTypeOK, Refusal, pageVars, historyVars
<1>6. CASE OnFound(c) /\ Continue(c)
  <2>1. CASE /\ \E w \in {"products", "finding"} : Await(c, w)
             /\ UNCHANGED <<clicks, expected>>
    BY <1>1, <2>1 DEF Await, AdapterTypeOK, StepTypes, Waiting
  <2>2. CASE /\ Clicks("select", currentCategory, Asked[c].product)
             /\ Await(c, "verifying")
             /\ UNCHANGED expected
    <3>1. clicks' \in Seq(Click)
      BY <2>2, ClicksType, AskedOf DEF Click, AdapterTypeOK
    <3>2. QED
      BY <1>1, <2>2, <3>1 DEF Await, AdapterTypeOK, StepTypes, Waiting
  <2>3. CASE FailAndClose(c)
    BY <1>1, <2>3, FailAndCloseType
  <2>4. CASE SetQuantity(c)
    BY <1>1, <1>2, <2>4, SetQuantityType DEF SetQuantity
  <2>5. CASE row[SlotAsked(c)].qty = expected[c] /\ SetQuantityFrom(c, expected[c])
    BY <1>1, <1>2, <2>5, SetQuantityType
  <2>6. CASE (\E a \in {"ok", "NOT_CHOSEN"} : End(c, a)) /\ UNCHANGED <<clicks, expected>>
    BY <1>1, <2>6 DEF End, AdapterTypeOK, StepTypes, Refusal
  <2>7. QED
    BY <1>6, <2>1, <2>2, <2>3, <2>4, <2>5, <2>6 DEF OnFound
<1>7. CASE OnTimeout(c) /\ Continue(c)
  <2>1. CASE FailAndClose(c)
    BY <1>1, <2>1, FailAndCloseType
  <2>2. CASE /\ \E a \in {"MODAL_TIMEOUT", "NOT_CHOSEN"} \cup Timeout : End(c, a)
             /\ UNCHANGED <<clicks, expected>>
    <3>1. PICK a \in {"MODAL_TIMEOUT", "NOT_CHOSEN"} \cup Timeout : End(c, a)
      BY <2>2
    <3>2. a \in Refusal \cup Timeout
      BY DEF Refusal
    <3>3. answer' = [answer EXCEPT ![c] = a]
      BY <3>1 DEF End
    <3>4. answer' \in [Cmd -> {"none", "ok"} \cup Refusal \cup Timeout]
      BY <3>2, <3>3 DEF AdapterTypeOK
    <3>5. stage' \in [Cmd -> {"none", "done"} \cup Waiting] /\ actionInFlight' \in BOOLEAN
      BY <3>1 DEF End, AdapterTypeOK
    <3>6. StepTypes'
      BY <2>2, <3>4, <3>5 DEF AdapterTypeOK, StepTypes
    <3>7. QED
      BY <1>1, <3>6
  <2>3. QED
    BY <1>7, <2>1, <2>2 DEF OnTimeout, Timeout
<1>8. QED
  BY <1>3, <1>4, <1>5, <1>6, <1>7 DEF Continue

\* The page's side.
LEMMA RowUpdate ==
  ASSUME AdapterTypeOK, NEW s \in Slot
  PROVE  /\ \A p \in Product : Select(s, p) => row' \in [Slot -> Kept]
         /\ SetRowQuantity(s, row[s].qty - 1) => row' \in [Slot -> Kept]
         /\ SetRowQuantity(s, row[s].qty + 1) => row' \in [Slot -> Kept]
         /\ row' = [row EXCEPT ![s] = Empty] => row' \in [Slot -> Kept]
<1> USE DEF AdapterTypeOK, Kept
<1>1. ASSUME NEW x \in Kept PROVE [row EXCEPT ![s] = x] \in [Slot -> Kept]
  OBVIOUS
<1>2. ASSUME NEW q PROVE SetRowQuantity(s, q) => row' \in [Slot -> Kept]
  <2>1. CASE row[s].product # None /\ q \in 1..MaxQuantity
    <3>0. row[s] \in Kept
      OBVIOUS
    <3>1. [row[s] EXCEPT !.qty = q] \in Kept
      BY <2>1, <3>0
    <3>2. [row EXCEPT ![s].qty = q] = [row EXCEPT ![s] = [row[s] EXCEPT !.qty = q]]
      OBVIOUS
    <3>3. QED
      BY <1>1, <2>1, <3>1, <3>2 DEF SetRowQuantity
  <2>2. QED
    BY <2>1 DEF SetRowQuantity
<1>3. Empty \in Kept /\ \A p \in Product : [product |-> p, qty |-> 1] \in Kept
  BY DEF Empty
<1>4. ASSUME NEW p \in Product, Select(s, p) PROVE row' \in [Slot -> Kept]
  BY <1>1, <1>3, <1>4 DEF Select
<1>5. row' = [row EXCEPT ![s] = Empty] => row' \in [Slot -> Kept]
  BY <1>1, <1>3
<1>6. QED
  BY <1>2, <1>4, <1>5

LEMMA HeadOfClicks ==
  ASSUME AdapterTypeOK, clicks # <<>>
  PROVE  Head(clicks) \in Click /\ Tail(clicks) \in Seq(Click)
BY HeadTailProperties DEF AdapterTypeOK

LEMMA PageType ==
  ASSUME AdapterInv, PageHandles \/ PageLoads \/ CustomerMoves \/ ReadBuild
  PROVE  AdapterTypeOK'
<1> USE DEF AdapterInv
<1>1. CASE PageHandles
  <2> DEFINE k == Head(clicks)
  <2>1. k \in Click /\ Tail(clicks) \in Seq(Click) /\ clicks # <<>>
    BY <1>1, HeadOfClicks DEF PageHandles
  <2>2. k = clicks[1] /\ 1 \in 1..Len(clicks)
    BY <2>1, HeadTailProperties, EmptySeq, LenProperties DEF AdapterTypeOK
  <2>3. /\ k.on = "select" => k.product \in Product
        /\ k.on # "close" => k.slot \in Slot
    BY <2>2 DEF RowsFit
  <2> HIDE DEF k
  <2>4. CASE Handle(k)
    <3>1. row' \in [Slot -> Kept]
      BY <2>3, <2>4, RowUpdate DEF Handle, AdapterTypeOK
    <3>2. open' \in BOOLEAN /\ currentCategory' \in Slot \cup {None} /\ loaded' \in BOOLEAN
      BY <2>3, <2>4 DEF Handle, OpenModal, AdapterTypeOK
    <3>3. QED
      BY <1>1, <2>1, <3>1, <3>2 DEF PageHandles, AdapterTypeOK, historyVars, k
  <2>5. CASE UNCHANGED <<row, open, currentCategory, loaded>>
    BY <1>1, <2>1, <2>5 DEF PageHandles, AdapterTypeOK, historyVars, k
  <2>6. QED
    BY <1>1, <2>4, <2>5 DEF PageHandles, k
<1>2. CASE PageLoads
  BY <1>2 DEF PageLoads, AdapterTypeOK, historyVars
<1>3. CASE CustomerMoves
  <2>1. row' \in [Slot -> Kept]
    <3>1. CASE \E p \in Product : SlotOf[p] = currentCategory /\ Select(currentCategory, p)
      BY <3>1, RowUpdate
    <3>2. CASE \E s \in Slot : \/ row' = [row EXCEPT ![s] = Empty]
                             \/ SetRowQuantity(s, row[s].qty + 1)
      BY <3>2, RowUpdate
    <3>3. CASE UNCHANGED row
      BY <3>3 DEF AdapterTypeOK
    <3>4. QED
      BY <1>3, <3>1, <3>2, <3>3 DEF CustomerMoves
  <2>2. open' \in BOOLEAN /\ currentCategory' \in Slot \cup {None} /\ loaded' \in BOOLEAN
    BY <1>3 DEF CustomerMoves, OpenModal, AdapterTypeOK
  <2>3. QED
    BY <1>3, <2>1, <2>2 DEF CustomerMoves, AdapterTypeOK
<1>4. CASE ReadBuild
  <2>1. Revision \in SUBSET (Product \X (1..MaxQuantity))
    <3>1. \A s \in Slot : row[s].product # None =>
             row[s].product \in Product /\ row[s].qty \in 1..MaxQuantity
      BY DEF AdapterTypeOK, Kept
    <3>2. QED
      BY <3>1 DEF Revision
  <2>2. QED
    BY <1>4, <2>1 DEF ReadBuild, AdapterTypeOK, pageVars, historyVars
<1>5. QED
  BY <1>1, <1>2, <1>3, <1>4

-----------------------------------------------------------------------------
\* Products stay in their slots.
LEMMA ClicksFit ==
  ASSUME AdapterTypeOK, RowsFit, NEW on, NEW s, NEW p, Clicks(on, s, p), UNCHANGED row,
         on = "select" => p \in Product /\ s = SlotOf[p],
         on # "close" => s \in Slot
  PROVE  RowsFit'
<1> DEFINE k == [on |-> on, slot |-> s, product |-> p]
<1>1. k.on = on /\ k.slot = s /\ k.product = p /\ clicks' = Append(clicks, k)
  BY DEF Clicks
<1> HIDE DEF k
<1>2. /\ Len(clicks') = Len(clicks) + 1 /\ Len(clicks) \in Nat
      /\ \A n \in 1..Len(clicks) : clicks'[n] = clicks[n]
      /\ clicks'[Len(clicks) + 1] = k
  BY <1>1, AppendProperties, LenProperties DEF AdapterTypeOK
<1>3. ASSUME NEW n \in 1..Len(clicks')
      PROVE  n \in 1..Len(clicks) \/ n = Len(clicks) + 1
  BY <1>2
<1>4. QED
  BY <1>1, <1>2, <1>3 DEF RowsFit

LEMMA SetQuantityFits ==
  ASSUME AdapterTypeOK, RowsFit, NEW c \in Cmd, NEW q, SetQuantityFrom(c, q), UNCHANGED row
  PROVE  RowsFit'
<1>1. CASE UNCHANGED clicks
  BY <1>1 DEF RowsFit
<1>2. CASE \E on \in {"increase", "decrease"} : Clicks(on, SlotAsked(c), None)
  BY <1>2, ClicksFit, AskedOf
<1>3. QED
  BY <1>1, <1>2 DEF SetQuantityFrom, ClickQuantity

LEMMA CommandFits ==
  ASSUME AdapterTypeOK, RowsFit, NEW c \in Cmd,
         StartAdd(c) \/ StartRemove(c) \/ Refuse(c) \/ Continue(c)
  PROVE  RowsFit'
<1>1. UNCHANGED row
  BY DEF StartAdd, StartRemove, Started, Refuse, Continue, pageVars
<1>2. CASE UNCHANGED clicks
  BY <1>1, <1>2 DEF RowsFit
<1>3. CASE \E q : SetQuantityFrom(c, q)
  BY <1>1, <1>3, SetQuantityFits
<1>4. CASE Clicks("open", SlotAsked(c), None) \/ Clicks("remove", SlotAsked(c), None)
           \/ Clicks("close", None, None)
  BY <1>1, <1>4, ClicksFit, AskedOf
<1>5. CASE currentCategory = SlotAsked(c) /\ Clicks("select", currentCategory, Asked[c].product)
  BY <1>1, <1>5, ClicksFit, AskedOf DEF SlotAsked
<1>6. QED
  BY <1>2, <1>3, <1>4, <1>5
     DEF StartAdd, StartRemove, Refuse, Continue, OnFound, OnTimeout, FailAndClose, SetQuantity

LEMMA PageFits ==
  ASSUME AdapterTypeOK, RowsFit, PageHandles \/ PageLoads \/ CustomerMoves \/ ReadBuild
  PROVE  RowsFit'
<1> DEFINE Fits(r) == \A s \in Slot : r[s].product # None => SlotOf[r[s].product] = s
<1>1. Fits(row) /\ row \in [Slot -> Kept]
  BY DEF RowsFit, AdapterTypeOK
<1>2. ASSUME NEW s \in Slot, NEW q, SetRowQuantity(s, q) PROVE Fits(row')
  BY <1>1, <1>2 DEF SetRowQuantity, Kept
<1>3. ASSUME NEW s \in Slot, row' = [row EXCEPT ![s] = Empty] PROVE Fits(row')
  BY <1>1, <1>3 DEF Empty
<1>4. ASSUME NEW p \in Product, Select(SlotOf[p], p) PROVE Fits(row')
  BY <1>1, <1>4 DEF Select
<1> HIDE DEF Fits
<1>5. CASE PageHandles
  <2> DEFINE k == Head(clicks)
  <2>1. clicks # <<>> /\ clicks \in Seq(Click) /\ clicks' = Tail(clicks)
    BY <1>5 DEF PageHandles, AdapterTypeOK
  <2>2. /\ k = clicks[1] /\ 1 \in 1..Len(clicks) /\ Len(clicks) \in Nat
        /\ Len(clicks') = Len(clicks) - 1
        /\ \A n \in 1..Len(clicks') : clicks'[n] = clicks[n + 1]
    BY <2>1, HeadTailProperties, EmptySeq, LenProperties
  <2>3. /\ k.on = "select" => k.product \in Product /\ k.slot = SlotOf[k.product]
        /\ k.on # "close" => k.slot \in Slot
    BY <2>2 DEF RowsFit
  <2>4. Handle(k) \/ UNCHANGED row
    BY <1>5 DEF PageHandles
  <2> HIDE DEF k
  <2>5. Fits(row')
    BY <1>1, <1>2, <1>3, <1>4, <2>3, <2>4 DEF Handle
  <2>6. \A n \in 1..Len(clicks') : n + 1 \in 1..Len(clicks)
    BY <2>2
  <2>7. QED
    BY <2>2, <2>5, <2>6 DEF RowsFit, Fits
<1>6. CASE CustomerMoves
  <2>1. Fits(row')
    <3>1. CASE \E p \in Product : SlotOf[p] = currentCategory /\ Select(currentCategory, p)
      BY <1>4, <3>1
    <3>2. CASE \E s \in Slot : \/ row' = [row EXCEPT ![s] = Empty]
                             \/ SetRowQuantity(s, row[s].qty + 1)
      BY <1>2, <1>3, <3>2
    <3>3. CASE UNCHANGED row
      BY <1>1, <3>3
    <3>4. QED
      BY <1>6, <3>1, <3>2, <3>3 DEF CustomerMoves
  <2>2. UNCHANGED clicks
    BY <1>6 DEF CustomerMoves
  <2>3. QED
    BY <2>1, <2>2 DEF RowsFit, Fits
<1>7. CASE PageLoads \/ ReadBuild
  BY <1>7 DEF PageLoads, ReadBuild, pageVars, RowsFit
<1>8. QED
  BY <1>5, <1>6, <1>7

-----------------------------------------------------------------------------
\* Actions exclude each other.  A command's step ends it or sends it on.
LEMMA CommandGoesOn ==
  ASSUME AdapterTypeOK, NEW c \in Cmd, StartAdd(c) \/ StartRemove(c) \/ Continue(c)
  PROVE  (\E a : End(c, a)) \/ (\E w \in Waiting : Await(c, w))
<1>1. CASE \E q : SetQuantityFrom(c, q)
  BY <1>1 DEF SetQuantityFrom, ClickQuantity, Waiting
<1>2. CASE FailAndClose(c)
  BY <1>2 DEF FailAndClose, Waiting
<1>3. QED
  BY <1>1, <1>2 DEF StartAdd, StartRemove, Continue, OnFound, OnTimeout, SetQuantity, Waiting

LEMMA CommandIsAlone ==
  ASSUME ActionIsExclusive, NEW c \in Cmd, StartAdd(c) \/ StartRemove(c) \/ Continue(c),
         NEW d \in Cmd, d # c
  PROVE  stage[d] \notin Waiting
<1>1. StartAdd(c) \/ StartRemove(c) => ~actionInFlight
  BY DEF StartAdd, StartRemove, Started
<1>2. Continue(c) => stage[c] \in Waiting
  BY DEF Continue, OnFound, OnTimeout, Waiting
<1>3. QED
  BY <1>1, <1>2 DEF ActionIsExclusive

LEMMA CommandExcludes ==
  ASSUME AdapterTypeOK, ActionIsExclusive, NEW c \in Cmd,
         StartAdd(c) \/ StartRemove(c) \/ Refuse(c) \/ Continue(c)
  PROVE  ActionIsExclusive'
<1>1. "done" \notin Waiting /\ "none" \notin Waiting
  BY DEF Waiting
<1>2. CASE Refuse(c)
  BY <1>1, <1>2 DEF Refuse, ActionIsExclusive, AdapterTypeOK
<1>3. CASE StartAdd(c) \/ StartRemove(c) \/ Continue(c)
  <2>1. \A d \in Cmd : d # c => stage[d] \notin Waiting
    BY <1>3, CommandIsAlone
  <2>2. CASE \E a : End(c, a)
    BY <1>1, <2>1, <2>2 DEF End, ActionIsExclusive, AdapterTypeOK
  <2>3. CASE \E w \in Waiting : Await(c, w)
    BY <1>1, <2>1, <2>3 DEF Await, ActionIsExclusive, AdapterTypeOK
  <2>4. QED
    BY <1>3, <2>2, <2>3, CommandGoesOn
<1>4. QED
  BY <1>2, <1>3

-----------------------------------------------------------------------------
\* The progress of an action on a page that is left alone.
LEMMA FirstClick ==
  ASSUME NEW on, NEW s, NEW p, clicks = <<>>, Clicks(on, s, p)
  PROVE  clicks' = One(on, s, p)
BY DEF Clicks, One

LEMMA OnlyClick ==
  ASSUME NEW on, NEW s, NEW p
  PROVE  /\ One(on, s, p) # <<>>
         /\ Head(One(on, s, p)) = [on |-> on, slot |-> s, product |-> p]
         /\ Tail(One(on, s, p)) = <<>>
         /\ Len(One(on, s, p)) = 1
         /\ One(on, s, p)[1].on = on
BY DEF One

LEMMA EndedProgress ==
  ASSUME AdapterTypeOK, NEW c \in Cmd, stage'[c] \notin Waiting
  PROVE  Progress(c)'
BY DEF Progress, Waiting

LEMMA WithRow ==
  ASSUME AdapterTypeOK, NEW c \in Cmd, NEW q \in Int, row = With(c, q)
  PROVE  row[SlotAsked(c)] = [product |-> Asked[c].product, qty |-> q] /\ row[SlotAsked(c)].qty = q
<1>1. row[SlotAsked(c)] = [product |-> Asked[c].product, qty |-> q]
  BY AskedOf DEF AdapterTypeOK, With
<1>2. QED
  BY <1>1

\* setQuantity starts on, or goes on from, a row that holds q of the product.
LEMMA QuantityProgress ==
  ASSUME AdapterTypeOK, NEW c \in Cmd, Asked[c].action = "add", NEW q \in 1..MaxQuantity,
         SetQuantityFrom(c, q), clicks = <<>>, row' = With(c, q)', MayAdd(c, before)'
  PROVE  Progress(c)'
<1>1. CASE q = Asked[c].quantity
  <2>1. stage'[c] = "done"
    BY <1>1 DEF SetQuantityFrom, End, AdapterTypeOK
  <2>2. QED
    BY <2>1, EndedProgress DEF Waiting
<1>2. CASE q # Asked[c].quantity
  <2>1. ClickQuantity(c, q)
    BY <1>2 DEF SetQuantityFrom
  <2>2. stage'[c] = "quantity"
    BY <2>1 DEF ClickQuantity, Await, AdapterTypeOK
  <2>3. Counts(c, q)'
    <3>1. CASE q < Asked[c].quantity
      <4>1. expected'[c] = q + 1 /\ q + 1 <= Asked[c].quantity
        BY <2>1, <3>1, AskedOf DEF ClickQuantity, AdapterTypeOK
      <4>2. clicks' = One("increase", SlotAsked(c), None)
        BY <2>1, <3>1, FirstClick DEF ClickQuantity
      <4>3. QED
        BY <4>1, <4>2 DEF Counts
    <3>2. CASE ~(q < Asked[c].quantity)
      <4>1. expected'[c] = q - 1 /\ q - 1 >= Asked[c].quantity
        BY <1>2, <2>1, <3>2, AskedOf DEF ClickQuantity, AdapterTypeOK
      <4>2. clicks' = One("decrease", SlotAsked(c), None)
        BY <2>1, <3>2, FirstClick DEF ClickQuantity
      <4>3. QED
        BY <4>1, <4>2 DEF Counts
    <3>3. QED
      BY <3>1, <3>2
  <2>4. QED
    BY <2>2, <2>3 DEF Progress
<1>3. QED
  BY <1>1, <1>2

LEMMA StartProgress ==
  ASSUME AdapterInv, NEW c \in Cmd, StartAdd(c) \/ StartRemove(c), ~disturbed'
  PROVE  Progress(c)'
<1> DEFINE s == SlotAsked(c)
           p == Asked[c].product
<1>1. /\ AdapterTypeOK
      /\ before' = row /\ row' = row /\ clicks = <<>>
      /\ s \in Slot /\ row[s] \in Kept
  BY AskedOf DEF AdapterInv, AdapterTypeOK, StartAdd, StartRemove, Started, pageVars
<1>2. CASE StartAdd(c)
  <2>1. Asked[c].action = "add"
    BY <1>2 DEF StartAdd, Started
  <2>2. CASE row[s].product = p /\ SetQuantity(c)
    <3>1. row[s] = [product |-> p, qty |-> row[s].qty] /\ row[s].qty \in 1..MaxQuantity
      BY <1>1, <2>2 DEF Kept
    <3>2. row' = With(c, row[s].qty)'
      BY <1>1, <3>1 DEF With, AdapterTypeOK
    <3>3. QED
      BY <1>1, <2>1, <2>2, <3>1, <3>2, QuantityProgress DEF SetQuantity, MayAdd
  <2>3. CASE End(c, "COMPONENT_ALREADY_SELECTED")
    <3>1. stage'[c] = "done"
      BY <1>1, <2>3 DEF End, AdapterTypeOK
    <3>2. QED
      BY <1>1, <3>1, EndedProgress DEF Waiting
  <2>4. CASE /\ row[s].product = None \/ (row[s].product # p /\ Asked[c].replace)
             /\ \/ Await(c, "products") /\ UNCHANGED clicks
                \/ ~open /\ Await(c, "opening") /\ Clicks("open", s, None)
    <3>1. MayAdd(c, row) /\ row[s].product # p
      BY <2>4, AskedOf DEF MayAdd
    <3>2. CASE Await(c, "products") /\ UNCHANGED clicks
      <4>1. stage'[c] = "products"
        BY <1>1, <3>2 DEF Await, AdapterTypeOK
      <4>2. QED
        BY <1>1, <2>1, <3>1, <3>2, <4>1 DEF Progress
    <3>3. CASE ~open /\ Await(c, "opening") /\ Clicks("open", s, None)
      <4>1. stage'[c] = "opening" /\ clicks' = One("open", s, None) /\ ~open'
        BY <1>1, <1>2, <3>3, FirstClick DEF Await, AdapterTypeOK, StartAdd, Started, pageVars
      <4>2. QED
        BY <1>1, <2>1, <3>1, <4>1 DEF Progress
    <3>4. QED
      BY <2>4, <3>2, <3>3
  <2>5. QED
    BY <1>2, <2>2, <2>3, <2>4 DEF StartAdd
<1>3. CASE StartRemove(c)
  <2>1. CASE \E a : End(c, a)
    <3>1. stage'[c] = "done"
      BY <1>1, <2>1 DEF End, AdapterTypeOK
    <3>2. QED
      BY <1>1, <3>1, EndedProgress DEF Waiting
  <2>2. CASE row[s].product = p /\ Clicks("remove", s, None) /\ Await(c, "removing")
    <3>1. stage'[c] = "removing" /\ clicks' = One("remove", s, None)
      BY <1>1, <2>2, FirstClick DEF Await, AdapterTypeOK
    <3>2. Asked[c].action = "remove"
      BY <1>3 DEF StartRemove, Started
    <3>3. QED
      BY <1>1, <2>2, <3>1, <3>2 DEF Progress
  <2>3. QED
    BY <1>3, <2>1, <2>2 DEF StartRemove
<1>4. QED
  BY <1>2, <1>3

\* The rows that verifyAndSetQuantity and setQuantity's loop find.
LEMMA VerifiedRow ==
  ASSUME AdapterInv, NEW c \in Cmd, Progress(c), stage[c] = "verifying", InBuild(Asked[c].product)
  PROVE  /\ Asked[c].action = "add" /\ MayAdd(c, before) /\ row = With(c, 1) /\ clicks = <<>>
         /\ row[SlotAsked(c)].qty = 1
<1>1. row[SlotAsked(c)].product = Asked[c].product
  BY AskedOf DEF AdapterInv, RowsFit, InBuild, SlotAsked
<1>2. /\ Asked[c].action = "add" /\ MayAdd(c, before)
      /\ row = With(c, 1) /\ clicks = <<>>
  BY <1>1 DEF Progress
<1>3. \A q \in Int : row = With(c, q) => row[SlotAsked(c)].qty = q
  BY WithRow DEF AdapterInv
<1>4. QED
  BY <1>2, <1>3

LEMMA CountedRow ==
  ASSUME AdapterInv, NEW c \in Cmd, Progress(c), stage[c] = "quantity",
         row[SlotAsked(c)].qty = expected[c]
  PROVE  \E e \in 1..MaxQuantity :
            /\ e = expected[c]
            /\ Asked[c].action = "add" /\ MayAdd(c, before) /\ row = With(c, e) /\ clicks = <<>>
<1>1. Asked[c].action = "add" /\ MayAdd(c, before) /\ \E q \in 1..MaxQuantity : Counts(c, q)
  BY DEF Progress
<1>2. PICK q \in 1..MaxQuantity : Counts(c, q)
  BY <1>1
<1>3. \A r \in Int : row = With(c, r) => row[SlotAsked(c)].qty = r
  BY WithRow DEF AdapterInv
<1>4. q + 1 # q /\ q - 1 # q /\ q \in Int /\ q + 1 \in Int /\ q - 1 \in Int
  OBVIOUS
<1>5. row # With(c, q) \/ expected[c] = q
  BY <1>3, <1>4
<1>6. \/ expected[c] = q + 1 /\ q + 1 <= Asked[c].quantity /\ row = With(c, q + 1)
         /\ clicks = <<>>
      \/ expected[c] = q - 1 /\ q - 1 >= Asked[c].quantity /\ row = With(c, q - 1)
         /\ clicks = <<>>
  BY <1>2, <1>4, <1>5 DEF Counts
<1>7. expected[c] \in 1..MaxQuantity
  BY <1>6, AskedOf
<1>8. QED
  BY <1>1, <1>6, <1>7

LEMMA ContinueProgress ==
  ASSUME AdapterInv, NEW c \in Cmd, Continue(c), ~disturbed'
  PROVE  Progress(c)'
<1> DEFINE s == SlotAsked(c)
           p == Asked[c].product
<1>1. /\ AdapterTypeOK /\ Progress(c)
      /\ before' = before /\ row' = row /\ s \in Slot /\ p \in Product
  BY AskedOf DEF AdapterInv, Continue, pageVars, historyVars
<1>2. CASE \E a : End(c, a)
  <2>1. stage'[c] = "done"
    BY <1>1, <1>2 DEF End, AdapterTypeOK
  <2>2. QED
    BY <1>1, <2>1, EndedProgress DEF Waiting
<1>3. CASE stage[c] \in {"products", "finding"} /\ FailAndClose(c)
  <2>1. Asked[c].action = "add" /\ MayAdd(c, before) /\ row = before /\ clicks = <<>>
    BY <1>1, <1>3 DEF Progress
  <2>2. stage'[c] = "closing" /\ clicks' = One("close", None, None)
    BY <1>1, <1>3, <2>1, FirstClick DEF FailAndClose, Await, AdapterTypeOK
  <2>3. MayAdd(c, before)'
    BY <1>1, <2>1 DEF MayAdd
  <2>4. QED
    BY <1>1, <2>1, <2>2, <2>3 DEF Progress
<1>4. CASE /\ \/ stage[c] = "opening" /\ open /\ Await(c, "products")
              \/ stage[c] = "products" /\ Await(c, "finding")
        /\ UNCHANGED clicks
  <2>1. /\ Asked[c].action = "add" /\ MayAdd(c, before) /\ before[s].product # p
        /\ row = before /\ clicks = <<>>
    BY <1>1, <1>4 DEF Progress
  <2>2. stage'[c] \in {"products", "finding"}
    BY <1>1, <1>4 DEF Await, AdapterTypeOK
  <2>3. MayAdd(c, before)'
    BY <1>1, <2>1 DEF MayAdd
  <2>4. QED
    BY <1>1, <1>4, <2>1, <2>2, <2>3 DEF Progress
<1>5. CASE stage[c] = "finding" /\ Clicks("select", s, p) /\ Await(c, "verifying")
  <2>1. /\ Asked[c].action = "add" /\ MayAdd(c, before) /\ before[s].product # p
        /\ row = before /\ clicks = <<>>
    BY <1>1, <1>5 DEF Progress
  <2>2. stage'[c] = "verifying" /\ clicks' = One("select", s, p)
    BY <1>1, <1>5, <2>1, FirstClick DEF Await, AdapterTypeOK
  <2>3. MayAdd(c, before)'
    BY <1>1, <2>1 DEF MayAdd
  <2>4. QED
    BY <1>1, <2>1, <2>2, <2>3 DEF Progress
<1>6. CASE stage[c] = "verifying" /\ InBuild(p) /\ SetQuantity(c)
  <2>1. /\ Asked[c].action = "add" /\ MayAdd(c, before) /\ row = With(c, 1) /\ clicks = <<>>
        /\ row[s].qty = 1
    BY <1>1, <1>6, VerifiedRow
  <2>2. MayAdd(c, before)' /\ row' = With(c, 1)'
    BY <1>1, <2>1 DEF MayAdd, With
  <2>3. QED
    BY <1>1, <1>6, <2>1, <2>2, QuantityProgress DEF SetQuantity
<1>7. CASE stage[c] = "quantity" /\ row[s].qty = expected[c] /\ SetQuantityFrom(c, expected[c])
  <2>1. PICK e \in 1..MaxQuantity :
           /\ e = expected[c]
           /\ Asked[c].action = "add" /\ MayAdd(c, before) /\ row = With(c, e) /\ clicks = <<>>
    BY <1>1, <1>7, CountedRow
  <2>2. MayAdd(c, before)' /\ row' = With(c, e)'
    BY <1>1, <2>1 DEF MayAdd, With
  <2>3. SetQuantityFrom(c, e)
    BY <1>7, <2>1
  <2>4. QED
    BY <1>1, <2>1, <2>2, <2>3, QuantityProgress
<1>8. QED
  BY <1>2, <1>3, <1>4, <1>5, <1>6, <1>7 DEF Continue, OnFound, OnTimeout

\* The page handles the one click that there is, or ignores it.
LEMMA HandledOne ==
  ASSUME PageHandles, NEW on, NEW s, NEW p, clicks = One(on, s, p)
  PROVE  /\ clicks' = <<>>
         /\ \/ row' = row
            \/ on = "select" /\ Select(s, p)
            \/ on = "increase" /\ SetRowQuantity(s, row[s].qty + 1)
            \/ on = "decrease" /\ SetRowQuantity(s, row[s].qty - 1)
            \/ on = "remove" /\ row' = [row EXCEPT ![s] = Empty]
<1> DEFINE k == [on |-> on, slot |-> s, product |-> p]
<1>1. clicks' = <<>> /\ (Handle(k) \/ UNCHANGED row)
  BY OnlyClick DEF PageHandles
<1>2. k.on = on /\ k.slot = s /\ k.product = p
  OBVIOUS
<1> HIDE DEF k
<1>3. QED
  BY <1>1, <1>2 DEF Handle

LEMMA PageProgress ==
  ASSUME AdapterInv, PageHandles, NEW c \in Cmd, Progress(c)
  PROVE  Progress(c)'
<1> DEFINE s == SlotAsked(c)
           p == Asked[c].product
<1>1. /\ AdapterTypeOK /\ s \in Slot /\ p \in Product /\ p # None /\ clicks # <<>>
      /\ before' = before /\ stage' = stage /\ expected' = expected
      /\ MayAdd(c, before) => MayAdd(c, before)'
  BY AskedOf DEF AdapterInv, PageHandles, historyVars, MayAdd
<1>2. CASE stage[c] \notin Waiting
  BY <1>1, <1>2, EndedProgress
<1>3. CASE stage[c] \in {"products", "finding"}
  BY <1>1, <1>3 DEF Progress
<1>4. CASE stage[c] = "opening"
  <2>1. clicks = One("open", s, None) /\ row = before
    BY <1>1, <1>4 DEF Progress
  <2>2. clicks' = <<>> /\ row' = row
    BY <2>1, HandledOne
  <2>3. QED
    BY <1>1, <1>4, <2>1, <2>2 DEF Progress
<1>5. CASE stage[c] = "closing"
  <2>1. clicks = One("close", None, None) /\ row = before
    BY <1>1, <1>5 DEF Progress
  <2>2. clicks' = <<>> /\ row' = row
    BY <2>1, HandledOne
  <2>3. QED
    BY <1>1, <1>5, <2>1, <2>2 DEF Progress
<1>6. CASE stage[c] = "verifying"
  <2>1. clicks = One("select", s, p) /\ row = before
    BY <1>1, <1>6 DEF Progress
  <2>2. clicks' = <<>> /\ (Select(s, p) \/ row' = row)
    BY <2>1, HandledOne
  <2>3. row' \in {before', With(c, 1)'}
    BY <1>1, <2>1, <2>2 DEF Select, With
  <2>4. QED
    BY <1>1, <1>6, <2>2, <2>3 DEF Progress
<1>7. CASE stage[c] = "removing"
  <2>1. clicks = One("remove", s, None) /\ row = before
    BY <1>1, <1>7 DEF Progress
  <2>2. clicks' = <<>> /\ (row' = [row EXCEPT ![s] = Empty] \/ row' = row)
    BY <2>1, HandledOne
  <2>3. row' \in {before', Without(c)'}
    BY <1>1, <2>1, <2>2 DEF Without
  <2>4. QED
    BY <1>1, <1>7, <2>2, <2>3 DEF Progress
<1>8. CASE stage[c] = "quantity"
  <2>1. Asked[c].action = "add" /\ MayAdd(c, before) /\ \E q \in 1..MaxQuantity : Counts(c, q)
    BY <1>1, <1>8 DEF Progress
  <2>2. PICK q \in 1..MaxQuantity : Counts(c, q)
    BY <2>1
  <2>3. row = With(c, q)
    BY <1>1, <2>2 DEF Counts
  <2>4. row[s] = [product |-> p, qty |-> q]
    BY <1>1, <2>3, WithRow
  <2>5. \A r \in Int : SetRowQuantity(s, r) => row' = row \/ row' = With(c, r)
    <3>1. SUFFICES ASSUME NEW r \in Int, row' = [row EXCEPT ![s].qty = r] PROVE row' = With(c, r)
      BY DEF SetRowQuantity
    <3>2. row' = [row EXCEPT ![s] = [product |-> p, qty |-> r]]
      <4>1. [row[s] EXCEPT !.qty = r] = [product |-> p, qty |-> r]
        BY <2>4
      <4>2. row' = [row EXCEPT ![s] = [row[s] EXCEPT !.qty = r]]
        BY <3>1
      <4>3. QED
        BY <4>1, <4>2
    <3>3. QED
      BY <2>3, <3>2 DEF With
  <2>6. CASE expected[c] = q + 1 /\ q + 1 <= Asked[c].quantity
             /\ clicks = One("increase", s, None)
    <3>1. clicks' = <<>> /\ (SetRowQuantity(s, q + 1) \/ row' = row)
      BY <2>4, <2>6, HandledOne
    <3>2. row' = With(c, q) \/ row' = With(c, q + 1)
      BY <2>3, <2>5, <3>1
    <3>3. row' = With(c, q)' \/ row' = With(c, q + 1)'
      BY <1>1, <3>2 DEF With
    <3>4. Counts(c, q)'
      BY <1>1, <2>6, <3>1, <3>3 DEF Counts
    <3>5. QED
      BY <1>1, <1>8, <2>1, <3>4 DEF Progress
  <2>7. CASE expected[c] = q - 1 /\ q - 1 >= Asked[c].quantity
             /\ clicks = One("decrease", s, None)
    <3>1. clicks' = <<>> /\ (SetRowQuantity(s, q - 1) \/ row' = row)
      BY <2>4, <2>7, HandledOne
    <3>2. row' = With(c, q) \/ row' = With(c, q - 1)
      BY <2>3, <2>5, <3>1
    <3>3. row' = With(c, q)' \/ row' = With(c, q - 1)'
      BY <1>1, <3>2 DEF With
    <3>4. Counts(c, q)'
      BY <1>1, <2>7, <3>1, <3>3 DEF Counts
    <3>5. QED
      BY <1>1, <1>8, <2>1, <3>4 DEF Progress
  <2>8. QED
    BY <1>1, <2>2, <2>6, <2>7 DEF Counts
<1>9. QED
  BY <1>2, <1>3, <1>4, <1>5, <1>6, <1>7, <1>8 DEF Waiting

LEMMA NextKeepsProgress ==
  ASSUME AdapterInv, [Next]_vars, ~disturbed', NEW c \in Cmd
  PROVE  Progress(c)'
<1>1. AdapterTypeOK /\ ActionIsExclusive /\ (~disturbed => Progress(c))
  BY DEF AdapterInv
<1>2. CASE PageHandles
  BY <1>1, <1>2, PageProgress DEF PageHandles, historyVars
<1>3. CASE PageLoads \/ ReadBuild \/ UNCHANGED vars
  <2>1. UNCHANGED <<row, open, clicks, stage, expected, before, disturbed>>
    BY <1>3 DEF PageLoads, ReadBuild, vars, pageVars, historyVars
  <2>2. QED
    BY <1>1, <2>1 DEF Progress, MayAdd, With, Without, Counts
<1>4. CASE CustomerMoves
  BY <1>4 DEF CustomerMoves
<1>5. ASSUME NEW d \in Cmd, Refuse(d)
      PROVE  Progress(c)'
  <2>1. CASE d = c
    <3>1. stage'[c] = "done"
      BY <1>1, <1>5, <2>1 DEF Refuse, AdapterTypeOK
    <3>2. QED
      BY <1>1, <3>1, EndedProgress DEF Waiting
  <2>2. CASE d # c
    <3>1. stage'[c] = stage[c] /\ UNCHANGED <<row, open, clicks, expected, before, disturbed>>
      BY <1>1, <1>5, <2>2 DEF Refuse, AdapterTypeOK, pageVars, historyVars
    <3>2. QED
      BY <1>1, <3>1 DEF Progress, MayAdd, With, Without, Counts
  <2>3. QED
    BY <2>1, <2>2
<1>6. ASSUME NEW d \in Cmd, StartAdd(d) \/ StartRemove(d) \/ Continue(d)
      PROVE  Progress(c)'
  <2>1. CASE d = c
    BY <1>6, <2>1, StartProgress, ContinueProgress
  <2>2. CASE d # c
    <3>1. stage[c] \notin Waiting
      BY <1>1, <1>6, <2>2, CommandIsAlone
    <3>2. stage'[c] = stage[c]
      <4>1. \E w : stage' = [stage EXCEPT ![d] = w]
        BY <1>1, <1>6, CommandGoesOn DEF End, Await
      <4>2. QED
        BY <1>1, <2>2, <4>1 DEF AdapterTypeOK
    <3>3. QED
      BY <1>1, <3>1, <3>2, EndedProgress
  <2>3. QED
    BY <2>1, <2>2
<1>7. QED
  BY <1>2, <1>3, <1>4, <1>5, <1>6 DEF Next

LEMMA NextKeepsAdapterInv ==
  ASSUME AdapterInv, [Next]_vars
  PROVE  AdapterInv'
<1>1. AdapterTypeOK /\ RowsFit /\ ActionIsExclusive
  BY DEF AdapterInv
<1>2. AdapterTypeOK' /\ RowsFit' /\ ActionIsExclusive'
  <2>1. CASE PageHandles \/ PageLoads \/ CustomerMoves \/ ReadBuild
    <3>1. UNCHANGED <<stage, actionInFlight>>
      BY <2>1 DEF PageHandles, PageLoads, CustomerMoves, ReadBuild
    <3>2. ActionIsExclusive'
      BY <1>1, <3>1 DEF ActionIsExclusive
    <3>3. QED
      BY <1>1, <2>1, <3>2, PageType, PageFits
  <2>2. ASSUME NEW c \in Cmd, StartAdd(c) \/ StartRemove(c) \/ Refuse(c) \/ Continue(c)
        PROVE  AdapterTypeOK' /\ RowsFit' /\ ActionIsExclusive'
    BY <1>1, <2>2, CommandType, CommandFits, CommandExcludes
  <2>3. CASE UNCHANGED vars
    <3>1. AdapterTypeOK'
      BY <1>1, <2>3 DEF AdapterTypeOK, vars, pageVars, historyVars
    <3>2. RowsFit' /\ ActionIsExclusive'
      BY <1>1, <2>3 DEF RowsFit, ActionIsExclusive, vars, pageVars
    <3>3. QED
      BY <3>1, <3>2
  <2>4. QED
    BY <2>1, <2>2, <2>3 DEF Next
<1>3. QED
  BY <1>2, NextKeepsProgress DEF AdapterInv

-----------------------------------------------------------------------------
LEMMA AdapterInvariant == Spec => []AdapterInv
<1>1. AdapterInv /\ [Next]_vars => AdapterInv'
  BY NextKeepsAdapterInv
<1>2. QED
  BY <1>1, InitAdapter, PTL DEF Spec

\* At any time one action at most works on the page, and the content script's
\* flag says which: executeAdd and executeRemove exclude each other.
THEOREM OneActionAtATime == Spec => []ActionIsExclusive
<1>1. AdapterInv => ActionIsExclusive
  BY DEF AdapterInv
<1>2. QED
  BY <1>1, AdapterInvariant, PTL

\* Every variable of page, content script and adapter keeps its type.
THEOREM AdapterTypeCorrect == Spec => []AdapterTypeOK
<1>1. AdapterInv => AdapterTypeOK
  BY DEF AdapterInv
<1>2. QED
  BY <1>1, AdapterInvariant, PTL

-----------------------------------------------------------------------------
\* What an answer says.  Only a step of its own command gives it.
LEMMA AnsweredBy ==
  ASSUME AdapterTypeOK, [Next]_vars, NEW c \in Cmd, answer'[c] # answer[c]
  PROVE  StartAdd(c) \/ StartRemove(c) \/ Refuse(c) \/ Continue(c)
<1>1. ASSUME NEW d \in Cmd, StartAdd(d) \/ StartRemove(d) \/ Refuse(d) \/ Continue(d)
      PROVE  d = c
  <2>1. \E a : answer' = [answer EXCEPT ![d] = a] \/ UNCHANGED answer
    <3>1. CASE Refuse(d)
      BY <3>1 DEF Refuse
    <3>2. QED
      BY <1>1, <3>1, CommandGoesOn DEF End, Await
  <2>2. QED
    BY <2>1 DEF AdapterTypeOK
<1>2. PageHandles \/ PageLoads \/ CustomerMoves \/ ReadBuild \/ UNCHANGED vars
         => UNCHANGED answer
  BY DEF PageHandles, PageLoads, CustomerMoves, ReadBuild, vars
<1>3. QED
  BY <1>1, <1>2 DEF Next

LEMMA SetQuantityAnswers ==
  ASSUME AdapterTypeOK, NEW c \in Cmd, NEW q, SetQuantityFrom(c, q), answer'[c] # answer[c]
  PROVE  answer'[c] = "ok" /\ q = Asked[c].quantity
BY DEF SetQuantityFrom, ClickQuantity, Await, End, AdapterTypeOK

OkIsExactStep(c) ==
    LET s == SlotAsked(c)
        p == Asked[c].product
    IN  IF Asked[c].action = "add"
        THEN /\ row' = [before' EXCEPT ![s] = [product |-> p, qty |-> Asked[c].quantity]]
             /\ before'[s].product \in {None, p} \/ Asked[c].replace
        ELSE /\ row' = [before' EXCEPT ![s] = Empty]
             /\ before'[s].product = p

LEMMA OkStep ==
  ASSUME AdapterInv, [Next]_vars, NEW c \in Cmd, answer[c] = "none", answer'[c] = "ok",
         ~disturbed'
  PROVE  OkIsExactStep(c)
<1> DEFINE s == SlotAsked(c)
           p == Asked[c].product
<1>1. AdapterTypeOK /\ s \in Slot /\ row[s] \in Kept /\ before \in [Slot -> Kept]
  BY AskedOf DEF AdapterInv, AdapterTypeOK
<1>2. \A a : End(c, a) => a = "ok"
  BY <1>1 DEF End, AdapterTypeOK
<1>3. \A w : ~Await(c, w)
  BY DEF Await
<1>4. CASE StartAdd(c)
  <2>1. Asked[c].action = "add" /\ row' = row /\ before' = row
    BY <1>4 DEF StartAdd, Started, pageVars
  <2>2. row[s].product = p /\ SetQuantity(c)
    BY <1>2, <1>3, <1>4 DEF StartAdd
  <2>3. row[s].qty = Asked[c].quantity
    BY <1>1, <2>2, SetQuantityAnswers DEF SetQuantity
  <2>4. row[s] = [product |-> p, qty |-> Asked[c].quantity]
    BY <1>1, <2>2, <2>3 DEF Kept
  <2>5. row = [row EXCEPT ![s] = [product |-> p, qty |-> Asked[c].quantity]]
    BY <1>1, <2>4 DEF AdapterTypeOK
  <2>6. QED
    BY <2>1, <2>2, <2>5 DEF OkIsExactStep
<1>5. CASE Continue(c)
  <2>1. row' = row /\ before' = before /\ Progress(c)
    BY <1>5 DEF Continue, pageVars, historyVars, AdapterInv
  <2>2. CASE stage[c] = "verifying" /\ InBuild(p) /\ SetQuantity(c)
    <3>1. Asked[c].action = "add" /\ MayAdd(c, before) /\ row = With(c, 1) /\ row[s].qty = 1
      BY <2>1, <2>2, VerifiedRow
    <3>2. 1 = Asked[c].quantity
      BY <1>1, <2>2, <3>1, SetQuantityAnswers DEF SetQuantity
    <3>3. QED
      BY <2>1, <3>1, <3>2 DEF OkIsExactStep, With, MayAdd
  <2>3. CASE stage[c] = "quantity" /\ row[s].qty = expected[c] /\ SetQuantityFrom(c, expected[c])
    <3>1. /\ Asked[c].action = "add" /\ MayAdd(c, before) /\ row = With(c, expected[c])
      BY <2>1, <2>3, CountedRow
    <3>2. expected[c] = Asked[c].quantity
      BY <1>1, <2>3, SetQuantityAnswers
    <3>3. QED
      BY <2>1, <3>1, <3>2 DEF OkIsExactStep, With, MayAdd
  <2>4. CASE stage[c] = "removing" /\ ~InBuild(p)
    <3>1. row # before
      BY <1>1, <2>1, <2>4 DEF Progress, InBuild
    <3>2. Asked[c].action = "remove" /\ before[s].product = p /\ row = Without(c)
      BY <2>1, <2>4, <3>1 DEF Progress
    <3>3. QED
      BY <2>1, <3>2 DEF OkIsExactStep, Without
  <2>5. QED
    BY <1>2, <1>3, <1>5, <2>2, <2>3, <2>4 DEF Continue, OnFound, OnTimeout, FailAndClose
<1>6. ~StartRemove(c) /\ ~Refuse(c)
  <2>1. ~StartRemove(c)
    BY <1>2, <1>3 DEF StartRemove
  <2>2. ~Refuse(c)
    BY <1>1 DEF Refuse, AdapterTypeOK
  <2>3. QED
    BY <2>1, <2>2
<1>7. QED
  BY <1>1, <1>4, <1>5, <1>6, AnsweredBy

\* On a page left alone, "ok" means that the build is the one before the action
\* with just what was asked for changed, whatever clicks it took.
THEOREM OkIsWhatWasAsked == Spec => OkIsExact
<1> DEFINE A == \A c \in Cmd : answer[c] = "none" /\ answer'[c] = "ok" /\ ~disturbed' =>
                   OkIsExactStep(c)
<1>1. AdapterInv /\ [Next]_vars => [A]_vars
  BY OkStep
<1>2. [A]_vars => [\A c \in Cmd : answer[c] = "none" /\ answer'[c] = "ok" /\ ~disturbed' =>
          LET s == SlotAsked(c)
              p == Asked[c].product
          IN  IF Asked[c].action = "add"
              THEN /\ row' = [before' EXCEPT ![s] = [product |-> p, qty |-> Asked[c].quantity]]
                   /\ before'[s].product \in {None, p} \/ Asked[c].replace
              ELSE /\ row' = [before' EXCEPT ![s] = Empty]
                   /\ before'[s].product = p]_vars
  BY DEF OkIsExactStep
<1>3. QED
  BY <1>1, <1>2, AdapterInvariant, PTL DEF Spec, OkIsExact

LEMMA RefusalStep ==
  ASSUME AdapterInv, [Next]_vars, NEW c \in Cmd, answer[c] = "none",
         answer'[c] \in Refusal \ {"ACTION_IN_PROGRESS"}, ~disturbed'
  PROVE  /\ row' = before'
         /\ \A n \in 1..Len(clicks') : clicks'[n].on \in {"open", "close"}
<1>1. AdapterTypeOK
  BY DEF AdapterInv
<1>2. answer'[c] # "none" /\ answer'[c] # "ok" /\ answer'[c] \notin Timeout
  BY DEF Refusal, Timeout
<1>3. \A a : End(c, a) => a = answer'[c]
  BY <1>1 DEF End, AdapterTypeOK
<1>4. (\A w : ~Await(c, w)) /\ ~FailAndClose(c)
  BY <1>2 DEF Await, FailAndClose
<1>5. \A q : ~SetQuantityFrom(c, q)
  BY <1>1, <1>2, SetQuantityAnswers
<1>6. CASE StartAdd(c) \/ StartRemove(c)
  <2>1. row' = row /\ before' = row /\ clicks = <<>>
    BY <1>6 DEF StartAdd, StartRemove, Started, pageVars
  <2>2. clicks' = clicks
    BY <1>4, <1>5, <1>6 DEF StartAdd, StartRemove, SetQuantity
  <2>3. QED
    BY <2>1, <2>2
<1>7. CASE Continue(c)
  <2>1. row' = row /\ before' = before /\ Progress(c)
    BY <1>7 DEF Continue, pageVars, historyVars, AdapterInv
  <2>2. stage[c] \in {"opening", "closing"} /\ clicks' = clicks
    BY <1>2, <1>3, <1>4, <1>5, <1>7 DEF Continue, OnFound, OnTimeout, SetQuantity, Timeout
  <2>3. /\ row = before
        /\ clicks \in {<<>>, One("open", SlotAsked(c), None), One("close", None, None)}
    BY <2>1, <2>2 DEF Progress
  <2>4. QED
    BY <2>1, <2>2, <2>3, OnlyClick
<1>8. ~Refuse(c)
  BY <1>1 DEF Refuse, AdapterTypeOK
<1>9. QED
  BY <1>1, <1>2, <1>6, <1>7, <1>8, AnsweredBy

\* On a page left alone, an action that is refused has changed nothing of the
\* build, nor will any click it has left behind.
THEOREM RefusalsAreHarmless == Spec => RefusalIsHarmless
<1>1. AdapterInv /\ [Next]_vars =>
        [\A c \in Cmd : answer[c] = "none" /\ answer'[c] \in Refusal \ {"ACTION_IN_PROGRESS"}
                          /\ ~disturbed' =>
          /\ row' = before'
          /\ \A n \in 1..Len(clicks') : clicks'[n].on \in {"open", "close"}]_vars
  BY RefusalStep
<1>2. QED
  BY <1>1, AdapterInvariant, PTL DEF Spec, RefusalIsHarmless
=============================================================================

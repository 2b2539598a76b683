-------------------------- MODULE ChatPanelProofs --------------------------
(* The safety of ChatPanel, proved for any answers, turns and clearings:     *)
(* PanelInv is inductive, and what the panel shows and sends follows from it. *)
EXTENDS ChatPanel, SequenceTheorems, FiniteSetTheorems, TLAPS

Phases == {"storage", "open", "settled", "gone"}
Kinds == {"user", "reply", "error", "suggestion"}

TurnRecord ==
    [gen : Nat, session : Nat, sent : Nat, phase : Phases, aborted : BOOLEAN, answer : Seq(Tokens),
     cumulative : BOOLEAN, read : Nat, final : BOOLEAN, reply : Seq(Tokens), partial : Seq(Tokens),
     frame : BOOLEAN, bubble : BOOLEAN, outcome : {"none", "ok", "error"}]

MessageRecord == [turn : Nat, kind : Kinds, text : Seq(Tokens)]

Types ==
    /\ epochs \in 0 .. MaxEpochs /\ generation \in 0 .. epochs /\ session \in 1 .. generation + 1
    /\ isTyping \in BOOLEAN /\ controller \in 0 .. Len(turns) /\ seen \subseteq Suggestions
    /\ turns \in Seq(TurnRecord) /\ messages \in Seq(MessageRecord)

\* Only a turn of this conversation that streams has a frame to come, and something to show.
TurnOK(t) ==
    /\ turns[t].gen <= generation
    /\ turns[t].session \in 1 .. session
    /\ turns[t].read <= Len(turns[t].answer)
    /\ turns[t].frame => turns[t].partial # <<>> /\ (Current(t) => Open(t))

\* The reply is the answer so far, or all of it.
TextOK(t) ==
    /\ turns[t].final => turns[t].reply = turns[t].answer
    /\ ~turns[t].final /\ ~turns[t].cumulative =>
           turns[t].reply = SubSeq(turns[t].answer, 1, turns[t].read)

\* Nothing is under way that the controller could not abort, and it is of this session.
ControlOK(t) ==
    /\ t \in Outstanding => t = controller /\ turns[t].session = session
    /\ turns[t].sent \in {0, turns[t].session}

\* A turn has one bubble, once a frame or its end has added it.
ShownOK(t) ==
    /\ turns[t].outcome # "none" => turns[t].phase = "settled"
    /\ Current(t) =>
        /\ turns[t].phase \in {"storage", "open"} =>
               IF turns[t].bubble THEN \E i : Shown(t) = {i} ELSE Shown(t) = {}
        /\ turns[t].outcome = "ok" /\ turns[t].reply # <<>> =>
               \E i : Shown(t) = {i} /\ messages[i].text = turns[t].reply

TurnInv(t) == TurnOK(t) /\ TextOK(t) /\ ControlOK(t) /\ ShownOK(t)

MessageOK(m) == m.turn # 0 => m.turn \in Turn /\ Current(m.turn)

PanelInv ==
    /\ Types
    /\ \A t \in Turn : TurnInv(t)
    /\ \A i \in DOMAIN messages : MessageOK(messages[i])

-----------------------------------------------------------------------------
(* What a change of turns or messages leaves as it was *)

LEMMA TurnIsRecord ==
    ASSUME Types
    PROVE  /\ Turn = 1 .. Len(turns) /\ Len(turns) \in Nat
           /\ \A t \in Turn : turns[t] \in TurnRecord
           /\ DOMAIN messages = 1 .. Len(messages) /\ Len(messages) \in Nat
           /\ \A i \in DOMAIN messages : messages[i] \in MessageRecord
BY LenProperties, ElementOfSeq DEF Types, Turn

\* One turn is changed.
LEMMA OneTurn ==
    ASSUME Types, NEW t \in Turn, NEW n \in TurnRecord, turns' = [turns EXCEPT ![t] = n]
    PROVE  /\ turns' \in Seq(TurnRecord) /\ Len(turns') = Len(turns) /\ Turn' = Turn
           /\ turns'[t] = n /\ \A q \in Turn \ {t} : turns'[q] = turns[q]
<1>1. t \in 1 .. Len(turns) /\ turns \in Seq(TurnRecord)
    BY TurnIsRecord DEF Types
<1>2. turns' \in Seq(TurnRecord) /\ Len(turns') = Len(turns)
    BY <1>1, ExceptSeq
<1> QED BY <1>1, <1>2, LenProperties DEF Turn

\* A turn that is not touched, by a step that does not change the conversation.
LEMMA CalmTurn ==
    ASSUME NEW t \in Turn, TurnInv(t), t \in Turn', turns'[t] = turns[t], UNCHANGED <<generation, session>>,
           controller' = controller \/ controller # t,
           Shown(t)' = Shown(t), \A i \in Shown(t) : messages'[i].text = messages[i].text
    PROVE  TurnInv(t)'
<1>1. Current(t)' <=> Current(t)
    BY DEF Current
<1>2. t \in Outstanding' <=> t \in Outstanding
    BY DEF Outstanding
<1>3. TurnOK(t)' /\ TextOK(t)' /\ ControlOK(t)'
    BY <1>1, <1>2 DEF TurnInv, TurnOK, TextOK, ControlOK, Open
<1>4. ShownOK(t)'
    BY <1>1 DEF TurnInv, ShownOK
<1> QED BY <1>3, <1>4 DEF TurnInv

\* A message is added.
LEMMA Added ==
    ASSUME Types, NEW m \in MessageRecord, messages' = Append(messages, m)
    PROVE  /\ messages' \in Seq(MessageRecord)
           /\ DOMAIN messages' = DOMAIN messages \cup {Len(messages) + 1}
           /\ \A i \in DOMAIN messages : messages'[i] = messages[i]
           /\ messages'[Len(messages) + 1] = m
           /\ \A t : Shown(t)' = IF m.turn = t /\ m.kind = "reply"
                                 THEN Shown(t) \cup {Len(messages) + 1} ELSE Shown(t)
<1>1. /\ messages' \in Seq(MessageRecord) /\ Len(messages') = Len(messages) + 1
      /\ DOMAIN messages' = 1 .. Len(messages) + 1 /\ DOMAIN messages = 1 .. Len(messages)
      /\ Len(messages) \in Nat
      /\ \A i \in 1 .. Len(messages) : messages'[i] = messages[i]
      /\ messages'[Len(messages) + 1] = m
    BY DEF Types
<1> QED BY <1>1 DEF Shown

\* The bubble of a turn gets another text.
LEMMA Updated ==
    ASSUME Types, NEW t, NEW text \in Seq(Tokens), UPDATE_MESSAGE(t, text), t \in Nat
    PROVE  /\ messages' \in Seq(MessageRecord) /\ DOMAIN messages' = DOMAIN messages
           /\ \A q : Shown(q)' = Shown(q)
           /\ \A i \in DOMAIN messages : messages'[i].turn = messages[i].turn
           /\ \A i \in Shown(t) : messages'[i].text = text
           /\ \A q : q # t => \A i \in Shown(q) : messages'[i] = messages[i]
<1>1. /\ DOMAIN messages' = DOMAIN messages
      /\ \A i \in DOMAIN messages :
            messages'[i] = IF messages[i].turn = t /\ messages[i].kind = "reply"
                           THEN Message(t, "reply", text) ELSE messages[i]
    BY DEF UPDATE_MESSAGE
<1>2. \A i \in DOMAIN messages : messages'[i] \in MessageRecord
    BY <1>1, TurnIsRecord DEF Message, MessageRecord, Kinds
<1>3. messages' \in Seq(MessageRecord)
    <2>1. messages' = [i \in 1 .. Len(messages) |-> messages'[i]]
        BY <1>1, TurnIsRecord DEF UPDATE_MESSAGE
    <2> QED BY <1>1, <1>2, <2>1, TurnIsRecord
<1>4. \A q : Shown(q)' = Shown(q)
    BY <1>1 DEF Shown, Message
<1> QED BY <1>1, <1>3, <1>4 DEF Shown, Message

-----------------------------------------------------------------------------
(* The steps of one turn *)

\* A step of turn t: another turn's bubble is left alone, and a message that is new is about t.
StepOf(t, n) ==
    /\ turns' = [turns EXCEPT ![t] = n] /\ n \in TurnRecord /\ n.gen = turns[t].gen
    /\ UNCHANGED <<generation, session, epochs, seen>> /\ isTyping' \in BOOLEAN
    /\ controller' = controller \/ (controller = t /\ controller' = 0)
    /\ messages' \in Seq(MessageRecord)
    /\ \A q \in Turn \ {t} : Shown(q)' = Shown(q) /\ \A i \in Shown(q) : messages'[i].text = messages[i].text
    /\ \A i \in DOMAIN messages' :
          \/ messages'[i].turn = t /\ Current(t)
          \/ i \in DOMAIN messages /\ messages'[i].turn = messages[i].turn

LEMMA StepKeeps ==
    ASSUME PanelInv, NEW t \in Turn, NEW n, StepOf(t, n), TurnInv(t)'
    PROVE  PanelInv'
<1>1. /\ turns' \in Seq(TurnRecord) /\ Len(turns') = Len(turns) /\ Turn' = Turn
      /\ turns'[t] = n /\ \A q \in Turn \ {t} : turns'[q] = turns[q]
    BY OneTurn DEF PanelInv, StepOf
<1>2. Types'
    BY <1>1, TurnIsRecord DEF PanelInv, Types, StepOf
<1>3. ASSUME NEW q \in Turn \ {t} PROVE TurnInv(q)'
    BY <1>1, <1>3, CalmTurn DEF PanelInv, StepOf
<1>4. \A q \in Turn : Current(q)' <=> Current(q)
    BY <1>1 DEF Current, StepOf
<1>5. ASSUME NEW i \in DOMAIN messages' PROVE MessageOK(messages[i])'
    BY <1>1, <1>4, <1>5 DEF PanelInv, MessageOK, StepOf
<1> QED BY <1>1, <1>2, <1>3, <1>5 DEF PanelInv

LEMMA StepIsStep ==
    ASSUME PanelInv, NEW t \in Turn, NEW n, StepOf(t, n)
    PROVE  /\ turns'[t] = n /\ Turn' = Turn /\ turns[t] \in TurnRecord /\ TurnInv(t)
           /\ Current(t)' <=> Current(t)
           /\ generation' = generation /\ session' = session
BY OneTurn, TurnIsRecord DEF PanelInv, StepOf, Current

\* A step that is not seen on the screen.
LEMMA Unseen ==
    ASSUME PanelInv, NEW t \in Turn, NEW n \in TurnRecord, turns' = [turns EXCEPT ![t] = n],
           n.gen = turns[t].gen, UNCHANGED <<generation, session, epochs, seen, messages>>,
           isTyping' \in BOOLEAN, controller' = controller \/ (controller = t /\ controller' = 0)
    PROVE  StepOf(t, n) /\ Shown(t)' = Shown(t)
<1>1. messages' = messages /\ messages \in Seq(MessageRecord)
    BY DEF PanelInv, Types
<1>2. \A q : Shown(q)' = Shown(q)
    BY <1>1 DEF Shown
<1> QED BY <1>1, <1>2 DEF StepOf

LEMMA AddsStep ==
    ASSUME PanelInv, NEW t \in Turn, NEW n \in TurnRecord, turns' = [turns EXCEPT ![t] = n],
           n.gen = turns[t].gen, UNCHANGED <<generation, session, epochs, seen>>,
           isTyping' \in BOOLEAN, controller' = controller \/ (controller = t /\ controller' = 0),
           NEW m \in MessageRecord, m.turn = t, Current(t), ADD_MESSAGE(m)
    PROVE  StepOf(t, n)
<1>1. Types /\ messages' = Append(messages, m)
    BY DEF PanelInv, ADD_MESSAGE
<1>2. /\ messages' \in Seq(MessageRecord)
      /\ DOMAIN messages' = DOMAIN messages \cup {Len(messages) + 1}
      /\ \A i \in DOMAIN messages : messages'[i] = messages[i]
      /\ messages'[Len(messages) + 1] = m
      /\ \A q : Shown(q)' = IF m.turn = q /\ m.kind = "reply"
                            THEN Shown(q) \cup {Len(messages) + 1} ELSE Shown(q)
    BY <1>1, Added
<1>3. \A q \in Turn \ {t} : Shown(q)' = Shown(q) /\ \A i \in Shown(q) : messages'[i].text = messages[i].text
    BY <1>2 DEF Shown
<1> QED BY <1>2, <1>3 DEF StepOf

LEMMA UpdatesStep ==
    ASSUME PanelInv, NEW t \in Turn, NEW n \in TurnRecord, turns' = [turns EXCEPT ![t] = n],
           n.gen = turns[t].gen, UNCHANGED <<generation, session, epochs, seen>>,
           isTyping' \in BOOLEAN, controller' = controller \/ (controller = t /\ controller' = 0),
           NEW text \in Seq(Tokens), UPDATE_MESSAGE(t, text)
    PROVE  StepOf(t, n)
<1>1. Types /\ t \in Nat
    BY TurnIsRecord DEF PanelInv
<1> QED BY <1>1, Updated DEF StepOf

LEMMA FetchKeeps ==
    ASSUME PanelInv, NEW t \in Turn, Fetch(t)
    PROVE  PanelInv'
<1>1. turns[t] \in TurnRecord /\ turns[t].phase = "storage" /\ TurnInv(t) /\ session \in Nat
    BY TurnIsRecord DEF PanelInv, Types, Fetch
<1>2. PICK n \in TurnRecord :
          n = [turns[t] EXCEPT !.phase = "open", !.sent = IF turns[t].aborted THEN 0 ELSE session]
    BY <1>1 DEF TurnRecord, Phases
<1>3. turns' = [turns EXCEPT ![t] = n] /\ n.gen = turns[t].gen
    BY <1>1, <1>2 DEF Fetch, TurnRecord
<1>4. /\ UNCHANGED <<generation, session, epochs, seen, messages>>
      /\ isTyping' \in BOOLEAN /\ controller' = controller
    BY DEF Fetch, PanelInv, Types
<1>5. StepOf(t, n) /\ Shown(t)' = Shown(t)
    BY <1>3, <1>4, Unseen
<1>6. turns'[t] = n /\ (Current(t)' <=> Current(t))
    BY <1>5, StepIsStep
<1>7. TurnOK(t)' /\ TextOK(t)'
    BY <1>1, <1>2, <1>4, <1>6 DEF TurnInv, TurnOK, TextOK, Open, TurnRecord
<1>8. ControlOK(t)'
    <2>1. /\ n.phase = "open" /\ n.aborted = turns[t].aborted /\ n.session = turns[t].session
          /\ n.sent = IF turns[t].aborted THEN 0 ELSE session
        BY <1>1, <1>2 DEF TurnRecord
    <2>2. ~turns[t].aborted => t \in Outstanding
        BY <1>1 DEF Outstanding
    <2>3. t \in Outstanding' => ~turns[t].aborted
        BY <1>6, <2>1 DEF Outstanding
    <2> QED BY <1>1, <1>4, <1>6, <2>1, <2>2, <2>3 DEF TurnInv, ControlOK
<1>9. ShownOK(t)'
    <2>1. n.phase = "open" /\ n.outcome = turns[t].outcome /\ n.bubble = turns[t].bubble
        BY <1>1, <1>2 DEF TurnRecord
    <2> QED BY <1>1, <1>4, <1>5, <1>6, <2>1 DEF TurnInv, ShownOK
<1> QED BY <1>5, <1>7, <1>8, <1>9, StepKeeps DEF TurnInv

LEMMA FinalKeeps ==
    ASSUME PanelInv, NEW t \in Turn, Final(t)
    PROVE  PanelInv'
<1>1. turns[t] \in TurnRecord /\ TurnInv(t)
    BY TurnIsRecord DEF PanelInv
<1>2. PICK n \in TurnRecord : n = [turns[t] EXCEPT !.final = TRUE, !.reply = turns[t].answer]
    BY <1>1 DEF TurnRecord
<1>3. turns' = [turns EXCEPT ![t] = n]
    BY <1>1, <1>2 DEF Final, TurnRecord
<1>4. /\ UNCHANGED <<generation, session, epochs, seen, messages>>
      /\ isTyping' \in BOOLEAN /\ controller' = controller
    BY DEF Final, PanelInv, Types
<1>5. /\ n.final /\ n.reply = n.answer
      /\ \A f \in {"gen", "session", "sent", "phase", "aborted", "answer", "read", "partial", "frame", "bubble",
                   "outcome"} : n[f] = turns[t][f]
    BY <1>1, <1>2 DEF TurnRecord
<1>6. StepOf(t, n) /\ Shown(t)' = Shown(t)
    BY <1>3, <1>4, <1>5, Unseen
<1>7. turns'[t] = n /\ (Current(t)' <=> Current(t))
    BY <1>6, StepIsStep
<1>8. TurnOK(t)' /\ TextOK(t)'
    BY <1>1, <1>4, <1>5, <1>7 DEF TurnInv, TurnOK, TextOK, Open
<1>9. ControlOK(t)'
    <2>1. t \in Outstanding' => t \in Outstanding
        BY <1>5, <1>7 DEF Outstanding
    <2> QED BY <1>1, <1>4, <1>5, <1>7, <2>1 DEF TurnInv, ControlOK
<1>10. ShownOK(t)'
    BY <1>1, <1>4, <1>5, <1>6, <1>7 DEF TurnInv, ShownOK, Final, Reads, Open
<1> QED BY <1>6, <1>8, <1>9, <1>10, StepKeeps DEF TurnInv

\* The text so far, one token longer.
LEMMA OneMoreToken ==
    ASSUME NEW a \in Seq(Tokens), NEW k \in 1 .. Len(a)
    PROVE  SubSeq(a, 1, k) = SubSeq(a, 1, k - 1) \o <<a[k]>>
<1>1. Len(a) \in Nat /\ 1 \in 1 .. Len(a) /\ k \in 1 .. Len(a)
    OBVIOUS
<1> QED BY <1>1, SubSeqRecursiveSecond

LEMMA SubTextIsText ==
    ASSUME NEW a \in Seq(Tokens), NEW k \in 1 .. Len(a)
    PROVE  /\ SubSeq(a, 1, k) \in Seq(Tokens) /\ SubSeq(a, 1, k) # <<>>
           /\ <<a[k]>> \in Seq(Tokens) /\ <<a[k]>> # <<>>
<1>1. a[k] \in Tokens /\ k \in Int /\ k >= 1 /\ Len(a) \in Nat /\ \A i \in 1 .. k : a[i] \in Tokens
    OBVIOUS
<1>2. SubSeq(a, 1, k) \in Seq(Tokens) /\ Len(SubSeq(a, 1, k)) = k
    BY <1>1, SubSeqProperties
<1> QED BY <1>1, <1>2

\* What is shown of a delta is something.
LEMMA MergedIsText ==
    ASSUME NEW c \in Seq(Tokens), NEW text \in Seq(Tokens), text # <<>>
    PROVE  mergeStreamText(c, text) \in Seq(Tokens) /\ mergeStreamText(c, text) # <<>>
<1>1. IsPrefix(text, c) => c # <<>>
    BY DEF IsPrefix
<1>2. c \o text \in Seq(Tokens) /\ c \o text # <<>>
    BY ConcatProperties, ConcatEqualIffEmpty
<1> QED BY <1>1, <1>2 DEF mergeStreamText

LEMMA DeltaKeeps ==
    ASSUME PanelInv, NEW t \in Turn, Delta(t)
    PROVE  PanelInv'
<1>1. turns[t] \in TurnRecord /\ TurnInv(t)
    BY TurnIsRecord DEF PanelInv
<1> DEFINE k == turns[t].read + 1
           a == turns[t].answer
           text == IF turns[t].cumulative THEN SubSeq(a, 1, k) ELSE <<a[k]>>
           merged == mergeStreamText(turns[t].partial, text)
           shown == IF Current(t) THEN merged ELSE turns[t].partial
           frame == IF Current(t) THEN TRUE ELSE turns[t].frame
<1>2. /\ Open(t) /\ ~turns[t].final /\ k \in 1 .. Len(a)
      /\ a \in Seq(Tokens) /\ turns[t].reply \in Seq(Tokens) /\ turns[t].partial \in Seq(Tokens)
      /\ turns[t].frame \in BOOLEAN /\ turns[t].read \in Nat
    BY <1>1 DEF Delta, Reads, TurnRecord
<1>3. text \in Seq(Tokens) /\ text # <<>>
    BY <1>2, SubTextIsText
<1>4. turns' = [turns EXCEPT ![t].read = k, ![t].reply = @ \o text,
                             ![t].partial = IF Current(t) THEN merged ELSE @, ![t].frame = @ \/ Current(t)]
    BY DEF Delta
<1>5. ~turns[t].cumulative => text = <<a[k]>>
    OBVIOUS
<1> HIDE DEF text
<1>6. merged \in Seq(Tokens) /\ merged # <<>>
    BY <1>2, <1>3, MergedIsText
<1>7. turns[t].reply \o text \in Seq(Tokens)
    BY <1>2, <1>3, ConcatProperties
<1>8. ~turns[t].cumulative => turns[t].reply \o text = SubSeq(a, 1, k)
    <2> SUFFICES ASSUME ~turns[t].cumulative
                 PROVE  turns[t].reply \o <<a[k]>> = SubSeq(a, 1, k)
        BY <1>5
    <2>1. turns[t].reply = SubSeq(a, 1, k - 1)
        BY <1>1, <1>2 DEF TurnInv, TextOK
    <2> HIDE DEF a, k
    <2>2. SubSeq(a, 1, k) = SubSeq(a, 1, k - 1) \o <<a[k]>>
        BY <1>2, OneMoreToken
    <2> QED BY <2>1, <2>2
<1> HIDE DEF merged
<1>9. shown \in Seq(Tokens) /\ frame \in BOOLEAN /\ (frame => shown # <<>>) /\ (frame <=> turns[t].frame \/ Current(t))
    <2>1. turns[t].frame => turns[t].partial # <<>>
        BY <1>1 DEF TurnInv, TurnOK
    <2> QED BY <1>2, <1>6, <2>1
<1>10. turns' = [turns EXCEPT ![t] = [turns[t] EXCEPT !.read = k, !.reply = turns[t].reply \o text,
                                                    !.partial = shown, !.frame = frame]]
    <2>1. (turns[t].frame \/ Current(t)) = frame
        <3>1. CASE Current(t)
            BY <3>1
        <3>2. CASE ~Current(t)
            BY <1>2, <3>2
        <3> QED BY <3>1, <3>2
    <2> DEFINE f == turns[t].frame \/ Current(t)
    <2>2. turns' = [turns EXCEPT ![t].read = k, ![t].reply = @ \o text, ![t].partial = shown, ![t].frame = f]
        BY <1>4
    <2>3. f = frame
        BY <2>1
    <2> HIDE DEF f, frame, shown, k
    <2> QED BY <1>1, <2>2, <2>3 DEF TurnRecord
<1> HIDE DEF shown, frame
<1>11. PICK n \in TurnRecord :
          n = [turns[t] EXCEPT !.read = k, !.reply = turns[t].reply \o text, !.partial = shown, !.frame = frame]
    <2>1. k \in Nat
        BY <1>2
    <2> DEFINE reply == turns[t].reply \o text
    <2> HIDE DEF k, reply
    <2>2. [turns[t] EXCEPT !.read = k, !.reply = reply, !.partial = shown, !.frame = frame] \in TurnRecord
        BY <1>1, <1>7, <1>9, <2>1 DEF TurnRecord, reply
    <2> QED BY <2>2 DEF reply
<1>12. turns' = [turns EXCEPT ![t] = n]
    BY <1>10, <1>11
<1>13. /\ UNCHANGED <<generation, session, epochs, seen, messages>>
       /\ isTyping' \in BOOLEAN /\ controller' = controller
    BY DEF Delta, PanelInv, Types
<1>14. /\ n.read = k /\ n.reply = turns[t].reply \o text /\ n.partial = shown /\ n.frame = frame
       /\ \A f \in {"gen", "session", "sent", "phase", "aborted", "answer", "cumulative", "final", "bubble", "outcome"} :
             n[f] = turns[t][f]
    BY <1>1, <1>11 DEF TurnRecord
<1>15. StepOf(t, n) /\ Shown(t)' = Shown(t)
    BY <1>12, <1>13, <1>14, Unseen
<1>16. turns'[t] = n /\ (Current(t)' <=> Current(t))
    BY <1>15, StepIsStep
<1>17. TurnOK(t)'
    BY <1>1, <1>2, <1>9, <1>13, <1>14, <1>16 DEF TurnInv, TurnOK, Open
<1>18. TextOK(t)'
    BY <1>1, <1>2, <1>8, <1>14, <1>16 DEF TurnInv, TextOK
<1>19. ControlOK(t)'
    <2>1. t \in Outstanding' => t \in Outstanding
        BY <1>14, <1>16 DEF Outstanding
    <2> QED BY <1>1, <1>13, <1>14, <1>16, <2>1 DEF TurnInv, ControlOK
<1>20. ShownOK(t)'
    BY <1>1, <1>2, <1>13, <1>14, <1>15, <1>16 DEF TurnInv, ShownOK, Open
<1> QED BY <1>15, <1>17, <1>18, <1>19, <1>20, StepKeeps DEF TurnInv

-----------------------------------------------------------------------------
(* A turn settles *)

IsSettled(t, outcome, n) ==
    /\ turns' = [turns EXCEPT ![t] = n]
    /\ n.phase = "settled" /\ n.outcome = outcome /\ (n.frame => turns[t].frame /\ ~Current(t))
    /\ \A f \in {"gen", "session", "sent", "aborted", "answer", "cumulative", "read", "final", "reply", "partial",
                 "bubble"} : n[f] = turns[t][f]

LEMMA SettledTurn ==
    ASSUME PanelInv, NEW t \in Turn, NEW outcome \in {"ok", "error"}, turns' = Settled(t, outcome)
    PROVE  \E n \in TurnRecord : IsSettled(t, outcome, n)
<1>1. turns[t] \in TurnRecord /\ turns[t].frame \in BOOLEAN
    BY TurnIsRecord DEF PanelInv, TurnRecord
<1> DEFINE frame == turns[t].frame /\ ~Current(t)
           n == [turns[t] EXCEPT !.phase = "settled", !.outcome = outcome, !.frame = frame]
<1>2. frame \in BOOLEAN /\ (frame => turns[t].frame /\ ~Current(t))
    BY <1>1
<1>3. turns' = [turns EXCEPT ![t].phase = "settled", ![t].outcome = outcome, ![t].frame = frame]
    BY DEF Settled
<1> HIDE DEF frame
<1>4. n \in TurnRecord
    BY <1>1, <1>2 DEF TurnRecord, Phases
<1>5. turns' = [turns EXCEPT ![t] = n]
    BY <1>1, <1>3 DEF TurnRecord
<1>6. /\ n.phase = "settled" /\ n.outcome = outcome /\ n.frame = frame
      /\ \A f \in {"gen", "session", "sent", "aborted", "answer", "cumulative", "read", "final", "reply", "partial",
                   "bubble"} : n[f] = turns[t][f]
    BY <1>1 DEF TurnRecord
<1> HIDE DEF n
<1> QED BY <1>2, <1>4, <1>5, <1>6 DEF IsSettled

LEMMA SettleKeeps ==
    ASSUME PanelInv, NEW t \in Turn, NEW outcome \in {"ok", "error"}, NEW n \in TurnRecord,
           IsSettled(t, outcome, n), StepOf(t, n),
           outcome = "ok" /\ Current(t) /\ turns[t].reply # <<>> =>
               \E i : Shown(t)' = {i} /\ messages'[i].text = turns[t].reply
    PROVE  PanelInv'
<1>1. /\ turns'[t] = n /\ Turn' = Turn /\ turns[t] \in TurnRecord /\ TurnInv(t)
      /\ Current(t)' <=> Current(t)
      /\ generation' = generation /\ session' = session
    BY StepIsStep
<1>2. /\ n.phase = "settled" /\ n.outcome = outcome /\ (n.frame => turns[t].frame /\ ~Current(t))
      /\ n.gen = turns[t].gen /\ n.session = turns[t].session /\ n.sent = turns[t].sent
      /\ n.answer = turns[t].answer /\ n.cumulative = turns[t].cumulative /\ n.read = turns[t].read
      /\ n.final = turns[t].final /\ n.reply = turns[t].reply /\ n.partial = turns[t].partial
    BY DEF IsSettled
<1>3. TurnOK(t)'
    BY <1>1, <1>2 DEF TurnInv, TurnOK
<1>4. TextOK(t)'
    BY <1>1, <1>2 DEF TurnInv, TextOK
<1>5. ControlOK(t)'
    <2>1. ~(t \in Outstanding)'
        BY <1>1, <1>2 DEF Outstanding
    <2> QED BY <1>1, <1>2, <2>1 DEF TurnInv, ControlOK
<1>6. ShownOK(t)'
    BY <1>1, <1>2 DEF ShownOK
<1> QED BY <1>3, <1>4, <1>5, <1>6, StepKeeps DEF TurnInv

LEMMA ErrorShown ==
    ASSUME PanelInv, NEW t \in Turn, turns' = Settled(t, "error"), ShowError(t),
           UNCHANGED <<generation, session, epochs, seen>>,
           controller' = controller \/ (controller = t /\ controller' = 0)
    PROVE  PanelInv'
<1>1. PICK n \in TurnRecord : IsSettled(t, "error", n)
    BY SettledTurn
<1>2. turns' = [turns EXCEPT ![t] = n] /\ n.gen = turns[t].gen
    BY <1>1 DEF IsSettled
<1>3. CASE ~Current(t)
    <2>1. UNCHANGED messages /\ isTyping' \in BOOLEAN
        BY <1>3 DEF ShowError, PanelInv, Types
    <2>2. StepOf(t, n)
        BY <1>2, <2>1, Unseen
    <2> QED BY <1>1, <2>2, SettleKeeps
<1>4. CASE Current(t)
    <2> DEFINE m == Message(t, "error", <<>>)
    <2>1. m \in MessageRecord /\ m.turn = t
        BY TurnIsRecord DEF PanelInv, Message, MessageRecord, Kinds
    <2>2. ADD_MESSAGE(m) /\ isTyping' \in BOOLEAN
        BY <1>4 DEF ShowError
    <2> HIDE DEF m
    <2>3. StepOf(t, n)
        BY <1>2, <1>4, <2>1, <2>2, AddsStep
    <2> QED BY <1>1, <2>3, SettleKeeps
<1> QED BY <1>3, <1>4

LEMMA FailKeeps ==
    ASSUME PanelInv, NEW t \in Turn, Fail(t) \/ StorageFails(t)
    PROVE  PanelInv'
<1>1. /\ turns' = Settled(t, "error") /\ ShowError(t) /\ UNCHANGED <<generation, session, epochs, seen>>
      /\ controller' = controller \/ (controller = t /\ controller' = 0)
    BY DEF Fail, StorageFails, Release
<1> QED BY <1>1, ErrorShown

LEMMA EndKeeps ==
    ASSUME PanelInv, NEW t \in Turn, End(t)
    PROVE  PanelInv'
<1>1. PICK n \in TurnRecord : IsSettled(t, "ok", n)
    BY SettledTurn DEF End
<1>2. turns' = [turns EXCEPT ![t] = n] /\ n.gen = turns[t].gen
    BY <1>1 DEF IsSettled
<1>3. /\ UNCHANGED <<generation, session, epochs, seen>> /\ isTyping' \in BOOLEAN
      /\ controller' = controller \/ (controller = t /\ controller' = 0)
    BY DEF End, Release, PanelInv, Types
<1>4. CASE ~Current(t) \/ turns[t].reply = <<>>
    <2>1. UNCHANGED messages
        BY <1>4 DEF End
    <2>2. StepOf(t, n)
        BY <1>2, <1>3, <2>1, Unseen
    <2> QED BY <1>1, <1>4, <2>2, SettleKeeps
<1>5. CASE Current(t) /\ turns[t].reply # <<>>
    <2>1. /\ turns[t].phase = "open" /\ turns[t].reply \in Seq(Tokens) /\ t \in Nat
          /\ IF turns[t].bubble THEN \E i : Shown(t) = {i} ELSE Shown(t) = {}
        <3>1. turns[t] \in TurnRecord /\ t \in Nat /\ ShownOK(t)
            BY TurnIsRecord DEF PanelInv, TurnInv
        <3>2. turns[t].phase = "open"
            BY DEF End, Reads, Open
        <3>3. turns[t].reply \in Seq(Tokens)
            BY <3>1 DEF TurnRecord
        <3> QED BY <1>5, <3>1, <3>2, <3>3 DEF ShownOK
    <2>2. CASE turns[t].bubble
        <3>1. UPDATE_MESSAGE(t, turns[t].reply)
            BY <1>5, <2>2 DEF End
        <3>2. StepOf(t, n)
            BY <1>2, <1>3, <2>1, <3>1, UpdatesStep
        <3>3. Shown(t)' = Shown(t) /\ \A i \in Shown(t) : messages'[i].text = turns[t].reply
            BY <2>1, <3>1, Updated DEF PanelInv
        <3>4. \E i : Shown(t)' = {i} /\ messages'[i].text = turns[t].reply
            BY <2>1, <2>2, <3>3
        <3> QED BY <1>1, <3>2, <3>4, SettleKeeps
    <2>3. CASE ~turns[t].bubble
        <3> DEFINE m == Message(t, "reply", turns[t].reply)
        <3>1. m \in MessageRecord /\ m.turn = t /\ m.kind = "reply" /\ m.text = turns[t].reply
            BY <2>1 DEF Message, MessageRecord, Kinds
        <3>2. ADD_MESSAGE(m)
            BY <1>5, <2>3 DEF End
        <3> HIDE DEF m
        <3>3. StepOf(t, n)
            BY <1>2, <1>3, <1>5, <3>1, <3>2, AddsStep
        <3>4. /\ messages'[Len(messages) + 1] = m
              /\ Shown(t)' = Shown(t) \cup {Len(messages) + 1}
            BY <3>1, <3>2, Added DEF PanelInv, ADD_MESSAGE
        <3>5. \E i : Shown(t)' = {i} /\ messages'[i].text = turns[t].reply
            BY <2>1, <2>3, <3>1, <3>4
        <3> QED BY <1>1, <3>3, <3>5, SettleKeeps
    <2> QED BY <2>2, <2>3
<1> QED BY <1>4, <1>5

LEMMA FrameKeeps ==
    ASSUME PanelInv, NEW t \in Turn, Frame(t)
    PROVE  PanelInv'
<1>1. turns[t] \in TurnRecord /\ TurnInv(t) /\ turns[t].frame /\ t \in Nat
    BY TurnIsRecord DEF PanelInv, Frame
<1> DEFINE bubble == turns[t].bubble \/ Current(t)
<1>2. bubble \in BOOLEAN /\ (bubble <=> turns[t].bubble \/ Current(t))
    BY <1>1 DEF TurnRecord
<1>3. turns' = [turns EXCEPT ![t].frame = FALSE, ![t].bubble = bubble]
    BY DEF Frame
<1> HIDE DEF bubble
<1>4. PICK n \in TurnRecord : n = [turns[t] EXCEPT !.frame = FALSE, !.bubble = bubble]
    BY <1>1, <1>2 DEF TurnRecord
<1>5. turns' = [turns EXCEPT ![t] = n]
    BY <1>1, <1>3, <1>4 DEF TurnRecord
<1>6. /\ n.frame = FALSE /\ n.bubble = bubble
      /\ \A f \in {"gen", "session", "sent", "phase", "aborted", "answer", "cumulative", "read", "final", "reply",
                   "partial", "outcome"} : n[f] = turns[t][f]
    BY <1>1, <1>4 DEF TurnRecord
<1>7. /\ UNCHANGED <<generation, session, epochs, seen>> /\ isTyping' \in BOOLEAN /\ controller' = controller
    BY DEF Frame, PanelInv, Types
<1>8. ASSUME StepOf(t, n), Current(t) => Open(t) /\ \E i : Shown(t)' = {i}
      PROVE  PanelInv'
    <2>1. turns'[t] = n /\ (Current(t)' <=> Current(t)) /\ generation' = generation /\ session' = session
        BY <1>8, StepIsStep
    <2>2. TurnOK(t)' /\ TextOK(t)'
        BY <1>1, <1>6, <2>1 DEF TurnInv, TurnOK, TextOK
    <2>3. ControlOK(t)'
        <3>1. t \in Outstanding' => t \in Outstanding
            BY <1>6, <2>1 DEF Outstanding
        <3> QED BY <1>1, <1>6, <1>7, <2>1, <3>1 DEF TurnInv, ControlOK
    <2>4. ShownOK(t)'
        BY <1>1, <1>2, <1>6, <1>8, <2>1 DEF TurnInv, ShownOK, Open
    <2> QED BY <1>8, <2>2, <2>3, <2>4, StepKeeps DEF TurnInv
<1>9. CASE ~Current(t)
    <2>1. UNCHANGED messages
        BY <1>9 DEF Frame
    <2>2. StepOf(t, n)
        BY <1>5, <1>6, <1>7, <2>1, Unseen
    <2> QED BY <1>8, <1>9, <2>2
<1>10. CASE Current(t)
    <2>1. Open(t) /\ turns[t].partial \in Seq(Tokens)
        BY <1>1, <1>10 DEF TurnInv, TurnOK, TurnRecord
    <2>2. IF turns[t].bubble THEN \E i : Shown(t) = {i} ELSE Shown(t) = {}
        BY <1>1, <1>10, <2>1 DEF TurnInv, ShownOK, Open
    <2>3. CASE turns[t].bubble
        <3>1. UPDATE_MESSAGE(t, turns[t].partial)
            BY <1>10, <2>3 DEF Frame
        <3>2. StepOf(t, n)
            BY <1>5, <1>6, <1>7, <2>1, <3>1, UpdatesStep
        <3>3. Shown(t)' = Shown(t)
            BY <1>1, <2>1, <3>1, Updated DEF PanelInv
        <3> QED BY <1>8, <2>1, <2>2, <2>3, <3>2, <3>3
    <2>4. CASE ~turns[t].bubble
        <3> DEFINE m == Message(t, "reply", turns[t].partial)
        <3>1. m \in MessageRecord /\ m.turn = t /\ m.kind = "reply"
            BY <1>1, <2>1 DEF Message, MessageRecord, Kinds
        <3>2. ADD_MESSAGE(m)
            BY <1>10, <2>4 DEF Frame
        <3> HIDE DEF m
        <3>3. StepOf(t, n)
            BY <1>5, <1>6, <1>7, <1>10, <3>1, <3>2, AddsStep
        <3>4. Shown(t)' = Shown(t) \cup {Len(messages) + 1}
            BY <3>1, <3>2, Added DEF PanelInv, ADD_MESSAGE
        <3>5. \E i : Shown(t)' = {i}
            BY <2>2, <2>4, <3>4
        <3> QED BY <1>8, <2>1, <3>3, <3>5
    <2> QED BY <2>3, <2>4
<1> QED BY <1>9, <1>10

-----------------------------------------------------------------------------
(* Steps of the conversation *)

\* Aborting touches one flag of one turn, and leaves nothing outstanding.
LEMMA AbortDoes ==
    ASSUME PanelInv
    PROVE  /\ Abort \in Seq(TurnRecord) /\ DOMAIN Abort = Turn
           /\ \A t \in Turn : \A f \in {"gen", "session", "sent", "phase", "answer", "cumulative", "read", "final",
                                        "reply", "partial", "frame", "bubble", "outcome"} :
                 Abort[t][f] = turns[t][f]
           /\ \A t \in Turn : Abort[t].phase \in {"storage", "open"} => Abort[t].aborted
<1>1. /\ Turn = 1 .. Len(turns) /\ Len(turns) \in Nat /\ turns \in Seq(TurnRecord)
      /\ \A t \in Turn : turns[t] \in TurnRecord
      /\ controller \in 0 .. Len(turns)
    BY TurnIsRecord DEF PanelInv, Types
<1>2. \A t \in Turn : turns[t].phase \in {"storage", "open"} /\ ~turns[t].aborted => t = controller
    BY DEF PanelInv, TurnInv, ControlOK, Outstanding
<1>3. CASE controller = 0
    <2>1. Abort = turns
        BY <1>3 DEF Abort
    <2>2. \A t \in Turn : t # 0
        BY <1>1
    <2> QED BY <1>1, <1>2, <1>3, <2>1, <2>2 DEF Turn
<1>4. CASE controller # 0
    <2>1. controller \in Turn /\ Abort = [turns EXCEPT ![controller].aborted = TRUE]
        BY <1>1, <1>4 DEF Abort
    <2> DEFINE n == [turns[controller] EXCEPT !.aborted = TRUE]
    <2>2. n \in TurnRecord /\ n.aborted
          /\ \A f \in {"gen", "session", "sent", "phase", "answer", "cumulative", "read", "final", "reply", "partial",
                       "frame", "bubble", "outcome"} : n[f] = turns[controller][f]
        BY <1>1, <2>1 DEF TurnRecord
    <2>3. Abort = [turns EXCEPT ![controller] = n]
        BY <2>1
    <2> HIDE DEF n
    <2>4. Abort \in Seq(TurnRecord) /\ DOMAIN Abort = Turn
        <3>1. controller \in 1 .. Len(turns)
            BY <1>1, <2>1
        <3>2. Abort \in Seq(TurnRecord) /\ Len(Abort) = Len(turns)
            BY <1>1, <2>2, <2>3, <3>1, ExceptSeq
        <3> QED BY <1>1, <3>2, LenProperties
    <2>5. Abort[controller] = n /\ \A t \in Turn \ {controller} : Abort[t] = turns[t]
        BY <2>1, <2>3 DEF Turn
    <2> QED BY <1>2, <2>1, <2>2, <2>4, <2>5
<1> QED BY <1>3, <1>4

\* A turn that keeps everything but the flag, in the same conversation.
LEMMA AbortedTurn ==
    ASSUME NEW t \in Turn, TurnInv(t), t \in Turn', turns'[t].frame => turns[t].frame,
           \A f \in {"gen", "session", "sent", "phase", "answer", "cumulative", "read", "final",
                     "reply", "partial", "bubble", "outcome"} : turns'[t][f] = turns[t][f],
           turns'[t].phase \in {"storage", "open"} => turns'[t].aborted,
           generation' = generation, session' = session,
           Shown(t)' = Shown(t), \A i \in Shown(t) : messages'[i].text = messages[i].text
    PROVE  TurnInv(t)'
<1>1. Current(t)' <=> Current(t)
    BY DEF Current
<1>2. t \notin Outstanding'
    BY DEF Outstanding
<1>3. TurnOK(t)' /\ TextOK(t)' /\ ControlOK(t)'
    BY <1>1, <1>2 DEF TurnInv, TurnOK, TextOK, ControlOK, Open
<1>4. ShownOK(t)'
    BY <1>1 DEF TurnInv, ShownOK
<1> QED BY <1>3, <1>4 DEF TurnInv

LEMMA SendKeeps ==
    ASSUME PanelInv, Send
    PROVE  PanelInv'
<1>1. /\ Turn = 1 .. Len(turns) /\ Len(turns) \in Nat
      /\ \A t \in Turn : turns[t] \in TurnRecord /\ TurnInv(t)
      /\ generation \in Nat /\ session \in Nat /\ session >= 1
    BY TurnIsRecord DEF PanelInv, Types
<1>0. PICK new \in Nat : new = Len(turns) + 1
    BY <1>1
<1>2. PICK answer \in Answers, cumulative \in BOOLEAN :
          turns' = Append(Abort,
              [gen |-> generation, session |-> session, sent |-> 0, phase |-> "storage", aborted |-> FALSE,
               answer |-> answer, cumulative |-> cumulative, read |-> 0, final |-> FALSE, reply |-> <<>>,
               partial |-> <<>>, frame |-> FALSE, bubble |-> FALSE, outcome |-> "none"])
    BY DEF Send
<1> DEFINE n ==
              [gen |-> generation, session |-> session, sent |-> 0, phase |-> "storage", aborted |-> FALSE,
               answer |-> answer, cumulative |-> cumulative, read |-> 0, final |-> FALSE, reply |-> <<>>,
               partial |-> <<>>, frame |-> FALSE, bubble |-> FALSE, outcome |-> "none"]
           m == Message(new, "user", <<>>)
<1>3. answer \in Seq(Tokens) /\ Len(answer) \in Nat /\ SubSeq(answer, 1, 0) = <<>>
    BY AnswersAreTexts, SubSeqEmpty
<1>4. n \in TurnRecord
    BY <1>1, <1>3 DEF TurnRecord, Phases
<1>5. /\ n.gen = generation /\ n.session = session /\ n.sent = 0 /\ n.aborted = FALSE /\ n.answer = answer
      /\ n.read = 0 /\ n.final = FALSE /\ n.reply = <<>> /\ n.frame = FALSE /\ n.bubble = FALSE /\ n.outcome = "none"
    OBVIOUS
<1>6. turns' = Append(Abort, n)
    BY <1>2
<1>7. m \in MessageRecord /\ m.turn = new /\ m.kind = "user"
    BY DEF Message, MessageRecord, Kinds
<1>8. /\ controller' = new /\ messages' = Append(messages, m) /\ isTyping' = TRUE
      /\ UNCHANGED <<generation, session, epochs, seen>>
    BY <1>0 DEF Send, ADD_MESSAGE
<1> HIDE DEF n, m
<1>9. /\ turns' \in Seq(TurnRecord) /\ Len(turns') = new /\ Turn' = 1 .. new
      /\ turns'[new] = n /\ \A t \in Turn : turns'[t] = Abort[t]
    <2>1. Abort \in Seq(TurnRecord) /\ Len(Abort) = Len(turns)
        <3>1. Abort \in Seq(TurnRecord) /\ DOMAIN Abort = Turn
            BY AbortDoes
        <3>2. DOMAIN Abort = 1 .. Len(Abort) /\ Len(Abort) \in Nat
            BY <3>1, LenProperties
        <3> QED BY <1>1, <3>1, <3>2
    <2>2. turns' \in Seq(TurnRecord) /\ Len(turns') = new /\ turns'[new] = n
          /\ \A t \in 1 .. Len(turns) : turns'[t] = Abort[t]
        BY <1>0, <1>4, <1>6, <2>1, AppendProperties
    <2> QED BY <1>0, <1>1, <2>2, LenProperties DEF Turn
<1>10. /\ messages' \in Seq(MessageRecord)
       /\ DOMAIN messages' = DOMAIN messages \cup {Len(messages) + 1}
       /\ \A i \in DOMAIN messages : messages'[i] = messages[i]
       /\ messages'[Len(messages) + 1] = m
       /\ \A t : Shown(t)' = Shown(t)
    BY <1>7, <1>8, Added DEF PanelInv
<1>11. Types'
    BY <1>0, <1>1, <1>8, <1>9, <1>10 DEF PanelInv, Types
<1>12. ASSUME NEW t \in Turn PROVE TurnInv(t)'
    <2>1. t \in Turn'
        BY <1>0, <1>1, <1>9, <1>12
    <2>2. \A i \in Shown(t) : messages'[i].text = messages[i].text
        BY <1>10 DEF Shown
    <2>3. /\ \A f \in {"gen", "session", "sent", "phase", "answer", "cumulative", "read", "final",
                       "reply", "partial", "frame", "bubble", "outcome"} : turns'[t][f] = turns[t][f]
          /\ turns'[t].phase \in {"storage", "open"} => turns'[t].aborted
        BY <1>9, <1>12, AbortDoes
    <2> QED BY <1>1, <1>8, <1>10, <2>1, <2>2, <2>3, AbortedTurn
<1>13. TurnInv(new)'
    <2>1. TurnOK(new)'
        BY <1>1, <1>3, <1>5, <1>8, <1>9 DEF TurnOK
    <2>2. TextOK(new)'
        BY <1>3, <1>5, <1>9 DEF TextOK
    <2>3. ControlOK(new)'
        BY <1>5, <1>8, <1>9 DEF ControlOK
    <2>4. Shown(new)' = {}
        <3>1. \A i \in DOMAIN messages : messages[i].turn # new
            BY <1>0, <1>1 DEF PanelInv, MessageOK
        <3>2. Shown(new) = {}
            BY <3>1 DEF Shown
        <3> QED BY <1>10, <3>2
    <2>5. ShownOK(new)'
        BY <1>5, <1>9, <2>4 DEF ShownOK
    <2> QED BY <2>1, <2>2, <2>3, <2>5 DEF TurnInv
<1>14. Current(new)' /\ \A t \in Turn : t \in Turn' /\ (Current(t)' <=> Current(t))
    <2>1. \A t \in Turn : turns'[t].gen = turns[t].gen
        BY <1>9, AbortDoes
    <2> QED BY <1>0, <1>1, <1>5, <1>8, <1>9, <2>1 DEF Current
<1>15. \A i \in DOMAIN messages' : MessageOK(messages[i])'
    BY <1>0, <1>7, <1>9, <1>10, <1>14 DEF PanelInv, MessageOK
<1>16. \A t \in Turn' : t \in Turn \/ t = new
    BY <1>0, <1>1, <1>9
<1> QED BY <1>11, <1>12, <1>13, <1>15, <1>16 DEF PanelInv

\* The conversation is closed: no turn is of this one any more.
LEMMA ClosedTurn ==
    ASSUME PanelInv, NEW t \in Turn, t \in Turn', turns'[t].frame => turns[t].frame,
           \A f \in {"gen", "session", "sent", "phase", "answer", "cumulative", "read", "final",
                     "reply", "partial", "bubble", "outcome"} : turns'[t][f] = turns[t][f],
           t \in Outstanding' => t \in Outstanding /\ session' = session,
           generation' = generation + 1, session' \in {session, session + 1}, controller' = controller
    PROVE  TurnInv(t)'
<1>1. TurnInv(t) /\ turns[t] \in TurnRecord /\ generation \in Nat /\ session \in Nat
    BY TurnIsRecord DEF PanelInv, Types
<1>2. turns[t].gen \in Nat /\ turns[t].gen <= generation /\ turns[t].session \in 1 .. session
    BY <1>1 DEF TurnInv, TurnOK, TurnRecord
<1>3. ~Current(t)'
    BY <1>1, <1>2 DEF Current
<1>4. TurnOK(t)' /\ TextOK(t)'
    BY <1>1, <1>2, <1>3 DEF TurnInv, TurnOK, TextOK
<1>5. ControlOK(t)'
    BY <1>1 DEF TurnInv, ControlOK
<1>6. ShownOK(t)'
    BY <1>1, <1>3 DEF TurnInv, ShownOK
<1> QED BY <1>4, <1>5, <1>6 DEF TurnInv

LEMMA ClosingKeeps ==
    ASSUME PanelInv, ClearChat \/ ToggleLanguage
    PROVE  PanelInv'
<1>1. /\ generation' = generation + 1 /\ isTyping' = FALSE /\ messages' = <<>>
      /\ epochs < MaxEpochs /\ epochs' = epochs + 1 /\ controller' = controller /\ seen' = seen
      /\ \/ turns' = Abort /\ session' = session + 1
         \/ turns' = turns /\ session' = session
    BY DEF ClearChat, ToggleLanguage, CLEAR_CHAT, NewEpoch
<1>2. /\ epochs \in Nat /\ generation \in Nat /\ session \in Nat /\ turns \in Seq(TurnRecord)
      /\ Turn = 1 .. Len(turns) /\ Len(turns) \in Nat
    BY TurnIsRecord, BoundsAreNat DEF PanelInv, Types
<1>0. /\ epochs' \in 0 .. MaxEpochs /\ generation' \in 0 .. epochs' /\ session' \in 1 .. generation' + 1
      /\ isTyping' \in BOOLEAN /\ seen' \subseteq Suggestions /\ messages' \in Seq(MessageRecord)
    <2>1. epochs' \in 0 .. MaxEpochs /\ generation' \in 0 .. epochs' /\ session' \in 1 .. generation' + 1
        BY <1>1, <1>2, BoundsAreNat DEF PanelInv, Types
    <2>2. isTyping' \in BOOLEAN /\ seen' \subseteq Suggestions /\ messages' \in Seq(MessageRecord)
        BY <1>1, EmptySeq DEF PanelInv, Types
    <2> QED BY <2>1, <2>2
<1>3. CASE turns' = Abort /\ session' = session + 1
    <2>1. turns' \in Seq(TurnRecord) /\ Turn' = Turn
        BY <1>3, AbortDoes DEF Turn
    <2>2. Len(turns') = Len(turns)
        BY <1>2, <2>1, LenProperties DEF Turn
    <2>3. Types'
        BY <1>0, <1>1, <2>1, <2>2 DEF PanelInv, Types
    <2>4. ASSUME NEW t \in Turn PROVE TurnInv(t)'
        <3>1. t \notin Outstanding'
            BY <1>3, <2>1, <2>4, AbortDoes DEF Outstanding
        <3>2. turns'[t].frame => turns[t].frame
            BY <1>3, <2>4, AbortDoes
        <3>3. \A f \in {"gen", "session", "sent", "phase", "answer", "cumulative", "read", "final",
                        "reply", "partial", "bubble", "outcome"} : turns'[t][f] = turns[t][f]
            BY <1>3, <2>4, AbortDoes
        <3> QED BY <1>1, <1>3, <2>1, <3>1, <3>2, <3>3, ClosedTurn
    <2> QED BY <1>1, <2>1, <2>3, <2>4 DEF PanelInv
<1>4. CASE turns' = turns /\ session' = session
    <2>1. Turn' = Turn /\ Outstanding' = Outstanding
        BY <1>4 DEF Turn, Outstanding
    <2>2. Types'
        BY <1>0, <1>1, <1>4 DEF PanelInv, Types
    <2>3. ASSUME NEW t \in Turn PROVE TurnInv(t)'
        BY <1>1, <1>4, <2>1, <2>3, ClosedTurn
    <2> QED BY <1>1, <2>1, <2>2, <2>3 DEF PanelInv
<1> QED BY <1>1, <1>3, <1>4

LEMMA ReloadKeeps ==
    ASSUME PanelInv, Reload
    PROVE  PanelInv'
<1>1. /\ generation' = generation /\ session' = session /\ messages' = messages /\ isTyping' = FALSE
      /\ epochs < MaxEpochs /\ epochs' = epochs + 1 /\ controller' = 0 /\ seen' = {}
    BY DEF Reload, NewEpoch
<1>0. turns' = [t \in Turn |-> IF turns[t].phase = "settled" THEN [turns[t] EXCEPT !.frame = FALSE]
                                  ELSE [turns[t] EXCEPT !.phase = "gone", !.frame = FALSE]]
    BY DEF Reload
<1>2. /\ epochs \in Nat /\ generation \in Nat /\ session \in Nat /\ turns \in Seq(TurnRecord)
      /\ Turn = 1 .. Len(turns) /\ Len(turns) \in Nat
      /\ \A t \in Turn : turns[t] \in TurnRecord /\ TurnInv(t)
    BY TurnIsRecord, BoundsAreNat DEF PanelInv, Types
<1>3. \A t \in Turn :
          /\ turns'[t] \in TurnRecord /\ turns'[t].frame = FALSE
          /\ turns'[t].phase = IF turns[t].phase = "settled" THEN "settled" ELSE "gone"
          /\ \A f \in {"gen", "session", "sent", "answer", "cumulative", "read", "final",
                       "reply", "partial", "bubble", "outcome"} : turns'[t][f] = turns[t][f]
    <2> TAKE t \in Turn
    <2>1. turns[t] \in TurnRecord
        BY <1>2
    <2>2. CASE turns[t].phase = "settled"
        <3>1. turns'[t] = [turns[t] EXCEPT !.frame = FALSE]
            BY <1>0, <2>2
        <3> QED BY <2>1, <2>2, <3>1 DEF TurnRecord
    <2>3. CASE turns[t].phase # "settled"
        <3>1. turns'[t] = [turns[t] EXCEPT !.phase = "gone", !.frame = FALSE]
            BY <1>0, <2>3
        <3> QED BY <2>1, <2>3, <3>1 DEF TurnRecord, Phases
    <2> QED BY <2>2, <2>3
<1>4. Turn' = Turn
    <2>1. DOMAIN turns' = Turn
        BY <1>0
    <2> QED BY <2>1 DEF Turn
<1>5. turns' \in Seq(TurnRecord) /\ Len(turns') = Len(turns)
    <2>1. turns' = [t \in 1 .. Len(turns) |-> turns'[t]]
        BY <1>0, <1>2
    <2> QED BY <1>2, <1>3, <2>1
<1>6. Types'
    <2>1. epochs' \in 0 .. MaxEpochs /\ generation' \in 0 .. epochs' /\ session' \in 1 .. generation' + 1
        BY <1>1, <1>2, BoundsAreNat DEF PanelInv, Types
    <2>2. turns' \in Seq(TurnRecord) /\ messages' \in Seq(MessageRecord)
        BY <1>1, <1>5 DEF PanelInv, Types
    <2>3. isTyping' \in BOOLEAN /\ seen' \subseteq Suggestions
        BY <1>1
    <2>4. controller' \in 0 .. Len(turns')
        BY <1>1, <1>2, <1>5
    <2> QED BY <2>1, <2>2, <2>3, <2>4 DEF Types
<1>7. ASSUME NEW t \in Turn PROVE TurnInv(t)'
    <2>0. /\ turns'[t].gen = turns[t].gen /\ turns'[t].session = turns[t].session
          /\ turns'[t].sent = turns[t].sent /\ turns'[t].answer = turns[t].answer
          /\ turns'[t].cumulative = turns[t].cumulative /\ turns'[t].read = turns[t].read
          /\ turns'[t].final = turns[t].final /\ turns'[t].reply = turns[t].reply
          /\ turns'[t].outcome = turns[t].outcome
          /\ turns'[t].frame = FALSE /\ turns'[t].phase = IF turns[t].phase = "settled" THEN "settled" ELSE "gone"
        BY <1>3, <1>7
    <2>1. (Current(t)' <=> Current(t)) /\ Shown(t)' = Shown(t) /\ t \notin Outstanding'
        BY <1>1, <2>0 DEF Current, Shown, Outstanding
    <2>2. TurnOK(t)' /\ TextOK(t)'
        BY <1>1, <1>2, <2>0 DEF TurnInv, TurnOK, TextOK
    <2>3. ControlOK(t)'
        BY <1>2, <2>0, <2>1 DEF TurnInv, ControlOK
    <2>4. ShownOK(t)'
        BY <1>1, <1>2, <2>0, <2>1 DEF TurnInv, ShownOK
    <2> QED BY <2>2, <2>3, <2>4 DEF TurnInv
<1>8. \A t \in Turn : Current(t)' <=> Current(t)
    BY <1>1, <1>3 DEF Current
<1>9. \A i \in DOMAIN messages' : MessageOK(messages[i])'
    BY <1>1, <1>4, <1>8 DEF PanelInv, MessageOK
<1> QED BY <1>4, <1>6, <1>7, <1>9 DEF PanelInv

LEMMA SuggestKeeps ==
    ASSUME PanelInv, NEW c \in Suggestions, Suggest(c)
    PROVE  PanelInv'
<1> DEFINE m == Message(0, "suggestion", <<>>)
<1>1. m \in MessageRecord /\ m.turn = 0 /\ m.kind = "suggestion"
    BY DEF Message, MessageRecord, Kinds
<1>2. /\ messages' = Append(messages, m) /\ seen' = seen \cup {c}
      /\ UNCHANGED <<generation, session, epochs, isTyping, turns, controller>>
    BY DEF Suggest, ADD_MESSAGE
<1> HIDE DEF m
<1>3. /\ messages' \in Seq(MessageRecord)
      /\ DOMAIN messages' = DOMAIN messages \cup {Len(messages) + 1}
      /\ \A i \in DOMAIN messages : messages'[i] = messages[i]
      /\ messages'[Len(messages) + 1] = m
      /\ \A t : Shown(t)' = Shown(t)
    BY <1>1, <1>2, Added DEF PanelInv
<1>4. Types'
    BY <1>2, <1>3 DEF PanelInv, Types
<1>5. Turn' = Turn /\ \A t \in Turn : Current(t)' <=> Current(t)
    BY <1>2 DEF Turn, Current
<1>6. ASSUME NEW t \in Turn PROVE TurnInv(t)'
    <2>1. \A i \in Shown(t) : messages'[i].text = messages[i].text
        BY <1>3 DEF Shown
    <2> QED BY <1>2, <1>3, <1>5, <1>6, <2>1, CalmTurn DEF PanelInv
<1>7. \A i \in DOMAIN messages' : MessageOK(messages[i])'
    BY <1>1, <1>3, <1>5 DEF PanelInv, MessageOK
<1> QED BY <1>4, <1>5, <1>6, <1>7 DEF PanelInv

-----------------------------------------------------------------------------
(* The invariant holds, and what follows from it *)

LEMMA InitHolds == Init => PanelInv
<1> SUFFICES ASSUME Init PROVE PanelInv
    OBVIOUS
<1>1. turns = <<>> /\ messages = <<>> /\ turns \in Seq(TurnRecord) /\ messages \in Seq(MessageRecord) /\ Len(turns) = 0
    BY EmptySeq DEF Init
<1>2. Turn = {} /\ DOMAIN messages = {}
    BY <1>1, LenProperties DEF Turn
<1>3. Types
    <2>1. epochs \in 0 .. MaxEpochs /\ generation \in 0 .. epochs /\ session \in 1 .. generation + 1
        BY BoundsAreNat DEF Init
    <2>2. isTyping \in BOOLEAN /\ seen \subseteq Suggestions
        BY DEF Init
    <2>3. controller \in 0 .. Len(turns)
        BY <1>1 DEF Init
    <2> QED BY <1>1, <2>1, <2>2, <2>3 DEF Types
<1> QED BY <1>2, <1>3 DEF PanelInv

LEMMA StutterKeeps ==
    ASSUME PanelInv, UNCHANGED vars
    PROVE  PanelInv'
<1>1. Types' /\ Turn' = Turn /\ messages' = messages
    BY DEF PanelInv, Types, vars, Turn
<1>2. ASSUME NEW t \in Turn PROVE TurnInv(t)'
    <2>1. Shown(t)' = Shown(t) /\ t \in Turn' /\ TurnInv(t)
        BY <1>1, <1>2 DEF Shown, PanelInv
    <2> QED BY <1>1, <2>1, CalmTurn DEF vars
<1>3. \A i \in DOMAIN messages' : MessageOK(messages[i])'
    BY DEF PanelInv, MessageOK, Current, Turn, vars
<1> QED BY <1>1, <1>2, <1>3 DEF PanelInv

LEMMA PanelStep == PanelInv /\ [Next]_vars => PanelInv'
<1> SUFFICES ASSUME PanelInv, [Next]_vars PROVE PanelInv'
    OBVIOUS
<1>1. CASE Send
    BY <1>1, SendKeeps
<1>2. CASE ClearChat \/ ToggleLanguage
    BY <1>2, ClosingKeeps
<1>3. CASE Reload
    BY <1>3, ReloadKeeps
<1>4. ASSUME NEW c \in Suggestions, Suggest(c) PROVE PanelInv'
    BY <1>4, SuggestKeeps
<1>5. ASSUME NEW t \in Turn, Fetch(t) PROVE PanelInv'
    BY <1>5, FetchKeeps
<1>6. ASSUME NEW t \in Turn, Fail(t) \/ StorageFails(t) PROVE PanelInv'
    BY <1>6, FailKeeps
<1>7. ASSUME NEW t \in Turn, Delta(t) PROVE PanelInv'
    BY <1>7, DeltaKeeps
<1>8. ASSUME NEW t \in Turn, Final(t) PROVE PanelInv'
    BY <1>8, FinalKeeps
<1>9. ASSUME NEW t \in Turn, Frame(t) PROVE PanelInv'
    BY <1>9, FrameKeeps
<1>10. ASSUME NEW t \in Turn, End(t) PROVE PanelInv'
    BY <1>10, EndKeeps
<1>11. CASE UNCHANGED vars
    BY <1>11, StutterKeeps
<1> QED BY <1>1, <1>2, <1>3, <1>4, <1>5, <1>6, <1>7, <1>8, <1>9, <1>10, <1>11 DEF Next

LEMMA PanelInvariant == Spec => []PanelInv
BY InitHolds, PanelStep, PTL DEF Spec

\* What the variables of the panel hold: in particular no frame of this conversation outlives
\* the stream that asked for it (panel.js, chat-stream.js).
THEOREM PanelTypes == Spec => []PanelTypeOK
<1>1. PanelInv => PanelTypeOK
    <2> SUFFICES ASSUME PanelInv PROVE PanelTypeOK
        OBVIOUS
    <2>1. /\ epochs \in 0 .. MaxEpochs /\ generation \in 0 .. epochs /\ session \in 1 .. generation + 1
          /\ isTyping \in BOOLEAN /\ controller \in 0 .. Len(turns) /\ seen \subseteq Suggestions
          /\ generation \in Nat /\ session \in Nat
        BY BoundsAreNat DEF PanelInv, Types
    <2>2. ASSUME NEW t \in Turn
          PROVE  /\ turns[t].gen \in 0 .. generation /\ turns[t].session \in 1 .. session
                 /\ turns[t].frame /\ Current(t) => Open(t) /\ turns[t].partial # <<>>
                 /\ turns[t].read \in 0 .. Len(turns[t].answer)
        <3>1. turns[t] \in TurnRecord /\ TurnOK(t)
            BY <2>2, TurnIsRecord DEF PanelInv, TurnInv
        <3>2. turns[t].gen \in Nat /\ turns[t].read \in Nat /\ turns[t].answer \in Seq(Tokens)
            BY <3>1 DEF TurnRecord
        <3>3. Len(turns[t].answer) \in Nat
            BY <3>2, LenProperties
        <3> QED BY <2>1, <3>1, <3>2, <3>3 DEF TurnOK
    <2>3. ASSUME NEW m \in Range(messages)
          PROVE  m.turn \in 0 .. Len(turns) /\ m.kind \in {"user", "reply", "error", "suggestion"}
        <3>1. PICK i \in DOMAIN messages : m = messages[i]
            BY <2>3 DEF Range
        <3>2. m \in MessageRecord /\ MessageOK(m) /\ Turn = 1 .. Len(turns) /\ Len(turns) \in Nat
            BY <3>1, TurnIsRecord DEF PanelInv
        <3> QED BY <3>2 DEF MessageRecord, Kinds, MessageOK
    <2> QED BY <2>1, <2>2, <2>3 DEF PanelTypeOK
<1> QED BY <1>1, PanelInvariant, PTL

\* Nothing of a turn is shown in a conversation it was not asked in, and no question goes to the
\* session of a later one (generation and chatAbortController in panel.js).
THEOREM ConversationsAreSeparate == Spec => []OnlyThisConversation
<1>1. PanelInv => OnlyThisConversation
    <2> SUFFICES ASSUME PanelInv PROVE OnlyThisConversation
        OBVIOUS
    <2>1. ASSUME NEW m \in Range(messages) PROVE m.turn # 0 => Current(m.turn)
        BY <2>1 DEF PanelInv, Range, MessageOK
    <2>2. ASSUME NEW t \in Turn PROVE turns[t].sent \in {0, turns[t].session}
        BY <2>2 DEF PanelInv, TurnInv, ControlOK
    <2> QED BY <2>1, <2>2 DEF OnlyThisConversation
<1> QED BY <1>1, PanelInvariant, PTL

\* The page never has two requests it has not given up: each new one and each clearing aborts
\* the one the controller belongs to (chatAbortController in panel.js and content-script.js).
THEOREM OneRequestIsOpen == Spec => []OneRequestAtATime
<1>1. PanelInv => OneRequestAtATime
    <2> SUFFICES ASSUME PanelInv PROVE Cardinality(Outstanding) <= 1
        BY DEF OneRequestAtATime
    <2>1. Outstanding \subseteq {controller}
        BY DEF PanelInv, TurnInv, ControlOK, Outstanding
    <2>2. IsFiniteSet({controller}) /\ Cardinality({controller}) = 1
        BY FS_Singleton
    <2> QED BY <2>1, <2>2, FS_Subset
<1> QED BY <1>1, PanelInvariant, PTL

\* A turn that ended well shows its reply in one bubble to the end of the conversation, and a
\* reply that came token by token is the beginning of what the assistant said (flushPartialReply).
THEOREM AnswersStay == Spec => []AnswerStaysShown
<1>1. PanelInv => AnswerStaysShown
    <2> SUFFICES ASSUME PanelInv, NEW t \in Turn, turns[t].outcome = "ok", Current(t), turns[t].reply # <<>>
                 PROVE  /\ \E i \in Shown(t) : Shown(t) = {i} /\ messages[i].text = turns[t].reply
                        /\ turns[t].final => turns[t].reply = turns[t].answer
                        /\ ~turns[t].cumulative => IsPrefix(turns[t].reply, turns[t].answer)
        BY DEF AnswerStaysShown
    <2>1. ShownOK(t) /\ TextOK(t) /\ TurnOK(t) /\ turns[t] \in TurnRecord
        BY TurnIsRecord DEF PanelInv, TurnInv
    <2>2. \E i \in Shown(t) : Shown(t) = {i} /\ messages[i].text = turns[t].reply
        BY <2>1 DEF ShownOK
    <2> DEFINE a == turns[t].answer
               k == turns[t].read
    <2>3. a \in Seq(Tokens) /\ k \in Nat /\ k <= Len(a)
        BY <2>1 DEF TurnRecord, TurnOK
    <2>4. turns[t].final => turns[t].reply = a
        BY <2>1 DEF TextOK
    <2>5. ~turns[t].final /\ ~turns[t].cumulative => turns[t].reply = SubSeq(a, 1, k)
        BY <2>1 DEF TextOK
    <2> HIDE DEF a, k
    <2>6. IsPrefix(a, a)
        BY <2>3 DEF IsPrefix
    <2>7. IsPrefix(SubSeq(a, 1, k), a)
        <3>1. Len(a) \in Nat /\ \A i \in 1 .. k : a[i] \in Tokens
            BY <2>3
        <3>2. SubSeq(a, 1, k) \in Seq(Tokens) /\ Len(SubSeq(a, 1, k)) = k
            BY <2>3, <3>1, SubSeqProperties
        <3>3. SubSeq(SubSeq(a, 1, k), 1, k) = SubSeq(a, 1, k)
            BY <3>2, SubSeqFull
        <3> QED BY <2>3, <3>2, <3>3 DEF IsPrefix
    <2> QED BY <2>2, <2>4, <2>5, <2>6, <2>7 DEF a
<1> QED BY <1>1, PanelInvariant, PTL
=============================================================================

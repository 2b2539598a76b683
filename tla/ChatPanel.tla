----------------------------- MODULE ChatPanel ------------------------------
(* The chat panel in the page, apps/chrome-extension: panel.js keeps the     *)
(* conversation on the screen, content-script.js sends a turn to the backend *)
(* and shared/chat-stream.js reads the answer as it streams in.              *)
(*                                                                           *)
(* One action is one task of the page: a click, an answer of the storage, a  *)
(* chunk of the stream with the callbacks it sets off, an animation frame.   *)
(* A text is a sequence of tokens. Left out: markup, the open and the closed *)
(* panel, and when the form is disabled, because the goal buttons ask at any *)
(* time. The ids of messages are taken to be distinct.                       *)
EXTENDS Integers, SequencesExt

CONSTANTS Tokens,
          Answers,      \* what the assistant may answer
          Suggestions,  \* commands the bridge may bring
          MaxTurns,     \* bound on the turns asked
          MaxEpochs     \* bound on clearings, changes of language and reloads

ASSUME AnswersAreTexts == Answers \subseteq Seq(Tokens)
ASSUME BoundsAreNat == MaxTurns \in Nat /\ MaxEpochs \in Nat

VARIABLES
    generation,     \* chatGeneration: clearings and changes of language so far
    session,        \* contextId, numbered
    epochs,
    isTyping,
    messages,       \* state.messages after the welcome, saved at every change
    turns,          \* the calls of sendChatMessage, in order
    controller,     \* the turn chatAbortController belongs to, or 0
    seen            \* commands the bridge adapter has let through

vars == <<generation, session, epochs, isTyping, messages, turns, controller, seen>>

Turn == DOMAIN turns
Current(t) == turns[t].gen = generation
Open(t) == turns[t].phase = "open"
Outstanding == {t \in Turn : turns[t].phase \in {"storage", "open"} /\ ~turns[t].aborted}

Init ==
    /\ generation = 0 /\ session = 1 /\ epochs = 0
    /\ isTyping = FALSE /\ messages = <<>> /\ turns = <<>> /\ controller = 0 /\ seen = {}

-----------------------------------------------------------------------------
Message(t, kind, text) == [turn |-> t, kind |-> kind, text |-> text]
ADD_MESSAGE(m) == messages' = Append(messages, m)

\* Mutant: what has changed is added once more.
AddAgain(t, text) == ADD_MESSAGE(Message(t, "reply", text))

UPDATE_MESSAGE(t, text) ==
    messages' = [i \in DOMAIN messages |->
                    IF messages[i].turn = t /\ messages[i].kind = "reply"
                    THEN Message(t, "reply", text) ELSE messages[i]]

\* Mutant: the turn before goes on.
GoOn == turns

Abort == IF controller = 0 THEN turns ELSE [turns EXCEPT ![controller].aborted = TRUE]

\* sendChatMessage and onChatMessage up to its await: the turn before is aborted.
Send ==
    /\ Len(turns) < MaxTurns
    /\ \E answer \in Answers, cumulative \in BOOLEAN :
          turns' = Append(Abort,
              [gen |-> generation, session |-> session, sent |-> 0, phase |-> "storage", aborted |-> FALSE,
               answer |-> answer, cumulative |-> cumulative, read |-> 0, final |-> FALSE, reply |-> <<>>,
               partial |-> <<>>, frame |-> FALSE, bubble |-> FALSE, outcome |-> "none"])
    /\ controller' = Len(turns) + 1
    /\ ADD_MESSAGE(Message(Len(turns) + 1, "user", <<>>))
    /\ isTyping' = TRUE
    /\ UNCHANGED <<generation, session, epochs, seen>>

\* The storage has answered: the request leaves, with the session there is now; fetch
\* sends nothing if it was aborted.
Fetch(t) ==
    /\ turns[t].phase = "storage"
    /\ turns' = [turns EXCEPT ![t].phase = "open", ![t].sent = IF turns[t].aborted THEN 0 ELSE session]
    /\ UNCHANGED <<generation, session, epochs, isTyping, messages, controller, seen>>

\* A newer cumulative text takes the place of the older one, a token is appended.
mergeStreamText(current, incoming) ==
    IF IsPrefix(current, incoming) THEN incoming
    ELSE IF IsPrefix(incoming, current) THEN current ELSE current \o incoming

Reads(t) == Open(t) /\ ~turns[t].aborted /\ turns[t].sent # 0

\* The next delta: the text up to here if the assistant sends cumulative ones, or a token.
Delta(t) ==
    LET n == turns[t].read + 1
        text == IF turns[t].cumulative THEN SubSeq(turns[t].answer, 1, n) ELSE <<turns[t].answer[n]>>
    IN  /\ Reads(t) /\ ~turns[t].final /\ n <= Len(turns[t].answer)
        /\ turns' = [turns EXCEPT ![t].read = n, ![t].reply = @ \o text,
                                  ![t].partial = IF Current(t) THEN mergeStreamText(@, text) ELSE @,
                                  ![t].frame = @ \/ Current(t)]
        /\ UNCHANGED <<generation, session, epochs, isTyping, messages, controller, seen>>

Final(t) ==
    /\ Reads(t) /\ ~turns[t].final
    /\ turns' = [turns EXCEPT ![t].final = TRUE, ![t].reply = turns[t].answer]
    /\ UNCHANGED <<generation, session, epochs, isTyping, messages, controller, seen>>

\* flushPartialReply: the first frame adds the bubble, the later ones change it.
Frame(t) ==
    /\ turns[t].frame
    /\ turns' = [turns EXCEPT ![t].frame = FALSE, ![t].bubble = @ \/ Current(t)]
    /\ IF ~Current(t) THEN UNCHANGED <<messages, isTyping>>
       ELSE /\ isTyping' = FALSE
            /\ IF turns[t].bubble THEN UPDATE_MESSAGE(t, turns[t].partial)
               ELSE ADD_MESSAGE(Message(t, "reply", turns[t].partial))
    /\ UNCHANGED <<generation, session, epochs, controller, seen>>

\* The finally clause of onChatMessage.
Release(t) == controller' = IF controller = t THEN 0 ELSE controller

\* Mutant: the frame that was asked for is not cancelled.
LeaveFrame(t, outcome) ==
    [turns EXCEPT ![t].phase = "settled", ![t].outcome = outcome]

\* A turn of this conversation cancels its frame when it settles.
Settled(t, outcome) ==
    [turns EXCEPT ![t].phase = "settled", ![t].outcome = outcome, ![t].frame = @ /\ ~Current(t)]

\* The stream has ended, with or without its done event: the reply takes the place of
\* what was streamed (a frame asked for is carried out first, and adds the bubble).
End(t) ==
    /\ Reads(t)
    /\ turns' = Settled(t, "ok")
    /\ Release(t)
    /\ IF ~Current(t) THEN UNCHANGED <<messages, isTyping>>
       ELSE /\ isTyping' = FALSE
            /\ IF turns[t].reply = <<>> THEN UNCHANGED messages
               ELSE IF turns[t].bubble THEN UPDATE_MESSAGE(t, turns[t].reply)
               ELSE ADD_MESSAGE(Message(t, "reply", turns[t].reply))
    /\ UNCHANGED <<generation, session, epochs, seen>>

\* Mutant: an error leaves the dots on the screen.
StillTyping(t) ==
    /\ IF ~Current(t) THEN UNCHANGED messages ELSE ADD_MESSAGE(Message(t, "error", <<>>))
    /\ UNCHANGED isTyping

ShowError(t) ==
    IF ~Current(t) THEN UNCHANGED <<messages, isTyping>>
    ELSE isTyping' = FALSE /\ ADD_MESSAGE(Message(t, "error", <<>>))

\* An abort, an error event or a network error rejects the call.
Fail(t) ==
    /\ Open(t)
    /\ turns' = Settled(t, "error")
    /\ Release(t)
    /\ ShowError(t)
    /\ UNCHANGED <<generation, session, epochs, seen>>

\* The storage rejects the call before the try: nobody gives the controller back.
StorageFails(t) ==
    /\ turns[t].phase = "storage"
    /\ turns' = Settled(t, "error")
    /\ ShowError(t)
    /\ UNCHANGED <<generation, session, epochs, controller, seen>>

-----------------------------------------------------------------------------
NewEpoch == epochs < MaxEpochs /\ epochs' = epochs + 1

CLEAR_CHAT == generation' = generation + 1 /\ isTyping' = FALSE /\ messages' = <<>>

\* Mutant: the request that is waiting is not aborted.
ClearOnly ==
    /\ NewEpoch
    /\ CLEAR_CHAT
    /\ session' = session + 1
    /\ UNCHANGED <<turns, controller, seen>>

ClearChat ==
    /\ NewEpoch
    /\ CLEAR_CHAT
    /\ turns' = Abort
    /\ session' = session + 1
    /\ UNCHANGED <<controller, seen>>

\* The session stays, and so does the request.
ToggleLanguage ==
    /\ NewEpoch
    /\ CLEAR_CHAT
    /\ UNCHANGED <<session, turns, controller, seen>>

\* The page is loaded again: messages and session come back from localStorage.
Reload ==
    /\ NewEpoch
    /\ isTyping' = FALSE /\ controller' = 0 /\ seen' = {}
    /\ turns' = [t \in Turn |-> IF turns[t].phase = "settled" THEN [turns[t] EXCEPT !.frame = FALSE]
                                ELSE [turns[t] EXCEPT !.phase = "gone", !.frame = FALSE]]
    /\ UNCHANGED <<generation, session, messages>>

\* createBridgeAdapter().receive lets a command through once; a suggestion is shown.
Suggest(c) ==
    /\ c \notin seen
    /\ seen' = seen \cup {c}
    /\ ADD_MESSAGE(Message(0, "suggestion", <<>>))
    /\ UNCHANGED <<generation, session, epochs, isTyping, turns, controller>>

Next ==
    \/ Send \/ ClearChat \/ ToggleLanguage \/ Reload
    \/ \E c \in Suggestions : Suggest(c)
    \/ \E t \in Turn : Fetch(t) \/ StorageFails(t) \/ Delta(t) \/ Final(t) \/ Frame(t) \/ End(t) \/ Fail(t)

Spec == Init /\ [][Next]_vars

\* The storage answers, and the backend ends what it streams: the extension has no timeout.
LiveSpec ==
    /\ Spec
    /\ \A t \in 1 .. MaxTurns :
          /\ WF_vars(t \in Turn /\ (Fetch(t) \/ StorageFails(t)))
          /\ WF_vars(t \in Turn /\ (End(t) \/ Fail(t)))

-----------------------------------------------------------------------------
(* Properties *)

\* What the variables hold; a turn that settled leaves no frame behind that could write
\* over its reply, and only a turn that streams has one (sendChatMessage).
PanelTypeOK ==
    /\ generation \in 0 .. epochs /\ session \in 1 .. generation + 1 /\ epochs \in 0 .. MaxEpochs
    /\ isTyping \in BOOLEAN /\ controller \in 0 .. Len(turns) /\ seen \subseteq Suggestions
    /\ \A t \in Turn : /\ turns[t].gen \in 0 .. generation /\ turns[t].session \in 1 .. session
                       /\ turns[t].frame /\ Current(t) => Open(t) /\ turns[t].partial # <<>>
                       /\ turns[t].read \in 0 .. Len(turns[t].answer)
    /\ \A m \in Range(messages) : m.turn \in 0 .. Len(turns) /\ m.kind \in {"user", "reply", "error", "suggestion"}

\* An answer or an error never appears in a conversation it was not asked in, after a
\* clearing or a change of language; and no question reaches the session of a later
\* conversation, however long the storage took (generation, chatAbortController; README.md:19-20).
OnlyThisConversation ==
    /\ \A m \in Range(messages) : m.turn # 0 => Current(m.turn)
    /\ \A t \in Turn : turns[t].sent \in {0, turns[t].session}

\* The backend never has two requests to work on that the page has not given up, although
\* the panel lets the user ask again while an answer streams in (chatAbortController).
OneRequestAtATime == Cardinality(Outstanding) <= 1

Shown(t) == {i \in DOMAIN messages : messages[i].turn = t /\ messages[i].kind = "reply"}

\* A turn that ended well shows its reply once and to the end of the conversation: no late
\* frame brings a part of it back, and nothing that was merged on the way stays in it. It is
\* what the assistant said if that came token by token or with the done event (sendChatMessage).
AnswerStaysShown ==
    \A t \in Turn :
        turns[t].outcome = "ok" /\ Current(t) /\ turns[t].reply # <<>> =>
            /\ \E i \in Shown(t) : Shown(t) = {i} /\ messages[i].text = turns[t].reply
            /\ turns[t].final => turns[t].reply = turns[t].answer
            /\ ~turns[t].cumulative => IsPrefix(turns[t].reply, turns[t].answer)

\* The dots go away: a turn that is answered, fails, is aborted or belongs to a
\* conversation that was closed does not leave the form disabled (isTyping).
TypingEnds == isTyping ~> ~isTyping
=============================================================================

SPECIFICATION LiveSpec
CONSTANTS
    Tokens = {"ha"}
    Answers <- AnswersMC
    Suggestions = {"c1"}
    MaxTurns = 2
    MaxEpochs = 1
INVARIANTS
    PanelTypeOK
    OnlyThisConversation
    OneRequestAtATime
    AnswerStaysShown
PROPERTIES
    TypingEnds
CHECK_DEADLOCK FALSE

---------------------------- MODULE MCChatPanel -----------------------------
EXTENDS ChatPanel

\* Two tokens that are alike: the case in which a token can be taken for a cumulative text.
AnswersMC == {<<"ha", "ha">>}
=============================================================================

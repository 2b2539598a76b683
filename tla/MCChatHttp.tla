----------------------------- MODULE MCChatHttp -----------------------------
(* Two requests of one session and a run of another gateway client.          *)
EXTENDS ChatHttp

CONSTANTS r1, r2, o1, s1

MCSessionOf == [i \in Run |-> s1]
=============================================================================

---------------------------- MODULE MCDomBridge ----------------------------
(* Two connections of one tab, one of another; a command for each tab.       *)
EXTENDS DomBridge

CONSTANTS k1, k2, w1, w2, w3, c1, c2

MCContextOf == [w \in Conn |-> IF w = w3 THEN k2 ELSE k1]
MCTarget    == [c \in Cmd |-> IF c = c2 THEN k2 ELSE k1]
=============================================================================

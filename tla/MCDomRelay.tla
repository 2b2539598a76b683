----------------------------- MODULE MCDomRelay -----------------------------
(* Two page loads, one after the other in one tab.                           *)
EXTENDS DomRelay

CONSTANTS p1, p2, t1, t2, i1, i2, i3, c1, c2, c3

OneTab == [p \in Page |-> t1]
=============================================================================

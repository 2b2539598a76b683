--------------------------- MODULE MCGatewayClient ---------------------------
(* Small instances of GatewayClient: two requests of one session, and a run  *)
(* of another gateway client in another session.                             *)
EXTENDS GatewayClient

CONSTANTS r1, r2, o1, s1, s2

MCSessionOf == [i \in Run |-> IF i = o1 THEN s2 ELSE s1]
=============================================================================

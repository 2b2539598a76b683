---------------------------- MODULE MCDomAdapter ----------------------------
(* Two graphics cards for one slot, a processor for the other; an add of two *)
(* of the first card, one that may replace it, and a removal.                *)
EXTENDS DomAdapter

CONSTANTS c1, c2, c3, p1, p2, p3, gpu, cpu

Slots == [p \in Product |-> IF p = p3 THEN cpu ELSE gpu]

Commands == [c \in Cmd |->
    CASE c = c1 -> [action |-> "add", product |-> p1, quantity |-> 2, replace |-> FALSE]
      [] c = c2 -> [action |-> "add", product |-> p2, quantity |-> 1, replace |-> TRUE]
      [] c = c3 -> [action |-> "remove", product |-> p1, quantity |-> 1, replace |-> FALSE]]
=============================================================================

---------------------------- MODULE ChatExchange ----------------------------
(***************************************************************************)
(* What POST /chat promises its caller (contracts/http-chat.md): every     *)
(* request is answered once, by one JSON error, or by an event stream that *)
(* ends in exactly one "done" or "error"; or the caller has left.          *)
(***************************************************************************)
CONSTANT Req

VARIABLE phase

Phase    == {"idle", "open", "streaming", "answered", "failed", "abandoned"}
Unfinished == {"open", "streaming"}

Init == phase = [r \in Req |-> "idle"]

Move(r, from, to) ==
    /\ phase[r] \in from
    /\ phase' = [phase EXCEPT ![r] = to]

Post(r)    == Move(r, {"idle"}, "open")
Refuse(r)  == Move(r, {"idle"}, "failed")
Stream(r)  == Move(r, {"open"}, "streaming")
Finish(r)  == Move(r, Unfinished, "answered") \/ Move(r, Unfinished, "failed")
Abandon(r) == Move(r, Unfinished, "abandoned")

Next == \E r \in Req : Post(r) \/ Refuse(r) \/ Stream(r) \/ Finish(r) \/ Abandon(r)

Spec == Init /\ [][Next]_phase

\* Nobody waits for ever: each exchange that was opened is finished.
Answered == \A r \in Req : phase[r] \in Unfinished ~> phase[r] \notin Unfinished
=============================================================================

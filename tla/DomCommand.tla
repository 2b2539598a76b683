----------------------------- MODULE DomCommand -----------------------------
(***************************************************************************)
(* What POST /dom-commands promises the MCP server, whatever becomes of    *)
(* sockets, tabs and timers: one answer per call; "ok" only for a command  *)
(* that a tab has executed, CONTEXT_OFFLINE only for one that no tab ever  *)
(* will.  VERIFY_TIMEOUT promises neither.                                 *)
(***************************************************************************)
CONSTANT Cmd

VARIABLES
    call,       \* how each call stands
    executed    \* the commands a tab has started to execute

Init ==
    /\ call = [c \in Cmd |-> "none"]
    /\ executed = {}

Move(c, from, to) ==
    /\ call[c] = from
    /\ call' = [call EXCEPT ![c] = to]
    /\ UNCHANGED executed

Post(c)      == Move(c, "none", "reading")
TurnDown(c)  == Move(c, "reading", "BAD_REQUEST") \/ Move(c, "reading", "CONTEXT_OFFLINE")
Accept(c)    == Move(c, "reading", "open")
Fail(c)      == Move(c, "open", "error") \/ Move(c, "open", "VERIFY_TIMEOUT")
Succeed(c)   == c \in executed /\ Move(c, "open", "ok")
Abandon(c)   == Move(c, "open", "abandoned")

Execute(c) ==
    /\ call[c] \in {"open", "VERIFY_TIMEOUT", "abandoned"}
    /\ c \notin executed
    /\ executed' = executed \cup {c}
    /\ UNCHANGED call

Next ==
    \E c \in Cmd : \/ Post(c) \/ TurnDown(c) \/ Accept(c) \/ Fail(c)
                   \/ Succeed(c) \/ Abandon(c) \/ Execute(c)

Spec == Init /\ [][Next]_<<call, executed>>
=============================================================================

------------------------------- MODULE RpcCall -------------------------------
(***************************************************************************)
(* What a caller of RedisTransport.Request may rely on, with streams,      *)
(* listeners and retries left out: a call that is made returns at most     *)
(* once, with the reply of a method that ran for it or with an error.  An  *)
(* error says nothing about the method: it may still run afterwards.       *)
(***************************************************************************)
CONSTANT Calls

VARIABLES
    status,   \* "idle", "active" (inside Request), "replied" or "failed"
    served    \* the calls the remote method ran for

vars == <<status, served>>

Init ==
    /\ status = [c \in Calls |-> "idle"]
    /\ served = {}

Moves(c, from, to) == status[c] \in from /\ status' = [status EXCEPT ![c] = to]

Begin(c) == Moves(c, {"idle"}, "active") /\ UNCHANGED served
Fail(c) == Moves(c, {"idle", "active"}, "failed") /\ UNCHANGED served
Reply(c) == Moves(c, {"active"}, "replied") /\ c \in served /\ UNCHANGED served
Run(c) ==
    /\ status[c] # "idle"
    /\ served' = served \cup {c}
    /\ UNCHANGED status

Next == \E c \in Calls : Begin(c) \/ Fail(c) \/ Reply(c) \/ Run(c)

Spec == Init /\ [][Next]_vars
=============================================================================

---------------------------- MODULE MCRpcExchange ----------------------------
(* Finite instances of RpcExchange: two calls of one process, or of two      *)
(* processes whose instance ids differ or are both left on the default.      *)
EXTENDS RpcExchange, TLC

CONSTANTS c1, c2, i1, i2

OneCaller  == [c \in Calls |-> i1]
TwoCallers == [c \in Calls |-> IF c = c1 THEN i1 ELSE i2]
OwnIds     == [i \in Instances |-> i]
DefaultIds == [i \in Instances |-> "main"]
SameSite   == [c \in Calls |-> "rpc:pong:ping"]

\* The calls of one process at one site are interchangeable.
SameCalls  == Permutations(Calls)

\* RepliesAreRead asks nothing once a process stops: its run goes no further.
NobodyStops == \A i \in Instances : phase[i] = "up"
=============================================================================

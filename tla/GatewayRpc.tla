------------------------------ MODULE GatewayRpc ------------------------------
(***************************************************************************)
(* TransportClientRPC of the external API gateway: tasks of one asyncio    *)
(* event loop that call services through a Redis stream, and one listener  *)
(* task that takes their responses off a pub/sub channel and resolves the  *)
(* futures the callers wait for.  An action is what a task does between    *)
(* two awaits.  Pub/sub keeps nothing for who is not subscribed.           *)
(*                                                                         *)
(* A call stands for its message id: next_id never gives one twice.        *)
(***************************************************************************)
EXTENDS Naturals, Sequences

CONSTANTS
    Calls,
    MaxInbox,    \* bound on the messages the connection has not handed out
    MaxFaults    \* bound on failed commands, lost connections, odd responses

CONSTANT Malformed   \* a message that is no response

ASSUME MalformedAssumption == Malformed \notin Calls
ASSUME BoundAssumption == MaxInbox \in Nat /\ MaxFaults \in Nat

VARIABLES
    stage,      \* where each call is
    pending,    \* TransportClientRPC.pending: the calls with an entry
    future,     \* response_future: "none", "open", "result" or "cancelled"
    stream,     \* requests on the service's stream
    served,     \* requests the service has answered
    listener,   \* the listener task: "off", "on" or "dead"
    inbox,      \* published and not yet taken by the listener
    faults

callVars == <<stage, pending, future>>
serviceVars == <<stream, served>>
listenVars == <<listener, inbox>>
vars == <<callVars, serviceVars, listenVars, faults>>

Stages == {"idle", "sending", "waiting", "late", "cancelling",
           "replied", "timeout", "broken"}

Fault == faults < MaxFaults /\ faults' = faults + 1
NoFault == UNCHANGED faults

Goto(c, from, to) == stage[c] = from /\ stage' = [stage EXCEPT ![c] = to]

Init ==
    /\ stage = [c \in Calls |-> "idle"]
    /\ pending = {}
    /\ future = [c \in Calls |-> "none"]
    /\ stream = {} /\ served = {}
    /\ listener = "off" /\ inbox = <<>>
    /\ faults = 0

-----------------------------------------------------------------------------
(* call.                                                                    *)

\* Mutant: the future is created only when the request was sent.
BeginWithoutFuture(c) ==
    /\ Goto(c, "idle", "sending")
    /\ pending' = pending \cup {c}
    /\ UNCHANGED <<future, serviceVars, listenVars, faults>>

\* Up to the await of xadd.
Begin(c) ==
    /\ Goto(c, "idle", "sending")
    /\ future' = [future EXCEPT ![c] = "open"]
    /\ pending' = pending \cup {c}
    /\ UNCHANGED <<serviceVars, listenVars, faults>>

\* XADD reaches Redis ...
Request(c) ==
    /\ stage[c] = "sending" /\ c \notin stream
    /\ stream' = stream \cup {c}
    /\ UNCHANGED <<callVars, served, listenVars, faults>>

\* ... and its answer the caller, who goes on to wait_for.
Sent(c) ==
    /\ c \in stream
    /\ Goto(c, "sending", "waiting")
    /\ UNCHANGED <<pending, future, serviceVars, listenVars, faults>>

\* xadd raises, before or after the request was added: nobody catches it, and
\* the entry of pending stays.
SendFails(c) ==
    /\ Goto(c, "sending", "broken")
    /\ Fault
    /\ UNCHANGED <<pending, future, serviceVars, listenVars>>

\* The timer of wait_for fires: the task will run, and looks at the future.
Timer(c) ==
    /\ Goto(c, "waiting", "late")
    /\ UNCHANGED <<pending, future, serviceVars, listenVars, faults>>

\* The task runs and finds a result, be the timer over or not.
Return(c) ==
    /\ future[c] = "result"
    /\ Goto(c, "waiting", "replied") \/ Goto(c, "late", "replied")
    /\ pending' = pending \ {c}
    /\ UNCHANGED <<future, serviceVars, listenVars, faults>>

\* Mutant: once the timer has fired the future is not looked at.
CancelAnyFuture(c) ==
    /\ Goto(c, "late", "cancelling")
    /\ future' = [future EXCEPT ![c] = "cancelled"]
    /\ UNCHANGED <<pending, serviceVars, listenVars, faults>>

\* The task runs and finds none: wait_for cancels the future and awaits that.
CancelFuture(c) ==
    /\ future[c] = "open"
    /\ Goto(c, "late", "cancelling")
    /\ future' = [future EXCEPT ![c] = "cancelled"]
    /\ UNCHANGED <<pending, serviceVars, listenVars, faults>>

\* Mutant: the entry stays after a timeout.
GiveUpKeepsEntry(c) ==
    /\ Goto(c, "cancelling", "timeout")
    /\ UNCHANGED <<pending, future, serviceVars, listenVars, faults>>

\* wait_for raises TimeoutError in the caller.
GiveUp(c) ==
    /\ Goto(c, "cancelling", "timeout")
    /\ pending' = pending \ {c}
    /\ UNCHANGED <<future, serviceVars, listenVars, faults>>

-----------------------------------------------------------------------------
(* The service on the other side, and Redis pub/sub.                        *)

Published(m) ==
    inbox' = IF listener = "on" THEN Append(inbox, m) ELSE inbox

\* A service answers a request, for the second time after a fault of its own.
Respond(c) ==
    /\ c \in stream
    /\ Len(inbox) < MaxInbox
    /\ IF c \in served THEN Fault ELSE NoFault
    /\ served' = served \cup {c}
    /\ Published(c)
    /\ UNCHANGED <<callVars, stream, listener>>

\* A service answers with something that does not decode.
RespondMalformed(c) ==
    /\ c \in stream
    /\ Len(inbox) < MaxInbox
    /\ Fault
    /\ Published(Malformed)
    /\ UNCHANGED <<callVars, serviceVars, listener>>

\* The connection breaks, and the client subscribes on a new one.
ConnectionLost ==
    /\ listener = "on"
    /\ Fault
    /\ inbox' = <<>>
    /\ UNCHANGED <<callVars, serviceVars, listener>>

-----------------------------------------------------------------------------
(* setup and pubsub_callback.                                               *)

Subscribe ==
    /\ listener = "off"
    /\ listener' = "on"
    /\ UNCHANGED <<callVars, serviceVars, inbox, faults>>

\* An exception leaves pubsub_callback and setup, and with them the task that
\* nobody awaits: the channel is unsubscribed for good.
ListenerDies ==
    /\ listener' = "dead" /\ inbox' = <<>>
    /\ UNCHANGED <<callVars, serviceVars>>

\* A message that does not decode is raised as an HTTPException.
TakeMalformed ==
    /\ listener = "on" /\ inbox # <<>> /\ Head(inbox) = Malformed
    /\ ListenerDies
    /\ NoFault

\* Mutant: the oldest call is resolved, whatever the id of the response.
ResolveAny ==
    /\ listener = "on" /\ inbox # <<>> /\ Head(inbox) # Malformed
    /\ \E c \in pending :
         /\ future[c] = "open"
         /\ future' = [future EXCEPT ![c] = "result"]
    /\ inbox' = Tail(inbox)
    /\ UNCHANGED <<stage, pending, serviceVars, listener, faults>>

\* A response whose id is in pending resolves the future.
Resolve ==
    /\ listener = "on" /\ inbox # <<>> /\ Head(inbox) \in pending
    /\ future[Head(inbox)] = "open"
    /\ future' = [future EXCEPT ![Head(inbox)] = "result"]
    /\ inbox' = Tail(inbox)
    /\ UNCHANGED <<stage, pending, serviceVars, listener, faults>>

\* set_result raises for a future that has a result or is cancelled.
ResolveTwice ==
    /\ listener = "on" /\ inbox # <<>> /\ Head(inbox) \in pending
    /\ future[Head(inbox)] # "open"
    /\ ListenerDies
    /\ NoFault

\* Mutant: the id is looked up in pending without a test.
IgnoreRaises ==
    /\ listener = "on" /\ inbox # <<>> /\ Head(inbox) \notin pending \cup {Malformed}
    /\ ListenerDies
    /\ NoFault

\* A response whose id is not in pending is ignored.
Ignore ==
    /\ listener = "on" /\ inbox # <<>> /\ Head(inbox) \notin pending \cup {Malformed}
    /\ inbox' = Tail(inbox)
    /\ UNCHANGED <<callVars, serviceVars, listener, faults>>

\* The first or a later subscribe fails.
ListenerFails ==
    /\ listener \in {"off", "on"}
    /\ ListenerDies
    /\ Fault

-----------------------------------------------------------------------------
Call(c) ==
    \/ Request(c) \/ Sent(c) \/ SendFails(c)
    \/ Timer(c) \/ Return(c) \/ CancelFuture(c) \/ GiveUp(c)
Listen == Subscribe \/ TakeMalformed \/ Resolve \/ ResolveTwice \/ Ignore

Next ==
    \/ \E c \in Calls : Begin(c) \/ Call(c) \/ Respond(c) \/ RespondMalformed(c)
    \/ Listen \/ ListenerFails \/ ConnectionLost

Spec == Init /\ [][Next]_vars

\* Redis answers, the timer runs, and the event loop gets to every task that
\* can go on.  No service has to answer.
CallFair(c) == WF_vars(Call(c))
ListenFair == WF_vars(Listen)
Fairness == (\A c \in Calls : CallFair(c)) /\ ListenFair

FairSpec == Spec /\ Fairness

-----------------------------------------------------------------------------
(* Properties.                                                              *)

Over(c) == stage[c] \in {"replied", "timeout", "broken"}

\* Every variable has its type, and a future is resolved or cancelled only
\* after its call began.
TypeOK ==
    /\ stage \in [Calls -> Stages]
    /\ pending \subseteq Calls
    /\ future \in [Calls -> {"none", "open", "result", "cancelled"}]
    /\ stream \subseteq Calls /\ served \subseteq stream
    /\ listener \in {"off", "on", "dead"}
    /\ inbox \in Seq(Calls \cup {Malformed}) /\ Len(inbox) <= MaxInbox
    /\ faults \in 0..MaxFaults
    /\ \A c \in Calls : stage[c] = "idle" <=> future[c] = "none"

\* The gateway keeps the contract of RpcCall, as the Go transport does: one
\* return per call, and a reply only if the service answered that very call.
Contract == INSTANCE RpcCall WITH
    status <- [c \in Calls |->
        CASE stage[c] = "idle" -> "idle"
          [] stage[c] = "replied" -> "replied"
          [] stage[c] \in {"timeout", "broken"} -> "failed"
          [] OTHER -> "active"]
ImplementsRpcCall == Contract!Spec

\* pending does not grow with the calls: a call that is over has left it,
\* unless its xadd raised.
PendingIsCleared == \A c \in pending : Over(c) => stage[c] = "broken"

\* A call in flight can always go on: no stage waits for a future that nobody
\* will resolve, for an entry of pending, or for the listener.
CallNeverStuck == \A c \in Calls :
    stage[c] \in {"sending", "waiting", "late", "cancelling"} => ENABLED <<Call(c)>>_vars

\* A single response per call, well formed, ends the listener only when it is
\* taken after wait_for cancelled the future and before the caller resumed.
DiesOnlyInWindow ==
    [][listener = "on" /\ listener' = "dead" =>
        faults' > 0 \/ \E c \in Calls : stage[c] = "cancelling" /\ Head(inbox) = c]_vars

\* A call ends, whether or not the service answers and the listener lives.
CallsEnd == \A c \in Calls : stage[c] = "sending" ~> Over(c)

\* A caller whose future was resolved before it looked returns the response,
\* even if the timer has fired or the listener has died in between.
AnswerIsReturned == \A c \in Calls :
    (stage[c] \in {"waiting", "late"} /\ future[c] = "result") ~> stage[c] = "replied"

\* Every call ends, and with the response if that was there before it looked.
CallsEndRightly == CallsEnd /\ AnswerIsReturned
=============================================================================

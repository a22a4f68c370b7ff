--------------------------- MODULE GatewayRpcProofs ---------------------------
(***************************************************************************)
(* Proofs about GatewayRpc, for any set of calls and any number of faults: *)
(* the types, that pending is cleared, that a listener without faults ends *)
(* only in one window of wait_for, that the gateway implements RpcCall, and *)
(* that its calls end, with the answer they got in time.                   *)
(***************************************************************************)
EXTENDS GatewayRpc, TLAPS

Active == {"sending", "waiting", "late", "cancelling"}

\* What is in the inbox was published by a service.
Heard == \A i \in 1..Len(inbox) : inbox[i] \in served \cup {Malformed}

\* A future has a result only from a service that answered.
Earned == \A c \in Calls : future[c] = "result" => c \in served

\* A request is sent by a call that has begun.
Asked == \A c \in stream : stage[c] # "idle"

\* An entry of pending belongs to a call that goes on, or whose xadd raised.
Kept == \A c \in pending : stage[c] \in Active \cup {"broken"}

\* wait_for cancels a future and gives up right afterwards.
GivenUp == \A c \in Calls : future[c] = "cancelled" => stage[c] \in {"cancelling", "timeout"}

\* Without faults the inbox holds well-formed first responses only.
FirstOnly ==
    faults = 0 => \A i \in 1..Len(inbox) :
        /\ inbox[i] # Malformed /\ future[inbox[i]] # "result"
        /\ \A j \in 1..Len(inbox) : inbox[i] = inbox[j] => i = j

Inv == TypeOK /\ Heard /\ Earned /\ Asked /\ Kept /\ GivenUp /\ FirstOnly

\* The first state satisfies the inductive invariant.
LEMMA Initially == Init => Inv
<1> SUFFICES ASSUME Init PROVE Inv
  OBVIOUS
<1>1. TypeOK
  BY BoundAssumption DEF Init, TypeOK, Stages
<1>2. Heard /\ Earned /\ Asked /\ Kept /\ GivenUp /\ FirstOnly
  BY DEF Init, Heard, Earned, Asked, Kept, GivenUp, FirstOnly
<1> QED  BY <1>1, <1>2 DEF Inv

-----------------------------------------------------------------------------
(* What the steps do to the inbox and to the calls.                         *)

\* An element of a tail was an element of the sequence, one place later.
LEMMA TailElements ==
    ASSUME NEW S, NEW s \in Seq(S), s # <<>>
    PROVE  /\ Tail(s) \in Seq(S) /\ Len(Tail(s)) = Len(s) - 1
           /\ Head(s) = s[1] /\ 1 \in 1..Len(s)
           /\ \A i \in 1..Len(Tail(s)) : i + 1 \in 1..Len(s) /\ Tail(s)[i] = s[i + 1]
OBVIOUS

\* An element of an extended sequence is an old one or the new last one.
LEMMA AppendElements ==
    ASSUME NEW S, NEW s \in Seq(S), NEW m \in S
    PROVE  /\ Append(s, m) \in Seq(S) /\ Len(Append(s, m)) = Len(s) + 1
           /\ \A i \in 1..Len(Append(s, m)) :
                \/ i \in 1..Len(s) /\ Append(s, m)[i] = s[i]
                \/ i = Len(s) + 1 /\ Append(s, m)[i] = m
OBVIOUS

\* Types, step by step: a call's own steps.
LEMMA TypeOfCall ==
    ASSUME Inv, NEW c \in Calls, Begin(c) \/ Call(c)
    PROVE  TypeOK'
<1> USE DEF Goto, Fault, NoFault, callVars, serviceVars, listenVars, Inv
<1> stage \in [Calls -> Stages] /\ future \in [Calls -> {"none", "open", "result", "cancelled"}]
  BY DEF TypeOK
<1>1. CASE Begin(c)
  BY <1>1 DEF Begin, TypeOK, Stages
<1>2. CASE Request(c) \/ Sent(c)
  BY <1>2 DEF Request, Sent, TypeOK, Stages, Asked
<1>3. CASE SendFails(c)
  BY <1>3, BoundAssumption DEF SendFails, TypeOK, Stages
<1>4. CASE Timer(c)
  BY <1>4 DEF Timer, TypeOK, Stages
<1>5. CASE Return(c)
  BY <1>5 DEF Return, TypeOK, Stages
<1>6. CASE CancelFuture(c)
  BY <1>6 DEF CancelFuture, TypeOK, Stages
<1>7. CASE GiveUp(c)
  BY <1>7 DEF GiveUp, TypeOK, Stages
<1> QED
  BY <1>1, <1>2, <1>3, <1>4, <1>5, <1>6, <1>7 DEF Call

\* Types: the services, Redis and the listener.
LEMMA TypeOfOthers ==
    ASSUME Inv,
           (\E c \in Calls : Respond(c) \/ RespondMalformed(c))
               \/ Listen \/ ListenerFails \/ ConnectionLost
    PROVE  TypeOK'
<1> USE DEF Fault, NoFault, callVars, serviceVars, listenVars, ListenerDies, Inv
<1>1. /\ future \in [Calls -> {"none", "open", "result", "cancelled"}]
      /\ inbox \in Seq(Calls \cup {Malformed}) /\ pending \subseteq Calls
      /\ Len(inbox) \in Nat /\ <<>> \in Seq(Calls \cup {Malformed}) /\ Len(<<>>) = 0
      /\ Len(<<>>) <= MaxInbox
  BY BoundAssumption DEF TypeOK
<1>2. ASSUME NEW c \in Calls, Respond(c) \/ RespondMalformed(c) PROVE TypeOK'
  <2>1. \E m \in Calls \cup {Malformed} : Published(m)
    BY <1>2 DEF Respond, RespondMalformed
  <2>2. inbox' \in Seq(Calls \cup {Malformed}) /\ Len(inbox') <= MaxInbox
    <3>1. Len(inbox) < MaxInbox
      BY <1>2 DEF Respond, RespondMalformed
    <3> QED  BY <1>1, <2>1, <3>1, AppendElements, BoundAssumption DEF Published
  <2>3. /\ UNCHANGED <<callVars, stream, listener>> /\ faults' \in 0..MaxFaults
        /\ served' \in {served, served \cup {c}} /\ c \in stream
    BY <1>2, BoundAssumption DEF Respond, RespondMalformed, TypeOK
  <2> QED  BY <2>2, <2>3 DEF TypeOK
<1>3. CASE Resolve \/ Ignore
  <2>1. inbox # <<>> /\ inbox' = Tail(inbox)
    BY <1>3 DEF Resolve, Ignore
  <2>2. inbox' \in Seq(Calls \cup {Malformed}) /\ Len(inbox') <= MaxInbox
    BY <1>1, <2>1, TailElements, BoundAssumption DEF TypeOK
  <2>3. /\ UNCHANGED <<stage, pending, serviceVars, listener, faults>>
        /\ \/ future' = future
           \/ \E c \in Calls : future[c] = "open" /\ future' = [future EXCEPT ![c] = "result"]
    BY <1>1, <1>3 DEF Resolve, Ignore
  <2>4. /\ future' \in [Calls -> {"none", "open", "result", "cancelled"}]
        /\ \A c \in Calls : stage'[c] = "idle" <=> future'[c] = "none"
    BY <2>3 DEF TypeOK
  <2> QED  BY <2>2, <2>3, <2>4 DEF TypeOK
<1>4. CASE Subscribe
  BY <1>4 DEF Subscribe, TypeOK
<1>5. CASE TakeMalformed \/ ResolveTwice
  BY <1>1, <1>5 DEF TakeMalformed, ResolveTwice, TypeOK
<1>6. CASE ListenerFails \/ ConnectionLost
  <2>1. /\ inbox' = <<>> /\ listener' \in {"off", "on", "dead"} /\ faults' \in 0..MaxFaults
        /\ UNCHANGED <<callVars, serviceVars>>
    BY <1>6, BoundAssumption DEF ListenerFails, ConnectionLost, TypeOK
  <2> QED  BY <1>1, <2>1 DEF TypeOK
<1> QED
  BY <1>2, <1>3, <1>4, <1>5, <1>6 DEF Listen

-----------------------------------------------------------------------------
(* The rest of the invariant.                                               *)

\* A call's own steps keep what ties calls, futures and the inbox together.
LEMMA CallsKeep ==
    ASSUME Inv, NEW c \in Calls, Begin(c) \/ Call(c)
    PROVE  Heard' /\ Earned' /\ Asked' /\ Kept' /\ GivenUp' /\ FirstOnly'
<1> USE DEF Goto, NoFault, callVars, serviceVars, listenVars, Inv, Active
<1>1. /\ stage \in [Calls -> Stages] /\ future \in [Calls -> {"none", "open", "result", "cancelled"}]
      /\ pending \subseteq Calls /\ stream \subseteq Calls /\ faults \in Nat
      /\ inbox \in Seq(Calls \cup {Malformed}) /\ Len(inbox) \in Nat
  BY BoundAssumption DEF TypeOK
<1>2. UNCHANGED <<served, listener, inbox>> /\ faults' \in {faults, faults + 1}
  BY DEF Begin, Call, Request, Sent, SendFails, Timer, Return, CancelFuture, GiveUp, Fault
<1>3. Heard'
  BY <1>2 DEF Heard
<1>4. /\ \A d \in Calls : future'[d] = "result" => future[d] = "result"
      /\ \A d \in Calls : stage'[d] = "idle" => stage[d] = "idle"
  BY <1>1 DEF Begin, Call, Request, Sent, SendFails, Timer, Return, CancelFuture, GiveUp
<1>5. Earned'
  BY <1>2, <1>4 DEF Earned
<1>6. Asked'
  <2>1. stream' = stream \/ (stream' = stream \cup {c} /\ stage[c] # "idle")
    BY DEF Begin, Call, Request, Sent, SendFails, Timer, Return, CancelFuture, GiveUp
  <2> QED  BY <1>1, <1>4, <2>1 DEF Asked
<1>7. Kept'
  <2>1. CASE Begin(c)
    BY <1>1, <2>1 DEF Begin, Kept
  <2>2. CASE Return(c) \/ GiveUp(c)
    BY <1>1, <2>2 DEF Return, GiveUp, Kept
  <2>3. CASE Request(c) \/ Sent(c) \/ SendFails(c) \/ Timer(c) \/ CancelFuture(c)
    BY <1>1, <2>3 DEF Request, Sent, SendFails, Timer, CancelFuture, Kept
  <2> QED  BY <2>1, <2>2, <2>3 DEF Call
<1>8. GivenUp'
  <2>1. CASE Begin(c)
    BY <1>1, <2>1 DEF Begin, GivenUp
  <2>2. CASE Return(c) \/ GiveUp(c)
    BY <1>1, <2>2 DEF Return, GiveUp, GivenUp
  <2>3. CASE Request(c) \/ Sent(c) \/ SendFails(c) \/ Timer(c)
    BY <1>1, <2>3 DEF Request, Sent, SendFails, Timer, GivenUp
  <2>4. CASE CancelFuture(c)
    BY <1>1, <2>4 DEF CancelFuture, GivenUp
  <2> QED  BY <2>1, <2>2, <2>3, <2>4 DEF Call
<1>9. FirstOnly'
  <2>1. faults' = 0 => faults = 0
    BY <1>1, <1>2
  <2> SUFFICES ASSUME faults = 0 PROVE \A i \in 1..Len(inbox) :
                 /\ inbox[i] # Malformed /\ future'[inbox[i]] # "result"
                 /\ \A j \in 1..Len(inbox) : inbox[i] = inbox[j] => i = j
    BY <1>2, <2>1 DEF FirstOnly
  <2>2. \A i \in 1..Len(inbox) : inbox[i] \in Calls \cup {Malformed}
    BY <1>1
  <2> QED  BY <1>4, <2>2 DEF FirstOnly
<1> QED  BY <1>3, <1>5, <1>6, <1>7, <1>8, <1>9

\* So does what services publish: a first response is not in the inbox yet.
LEMMA ServicesKeep ==
    ASSUME Inv, NEW c \in Calls, Respond(c) \/ RespondMalformed(c)
    PROVE  Heard' /\ Earned' /\ Asked' /\ Kept' /\ GivenUp' /\ FirstOnly'
<1> USE DEF NoFault, callVars, serviceVars, listenVars, Inv
<1>1. /\ inbox \in Seq(Calls \cup {Malformed}) /\ Len(inbox) \in Nat /\ faults \in Nat
      /\ served \subseteq stream
  BY BoundAssumption DEF TypeOK
<1>2. UNCHANGED <<callVars, stream>> /\ served \subseteq served'
  BY DEF Respond, RespondMalformed
<1>3. Earned' /\ Asked' /\ Kept' /\ GivenUp'
  BY <1>2 DEF Earned, Asked, Kept, GivenUp
<1>4. /\ inbox' \in Seq(Calls \cup {Malformed})
      /\ \/ inbox' = inbox
         \/ \E m \in served' \cup {Malformed} : inbox' = Append(inbox, m)
  BY <1>1, AppendElements DEF Respond, RespondMalformed, Published
<1>5. Heard'
  BY <1>1, <1>2, <1>4, AppendElements DEF Heard
<1>6. FirstOnly'
  <2>1. CASE faults' # 0
    BY <2>1 DEF FirstOnly
  <2>2. CASE faults' = 0
    <3>1. faults = 0 /\ c \notin served /\ served' = served \cup {c} /\ Published(c)
      BY <1>1, <2>2 DEF Respond, RespondMalformed, Fault
    <3>2. c # Malformed /\ future[c] # "result" /\ \A i \in 1..Len(inbox) : inbox[i] # c
      BY <3>1, MalformedAssumption DEF Heard, Earned
    <3>3. CASE inbox' = inbox
      BY <1>2, <3>1, <3>3 DEF FirstOnly
    <3>4. CASE inbox' = Append(inbox, c)
      <4> DEFINE Good(i) == inbox'[i] # Malformed /\ future[inbox'[i]] # "result"
      <4>1. \A i \in 1..Len(inbox') :
              \/ i \in 1..Len(inbox) /\ inbox'[i] = inbox[i]
              \/ i = Len(inbox) + 1 /\ inbox'[i] = c
        BY <1>1, <3>4, AppendElements
      <4>2. \A i \in 1..Len(inbox') : Good(i)
        BY <3>1, <3>2, <4>1 DEF FirstOnly
      <4>3. \A i, j \in 1..Len(inbox') : inbox'[i] = inbox'[j] => i = j
        BY <3>1, <3>2, <4>1 DEF FirstOnly
      <4> QED  BY <1>2, <4>2, <4>3 DEF FirstOnly
    <3> QED  BY <3>1, <3>3, <3>4 DEF Published
  <2> QED  BY <2>1, <2>2
<1> QED  BY <1>3, <1>5, <1>6

\* So do the listener and its connection: they only take from the inbox, and a
\* future gets a result from a response in it.
LEMMA ListenerKeeps ==
    ASSUME Inv, Listen \/ ListenerFails \/ ConnectionLost
    PROVE  Heard' /\ Earned' /\ Asked' /\ Kept' /\ GivenUp' /\ FirstOnly'
<1> USE DEF NoFault, callVars, serviceVars, listenVars, ListenerDies, Inv
<1>1. /\ future \in [Calls -> {"none", "open", "result", "cancelled"}] /\ pending \subseteq Calls
      /\ inbox \in Seq(Calls \cup {Malformed}) /\ Len(inbox) \in Nat /\ faults \in Nat
      /\ Len(<<>>) = 0
  BY BoundAssumption DEF TypeOK
<1>2. UNCHANGED <<stage, pending, serviceVars>> /\ (faults' = 0 => faults = 0)
  BY <1>1 DEF Listen, Subscribe, TakeMalformed, Resolve, ResolveTwice, Ignore, ListenerFails,
     ConnectionLost, Fault
<1>3. Asked' /\ Kept'
  BY <1>2 DEF Asked, Kept
<1>4. CASE Resolve
  <2>1. PICK c \in Calls : /\ c = Head(inbox) /\ c \in pending /\ future[c] = "open"
                           /\ future' = [future EXCEPT ![c] = "result"]
    BY <1>1, <1>4 DEF Resolve
  <2>2. inbox # <<>> /\ inbox' = Tail(inbox) /\ c = inbox[1]
    BY <1>1, <1>4, <2>1, TailElements DEF Resolve
  <2>3. \A i \in 1..Len(inbox') :
          i + 1 \in 1..Len(inbox) /\ i + 1 # 1 /\ inbox'[i] = inbox[i + 1]
    BY <1>1, <2>2, TailElements
  <2>4. 1 \in 1..Len(inbox)
    BY <1>1, <2>2, TailElements
  <2>5. Heard' /\ Earned' /\ GivenUp'
    BY <1>1, <1>2, <2>1, <2>2, <2>3, <2>4, MalformedAssumption DEF Heard, Earned, GivenUp
  <2>6. FirstOnly'
    <3> SUFFICES ASSUME faults = 0, NEW i \in 1..Len(inbox')
                 PROVE  /\ inbox'[i] # Malformed /\ future'[inbox'[i]] # "result"
                        /\ \A j \in 1..Len(inbox') : inbox'[i] = inbox'[j] => i = j
      BY <1>2 DEF FirstOnly
    <3>1. inbox'[i] \in Calls \cup {Malformed} /\ inbox'[i] # Malformed
          /\ future[inbox'[i]] # "result" /\ inbox'[i] # c
      BY <1>1, <2>2, <2>3, <2>4 DEF FirstOnly
    <3>2. future'[inbox'[i]] # "result"
      BY <1>1, <2>1, <3>1
    <3>3. \A j \in 1..Len(inbox') : inbox'[i] = inbox'[j] => i = j
      BY <1>1, <2>3 DEF FirstOnly
    <3> QED  BY <3>1, <3>2, <3>3
  <2> QED  BY <1>3, <2>5, <2>6
<1>5. CASE Ignore
  <2>1. inbox # <<>> /\ inbox' = Tail(inbox) /\ UNCHANGED <<future, served, stage>>
    BY <1>5 DEF Ignore
  <2>2. \A i \in 1..Len(inbox') : i + 1 \in 1..Len(inbox) /\ inbox'[i] = inbox[i + 1]
    BY <1>1, <2>1, TailElements
  <2>3. Heard' /\ Earned' /\ GivenUp'
    BY <2>1, <2>2 DEF Heard, Earned, GivenUp
  <2>4. FirstOnly'
    BY <1>1, <1>2, <2>1, <2>2 DEF FirstOnly
  <2> QED  BY <1>3, <2>3, <2>4
<1>6. CASE Subscribe \/ TakeMalformed \/ ResolveTwice \/ ListenerFails \/ ConnectionLost
  <2>1. UNCHANGED future /\ (inbox' = inbox \/ inbox' = <<>>)
    BY <1>6 DEF Subscribe, TakeMalformed, ResolveTwice, ListenerFails, ConnectionLost
  <2>2. Earned' /\ GivenUp'
    BY <1>2, <2>1 DEF Earned, GivenUp
  <2>3. Heard' /\ FirstOnly'
    BY <1>1, <1>2, <2>1 DEF Heard, FirstOnly
  <2> QED  BY <1>3, <2>2, <2>3
<1> QED
  BY <1>4, <1>5, <1>6 DEF Listen

\* Every step keeps the inductive invariant.
LEMMA Inductive == Inv /\ [Next]_vars => Inv'
<1> SUFFICES ASSUME Inv, [Next]_vars PROVE Inv'
  OBVIOUS
<1>1. CASE \E c \in Calls : Begin(c) \/ Call(c)
  BY <1>1, TypeOfCall, CallsKeep DEF Inv
<1>2. CASE \E c \in Calls : Respond(c) \/ RespondMalformed(c)
  BY <1>2, TypeOfOthers, ServicesKeep DEF Inv
<1>3. CASE Listen \/ ListenerFails \/ ConnectionLost
  BY <1>3, TypeOfOthers, ListenerKeeps DEF Inv
<1>4. CASE UNCHANGED vars
  BY <1>4 DEF vars, callVars, serviceVars, listenVars, Inv, TypeOK, Heard, Earned, Asked, Kept,
     GivenUp, FirstOnly
<1> QED  BY <1>1, <1>2, <1>3, <1>4 DEF Next

\* The inductive invariant behind the theorems.
LEMMA Invariant == Spec => []Inv
BY Initially, Inductive, PTL DEF Spec

-----------------------------------------------------------------------------
(* The theorems.                                                            *)

\* Every state of the gateway has its type.
THEOREM TypeCorrect == Spec => []TypeOK
<1>1. Inv => TypeOK
  BY DEF Inv
<1> QED  BY <1>1, Invariant, PTL

\* Of the calls that are over only those whose xadd raised are still in
\* pending, however late responses, timers and the end of the listener come.
THEOREM PendingCleared == Spec => []PendingIsCleared
<1>1. Inv => PendingIsCleared
  BY DEF Inv, Kept, Active, PendingIsCleared, Over
<1> QED  BY <1>1, Invariant, PTL

\* As long as no command failed and each service answered a call once, nothing
\* but a response that meets a future wait_for has just cancelled ends the
\* listener.
THEOREM DiesInWindow == Spec => DiesOnlyInWindow
<1> DEFINE Window == faults' > 0 \/ \E c \in Calls : stage[c] = "cancelling" /\ Head(inbox) = c
<1>1. Inv /\ Inv' /\ [Next]_vars => [listener = "on" /\ listener' = "dead" => Window]_vars
  <2> SUFFICES ASSUME Inv, Inv', Next, listener = "on", listener' = "dead" PROVE Window
    OBVIOUS
  <2> USE DEF NoFault, callVars, serviceVars, listenVars
  <2>1. /\ TypeOK /\ TypeOK' /\ faults \in Nat /\ faults' \in Nat
        /\ inbox \in Seq(Calls \cup {Malformed})
    BY BoundAssumption DEF Inv, TypeOK
  <2>2. CASE ListenerFails
    BY <2>1, <2>2 DEF ListenerFails, Fault
  <2>3. CASE TakeMalformed \/ ResolveTwice
    <3>1. inbox # <<>> /\ faults' = faults
      BY <2>3 DEF TakeMalformed, ResolveTwice
    <3>2. Head(inbox) = inbox[1] /\ 1 \in 1..Len(inbox)
      BY <2>1, <3>1, TailElements
    <3>3. CASE TakeMalformed
      BY <2>1, <3>1, <3>2, <3>3 DEF TakeMalformed, Inv, FirstOnly
    <3>4. CASE ResolveTwice
      <4>1. PICK c \in Calls : c = Head(inbox) /\ c \in pending /\ future[c] # "open"
        BY <2>1, <3>4 DEF ResolveTwice, TypeOK
      <4>2. CASE future[c] = "result"
        BY <2>1, <3>1, <3>2, <4>1, <4>2 DEF Inv, FirstOnly
      <4>3. CASE future[c] = "cancelled"
        BY <4>1, <4>3 DEF Inv, GivenUp, Kept, Active
      <4>4. stage[c] # "idle"
        BY <4>1 DEF Inv, Kept, Active
      <4> QED  BY <2>1, <4>1, <4>2, <4>3, <4>4 DEF TypeOK
    <3> QED  BY <2>3, <3>3, <3>4
  <2>4. CASE Subscribe \/ Resolve \/ Ignore \/ ConnectionLost
    BY <2>4 DEF Subscribe, Resolve, Ignore, ConnectionLost
  <2>5. ASSUME NEW c \in Calls, Begin(c) \/ Call(c) \/ Respond(c) \/ RespondMalformed(c)
        PROVE  Window
    BY <2>5 DEF Begin, Call, Request, Sent, SendFails, Timer, Return, CancelFuture, GiveUp,
       Respond, RespondMalformed
  <2> QED  BY <2>2, <2>3, <2>4, <2>5 DEF Next, Listen
<1> QED  BY <1>1, Invariant, PTL DEF Spec, DiesOnlyInWindow

\* The gateway implements the contract of a caller, RpcCall: one return per
\* call, and a reply only if the service answered that very call.
THEOREM RefinesRpcCall == Spec => ImplementsRpcCall
<1>1. Init => Contract!Init
  BY DEF Init, Contract!Init
<1>2. Inv /\ [Next]_vars => [Contract!Next]_(Contract!vars)
  <2> SUFFICES ASSUME Inv, [Next]_vars PROVE [Contract!Next]_(Contract!vars)
    OBVIOUS
  <2> USE DEF Goto, NoFault, callVars, serviceVars, listenVars
  <2>1. stage \in [Calls -> Stages]
    BY DEF Inv, TypeOK
  <2>2. stage' = stage /\ served' = served => UNCHANGED Contract!vars
    BY DEF Contract!vars
  <2>3. ASSUME NEW c \in Calls, Begin(c) PROVE Contract!Begin(c)
    BY <2>1, <2>3 DEF Begin, Contract!Begin, Contract!Moves
  <2>4. ASSUME NEW c \in Calls, SendFails(c) \/ GiveUp(c) PROVE Contract!Fail(c)
    <3>1. /\ stage[c] \in {"sending", "cancelling"} /\ served' = served
          /\ \E to \in {"broken", "timeout"} : stage' = [stage EXCEPT ![c] = to]
      BY <2>4 DEF SendFails, GiveUp
    <3> QED  BY <2>1, <3>1 DEF Contract!Fail, Contract!Moves
  <2>5. ASSUME NEW c \in Calls, Return(c) PROVE Contract!Reply(c)
    <3>1. /\ stage[c] \in {"waiting", "late"} /\ served' = served
          /\ stage' = [stage EXCEPT ![c] = "replied"] /\ c \in served
      BY <2>5 DEF Return, Inv, Earned
    <3> QED  BY <2>1, <3>1 DEF Contract!Reply, Contract!Moves
  <2>6. ASSUME NEW c \in Calls, Sent(c) \/ Timer(c) \/ CancelFuture(c)
        PROVE  UNCHANGED Contract!vars
    <3>1. /\ served' = served
          /\ \E from, to \in Active : stage[c] = from /\ stage' = [stage EXCEPT ![c] = to]
      BY <2>6 DEF Sent, Timer, CancelFuture, Active
    <3> QED  BY <2>1, <3>1 DEF Contract!vars, Active
  <2>7. ASSUME NEW c \in Calls, Respond(c) PROVE Contract!Run(c)
    <3>1. stage' = stage /\ served' = served \cup {c} /\ stage[c] # "idle"
      BY <2>7 DEF Respond, Inv, Asked
    <3> QED  BY <2>1, <3>1 DEF Contract!Run
  <2>8. ASSUME NEW c \in Calls, Request(c) \/ RespondMalformed(c) PROVE UNCHANGED <<stage, served>>
    BY <2>8 DEF Request, RespondMalformed
  <2>9. CASE Listen \/ ListenerFails \/ ConnectionLost \/ UNCHANGED vars
    <3>1. UNCHANGED <<stage, served>>
      BY <2>9 DEF Listen, Subscribe, TakeMalformed, Resolve, ResolveTwice, Ignore, ListenerFails,
         ConnectionLost, ListenerDies, vars
    <3> QED  BY <2>2, <3>1
  <2> QED
    BY <2>2, <2>3, <2>4, <2>5, <2>6, <2>7, <2>8, <2>9 DEF Next, Call, Contract!Next
<1> QED  BY <1>1, <1>2, Invariant, PTL DEF Spec, ImplementsRpcCall, Contract!Spec

-----------------------------------------------------------------------------
(* Liveness.  The fairness of a call's task says nothing of a task that can  *)
(* not go on; that it always can is CallNeverStuck, which TLC checks.  From   *)
(* there a call passes through its stages one by one.                         *)

NotAsked(c) == stage[c] = "sending" /\ c \notin stream
HasAsked(c) == stage[c] = "sending" /\ c \in stream
Waits(c) == stage[c] = "waiting"
Late(c) == stage[c] = "late"
Cancels(c) == stage[c] = "cancelling"
Answered(c) == future[c] = "result"
Replied(c) == stage[c] = "replied"

InFlight(c) == NotAsked(c) \/ HasAsked(c) \/ Waits(c) \/ Late(c) \/ Cancels(c)

\* A step of the call's own task takes it to the next stage, or to its end.
LEMMA CallMoves ==
    ASSUME NEW c \in Calls, Inv, Call(c)
    PROVE  /\ NotAsked(c) => HasAsked(c)' \/ Over(c)'
           /\ HasAsked(c) => Waits(c)' \/ Over(c)'
           /\ Waits(c) => Late(c)' \/ Over(c)'
           /\ Late(c) => Cancels(c)' \/ Over(c)'
           /\ Cancels(c) => Over(c)'
           /\ Waits(c) /\ Answered(c) => (Late(c) /\ Answered(c))' \/ Replied(c)'
           /\ Late(c) /\ Answered(c) => Replied(c)'
<1> stage \in [Calls -> Stages] /\ future \in [Calls -> {"none", "open", "result", "cancelled"}]
  BY DEF Inv, TypeOK
<1> USE DEF Goto, NotAsked, HasAsked, Waits, Late, Cancels, Answered, Replied, Over, callVars,
            serviceVars, listenVars
<1>1. CASE Request(c) \/ Sent(c)
  BY <1>1 DEF Request, Sent
<1>2. CASE SendFails(c) \/ Timer(c)
  BY <1>2 DEF SendFails, Timer
<1>3. CASE Return(c) \/ CancelFuture(c) \/ GiveUp(c)
  BY <1>3 DEF Return, CancelFuture, GiveUp
<1> QED  BY <1>1, <1>2, <1>3 DEF Call

\* A step of anybody else leaves it where it is, and takes no result from it.
LEMMA OthersWait ==
    ASSUME NEW c \in Calls, Inv, [Next]_vars, ~Call(c)
    PROVE  /\ NotAsked(c) => NotAsked(c)'
           /\ HasAsked(c) => HasAsked(c)'
           /\ Waits(c) => Waits(c)'
           /\ Late(c) => Late(c)'
           /\ Cancels(c) => Cancels(c)'
           /\ InFlight(c) /\ Answered(c) => Answered(c)'
<1> DEFINE Untouched ==
      /\ stage[c] # "idle" => stage'[c] = stage[c]
      /\ c \in stream' <=> c \in stream
      /\ Answered(c) /\ stage[c] # "idle" => Answered(c)'
<1> stage \in [Calls -> Stages] /\ future \in [Calls -> {"none", "open", "result", "cancelled"}]
    /\ pending \subseteq Calls
  BY DEF Inv, TypeOK
<1> USE DEF Answered, callVars, serviceVars, listenVars
<1>1. ASSUME NEW d \in Calls, Begin(d) PROVE Untouched
  BY <1>1 DEF Begin, Goto
<1>2. ASSUME NEW d \in Calls, d # c, Call(d) PROVE Untouched
  BY <1>2 DEF Call, Request, Sent, SendFails, Timer, Return, CancelFuture, GiveUp, Goto
<1>3. ASSUME NEW d \in Calls, Respond(d) \/ RespondMalformed(d) PROVE Untouched
  BY <1>3 DEF Respond, RespondMalformed
<1>4. ASSUME Listen \/ ListenerFails \/ ConnectionLost PROVE Untouched
  BY <1>4 DEF Listen, Subscribe, TakeMalformed, Resolve, ResolveTwice, Ignore, ListenerFails,
     ConnectionLost, ListenerDies
<1>5. ASSUME UNCHANGED vars PROVE Untouched
  BY <1>5 DEF vars
<1>6. Untouched
  BY <1>1, <1>2, <1>3, <1>4, <1>5 DEF Next
<1> QED  BY <1>6 DEF NotAsked, HasAsked, Waits, Late, Cancels, InFlight

\* As the temporal steps below use it: a fair call that is never stuck.
Driven(c) == Spec /\ CallFair(c) /\ [](InFlight(c) => ENABLED <<Call(c)>>_vars)

\* Every fair execution drives each of its calls.
LEMMA Drives ==
    ASSUME NEW c \in Calls
    PROVE  FairSpec /\ []CallNeverStuck => Driven(c)
<1>1. FairSpec => Spec /\ CallFair(c)
  BY DEF FairSpec, Fairness
<1>2. CallNeverStuck => (InFlight(c) => ENABLED <<Call(c)>>_vars)
  BY DEF CallNeverStuck, InFlight, NotAsked, HasAsked, Waits, Late, Cancels
<1> QED  BY <1>1, <1>2, PTL DEF Driven

\* A call ends, whether or not a service answers and the listener lives, as
\* long as its task can go on.
THEOREM EveryCallEnds == FairSpec /\ []CallNeverStuck => CallsEnd
<1> SUFFICES ASSUME NEW c \in Calls
             PROVE  FairSpec /\ []CallNeverStuck => (stage[c] = "sending" ~> Over(c))
  BY DEF CallsEnd
<1>1. Driven(c) => (NotAsked(c) ~> HasAsked(c) \/ Over(c))
  <2>1. Inv /\ [Next]_vars /\ NotAsked(c) => NotAsked(c)' \/ HasAsked(c)' \/ Over(c)'
    BY CallMoves, OthersWait
  <2>2. Inv /\ <<Call(c)>>_vars /\ NotAsked(c) => HasAsked(c)' \/ Over(c)'
    BY CallMoves
  <2> QED  BY <2>1, <2>2, Invariant, PTL DEF Driven, Spec, CallFair, InFlight
<1>2. Driven(c) => (HasAsked(c) ~> Waits(c) \/ Over(c))
  <2>1. Inv /\ [Next]_vars /\ HasAsked(c) => HasAsked(c)' \/ Waits(c)' \/ Over(c)'
    BY CallMoves, OthersWait
  <2>2. Inv /\ <<Call(c)>>_vars /\ HasAsked(c) => Waits(c)' \/ Over(c)'
    BY CallMoves
  <2> QED  BY <2>1, <2>2, Invariant, PTL DEF Driven, Spec, CallFair, InFlight
<1>3. Driven(c) => (Waits(c) ~> Late(c) \/ Over(c))
  <2>1. Inv /\ [Next]_vars /\ Waits(c) => Waits(c)' \/ Late(c)' \/ Over(c)'
    BY CallMoves, OthersWait
  <2>2. Inv /\ <<Call(c)>>_vars /\ Waits(c) => Late(c)' \/ Over(c)'
    BY CallMoves
  <2> QED  BY <2>1, <2>2, Invariant, PTL DEF Driven, Spec, CallFair, InFlight
<1>4. Driven(c) => (Late(c) ~> Cancels(c) \/ Over(c))
  <2>1. Inv /\ [Next]_vars /\ Late(c) => Late(c)' \/ Cancels(c)' \/ Over(c)'
    BY CallMoves, OthersWait
  <2>2. Inv /\ <<Call(c)>>_vars /\ Late(c) => Cancels(c)' \/ Over(c)'
    BY CallMoves
  <2> QED  BY <2>1, <2>2, Invariant, PTL DEF Driven, Spec, CallFair, InFlight
<1>5. Driven(c) => (Cancels(c) ~> Over(c))
  <2>1. Inv /\ [Next]_vars /\ Cancels(c) => Cancels(c)' \/ Over(c)'
    BY CallMoves, OthersWait
  <2>2. Inv /\ <<Call(c)>>_vars /\ Cancels(c) => Over(c)'
    BY CallMoves
  <2> QED  BY <2>1, <2>2, Invariant, PTL DEF Driven, Spec, CallFair, InFlight
<1>6. stage[c] = "sending" => NotAsked(c) \/ HasAsked(c)
  BY DEF NotAsked, HasAsked
<1> QED  BY <1>1, <1>2, <1>3, <1>4, <1>5, <1>6, Drives, PTL

\* A caller whose future was resolved before it looked returns the response,
\* even if the timer has fired or the listener has died in between.
THEOREM ResolvedIsReturned == FairSpec /\ []CallNeverStuck => AnswerIsReturned
<1> SUFFICES ASSUME NEW c \in Calls
             PROVE  FairSpec /\ []CallNeverStuck =>
                      ((stage[c] \in {"waiting", "late"} /\ future[c] = "result")
                          ~> stage[c] = "replied")
  BY DEF AnswerIsReturned
<1>1. Driven(c) => ((Waits(c) /\ Answered(c)) ~> ((Late(c) /\ Answered(c)) \/ Replied(c)))
  <2>1. Inv /\ [Next]_vars /\ Waits(c) /\ Answered(c) =>
          (Waits(c) /\ Answered(c))' \/ (Late(c) /\ Answered(c))' \/ Replied(c)'
    BY CallMoves, OthersWait DEF InFlight
  <2>2. Inv /\ <<Call(c)>>_vars /\ Waits(c) /\ Answered(c) =>
          (Late(c) /\ Answered(c))' \/ Replied(c)'
    BY CallMoves
  <2> QED  BY <2>1, <2>2, Invariant, PTL DEF Driven, Spec, CallFair, InFlight
<1>2. Driven(c) => ((Late(c) /\ Answered(c)) ~> Replied(c))
  <2>1. Inv /\ [Next]_vars /\ Late(c) /\ Answered(c) =>
          (Late(c) /\ Answered(c))' \/ Replied(c)'
    BY CallMoves, OthersWait DEF InFlight
  <2>2. Inv /\ <<Call(c)>>_vars /\ Late(c) /\ Answered(c) => Replied(c)'
    BY CallMoves
  <2> QED  BY <2>1, <2>2, Invariant, PTL DEF Driven, Spec, CallFair, InFlight
<1>3. stage[c] \in {"waiting", "late"} /\ future[c] = "result" =>
        (Waits(c) /\ Answered(c)) \/ (Late(c) /\ Answered(c))
  BY DEF Waits, Late, Answered
<1>4. Replied(c) => stage[c] = "replied"
  BY DEF Replied
<1> QED  BY <1>1, <1>2, <1>3, <1>4, Drives, PTL

\* Every call ends, and with the response if that was there before it looked, as
\* long as its task can go on.
THEOREM CallsEndAsTheyShould == FairSpec /\ []CallNeverStuck => CallsEndRightly
BY EveryCallEnds, ResolvedIsReturned DEF CallsEndRightly
=============================================================================

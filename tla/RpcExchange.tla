----------------------------- MODULE RpcExchange -----------------------------
(***************************************************************************)
(* One RPC exchange of the microservice framework, as the Redis transport  *)
(* runs it: RedisTransport.Request on the caller's side, the supervised    *)
(* listener loop started by listenForReply, the broker's reply streams,    *)
(* and the responder's handler (registerRPCMethod), together with the      *)
(* other goroutines that touch the same state: the cleanup of expired      *)
(* pending entries, the periodic trim loop, which rewrites the stream's    *)
(* StreamMeta, and the shutdown of a process, which deletes the reply      *)
(* streams it registered.                                                  *)
(*                                                                         *)
(* A call is one Request: the MessageID under which its channel is stored  *)
(* in replyRouter.  A reply stream entry is <<c, k>>: the k-th reply       *)
(* published for call c.  A listener loop is named by the call whose       *)
(* listenForReply started it.                                              *)
(***************************************************************************)
EXTENDS Naturals, FiniteSets, Sequences

CONSTANTS
    Calls,        \* the Request calls that may be made
    Instances,    \* the service processes
    Owner,        \* [Calls -> Instances]: the process that makes the call
    InstanceId,   \* [Instances -> ids]: the configured framework.instance_id
    Site,         \* [Calls -> sites]: target RPC stream and caller line
    ReadCount,    \* streamReadCount: entries one XREADGROUP returns
    MaxFaults     \* bound on failed or duplicated broker commands, expired or
                  \* undecodable replies and stop signals in one behaviour

ASSUME OwnerAssumption == Owner \in [Calls -> Instances]
ASSUME ReadCountAssumption == ReadCount \in Nat \ {0}
ASSUME FaultsAssumption == MaxFaults \in Nat

\* Request: fmt.Sprintf("reply:%s:%s:%s", stream, serviceInstanceID, caller).
ReplyTo(c) == <<Site[c], InstanceId[Owner[c]]>>

Streams == {ReplyTo(c) : c \in Calls}
Entries == Calls \X (Nat \ {0})
NoStream == <<>>    \* the trim loop is not in the middle of a stream

VARIABLES
    pc,          \* where each Request call is
    router,      \* replyRouter: the calls whose channel is stored
    chan,        \* the calls whose response channel (capacity 1) is full
    loop,        \* where the listener loop started by the call is
    batch,       \* entries the loop has read and not finished with
    registered,  \* <<i, s>>: process i has a StreamMeta for reply stream s
    subscribed,  \* <<i, s>>: that StreamMeta has SubscribedTo = true
    trimming,    \* stream whose StreamMeta i's trim loop loaded unsubscribed
    group,       \* whether the consumer group "rpc_cg" of the stream exists
    unread,      \* entries after the group's last-delivered id, in order
    pend,        \* the group's pending entries: delivered, not acknowledged
    requests,    \* copies of the request waiting on the RPC stream
    executed,    \* times the remote method ran for the call
    replies,     \* replies published for the call
    garbled,     \* replies published in a form readGroup cannot decode
    expired,     \* entries whose deadline, 30s after their making, has passed
    phase,       \* "up", "closing" (CleanupOnShutdown runs) or "cancelled"
    todo,        \* streams CleanupOnShutdown has still to visit
    erred,       \* processes with an error on the supervisor's errChan
    faults       \* failures used so far

callVars   == <<pc, router, chan>>
loopVars   == <<loop, batch>>
metaVars   == <<registered, subscribed, trimming>>
brokerVars == <<group, unread, pend>>
serverVars == <<requests, executed, replies, garbled, expired>>
procVars   == <<phase, todo, erred>>
vars == <<callVars, loopVars, metaVars, brokerVars, serverVars, procVars, faults>>

Returned == {"replied", "timedout", "failed", "refused"}
Loading  == {"idle", "ensure", "launched", "check", "spin", "emit", "wait"} \cup Returned
LoopPcs  == {"none", "top", "read", "discard", "handle", "deliver", "ack", "dead"}
Live     == {"top", "read", "discard", "handle", "deliver", "ack"}

Cancelled(i) == phase[i] = "cancelled"     \* the process's root context
Fault == faults < MaxFaults /\ faults' = faults + 1
NoFault == UNCHANGED faults

\* The call whose reply the loop is working on.
Current(l) == Head(batch[l])[1]

Init ==
    /\ pc = [c \in Calls |-> "idle"]
    /\ router = {} /\ chan = {}
    /\ loop = [c \in Calls |-> "none"]
    /\ batch = [c \in Calls |-> <<>>]
    /\ registered = {} /\ subscribed = {}
    /\ trimming = [i \in Instances |-> NoStream]
    /\ group = [s \in Streams |-> FALSE]
    /\ unread = [s \in Streams |-> <<>>]
    /\ pend = [s \in Streams |-> {}]
    /\ requests = [c \in Calls |-> 0]
    /\ executed = [c \in Calls |-> 0]
    /\ replies = [c \in Calls |-> 0]
    /\ garbled = {} /\ expired = {}
    /\ phase = [i \in Instances |-> "up"]
    /\ todo = [i \in Instances |-> {}]
    /\ erred = {}
    /\ faults = 0

-----------------------------------------------------------------------------
(* Request and listenForReply, on the goroutine of the caller.             *)

Goto(c, from, to) == pc[c] = from /\ pc' = [pc EXCEPT ![c] = to]

\* EXISTS found the RPC stream: the response channel goes into replyRouter.
BeginRequest(c) ==
    /\ Goto(c, "idle", "ensure")
    /\ ~Cancelled(Owner[c])
    /\ router' = router \cup {c}
    /\ UNCHANGED <<chan, loopVars, metaVars, brokerVars, serverVars, procVars, faults>>

\* EXISTS failed or the target RPC stream does not exist.
RefuseRequest(c) ==
    /\ Goto(c, "idle", "refused")
    /\ UNCHANGED <<router, chan, loopVars, metaVars, brokerVars, serverVars, procVars, faults>>

\* XGROUP CREATE ... "$" MKSTREAM (an existing group is left alone), then
\* registerStream: the first StreamMeta stored for the stream wins.  The first
\* call of the process also launches the cleanup of the stream.  A key stored
\* while CleanupOnShutdown ranges over the map may be visited or not.
EnsureGroup(c) ==
    LET is == <<Owner[c], ReplyTo(c)>> IN
    /\ Goto(c, "ensure", IF is \in registered THEN "check" ELSE "launched")
    /\ ~Cancelled(Owner[c])
    /\ group' = [group EXCEPT ![ReplyTo(c)] = TRUE]
    /\ registered' = registered \cup {is}
    /\ \/ UNCHANGED todo
       \/ /\ phase[Owner[c]] = "closing" /\ is \notin registered
          /\ todo' = [todo EXCEPT ![Owner[c]] = @ \cup {ReplyTo(c)}]
    /\ UNCHANGED <<router, chan, loopVars, subscribed, trimming, unread, pend,
                   serverVars, phase, erred, faults>>

\* ensureConsumerGroup returns: its deferred cancel ends the context of the
\* cleanup goroutine.
EnsureReturns(c) ==
    /\ Goto(c, "launched", "check")
    /\ UNCHANGED <<router, chan, loopVars, metaVars, brokerVars, serverVars, procVars, faults>>

\* Mutant: the deadline of the pending entry is not looked at.
CleanupAcksAll(c) ==
    /\ pc[c] = "launched" /\ ~Cancelled(Owner[c])
    /\ \E e \in pend[ReplyTo(c)] : pend' = [pend EXCEPT ![ReplyTo(c)] = @ \ {e}]
    /\ UNCHANGED <<callVars, loopVars, metaVars, group, unread, serverVars, procVars, faults>>

\* cleanupExpiredPendingMessages, while its context lasts: XACK of an expired
\* pending entry.
CleanupAcks(c) ==
    /\ pc[c] = "launched" /\ ~Cancelled(Owner[c])
    /\ \E e \in pend[ReplyTo(c)] \cap expired :
         pend' = [pend EXCEPT ![ReplyTo(c)] = @ \ {e}]
    /\ UNCHANGED <<callVars, loopVars, metaVars, group, unread, serverVars, procVars, faults>>

\* On an error listenForReply only returns: Request goes on without a listener.
EnsureGroupFails(c) ==
    /\ Goto(c, "ensure", "emit")
    /\ IF Cancelled(Owner[c]) THEN NoFault ELSE Fault
    /\ UNCHANGED <<router, chan, loopVars, metaVars, brokerVars, serverVars, procVars>>

IsSubscribed(c) == <<Owner[c], ReplyTo(c)>> \in subscribed

\* isSubscribedToStream: some listener is thought to serve the stream.
FindListener(c) ==
    /\ Goto(c, "check", "emit")
    /\ IsSubscribed(c)
    /\ UNCHANGED <<router, chan, loopVars, metaVars, brokerVars, serverVars, procVars, faults>>

\* GoLoop: the caller then waits for the new loop to report itself.
StartListener(c) ==
    /\ Goto(c, "check", "spin")
    /\ ~IsSubscribed(c)
    /\ loop' = [loop EXCEPT ![c] = "top"]
    /\ UNCHANGED <<router, chan, batch, metaVars, brokerVars, serverVars, procVars, faults>>

\* for !r.isSubscribedToStream(replyStream): no context ends this wait.
SeeListener(c) ==
    /\ Goto(c, "spin", "emit")
    /\ IsSubscribed(c)
    /\ UNCHANGED <<router, chan, loopVars, metaVars, brokerVars, serverVars, procVars, faults>>

\* Emit: XADD of the request succeeds.
EmitRequest(c) ==
    /\ Goto(c, "emit", "wait")
    /\ ~Cancelled(Owner[c])
    /\ requests' = [requests EXCEPT ![c] = @ + 1]
    /\ UNCHANGED <<router, chan, loopVars, metaVars, brokerVars, executed, replies,
                   garbled, expired, procVars, faults>>

\* XADD reports an error, whether or not the entry was added.  The client, which
\* retries a command by itself, or Retry tries again; after the last attempt or a
\* cancelled context Retry gives up: Request then returns without deleting its
\* replyRouter entry.
EmitFails(c) ==
    /\ \E next \in {"emit", "failed"} : Goto(c, "emit", next)
    /\ \/ /\ Cancelled(Owner[c])
          /\ pc'[c] = "failed"
          /\ UNCHANGED <<requests, faults>>
       \/ /\ Fault
          /\ ~Cancelled(Owner[c])
          /\ \E added \in {0, 1} : requests' = [requests EXCEPT ![c] = @ + added]
    /\ UNCHANGED <<router, chan, loopVars, metaVars, brokerVars, executed, replies, garbled,
                   expired, procVars>>

\* Mutant: the response is taken after the timer already ended the call.
ReceiveLate(c) ==
    /\ pc[c] \in {"wait", "timedout"} /\ pc' = [pc EXCEPT ![c] = "replied"]
    /\ c \in chan
    /\ chan' = chan \ {c}
    /\ UNCHANGED <<router, loopVars, metaVars, brokerVars, serverVars, procVars, faults>>

\* The select of Request takes the response ...
Receive(c) ==
    /\ Goto(c, "wait", "replied")
    /\ c \in chan
    /\ chan' = chan \ {c}
    /\ UNCHANGED <<router, loopVars, metaVars, brokerVars, serverVars, procVars, faults>>

\* ... or the timer, which may win even when the response is there.
Timeout(c) ==
    /\ Goto(c, "wait", "timedout")
    /\ router' = router \ {c}
    /\ UNCHANGED <<chan, loopVars, metaVars, brokerVars, serverVars, procVars, faults>>

-----------------------------------------------------------------------------
(* The listener loop: GoLoop running the closure of listenForReply.        *)

LoopGoto(l, from, to) == loop[l] = from /\ loop' = [loop EXCEPT ![l] = to]

\* An error returned by the closure ends the loop and goes to errChan.
LoopDies(l, from) ==
    /\ LoopGoto(l, from, "dead")
    /\ erred' = erred \cup {Owner[l]}
    /\ UNCHANGED <<phase, todo>>

\* Mutant: readGroup does not set SubscribedTo.
LoopTopSilent(l) ==
    /\ LoopGoto(l, "top", IF Cancelled(Owner[l]) THEN "dead" ELSE "read")
    /\ UNCHANGED <<callVars, batch, metaVars, brokerVars, serverVars, procVars, faults>>

\* The select of GoLoop, then readGroup setting SubscribedTo (a CAS loop).
LoopTop(l) ==
    /\ IF Cancelled(Owner[l])
       THEN LoopGoto(l, "top", "dead") /\ UNCHANGED subscribed
       ELSE /\ LoopGoto(l, "top", "read")
            /\ subscribed' = subscribed \cup {<<Owner[l], ReplyTo(l)>>}
    /\ UNCHANGED <<callVars, batch, registered, trimming, brokerVars, serverVars,
                   procVars, faults>>

\* What XREADGROUP ... COUNT ReadCount STREAMS s > returns and leaves.
ReadSize(s) == IF Len(unread[s]) < ReadCount THEN Len(unread[s]) ELSE ReadCount
ReadBatch(s) == SubSeq(unread[s], 1, ReadSize(s))
BatchSet(s) == {unread[s][j] : j \in 1..ReadSize(s)}

DeliverBatch(s) ==
    /\ unread' = [unread EXCEPT ![s] = SubSeq(@, ReadSize(s) + 1, Len(@))]
    /\ pend' = [pend EXCEPT ![s] = @ \cup BatchSet(s)]
    /\ UNCHANGED group

\* What readGroup does with the entries it has read: those it cannot decode are
\* acknowledged first, the rest is the batch it returns.
Sorted(q) == IF \E j \in 1..Len(q) : q[j] \in garbled THEN "discard" ELSE "handle"

\* Mutant: a block timeout (redis.Nil) ends the loop like an error.
LoopReadOnce(l) ==
    LET s == ReplyTo(l) IN
    /\ group[s] /\ ~Cancelled(Owner[l])
    /\ LoopGoto(l, "read", IF unread[s] = <<>> THEN "dead" ELSE Sorted(ReadBatch(s)))
    /\ batch' = [batch EXCEPT ![l] = ReadBatch(s)]
    /\ DeliverBatch(s)
    /\ UNCHANGED <<callVars, metaVars, serverVars, procVars, faults>>

\* XREADGROUP of readGroup; no entry is the block timeout (redis.Nil).
LoopRead(l) ==
    LET s == ReplyTo(l) IN
    /\ group[s] /\ ~Cancelled(Owner[l])
    /\ LoopGoto(l, "read", IF unread[s] = <<>> THEN "top" ELSE Sorted(ReadBatch(s)))
    /\ batch' = [batch EXCEPT ![l] = ReadBatch(s)]
    /\ DeliverBatch(s)
    /\ UNCHANGED <<callVars, metaVars, serverVars, procVars, faults>>

\* The sequence q without its j-th element.
Without(q, j) == [h \in 1..(Len(q) - 1) |-> IF h < j THEN q[h] ELSE q[h + 1]]

\* XACK of the next entry readGroup cannot decode, in time or not and unseen by
\* its caller; a failure is ignored, and the entry then stays pending.
LoopDiscards(l) ==
    /\ \E j \in 1..Len(batch[l]) :
         /\ batch[l][j] \in garbled /\ \A h \in 1..(j - 1) : batch[l][h] \notin garbled
         /\ batch' = [batch EXCEPT ![l] = Without(batch[l], j)]
         /\ LoopGoto(l, "discard", Sorted(Without(batch[l], j)))
         /\ \/ /\ ~Cancelled(Owner[l])
               /\ pend' = [pend EXCEPT ![ReplyTo(l)] = @ \ {batch[l][j]}]
               /\ NoFault
            \/ /\ IF Cancelled(Owner[l]) THEN NoFault ELSE Fault
               /\ UNCHANGED pend
    /\ UNCHANGED <<callVars, metaVars, group, unread, serverVars, procVars>>

\* XREADGROUP fails.  After a cancellation the closure returns normally; for
\* a missing group, or an answer that got lost, it returns the error.
LoopReadFails(l) ==
    LET s == ReplyTo(l) IN
    /\ \/ /\ Cancelled(Owner[l])
          /\ LoopGoto(l, "read", "top")
          /\ UNCHANGED <<brokerVars, procVars, faults>>
       \/ /\ ~Cancelled(Owner[l]) /\ ~group[s]
          /\ LoopDies(l, "read")
          /\ UNCHANGED <<brokerVars, faults>>
       \/ /\ ~Cancelled(Owner[l]) /\ group[s]
          /\ Fault
          /\ LoopDies(l, "read")
          /\ DeliverBatch(s) \/ UNCHANGED brokerVars
    /\ UNCHANGED <<callVars, batch, metaVars, serverVars>>

InTime(l) == batch[l] # <<>> /\ Head(batch[l]) \notin expired

\* Mutant: Load instead of LoadAndDelete.
TakeChannelByLoad(l) ==
    /\ LoopGoto(l, "handle", "deliver")
    /\ InTime(l)
    /\ Current(l) \in router /\ Owner[Current(l)] = Owner[l]
    /\ UNCHANGED <<callVars, batch, metaVars, brokerVars, serverVars, procVars, faults>>

\* replyRouter.LoadAndDelete found the caller's channel in this process.
TakeChannel(l) ==
    /\ LoopGoto(l, "handle", "deliver")
    /\ InTime(l)
    /\ Current(l) \in router /\ Owner[Current(l)] = Owner[l]
    /\ router' = router \ {Current(l)}
    /\ UNCHANGED <<pc, chan, batch, metaVars, brokerVars, serverVars, procVars, faults>>

\* typedCh <- decoded blocks while the channel is full.
SendToCaller(l) ==
    /\ LoopGoto(l, "deliver", "ack")
    /\ Current(l) \notin chan
    /\ chan' = chan \cup {Current(l)}
    /\ UNCHANGED <<pc, router, batch, metaVars, brokerVars, serverVars, procVars, faults>>

\* XACK of the delivered entry; its failure is only logged.
AckReply(l) ==
    /\ LoopGoto(l, "ack", "handle")
    /\ batch' = [batch EXCEPT ![l] = Tail(@)]
    /\ \/ /\ ~Cancelled(Owner[l])
          /\ pend' = [pend EXCEPT ![ReplyTo(l)] = @ \ {Head(batch[l])}]
          /\ NoFault
       \/ /\ IF Cancelled(Owner[l]) THEN NoFault ELSE Fault
          /\ UNCHANGED pend
    /\ UNCHANGED <<callVars, metaVars, group, unread, serverVars, procVars>>

\* No channel for the MessageID: the reply is logged and stays pending.
StrayReply(l) ==
    /\ loop[l] = "handle" /\ InTime(l)
    /\ ~(Current(l) \in router /\ Owner[Current(l)] = Owner[l])
    /\ batch' = [batch EXCEPT ![l] = Tail(@)]
    /\ UNCHANGED <<callVars, loop, metaVars, brokerVars, serverVars, procVars, faults>>

\* The reply's deadline has passed: XACK is given the empty decoded.ID, so the
\* entry stays pending, and the closure returns an error with the rest of the
\* batch unhandled.
ExpiredReply(l) ==
    /\ batch[l] # <<>> /\ Head(batch[l]) \in expired
    /\ LoopDies(l, "handle")
    /\ batch' = [batch EXCEPT ![l] = <<>>]
    /\ UNCHANGED <<callVars, metaVars, brokerVars, serverVars, faults>>

\* Time: the deadline of a published reply passes, if one can be read in it.
Expire(c) ==
    /\ Fault
    /\ \E k \in 1..replies[c] : /\ <<c, k>> \notin expired \cup garbled
                               /\ expired' = expired \cup {<<c, k>>}
    /\ UNCHANGED <<callVars, loopVars, metaVars, brokerVars, requests, executed, replies, garbled,
                   procVars>>

\* The closure returns (0, nil); GoLoop comes round after minLoopDelay.
BatchDone(l) ==
    /\ LoopGoto(l, "handle", "top")
    /\ batch[l] = <<>>
    /\ UNCHANGED <<callVars, batch, metaVars, brokerVars, serverVars, procVars, faults>>

-----------------------------------------------------------------------------
(* The responder: the Subscribe loop and the handler of registerRPCMethod.  *)

\* Entries for a stream without a group (deleted, then re-created by XADD) are
\* older than the "$" at which a later group starts: nobody reads them.
PublishReplies(c, n) ==
    LET s == ReplyTo(c)
        new == SubSeq(<< <<c, replies[c] + 1>>, <<c, replies[c] + 2>> >>, 1, n)
    IN /\ replies' = [replies EXCEPT ![c] = @ + n]
       /\ unread' = IF group[s] THEN [unread EXCEPT ![s] = @ \o new] ELSE unread

\* The reply arrives as it should: once, and in a form its reader can decode.  Or
\* not at all (a failed Emit is only counted), twice (an XADD retried, by Retry or
\* by the client itself, after its answer was lost; two copies stand for more), or
\* undecodable (the reader's settings for encryption or compression are not the
\* responder's).
Reply(c) ==
    \E n \in 0..2 :
        /\ garbled' \in {garbled, garbled \cup {<<c, replies[c] + j>> : j \in 1..n}}
        /\ IF n = 1 /\ garbled' = garbled THEN NoFault ELSE Fault
        /\ PublishReplies(c, n)

\* Mutant: the request is left on its stream and served again.
ServeUnclaimed(c) ==
    /\ requests[c] > 0
    /\ executed' = [executed EXCEPT ![c] = @ + 1]
    /\ Reply(c)
    /\ UNCHANGED <<callVars, loopVars, metaVars, requests, expired, group, pend, procVars>>

\* The method runs and its reply is emitted.
Serve(c) ==
    /\ requests[c] > 0
    /\ requests' = [requests EXCEPT ![c] = @ - 1]
    /\ executed' = [executed EXCEPT ![c] = @ + 1]
    /\ Reply(c)
    /\ UNCHANGED <<callVars, loopVars, metaVars, expired, group, pend, procVars>>

\* The method runs and returns an error: no reply, and Retry runs it again or,
\* after the last attempt, the responder drops the request.
MethodFails(c) ==
    /\ requests[c] > 0
    /\ Fault
    /\ \E left \in {requests[c], requests[c] - 1} : requests' = [requests EXCEPT ![c] = left]
    /\ executed' = [executed EXCEPT ![c] = @ + 1]
    /\ UNCHANGED <<callVars, loopVars, metaVars, brokerVars, replies, garbled, expired, procVars>>

\* Mutant: a request is counted off twice.
DropRequestTwice(c) ==
    /\ requests[c] > 0
    /\ Fault
    /\ requests' = [requests EXCEPT ![c] = @ - 2]
    /\ UNCHANGED <<callVars, loopVars, metaVars, brokerVars, executed, replies, garbled, expired,
                   procVars>>

\* The request is rejected (arguments, validation) or dropped unserved.
DropRequest(c) ==
    /\ requests[c] > 0
    /\ Fault
    /\ requests' = [requests EXCEPT ![c] = @ - 1]
    /\ UNCHANGED <<callVars, loopVars, metaVars, brokerVars, executed, replies, garbled, expired,
                   procVars>>

-----------------------------------------------------------------------------
(* The periodic trim loop: Range hands it a copy of the StreamMeta, which it *)
(* stores back whole after the XINFO calls.  A copy with SubscribedTo = true *)
(* changes nothing when it is stored, so only the other case is a step.      *)

TrimLoad(i, s) ==
    /\ ~Cancelled(i)
    /\ trimming[i] = NoStream
    /\ <<i, s>> \in registered \ subscribed
    /\ trimming' = [trimming EXCEPT ![i] = s]
    /\ UNCHANGED <<callVars, loopVars, registered, subscribed, brokerVars, serverVars,
                   procVars, faults>>

\* Store(stream, meta), or nothing when collectStreamStats failed.
TrimStore(i) ==
    /\ trimming[i] # NoStream
    /\ trimming' = [trimming EXCEPT ![i] = NoStream]
    /\ subscribed' \in {subscribed, subscribed \ {<<i, trimming[i]>>}}
    /\ UNCHANGED <<callVars, loopVars, registered, brokerVars, serverVars, procVars, faults>>

-----------------------------------------------------------------------------
(* Shutdown of a process: a signal, or an error received from errChan.      *)

BeginShutdown(i) ==
    /\ phase[i] = "up"
    /\ IF i \in erred THEN NoFault ELSE Fault
    /\ phase' = [phase EXCEPT ![i] = "closing"]
    /\ todo' = [todo EXCEPT ![i] = {s \in Streams : <<i, s>> \in registered}]
    /\ UNCHANGED <<callVars, loopVars, metaVars, brokerVars, serverVars, erred>>

\* CleanupOnShutdown: DEL of a reply stream (ToDelete); an error is ignored.
DeleteStream(i, s) ==
    /\ phase[i] = "closing" /\ s \in todo[i]
    /\ todo' = [todo EXCEPT ![i] = @ \ {s}]
    /\ \/ /\ group' = [group EXCEPT ![s] = FALSE]
          /\ unread' = [unread EXCEPT ![s] = <<>>]
          /\ pend' = [pend EXCEPT ![s] = {}]
          /\ NoFault
       \/ Fault /\ UNCHANGED brokerVars
    /\ UNCHANGED <<callVars, loopVars, metaVars, serverVars, phase, erred>>

\* supervisor.Shutdown: the root context is cancelled.
Cancel(i) ==
    /\ phase[i] = "closing" /\ todo[i] = {}
    /\ phase' = [phase EXCEPT ![i] = "cancelled"]
    /\ UNCHANGED <<callVars, loopVars, metaVars, brokerVars, serverVars, todo, erred, faults>>

-----------------------------------------------------------------------------
CallStep(c) ==
    \/ EnsureGroup(c) \/ EnsureReturns(c) \/ EnsureGroupFails(c) \/ FindListener(c)
    \/ StartListener(c) \/ SeeListener(c) \/ EmitRequest(c) \/ EmitFails(c) \/ Receive(c)
    \/ Timeout(c)

LoopStep(l) ==
    \/ LoopTop(l) \/ LoopRead(l) \/ LoopReadFails(l) \/ LoopDiscards(l) \/ TakeChannel(l)
    \/ SendToCaller(l) \/ AckReply(l) \/ StrayReply(l) \/ ExpiredReply(l) \/ BatchDone(l)

ServerStep(c) == Serve(c) \/ MethodFails(c) \/ DropRequest(c)

EntryStep(c) == CleanupAcks(c) \/ Expire(c)

ProcessStep(i) ==
    \/ TrimStore(i) \/ BeginShutdown(i) \/ Cancel(i)
    \/ \E s \in Streams : TrimLoad(i, s) \/ DeleteStream(i, s)

Next ==
    \/ \E c \in Calls : BeginRequest(c) \/ RefuseRequest(c) \/ CallStep(c)
    \/ \E l \in Calls : LoopStep(l)
    \/ \E c \in Calls : ServerStep(c) \/ EntryStep(c)
    \/ \E i \in Instances : ProcessStep(i)

Spec == Init /\ [][Next]_vars

\* Goroutines are scheduled, the timer of Request fires and the responder
\* works; nothing obliges a call to be made, a fault, or a stop signal.  The
\* wait for SubscribedTo polls every 10ms, a period no trim pass can match, so
\* it sees a flag that is set again and again.  An error stops its process once the
\* signal handler takes it, for which the service's Start and HealthCheck must have
\* returned: a process that makes calls is taken to have come so far.
FairCall(c) ==
    /\ WF_vars(CallStep(c)) /\ WF_vars(LoopStep(c)) /\ WF_vars(ServerStep(c))
    /\ SF_vars(SeeListener(c))

FairProcess(i) ==
    /\ WF_vars(TrimStore(i))
    /\ WF_vars(i \in erred /\ BeginShutdown(i))
    /\ WF_vars(Cancel(i) \/ \E s \in Streams : DeleteStream(i, s))

Fairness ==
    /\ \A c \in Calls : FairCall(c)
    /\ \A i \in Instances : FairProcess(i)

FairSpec == Spec /\ Fairness
-----------------------------------------------------------------------------
(* Properties.                                                              *)

\* Every variable has its type: no counter falls below zero, no entry is
\* foreign to the calls, and the broker holds entries only of reply streams.
TypeOK ==
    /\ pc \in [Calls -> Loading]
    /\ router \subseteq Calls /\ chan \subseteq Calls
    /\ loop \in [Calls -> LoopPcs]
    /\ batch \in [Calls -> Seq(Entries)]
    /\ registered \subseteq Instances \X Streams
    /\ subscribed \subseteq Instances \X Streams
    /\ trimming \in [Instances -> Streams \cup {NoStream}]
    /\ group \in [Streams -> BOOLEAN]
    /\ unread \in [Streams -> Seq(Entries)]
    /\ pend \in [Streams -> SUBSET Entries]
    /\ requests \in [Calls -> Nat]
    /\ executed \in [Calls -> Nat]
    /\ replies \in [Calls -> Nat]
    /\ garbled \subseteq Entries /\ expired \subseteq Entries
    /\ phase \in [Instances -> {"up", "closing", "cancelled"}]
    /\ todo \in [Instances -> SUBSET Streams]
    /\ erred \subseteq Instances
    /\ faults \in Nat

\* The listener never blocks on a caller's channel, duplicates and retries of
\* the request notwithstanding: whoever took the channel out of replyRouter
\* finds it empty.  A blocked listener would stop every caller of its stream.
ChannelNeverBlocks ==
    \A l \in Calls : loop[l] = "deliver" => Current(l) \notin chan

\* No reply is delivered to a caller whose method was never executed: late,
\* stray and duplicated replies of other calls never reach it.
RepliedWasServed ==
    \A c \in Calls : pc[c] = "replied" => executed[c] > 0

\* A replyRouter entry outlives its Request only when Emit gave up: a reply, a
\* timeout and a refusal leave none behind.
RouterLeakOnlyOnFailedEmit ==
    \A c \in router : pc[c] \in {"ensure", "launched", "check", "spin", "emit", "wait", "failed"}

\* A method runs twice for one call only after a failure: unless XADD is retried
\* or the method returns an error, a request is served at most once.
ServedOnceWithoutFaults ==
    \A c \in Calls : executed[c] + requests[c] <= 1 + faults

\* Only commands and methods that fail leave a trace: an entry in replyRouter or
\* a second execution.
OnlyFailuresShow == RouterLeakOnlyOnFailedEmit /\ ServedOnceWithoutFaults

\* Every entry a loop works on was asked for by a caller of the same process:
\* no listener consumes, and drops as stray, another process's replies.
RepliesReadByOwner ==
    \A l \in Calls : \A j \in 1..Len(batch[l]) : Owner[batch[l][j][1]] = Owner[l]

\* SubscribedTo, and a caller that waits for it, never rely on a listener that is
\* gone, unless its process is about to stop: the flag outlives every loop, so a
\* loop that ended quietly would leave later callers without a reader.
ListenerIsThere ==
    \A c \in Calls : IsSubscribed(c) \/ pc[c] = "spin" =>
        \/ Owner[c] \in erred \/ Cancelled(Owner[c])
        \/ \E l \in Calls : /\ Owner[l] = Owner[c] /\ ReplyTo(l) = ReplyTo(c)
                            /\ loop[l] \in Live

\* An entry leaves the pending list by the acknowledgement of a delivered
\* reply, with its whole stream, after its deadline, or because the loop that read
\* it cannot decode it: a decodable reply in time is never acknowledged away unseen
\* by the caller it was meant for, and an undecodable one by nobody but its reader.
AckOnlyAfterDelivery ==
    [][\A s \in Streams : \A e \in pend[s] \ pend'[s] :
          \/ group[s] /\ ~group'[s]
          \/ e \in expired
          \/ e \in garbled /\ \E l \in Calls : \E j \in 1..Len(batch[l]) : batch[l][j] = e
          \/ /\ e[1] \notin router
             /\ e[1] \in chan \/ pc[e[1]] \in Returned]_vars

\* The exchange keeps the caller's contract: RpcCall with the stages of Request
\* hidden.
Status(c) ==
    IF pc[c] = "idle" THEN "idle"
    ELSE IF pc[c] = "replied" THEN "replied"
    ELSE IF pc[c] \in Returned THEN "failed" ELSE "active"

Contract == INSTANCE RpcCall WITH
    status <- [c \in Calls |-> Status(c)],
    served <- {c \in Calls : executed[c] > 0}

ImplementsRpcCall == Contract!Spec

\* A Request, a caller whose listener reported itself, and a listener can go on.
CallFree(c) ==
    /\ pc[c] \in {"ensure", "launched", "check", "emit", "wait"} =>
         ENABLED <<CallStep(c)>>_vars
    /\ pc[c] = "spin" /\ IsSubscribed(c) => ENABLED <<SeeListener(c)>>_vars
    /\ loop[c] \in Live => ENABLED <<LoopStep(c)>>_vars

\* An error that reached the supervisor can stop its process.
ProcessFree(i) ==
    i \in erred /\ phase[i] = "up" => ENABLED <<i \in erred /\ BeginShutdown(i)>>_vars

\* Nobody who has something to do is held up, whatever batch a listener works on
\* and whoever else took the channels of its callers.
NobodyStuck == (\A c \in Calls : CallFree(c)) /\ (\A i \in Instances : ProcessFree(i))

\* Every Request returns, whatever the order of listeners, trims, retries and
\* replies, as long as its process is not told to stop.
CallsReturn ==
    \A c \in Calls : (pc[c] # "idle") ~> (pc[c] \in Returned \/ phase[Owner[c]] # "up")

=============================================================================

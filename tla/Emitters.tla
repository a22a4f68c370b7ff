------------------------------- MODULE Emitters -------------------------------
(***************************************************************************)
(* The two emitters of a service, each a supervised loop with a stream of  *)
(* its own.  registerEmitterChannel gives the service a channel that its   *)
(* methods send into, and the loop emits what it receives;                 *)
(* registerEmitterPull calls a method of the service again and again and   *)
(* emits the messages it returns.  Transport.Emit is XADD run by Retry,    *)
(* with the dead-letter stream for what could not be added.                *)
(*                                                                         *)
(* Messages are 1, 2, ... in the order in which they are sent or returned. *)
(***************************************************************************)
EXTENDS Naturals, Sequences

CONSTANTS
    Senders,       \* how many goroutines of the service send into the channel
    Capacity,      \* of the channel
    MaxBatch,      \* bound on the messages one call of the pull method returns
    Attempts,      \* maxRetries: how often Retry calls XADD
    Resends,       \* bound on how often the Redis client sends the XADDs of
                   \* one message again of itself, within those calls
    MaxMessages,   \* bound on the messages ever made
    MaxFaults      \* bound on failed commands, panics

ASSUME BoundAssumption ==
    /\ Senders \in Nat /\ Capacity \in Nat
    /\ MaxBatch \in Nat /\ MaxMessages \in Nat /\ MaxFaults \in Nat
    /\ Attempts \in Nat \ {0} /\ Resends \in Nat

Loops == {"pull", "channel"}
Pcs == {"top", "ready", "call", "each", "add", "wait", "dlq", "sleep", "done"}

VARIABLES
    kind,       \* the messages made: kind[m] is "good", "nil" or "garbled"
    queue,      \* messages in the channel, then those blocked in a send
    loop,       \* where each emitter loop is
    todo,       \* the messages a loop has in its hands
    tries,      \* failed attempts at the first of them
    resent,     \* how often the client has sent its XADD again
    pullErr,    \* the pull method returned an error with its messages
    out,        \* the stream of each emitter
    dlq,        \* messages copied to the dead-letter stream
    panicked,   \* the pull method panicked
    handler,    \* the shutdown goroutine: "select", "stop" or "done"
    errs,       \* errChan holds an error
    live,       \* the root context is not cancelled
    faults

sendVars == <<kind, queue>>
emitVars == <<tries, resent, out, dlq>>
pullVars == <<pullErr, panicked>>
stopVars == <<handler, live>>
vars == <<sendVars, loop, todo, emitVars, pullVars, errs, stopVars, faults>>

Made == Len(kind)
Messages == 1..Made
Kinds == {"good", "nil", "garbled"}

Fault == faults < MaxFaults /\ faults' = faults + 1
NoFault == UNCHANGED faults
\* A command on a cancelled context fails of itself.
CommandFails == IF live THEN Fault ELSE NoFault

Set(f, l, v) == f' = [f EXCEPT ![l] = v]
Goto(l, from, to) == loop[l] = from /\ Set(loop, l, to)

Init ==
    /\ kind = <<>> /\ queue = <<>>
    /\ loop = [l \in Loops |-> "top"]
    /\ todo = [l \in Loops |-> <<>>]
    /\ tries = [l \in Loops |-> 0]
    /\ resent = [l \in Loops |-> 0]
    /\ out = [l \in Loops |-> <<>>]
    /\ dlq = {}
    /\ pullErr = FALSE /\ panicked = FALSE
    /\ handler = "select" /\ errs = FALSE /\ live = TRUE
    /\ faults = 0

-----------------------------------------------------------------------------
(* The service.                                                             *)

\* What is beyond the capacity is held by goroutines blocked in their send.
SomeoneFree == Len(queue) < Capacity + Senders

\* Mutant: a producer that finds the channel full polls, and one that comes
\* later is first.
SendOvertakes ==
    /\ Made < MaxMessages
    /\ SomeoneFree
    /\ \E k \in Kinds : kind' = Append(kind, k)
    /\ queue' = IF Len(queue) > Capacity
                THEN SubSeq(queue, 1, Capacity) \o <<Made + 1>>
                         \o SubSeq(queue, Capacity + 1, Len(queue))
                ELSE Append(queue, Made + 1)
    /\ UNCHANGED <<loop, todo, emitVars, pullVars, errs, stopVars, faults>>

\* A send into the channel, as in ping.go: no context and no default branch.
\* The receive that makes room moves the longest blocked message in, so that
\* the buffer and the blocked senders are one queue.
Send ==
    /\ Made < MaxMessages
    /\ SomeoneFree
    /\ \E k \in Kinds : kind' = Append(kind, k)
    /\ queue' = Append(queue, Made + 1)
    /\ UNCHANGED <<loop, todo, emitVars, pullVars, errs, stopVars, faults>>

-----------------------------------------------------------------------------
(* Supervisor.GoLoop.                                                       *)

LoopTop(l) ==
    /\ Goto(l, "top", IF live THEN "ready" ELSE "done")
    /\ UNCHANGED <<sendVars, todo, emitVars, pullVars, errs, stopVars, faults>>

\* The delay ends, or the context does: then either branch may be taken.
LoopSleeps(l) ==
    /\ \/ Goto(l, "sleep", "top")
       \/ ~live /\ Goto(l, "sleep", "done")
    /\ UNCHANGED <<sendVars, todo, emitVars, pullVars, errs, stopVars, faults>>

\* The function of the loop returns an error, which goes to errChan unless
\* that holds one, and the loop is over.
LoopFails(l, from) ==
    /\ Goto(l, from, "done")
    /\ errs' = TRUE

-----------------------------------------------------------------------------
(* registerEmitterChannel.                                                  *)

\* Mutant: a nil message is taken for the end of the channel.
ChannelEndsOnNil ==
    /\ queue # <<>>
    /\ queue' = Tail(queue)
    /\ IF kind[Head(queue)] = "nil"
       THEN Goto("channel", "ready", "done") /\ UNCHANGED todo
       ELSE Goto("channel", "ready", "add") /\ Set(todo, "channel", <<Head(queue)>>)
    /\ UNCHANGED <<kind, emitVars, pullVars, errs, stopVars, faults>>

ChannelReceives ==
    /\ queue # <<>>
    /\ queue' = Tail(queue)
    /\ IF kind[Head(queue)] = "nil"
       THEN Goto("channel", "ready", "sleep") /\ UNCHANGED todo
       ELSE Goto("channel", "ready", "add") /\ Set(todo, "channel", <<Head(queue)>>)
    /\ UNCHANGED <<kind, emitVars, pullVars, errs, stopVars, faults>>

\* Mutant: the receive does not wait for the context too.
ChannelSeesCancelLate ==
    /\ ~live /\ queue # <<>>
    /\ Goto("channel", "ready", "sleep")
    /\ UNCHANGED <<sendVars, todo, emitVars, pullVars, errs, stopVars, faults>>

ChannelSeesCancel ==
    /\ ~live
    /\ Goto("channel", "ready", "sleep")
    /\ UNCHANGED <<sendVars, todo, emitVars, pullVars, errs, stopVars, faults>>

-----------------------------------------------------------------------------
(* registerEmitterPull.                                                     *)

\* The first look at the context, then the call.
PullCalls ==
    /\ live
    /\ Goto("pull", "ready", "call")
    /\ UNCHANGED <<sendVars, todo, emitVars, pullVars, errs, stopVars, faults>>

PullSkips ==
    /\ ~live
    /\ LoopFails("pull", "ready")
    /\ UNCHANGED <<sendVars, todo, emitVars, pullVars, stopVars, faults>>

\* The method returns messages, and an error or none.
PullReturns ==
    /\ Goto("pull", "call", "each")
    /\ \E n \in 0..MaxBatch : \E ks \in [1..n -> Kinds] :
         /\ Made + n <= MaxMessages
         /\ kind' = kind \o ks
         /\ Set(todo, "pull", [i \in 1..n |-> Made + i])
    /\ pullErr' \in BOOLEAN
    /\ UNCHANGED <<queue, emitVars, panicked, errs, stopVars, faults>>

\* The method panics: GoLoop recovers, logs, and the loop is gone.
PullPanics ==
    /\ Fault
    /\ Goto("pull", "call", "done")
    /\ panicked' = TRUE
    /\ UNCHANGED <<sendVars, todo, emitVars, pullErr, errs, stopVars>>

PullSkipsNil ==
    /\ loop["pull"] = "each" /\ todo["pull"] # <<>>
    /\ kind[Head(todo["pull"])] = "nil"
    /\ Set(todo, "pull", Tail(todo["pull"]))
    /\ UNCHANGED <<sendVars, loop, emitVars, pullVars, errs, stopVars, faults>>

PullTakesNext ==
    /\ todo["pull"] # <<>> /\ kind[Head(todo["pull"])] # "nil"
    /\ live
    /\ Goto("pull", "each", "add")
    /\ UNCHANGED <<sendVars, todo, emitVars, pullVars, errs, stopVars, faults>>

\* The context was cancelled: the rest of the batch is dropped.
PullAbandons ==
    /\ todo["pull"] # <<>> /\ kind[Head(todo["pull"])] # "nil"
    /\ ~live
    /\ LoopFails("pull", "each")
    /\ Set(todo, "pull", <<>>)
    /\ UNCHANGED <<sendVars, emitVars, pullVars, stopVars, faults>>

\* Mutant: the error of the method ends the loop and is not passed on.
PullEndsSilently ==
    /\ todo["pull"] = <<>>
    /\ Goto("pull", "each", IF pullErr THEN "done" ELSE "sleep")
    /\ UNCHANGED <<sendVars, todo, emitVars, pullVars, errs, stopVars, faults>>

\* The batch is done: the method's error, if any, is the loop's.
PullEnds ==
    /\ todo["pull"] = <<>>
    /\ IF pullErr
       THEN LoopFails("pull", "each")
       ELSE Goto("pull", "each", "sleep") /\ UNCHANGED errs
    /\ UNCHANGED <<sendVars, todo, emitVars, pullVars, stopVars, faults>>

-----------------------------------------------------------------------------
(* Transport.Emit, Publish and Retry.                                       *)

\* Mutant: the attempts are not counted afresh for each message.
SettledKeepsTries(l, from) ==
    /\ Goto(l, from, IF l = "pull" THEN "each" ELSE "sleep")
    /\ Set(todo, l, Tail(todo[l]))
    /\ Set(resent, l, 0)
    /\ UNCHANGED tries

\* Emit has returned, with or without an error, and the loop goes on.
Settled(l, from) ==
    /\ Goto(l, from, IF l = "pull" THEN "each" ELSE "sleep")
    /\ Set(todo, l, Tail(todo[l]))
    /\ Set(tries, l, 0)
    /\ Set(resent, l, 0)

\* The message cannot be turned into JSON.
EncodeFails(l) ==
    /\ Settled(l, "add")
    /\ kind[Head(todo[l])] = "garbled"
    /\ UNCHANGED <<sendVars, out, dlq, pullVars, errs, stopVars, faults>>

Add(l) ==
    /\ live
    /\ Settled(l, "add")
    /\ kind[Head(todo[l])] = "good"
    /\ Set(out, l, Append(out[l], Head(todo[l])))
    /\ UNCHANGED <<sendVars, dlq, pullVars, errs, stopVars, faults>>

\* Mutant: an attempt whose answer was lost is not counted.
AddFailsUncounted(l) ==
    /\ Goto(l, "add", IF tries[l] + 1 < Attempts THEN "wait" ELSE "dlq")
    /\ kind[Head(todo[l])] = "good"
    /\ CommandFails
    /\ \/ Set(tries, l, tries[l] + 1) /\ UNCHANGED out
       \/ live /\ Set(out, l, Append(out[l], Head(todo[l]))) /\ UNCHANGED tries
    /\ UNCHANGED <<sendVars, todo, resent, dlq, pullVars, errs, stopVars>>

\* XADD fails, or its answer is lost after the entry was added, and the call
\* of Retry fails with it.
AddFails(l) ==
    /\ Goto(l, "add", IF tries[l] + 1 < Attempts THEN "wait" ELSE "dlq")
    /\ kind[Head(todo[l])] = "good"
    /\ Set(tries, l, tries[l] + 1)
    /\ CommandFails
    /\ \/ UNCHANGED out
       \/ live /\ Set(out, l, Append(out[l], Head(todo[l])))
    /\ UNCHANGED <<sendVars, todo, resent, dlq, pullVars, errs, stopVars>>

\* The same, but the client does not report it: it is built without
\* MaxRetries, so that it sends a command that timed out again of itself.
AddIsResent(l) ==
    /\ live
    /\ loop[l] = "add"
    /\ kind[Head(todo[l])] = "good"
    /\ resent[l] < Resends
    /\ Set(resent, l, resent[l] + 1)
    /\ Fault
    /\ \/ UNCHANGED out
       \/ Set(out, l, Append(out[l], Head(todo[l])))
    /\ UNCHANGED <<sendVars, loop, todo, tries, dlq, pullVars, errs, stopVars>>

\* The delay of Retry ends, or the context does.
RetryWakes(l) ==
    /\ \/ Goto(l, "wait", "add")
       \/ ~live /\ Goto(l, "wait", "dlq")
    /\ UNCHANGED <<sendVars, todo, emitVars, pullVars, errs, stopVars, faults>>

\* PublishToDLQ, whose error is only logged.
CopyToDlq(l) ==
    /\ Settled(l, "dlq")
    /\ \/ live /\ dlq' = dlq \cup {Head(todo[l])} /\ NoFault
       \/ CommandFails /\ UNCHANGED dlq
    /\ UNCHANGED <<sendVars, out, pullVars, errs, stopVars>>

-----------------------------------------------------------------------------
(* Bootstrap's shutdown goroutine.                                          *)

HandlerTakesError ==
    /\ handler = "select" /\ errs
    /\ handler' = "stop" /\ errs' = FALSE
    /\ UNCHANGED <<sendVars, loop, todo, emitVars, pullVars, live, faults>>

Signal ==
    /\ handler = "select"
    /\ handler' = "stop"
    /\ UNCHANGED <<sendVars, loop, todo, emitVars, pullVars, errs, live, faults>>

\* The service has stopped, and Supervisor.Shutdown cancels the root context.
Cancel ==
    /\ handler = "stop"
    /\ handler' = "done" /\ live' = FALSE
    /\ UNCHANGED <<sendVars, loop, todo, emitVars, pullVars, errs, faults>>

-----------------------------------------------------------------------------
Emit(l) ==
    \/ EncodeFails(l) \/ Add(l) \/ AddFails(l) \/ AddIsResent(l)
    \/ RetryWakes(l) \/ CopyToDlq(l)
GoLoop(l) == LoopTop(l) \/ LoopSleeps(l)

ChannelStep == GoLoop("channel") \/ ChannelReceives \/ ChannelSeesCancel \/ Emit("channel")
PullStep ==
    \/ GoLoop("pull")
    \/ PullCalls \/ PullSkips \/ PullReturns \/ PullPanics
    \/ PullSkipsNil \/ PullTakesNext \/ PullAbandons \/ PullEnds
    \/ Emit("pull")
Shutdown == HandlerTakesError \/ Cancel

Next ==
    \/ Send
    \/ ChannelStep \/ PullStep
    \/ Shutdown \/ Signal

Spec == Init /\ [][Next]_vars

\* The goroutines of the process are scheduled, the pull method returns and
\* the service stops.  Nothing makes a producer send or a signal arrive.
Fairness == WF_vars(ChannelStep) /\ WF_vars(PullStep) /\ WF_vars(Shutdown)

FairSpec == Spec /\ Fairness
-----------------------------------------------------------------------------
(* Properties.                                                              *)

InSeq(m, s) == \E i \in 1..Len(s) : s[i] = m

\* The messages that are on their way to the stream of a loop.
Pushing == todo["channel"] \o queue
Pulling == todo["pull"]
OnItsWay(m) == InSeq(m, Pushing) \/ InSeq(m, Pulling)
Appeared(m) == InSeq(m, out["channel"]) \/ InSeq(m, out["pull"])

\* Every variable has its type; a loop that emits has a message in its hands,
\* and Retry makes no more than maxRetries attempts at it (retry.go).
TypeOK ==
    /\ kind \in Seq(Kinds)
    /\ queue \in Seq(Messages)
    /\ loop \in [Loops -> Pcs]
    /\ todo \in [Loops -> Seq(Messages)]
    /\ tries \in [Loops -> 0..Attempts]
    /\ resent \in [Loops -> 0..Resends]
    /\ out \in [Loops -> Seq(Messages)]
    /\ dlq \subseteq Messages
    /\ pullErr \in BOOLEAN /\ panicked \in BOOLEAN /\ errs \in BOOLEAN /\ live \in BOOLEAN
    /\ handler \in {"select", "stop", "done"}
    /\ faults \in 0..MaxFaults
    /\ \A l \in Loops : loop[l] \in {"add", "wait", "dlq"} => todo[l] # <<>>

\* Each stream gets its messages in the order in which they were sent or
\* returned, though Retry may add one twice and a failed one is skipped:
\* blocked senders, retries and cancellation never let one overtake another.
Pushed == INSTANCE LossyQueue WITH
    made <- Made, waiting <- Pushing, delivered <- out["channel"]
Pulled == INSTANCE LossyQueue WITH
    made <- Made, waiting <- Pulling, delivered <- out["pull"]
PushKeepsOrder == Pushed!Spec
PullKeepsOrder == Pulled!Spec
StreamsKeepOrder == PushKeepsOrder /\ PullKeepsOrder

\* A message is on its stream more than once only because XADD was sent again,
\* by Retry or by the client: no more often than it was sent, and no more than
\* once more than commands failed.
\* (A stream is in order, so that the copies of a message stand together.)
CopiesAreRetries ==
    \A l \in Loops : \A i, j \in 1..Len(out[l]) :
        i <= j /\ out[l][i] = out[l][j] => j - i < Attempts + Resends /\ j - i <= faults

\* While the process is not asked to stop, a message that can be encoded goes
\* to the dead-letter stream only after all attempts of Retry failed, and is
\* in neither stream only if the copy to the dead-letter stream failed too.
LossNeedsFailures ==
    live => \A m \in Messages :
        /\ m \in dlq => faults >= Attempts
        /\ kind[m] = "good" /\ ~OnItsWay(m) /\ ~Appeared(m) /\ m \notin dlq => faults > Attempts

\* Messages are neither lost nor doubled but by as many failures as it takes.
OnlyFailuresHurt == LossNeedsFailures /\ CopiesAreRetries

\* A loop that has ended while the process goes on has told the shutdown
\* goroutine through errChan, unless the method panicked: then nobody knows.
EndIsTold ==
    \A l \in Loops : loop[l] = "done" =>
        ~live \/ errs \/ handler # "select" \/ (l = "pull" /\ panicked)

\* Nothing but an empty channel of a process that goes on holds up a loop, so
\* that no message, retry or cancelled command leaves one without a next step.
LoopsNeverHeld ==
    /\ loop["channel"] # "done" /\ (loop["channel"] = "ready" => queue # <<>> \/ ~live) =>
         ENABLED <<ChannelStep>>_vars
    /\ loop["pull"] # "done" => ENABLED <<PullStep>>_vars

\* The loops do not hang, neither in their work nor at its end.  Whatever fails,
\* a process that goes on settles what was sent or returned until nothing is on
\* its way, so that a producer blocked on a full channel goes on; and once the
\* root context is cancelled both loops end, from any point of a batch or of
\* Retry, as WaitAndShutdown needs.
LoopsGoOnOrEnd ==
    []<>(IF live THEN \A m \in Messages : ~OnItsWay(m) ELSE \A l \in Loops : loop[l] = "done")
=============================================================================

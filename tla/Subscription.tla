---------------------------- MODULE Subscription ----------------------------
(***************************************************************************)
(* RedisTransport.Subscribe: one consumer group of one stream, consumed by *)
(* the service processes that subscribe to it (replicas of a service, or   *)
(* services whose receivers share "receiver_cg"), each with the supervised *)
(* loop over readGroup, the handler run through Retry, the dead-letter     *)
(* stream, and the cleanup of expired pending entries that                 *)
(* ensureConsumerGroup launches once per process.  Processes crash, stop   *)
(* and start again; the stream, its group and the dead-letter stream       *)
(* outlive them.                                                           *)
(*                                                                         *)
(* The entries of the stream are 1, 2, ... in the order of their ids.      *)
(***************************************************************************)
EXTENDS Naturals

CONSTANTS
    Instances,    \* the subscribing processes
    ReadCount,    \* streamReadCount
    MaxAttempts,  \* attempts Retry gives a handler
    MoveExpired,  \* MoveExpiredToDLQ
    MaxEntries,   \* bound on the entries ever published
    MaxStarts,    \* bound on the starts of one process
    MaxFaults     \* bound on crashes, panics, stop signals, failed commands

ASSUME CountAssumption ==
    /\ ReadCount \in Nat \ {0}
    /\ MaxAttempts \in Nat \ {0}
    /\ MaxEntries \in Nat
    /\ MaxFaults \in Nat

VARIABLES
    added,     \* entries published so far
    garbled,   \* entries without a decodable body
    expired,   \* entries whose deadline has passed
    group,     \* whether the consumer group exists
    last,      \* the group's last-delivered id
    pend,      \* the group's pending entries
    dlq,       \* entries copied to the dead-letter stream
    phase,     \* "down", "up" or "cancelled" (root context), per process
    sub,       \* progress of the process's Subscribe call
    ctxLive,   \* the context ensureConsumerGroup made is not cancelled
    loop,      \* where the subscription loop is
    junk,      \* entries it has read, cannot decode and has still to acknowledge
    batch,     \* decoded entries it holds
    tries,     \* failed attempts at the first entry of the batch
    cleanup,   \* where the cleanup goroutine is
    claim,     \* entries the cleanup listed and has not looked at
    erred,     \* processes with an error on errChan or a fatal log entry
    starts,    \* starts per process
    runs,      \* successful handler runs, per entry
    gaveUp,    \* entries whose handler failed for the last time
    faults

brokerVars  == <<added, garbled, expired, group, last>>
loopVars    == <<loop, junk, batch, tries>>
cleanVars   == <<ctxLive, cleanup, claim>>
processVars == <<phase, sub, erred, starts>>
outcomeVars == <<runs, gaveUp>>
vars == <<brokerVars, pend, dlq, loopVars, cleanVars, processVars, outcomeVars, faults>>

Entries == 1..MaxEntries
Fault == faults < MaxFaults /\ faults' = faults + 1
NoFault == UNCHANGED faults
IsFirst(k, S) == k \in S /\ \A j \in S : k <= j
Set(f, i, v) == f' = [f EXCEPT ![i] = v]

Init ==
    /\ added = 0 /\ garbled = {} /\ expired = {}
    /\ group = FALSE /\ last = 0 /\ pend = {} /\ dlq = {}
    /\ phase = [i \in Instances |-> "down"]
    /\ sub = [i \in Instances |-> "none"]
    /\ ctxLive = [i \in Instances |-> FALSE]
    /\ loop = [i \in Instances |-> "none"]
    /\ junk = [i \in Instances |-> {}]
    /\ batch = [i \in Instances |-> {}]
    /\ tries = [i \in Instances |-> 0]
    /\ cleanup = [i \in Instances |-> "off"]
    /\ claim = [i \in Instances |-> {}]
    /\ erred = {}
    /\ starts = [i \in Instances |-> 0]
    /\ runs = [k \in Entries |-> 0]
    /\ gaveUp = {}
    /\ faults = 0

-----------------------------------------------------------------------------
(* Publishers and time.                                                     *)

\* XADD, by anyone, of a message or of something readGroup cannot decode.
Publish ==
    /\ added < MaxEntries
    /\ added' = added + 1
    /\ garbled' \in {garbled, garbled \cup {added + 1}}
    /\ UNCHANGED <<expired, group, last, pend, dlq, loopVars, cleanVars, processVars,
                   outcomeVars, faults>>

\* The deadline carried by the message passes.
Expire(k) ==
    /\ k \in 1..added /\ k \notin expired \cup garbled
    /\ expired' = expired \cup {k}
    /\ UNCHANGED <<added, garbled, group, last, pend, dlq, loopVars, cleanVars,
                   processVars, outcomeVars, faults>>

-----------------------------------------------------------------------------
(* Subscribe: ensureConsumerGroup, then the loop.                           *)

\* The group starts at "$", the end of the stream; BUSYGROUP leaves it alone.
\* The first ensure of a process launches the cleanup goroutine, unless Publish
\* registered the stream before with a StreamMeta that does not ask for it.
EnsureGroup(i) ==
    /\ sub[i] = "ensure" /\ phase[i] = "up"
    /\ Set(sub, i, "ensured")
    /\ group' = TRUE
    /\ last' = IF group THEN last ELSE added
    /\ \E c \in {"list", "off"} : Set(cleanup, i, c)
    /\ Set(ctxLive, i, TRUE)
    /\ UNCHANGED <<added, garbled, expired, pend, dlq, loopVars, claim, phase, erred,
                   starts, outcomeVars, faults>>

\* Subscribe returns the error: there is no loop, and autoRegisterFunctions logs
\* a fatal entry, which stops the process like an error on errChan.
EnsureGroupFails(i) ==
    /\ sub[i] = "ensure" /\ phase[i] \in {"up", "cancelled"}
    /\ IF phase[i] = "cancelled" THEN NoFault ELSE Fault
    /\ Set(sub, i, "failed")
    /\ erred' = erred \cup {i}
    /\ UNCHANGED <<brokerVars, pend, dlq, loopVars, cleanVars, phase, starts, outcomeVars>>

\* ensureConsumerGroup returns, its deferred cancel ends the context it gave
\* to the cleanup goroutine, and Subscribe starts the loop.
EnsureReturns(i) ==
    /\ sub[i] = "ensured"
    /\ Set(sub, i, "subscribed")
    /\ Set(ctxLive, i, FALSE)
    /\ Set(loop, i, "top")
    /\ UNCHANGED <<brokerVars, pend, dlq, junk, batch, tries, cleanup, claim, phase, erred,
                   starts, outcomeVars, faults>>

-----------------------------------------------------------------------------
(* The subscription loop.                                                   *)

LoopGoto(i, from, to) == loop[i] = from /\ Set(loop, i, to)

LoopTop(i) ==
    /\ LoopGoto(i, "top", IF phase[i] = "up" THEN "read" ELSE "dead")
    /\ UNCHANGED <<brokerVars, pend, dlq, junk, batch, tries, cleanVars, processVars,
                   outcomeVars, faults>>

\* Mutant: COUNT entries are taken for granted, whether published or not.
NextLastUncapped == last + ReadCount

\* What XREADGROUP ... COUNT ReadCount STREAMS stream > delivers.
NextLast == IF last + ReadCount < added THEN last + ReadCount ELSE added
Arrived == (last + 1)..NextLast

\* readGroup sorts what it was given: what it cannot decode is acknowledged, the
\* rest returned; a nil result, of an empty read or of one with nothing
\* decodable, sends the closure back.
Sort(i, read) ==
    /\ Set(junk, i, read \cap garbled) /\ Set(batch, i, read \ garbled) /\ Set(tries, i, 0)
    /\ LoopGoto(i, "read", IF read \cap garbled # {} THEN "discard"
                           ELSE IF read # {} THEN "handle" ELSE "top")

\* Mutant: the read does not move the group's last-delivered id.
LoopReadPeeks(i) ==
    /\ phase[i] = "up"
    /\ Sort(i, Arrived)
    /\ pend' = pend \cup Arrived
    /\ UNCHANGED <<brokerVars, dlq, cleanVars, processVars, outcomeVars, faults>>

\* Mutant: the read asks for NOACK.
LoopReadNoAck(i) ==
    /\ phase[i] = "up"
    /\ Sort(i, Arrived)
    /\ last' = NextLast
    /\ UNCHANGED <<added, garbled, expired, group, pend, dlq, cleanVars, processVars, outcomeVars,
                   faults>>

\* XREADGROUP: what it delivers is pending from here on, decodable or not.
LoopRead(i) ==
    /\ phase[i] = "up"
    /\ Sort(i, Arrived)
    /\ last' = NextLast
    /\ pend' = pend \cup Arrived
    /\ UNCHANGED <<added, garbled, expired, group, dlq, cleanVars, processVars, outcomeVars,
                   faults>>

\* XACK of the next entry readGroup cannot decode, whatever its deadline was; an
\* XACK that fails is ignored.  An entry it does not reach, because the process
\* crashes or the context is cancelled, stays pending: the cleanup skips it too.
LoopDiscards(i) ==
    /\ \E k \in junk[i] :
         /\ IsFirst(k, junk[i])
         /\ Set(junk, i, junk[i] \ {k})
         /\ LoopGoto(i, "discard", IF junk[i] # {k} THEN "discard"
                                   ELSE IF batch[i] # {} THEN "handle" ELSE "top")
         /\ \/ phase[i] = "up" /\ pend' = pend \ {k} /\ NoFault
            \/ (IF phase[i] = "up" THEN Fault ELSE NoFault) /\ UNCHANGED pend
    /\ UNCHANGED <<brokerVars, dlq, batch, tries, cleanVars, processVars, outcomeVars>>

\* XREADGROUP fails, or its answer is lost after the entries were delivered:
\* the closure returns (0, nil) and the loop goes on.
LoopReadFails(i) ==
    /\ LoopGoto(i, "read", "top")
    /\ IF phase[i] = "up" THEN Fault ELSE NoFault
    /\ \/ UNCHANGED <<last, pend>>
       \/ /\ phase[i] = "up"
          /\ last' = NextLast
          /\ pend' = pend \cup Arrived
    /\ UNCHANGED <<added, garbled, expired, group, dlq, junk, batch, tries, cleanVars,
                   processVars, outcomeVars>>

\* Mutant: the batch is worked off from its end.
HandlerTakesLast(i) ==
    /\ \E k \in batch[i] :
         /\ \A j \in batch[i] : j <= k
         /\ runs' = [runs EXCEPT ![k] = @ + 1]
         /\ Set(batch, i, batch[i] \ {k})
         /\ LoopGoto(i, "handle", IF batch[i] = {k} THEN "top" ELSE "handle")
    /\ UNCHANGED <<brokerVars, pend, dlq, junk, tries, cleanVars, processVars, gaveUp, faults>>

\* The handler returns nil.  XACK is given decoded.ID, which is empty: Redis
\* refuses it and the entry stays pending.  The closure returns out of its
\* for loop: the rest of the batch is dropped.
HandlerSucceeds(i) ==
    /\ LoopGoto(i, "handle", "top")
    /\ \E k \in batch[i] : IsFirst(k, batch[i]) /\ runs' = [runs EXCEPT ![k] = @ + 1]
    /\ Set(batch, i, {})
    /\ UNCHANGED <<brokerVars, pend, dlq, junk, tries, cleanVars, processVars, gaveUp, faults>>

\* The handler fails and Retry waits for the next attempt.
HandlerRetries(i) ==
    /\ loop[i] = "handle"
    /\ tries[i] + 1 < MaxAttempts
    /\ Set(tries, i, tries[i] + 1)
    /\ UNCHANGED <<brokerVars, pend, dlq, loop, junk, batch, cleanVars, processVars, outcomeVars,
                   faults>>

\* The last attempt fails, or the context is cancelled between attempts.
\* PublishToDLQ is given the *TransportMessage itself, a value XADD cannot
\* marshal: nothing is written.  XACK is refused as above.  The closure
\* returns the error, which ends the loop and goes to errChan.
HandlerGivesUp(i) ==
    /\ LoopGoto(i, "handle", "dead")
    /\ tries[i] + 1 = MaxAttempts \/ phase[i] = "cancelled"
    /\ \E k \in batch[i] : IsFirst(k, batch[i]) /\ gaveUp' = gaveUp \cup {k}
    /\ Set(batch, i, {})
    /\ erred' = erred \cup {i}
    /\ UNCHANGED <<brokerVars, pend, dlq, junk, tries, cleanVars, phase, sub, starts, runs,
                   faults>>

\* The handler panics: GoLoop recovers, and the loop is gone without an error.
HandlerPanics(i) ==
    /\ LoopGoto(i, "handle", "dead")
    /\ Fault
    /\ Set(batch, i, {})
    /\ UNCHANGED <<brokerVars, pend, dlq, junk, tries, cleanVars, processVars, outcomeVars>>

-----------------------------------------------------------------------------
(* cleanupExpiredPendingMessages, on a goroutine of its own.  Its context is *)
(* the one ensureConsumerGroup cancels when it returns.                      *)

CtxAlive(i) == ctxLive[i] /\ phase[i] = "up"

\* A command of the cleanup may fail, and always does without a live context.
CommandFails(i) == IF CtxAlive(i) THEN Fault ELSE NoFault

\* XPENDING and XPENDING - +: every consumer's pending entries.
CleanupList(i) ==
    /\ cleanup[i] = "list"
    /\ CtxAlive(i) /\ pend # {}
    /\ Set(cleanup, i, "scan") /\ Set(claim, i, pend)
    /\ UNCHANGED <<brokerVars, pend, dlq, loopVars, ctxLive, processVars, outcomeVars, faults>>

\* Nothing is pending, or the listing failed: the cleanup is over.
CleanupQuits(i) ==
    /\ cleanup[i] = "list"
    /\ IF pend = {} THEN NoFault ELSE CommandFails(i)
    /\ Set(cleanup, i, "off")
    /\ UNCHANGED <<brokerVars, pend, dlq, loopVars, ctxLive, claim, processVars, outcomeVars>>

Claimed(i, k) == k \in claim[i] /\ IsFirst(k, claim[i])

\* Mutant: the deadline of the entry is not looked at.
CleanupInspectAll(i) ==
    /\ cleanup[i] = "scan" /\ claim[i] # {} /\ CtxAlive(i)
    /\ Set(cleanup, i, "ack")
    /\ UNCHANGED <<brokerVars, pend, dlq, loopVars, ctxLive, claim, processVars, outcomeVars, faults>>

\* XRANGE and decode of the next entry find it expired ...
CleanupInspect(i) ==
    /\ cleanup[i] = "scan" /\ CtxAlive(i)
    /\ \E k \in expired : Claimed(i, k)
    /\ Set(cleanup, i, "ack")
    /\ UNCHANGED <<brokerVars, pend, dlq, loopVars, ctxLive, claim, processVars, outcomeVars, faults>>

\* ... or find it in time, or fail: it is skipped.
CleanupSkips(i) ==
    /\ cleanup[i] = "scan"
    /\ \E k \in claim[i] :
         /\ Claimed(i, k)
         /\ IF k \in expired THEN CommandFails(i) ELSE NoFault
         /\ Set(claim, i, claim[i] \ {k})
    /\ UNCHANGED <<brokerVars, pend, dlq, loopVars, ctxLive, cleanup, processVars, outcomeVars>>

\* XACK with the cancellable context, its error ignored.
CleanupAck(i) ==
    /\ cleanup[i] = "ack"
    /\ Set(cleanup, i, "move")
    /\ \/ /\ CtxAlive(i)
          /\ \E k \in claim[i] : Claimed(i, k) /\ pend' = pend \ {k}
          /\ NoFault
       \/ CommandFails(i) /\ UNCHANGED pend
    /\ UNCHANGED <<brokerVars, dlq, loopVars, ctxLive, claim, processVars, outcomeVars>>

\* PublishToDLQ with the transport's own context, its error ignored.
CleanupMove(i) ==
    /\ cleanup[i] = "move"
    /\ Set(cleanup, i, "scan")
    /\ \E k \in claim[i] :
         /\ Claimed(i, k)
         /\ Set(claim, i, claim[i] \ {k})
         /\ \/ /\ dlq' = IF MoveExpired /\ phase[i] = "up" THEN dlq \cup {k} ELSE dlq
               /\ NoFault
            \/ MoveExpired /\ phase[i] = "up" /\ Fault /\ UNCHANGED dlq
    /\ UNCHANGED <<brokerVars, pend, loopVars, ctxLive, processVars, outcomeVars>>

CleanupEnds(i) ==
    /\ cleanup[i] = "scan" /\ claim[i] = {}
    /\ Set(cleanup, i, "off")
    /\ UNCHANGED <<brokerVars, pend, dlq, loopVars, ctxLive, claim, processVars, outcomeVars, faults>>

-----------------------------------------------------------------------------
(* The processes.                                                           *)

Start(i) ==
    /\ phase[i] = "down" /\ starts[i] < MaxStarts
    /\ Set(phase, i, "up") /\ Set(sub, i, "ensure")
    /\ Set(starts, i, starts[i] + 1)
    /\ UNCHANGED <<brokerVars, pend, dlq, loopVars, cleanVars, erred, outcomeVars, faults>>

\* A stop signal, or an error or a fatal log entry seen by the signal handler.
Stop(i) ==
    /\ phase[i] = "up"
    /\ IF i \in erred THEN NoFault ELSE Fault
    /\ Set(phase, i, "cancelled")
    /\ UNCHANGED <<brokerVars, pend, dlq, loopVars, cleanVars, sub, erred, starts, outcomeVars>>

Vanish(i) ==
    /\ Set(phase, i, "down") /\ Set(sub, i, "none")
    /\ Set(loop, i, "none") /\ Set(junk, i, {}) /\ Set(batch, i, {}) /\ Set(tries, i, 0)
    /\ Set(cleanup, i, "off") /\ Set(claim, i, {}) /\ Set(ctxLive, i, FALSE)
    /\ erred' = erred \ {i}
    /\ UNCHANGED <<brokerVars, pend, dlq, starts, outcomeVars>>

\* All supervised goroutines have ended and Bootstrap returns.
Exit(i) ==
    /\ phase[i] = "cancelled"
    /\ sub[i] \in {"failed", "subscribed"} /\ loop[i] \in {"none", "dead"} /\ cleanup[i] = "off"
    /\ Vanish(i)
    /\ NoFault

Crash(i) == phase[i] # "down" /\ Vanish(i) /\ Fault

-----------------------------------------------------------------------------
SubscribeStep(i) == EnsureGroup(i) \/ EnsureGroupFails(i) \/ EnsureReturns(i)

LoopStep(i) ==
    \/ LoopTop(i) \/ LoopRead(i) \/ LoopReadFails(i) \/ LoopDiscards(i)
    \/ HandlerSucceeds(i) \/ HandlerRetries(i) \/ HandlerGivesUp(i) \/ HandlerPanics(i)

CleanupStep(i) ==
    \/ CleanupList(i) \/ CleanupQuits(i) \/ CleanupInspect(i) \/ CleanupSkips(i)
    \/ CleanupAck(i) \/ CleanupMove(i) \/ CleanupEnds(i)

Next ==
    \/ Publish
    \/ \E k \in Entries : Expire(k)
    \/ \E i \in Instances :
         \/ SubscribeStep(i) \/ LoopStep(i) \/ CleanupStep(i)
         \/ Start(i) \/ Stop(i) \/ Exit(i) \/ Crash(i)

Spec == Init /\ [][Next]_vars

\* The goroutines of a process are scheduled and a handler returns.
FairProcess(i) ==
    /\ WF_vars(SubscribeStep(i)) /\ WF_vars(LoopStep(i)) /\ WF_vars(CleanupStep(i))
    /\ WF_vars(i \in erred /\ Stop(i)) /\ WF_vars(Exit(i))

Fairness == \A i \in Instances : FairProcess(i)

FairSpec == Spec /\ Fairness
-----------------------------------------------------------------------------
(* Properties.                                                              *)

\* Every variable has its type: the group never runs ahead of what was published.
TypeOK ==
    /\ added \in 0..MaxEntries /\ last \in 0..added
    /\ garbled \subseteq Entries /\ expired \subseteq Entries
    /\ group \in BOOLEAN
    /\ pend \subseteq Entries /\ dlq \subseteq Entries
    /\ phase \in [Instances -> {"down", "up", "cancelled"}]
    /\ sub \in [Instances -> {"none", "ensure", "ensured", "subscribed", "failed"}]
    /\ ctxLive \in [Instances -> BOOLEAN]
    /\ loop \in [Instances -> {"none", "top", "read", "discard", "handle", "dead"}]
    /\ junk \in [Instances -> SUBSET Entries]
    /\ batch \in [Instances -> SUBSET Entries]
    /\ tries \in [Instances -> Nat]
    /\ cleanup \in [Instances -> {"off", "list", "scan", "ack", "move"}]
    /\ claim \in [Instances -> SUBSET Entries]
    /\ erred \subseteq Instances
    /\ starts \in [Instances -> Nat]
    /\ runs \in [Entries -> Nat]
    /\ gaveUp \subseteq Entries
    /\ faults \in Nat

\* A message is handled at most once: by one replica, in one of its lives,
\* and never again after the handler gave up on it.
HandledAtMostOnce ==
    \A k \in Entries : runs[k] + (IF k \in gaveUp THEN 1 ELSE 0) <= 1

\* A process handles messages in stream order, across retries and restarts.
HandledInOrder ==
    [][\A k \in Entries :
          runs'[k] > runs[k] => \A j \in Entries : j > k => runs[j] = 0 /\ j \notin gaveUp]_vars

\* A delivered entry leaves the pending list only when its deadline has passed or
\* when the loop that read it cannot decode it, and is copied to the dead-letter
\* stream only in the first case: a message that is decodable and in time is
\* never acknowledged away or declared dead, whatever other replicas' cleanups
\* are doing, and an undecodable entry by nobody but its reader.
LeavesForCause ==
    [][/\ pend \ pend' \subseteq expired \cup {k \in garbled : \E i \in Instances : k \in junk[i]}
       /\ dlq' \ dlq \subseteq expired]_vars

\* From its read on, a message in time is on the pending list: a crash in the
\* middle of a batch loses no trace of what was read, and what the handler made
\* of a message, success or failure, takes none off the list (XACK without id).
DeliveredStaysPending ==
    \A k \in Entries :
        runs[k] > 0 \/ k \in gaveUp \/ (\E i \in Instances : k \in batch[i])
            => k \in pend \cup expired

\* While its loop runs, a process does not leave published entries unread.
Running == {"top", "read", "discard", "handle"}
LiveLoopCatchesUp ==
    \A i \in Instances : \A k \in Entries :
        (group /\ k <= added /\ loop[i] \in Running) ~> (k <= last \/ loop[i] \notin Running)

\* Every message of a batch is given to the handler, unless the loop ends.
BatchIsHandled ==
    [][\A i \in Instances : \A k \in batch[i] \ batch'[i] :
          runs'[k] > runs[k] \/ k \in gaveUp' \/ loop'[i] \in {"dead", "none"}]_vars
=============================================================================

------------------------------ MODULE StreamTrim ------------------------------
(***************************************************************************)
(* The length of one stream: the periodic trim loop of NewRedisTransport   *)
(* (sample the groups' lag, store the verdict in StreamMeta.Overflowing,   *)
(* trim when the stream is not overflowing), the trim that every health    *)
(* check makes, the publishers that Publish throttles on an overflowing    *)
(* stream, and a consumer group that reads at its own pace.  Each process  *)
(* has its own StreamMeta, trim loop and heartbeat; the stream is shared.  *)
(*                                                                         *)
(* Entries are 1, 2, ... in id order; the stream holds first..added.       *)
(***************************************************************************)
EXTENDS Integers

CONSTANTS
    Instances,    \* processes that have registered the stream (ToTrim)
    MaxLen,       \* StreamTrimMaxLen
    Approx,       \* StreamTrimApprox: XTRIM MAXLEN ~
    MaxEntries,   \* bound on the entries published
    MaxFaults     \* bound on commands that fail

ASSUME LenAssumption == MaxLen \in Nat \ {0} /\ Approx \in BOOLEAN

VARIABLES
    added,        \* entries published so far
    first,        \* the oldest entry still in the stream
    read,         \* the group's last-delivered entry
    overflowing,  \* StreamMeta.Overflowing, per process
    trimmer,      \* the process's trim loop: "idle", "store" or "trim"
    verdict,      \* what it found in its sample
    sampled,      \* added when it took the sample
    blind,        \* the sample knows no lag: XINFO GROUPS failed or gave none
    pub,          \* the process's publisher: "idle", "check", "sleep" or "add"
    faults

streamVars == <<added, first, read>>
trimVars == <<trimmer, verdict, sampled, blind>>
vars == <<streamVars, overflowing, trimVars, pub, faults>>

Fault == faults < MaxFaults /\ faults' = faults + 1
Set(f, i, v) == f' = [f EXCEPT ![i] = v]

\* The oldest entry the group can still be given, and what it has in front.
NextUnread == IF read + 1 > first THEN read + 1 ELSE first
Backlog == added + 1 - NextUnread

Init ==
    /\ added = 0 /\ first = 1 /\ read = 0
    /\ overflowing = [i \in Instances |-> FALSE]
    /\ trimmer = [i \in Instances |-> "idle"]
    /\ verdict = [i \in Instances |-> FALSE]
    /\ sampled = [i \in Instances |-> 0]
    /\ blind = [i \in Instances |-> FALSE]
    /\ pub = [i \in Instances |-> "idle"]
    /\ faults = 0

-----------------------------------------------------------------------------
(* Publish and the consumer.                                                *)

PubGoto(i, from, to) == pub[i] = from /\ Set(pub, i, to)

PublishBegins(i) ==
    /\ PubGoto(i, "idle", "check")
    /\ added < MaxEntries
    /\ UNCHANGED <<streamVars, overflowing, trimVars, faults>>

\* isStreamOverflowing: the publisher sleeps a second, once, and goes on.
CheckOverflow(i) ==
    /\ PubGoto(i, "check", IF overflowing[i] THEN "sleep" ELSE "add")
    /\ UNCHANGED <<streamVars, overflowing, trimVars, faults>>

ThrottleEnds(i) ==
    /\ PubGoto(i, "sleep", "add")
    /\ UNCHANGED <<streamVars, overflowing, trimVars, faults>>

\* XADD.
AddEntry(i) ==
    /\ PubGoto(i, "add", "idle")
    /\ added < MaxEntries
    /\ added' = added + 1
    /\ UNCHANGED <<first, read, overflowing, trimVars, faults>>

\* XADD reports an error, the entry added or not: Retry goes on, or gives up
\* and the data goes to the dead-letter stream.
AddFails(i) ==
    /\ Fault
    /\ \E next \in {"add", "idle"} : PubGoto(i, "add", next)
    /\ added' \in {added, added + 1} /\ added' <= MaxEntries
    /\ UNCHANGED <<first, read, overflowing, trimVars>>

\* Mutant: the group's position runs one ahead of what it was given.
ConsumeAhead ==
    /\ NextUnread <= added
    /\ read' = NextUnread + 1
    /\ UNCHANGED <<added, first, overflowing, trimVars, pub, faults>>

\* XREADGROUP: the next entry that is still there.
Consume ==
    /\ NextUnread <= added
    /\ read' = NextUnread
    /\ UNCHANGED <<added, first, overflowing, trimVars, pub, faults>>

-----------------------------------------------------------------------------
(* The trim loop.                                                           *)

\* A pass of the loop: how far it is, and what it has found, of which moment.
Pass(i, stage, lags, at, unknown) ==
    Set(trimmer, i, stage) /\ Set(verdict, i, lags) /\ Set(sampled, i, at) /\ Set(blind, i, unknown)

\* Its variables end with it.
PassEnds(i) == Pass(i, "idle", FALSE, 0, FALSE)

\* collectStreamStats, when the server says how far the group lags: counted from
\* the entries ever added or, once some were removed, from those that are left.
SampleGroups(i) ==
    /\ trimmer[i] = "idle"
    /\ \E lag \in {added - read, Backlog} : Pass(i, "store", lag > MaxLen, added, FALSE)
    /\ UNCHANGED <<streamVars, overflowing, pub, faults>>

\* The lag is 0 in the code, and the group does not count as lagging, when the
\* server does not say: Redis 6.2 has no such field, and Redis 7 gives NULL for a
\* group made at "$" of a stream with entries.  So it is when XINFO GROUPS failed
\* and the partial statistics name no group.  (When XINFO STREAM fails the stream
\* is skipped, which is no step.)
SampleBlindly(i) ==
    /\ trimmer[i] = "idle"
    /\ Pass(i, "store", FALSE, added, TRUE)
    /\ UNCHANGED <<streamVars, overflowing, pub, faults>>

\* Mutant: the stream is trimmed whatever the verdict.
StoreAndTrim(i) ==
    /\ trimmer[i] = "store"
    /\ Set(overflowing, i, verdict[i])
    /\ Set(trimmer, i, "trim")
    /\ UNCHANGED <<streamVars, verdict, sampled, blind, pub, faults>>

\* Mutant: Overflowing is set and never reset.
StoreSticky(i) ==
    /\ trimmer[i] = "store"
    /\ Set(overflowing, i, overflowing[i] \/ verdict[i])
    /\ IF verdict[i] THEN PassEnds(i)
       ELSE Set(trimmer, i, "trim") /\ UNCHANGED <<verdict, sampled, blind>>
    /\ UNCHANGED <<streamVars, pub, faults>>

\* Store of the StreamMeta; an overflowing stream is not trimmed.
StoreVerdict(i) ==
    /\ trimmer[i] = "store"
    /\ Set(overflowing, i, verdict[i])
    /\ IF verdict[i] THEN PassEnds(i)
       ELSE Set(trimmer, i, "trim") /\ UNCHANGED <<verdict, sampled, blind>>
    /\ UNCHANGED <<streamVars, pub, faults>>

\* XTRIM stream MAXLEN [~] MaxLen: exact, or anything less.
FirstKept == IF added - MaxLen + 1 > first THEN added - MaxLen + 1 ELSE first
Trim ==
    /\ first' \in IF Approx THEN first..FirstKept ELSE {FirstKept}
    /\ UNCHANGED <<added, read>>

\* trimStream of the trim loop; a failed XTRIM is logged.
PeriodicTrim(i) ==
    /\ trimmer[i] = "trim"
    /\ PassEnds(i)
    /\ \/ Trim /\ UNCHANGED faults
       \/ Fault /\ UNCHANGED streamVars
    /\ UNCHANGED <<overflowing, pub>>

\* trimStream of IsHealthy: no lag is looked at.
HealthTrim(i) ==
    /\ Trim
    /\ UNCHANGED <<overflowing, trimVars, pub, faults>>

-----------------------------------------------------------------------------
PublishStep(i) == CheckOverflow(i) \/ ThrottleEnds(i) \/ AddEntry(i) \/ AddFails(i)
SampleStep(i) == SampleGroups(i) \/ SampleBlindly(i) \/ StoreVerdict(i) \/ PeriodicTrim(i)

Next ==
    \/ Consume
    \/ \E i \in Instances :
         PublishBegins(i) \/ PublishStep(i) \/ SampleStep(i) \/ HealthTrim(i)

Spec == Init /\ [][Next]_vars

\* Only the trim loops are sure to run: consumer and publishers may have stopped.
LoopFair(i) == WF_vars(SampleStep(i))
LoopSpec == Spec /\ \A i \in Instances : LoopFair(i)
-----------------------------------------------------------------------------
(* Properties.                                                              *)

\* Every variable has its type: neither a trim nor a read goes past the last entry.
TypeOK ==
    /\ added \in Nat /\ first \in Nat \ {0} /\ read \in Nat
    /\ first <= added + 1 /\ read <= added
    /\ overflowing \in [Instances -> BOOLEAN]
    /\ trimmer \in [Instances -> {"idle", "store", "trim"}]
    /\ verdict \in [Instances -> BOOLEAN]
    /\ sampled \in [Instances -> Nat]
    /\ blind \in [Instances -> BOOLEAN]
    /\ pub \in [Instances -> {"idle", "check", "sleep", "add"}]
    /\ faults \in Nat

\* Unread entries a step removes.
LostUpTo(f) == IF f > NextUnread THEN f - NextUnread ELSE 0

\* A pass of the trim loop that learned the group's lag costs the consumer at most
\* the entries published since its sample: what was there then and unread stays,
\* although other processes trim, publish and read between sample and XTRIM.  A
\* blind pass, every one on Redis 6.2, takes the group for one that keeps up: it
\* trims whatever is unread beyond MaxLen, and only the second bound is left.
PeriodicLossBounded ==
    [][\A i \in Instances :
          (trimmer[i] = "trim" /\ trimmer'[i] = "idle" /\ ~blind[i])
              => LostUpTo(first') <= added - sampled[i]]_vars

\* A consumer with at most MaxLen entries in front of it loses none, whoever
\* trims and however often.
CloseConsumerLosesNothing == [][Backlog <= MaxLen => LostUpTo(first') = 0]_vars

\* What a consumer loses is bounded by how far behind it is and how much was
\* published between a verdict and the trim that follows from it.
LossIsBounded == PeriodicLossBounded /\ CloseConsumerLosesNothing

\* A publisher is not throttled for ever: once the group stays within MaxLen of
\* the entries ever added, the flag of every process is taken back and stays so.
OverflowClears ==
    <>[](added - read <= MaxLen) => \A i \in Instances : <>[]~overflowing[i]

\* A consumer too far behind is noticed by every process whose samples learn the
\* lag from some time on, whether or not it goes on reading: until then its
\* publishers are not slowed down.  Where no sample ever does, none is noticed.
OverrunIsNoticed ==
    \A i \in Instances :
        <>[]~blind[i] => ((Backlog > MaxLen) ~> (overflowing[i] \/ Backlog <= MaxLen))

\* In the end the flag of every process, by which it slows its publishers down,
\* says what the group is like: though a pass stores what it sampled earlier,
\* may have learned no lag, and the other processes trim in between.
FlagFollowsGroup == OverflowClears /\ OverrunIsNoticed
=============================================================================

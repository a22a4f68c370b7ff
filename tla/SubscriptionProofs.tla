-------------------------- MODULE SubscriptionProofs --------------------------
(***************************************************************************)
(* Proofs about Subscription, for any number of replicas, entries,         *)
(* attempts, starts and faults: the types, that no message is handled      *)
(* twice or handled after its handler gave up on it, what stays pending,   *)
(* and that a loop reads on.                                               *)
(***************************************************************************)
EXTENDS Subscription, Descent, Integers, FiniteSets, FiniteSetTheorems, TLAPS

\* A read never moves the group past the published entries, nor back.
LEMMA NextLastInRange ==
    ASSUME TypeOK
    PROVE  /\ NextLast \in last..added /\ added \in 0..MaxEntries
           /\ Arrived \subseteq Entries
BY CountAssumption DEF TypeOK, NextLast, Arrived, Entries

\* Every step keeps the types.
LEMMA TypeInductive == TypeOK /\ [Next]_vars => TypeOK'
<1> SUFFICES ASSUME TypeOK, [Next]_vars PROVE TypeOK'
  OBVIOUS
<1> USE DEF Set, LoopGoto, NoFault, Fault, brokerVars, loopVars, cleanVars, processVars,
            outcomeVars
<1>1. CASE Publish
  <2>1. added' \in 0..MaxEntries /\ last \in 0..added' /\ garbled' \subseteq Entries
    BY <1>1, CountAssumption DEF Publish, TypeOK, Entries
  <2> QED  BY <1>1, <2>1 DEF Publish, TypeOK
<1>2. ASSUME NEW k \in Entries, Expire(k) PROVE TypeOK'
  BY <1>2 DEF Expire, TypeOK
<1>3. ASSUME NEW i \in Instances, SubscribeStep(i) PROVE TypeOK'
  <2>1. CASE EnsureGroup(i)
    <3>1. last' \in 0..added'
      BY <2>1 DEF EnsureGroup, TypeOK
    <3> QED  BY <2>1, <3>1 DEF EnsureGroup, TypeOK
  <2>2. CASE EnsureGroupFails(i)
    BY <2>2 DEF EnsureGroupFails, TypeOK
  <2>3. CASE EnsureReturns(i)
    BY <2>3 DEF EnsureReturns, TypeOK
  <2> QED  BY <1>3, <2>1, <2>2, <2>3 DEF SubscribeStep
<1>4. ASSUME NEW i \in Instances, LoopStep(i) PROVE TypeOK'
  <2>1. CASE LoopTop(i)
    BY <2>1 DEF LoopTop, TypeOK
  <2>2. CASE LoopRead(i)
    <3>1. /\ last' \in 0..added' /\ pend' \subseteq Entries
          /\ batch' \in [Instances -> SUBSET Entries] /\ junk' \in [Instances -> SUBSET Entries]
      BY <2>2, NextLastInRange DEF LoopRead, Sort, TypeOK
    <3>2. faults' \in Nat /\ tries' \in [Instances -> Nat]
      BY <2>2 DEF LoopRead, Sort, TypeOK
    <3>3. loop' \in [Instances -> {"none", "top", "read", "discard", "handle", "dead"}]
      BY <2>2 DEF LoopRead, Sort, TypeOK
    <3> QED  BY <2>2, <3>1, <3>2, <3>3 DEF LoopRead, Sort, TypeOK
  <2>8. CASE LoopDiscards(i)
    <3>1. /\ pend' \subseteq Entries /\ junk' \in [Instances -> SUBSET Entries] /\ faults' \in Nat
          /\ loop' \in [Instances -> {"none", "top", "read", "discard", "handle", "dead"}]
      BY <2>8 DEF LoopDiscards, TypeOK
    <3> QED  BY <2>8, <3>1 DEF LoopDiscards, TypeOK
  <2>3. CASE LoopReadFails(i)
    <3>1. last' \in 0..added' /\ pend' \subseteq Entries
      BY <2>3, NextLastInRange DEF LoopReadFails, TypeOK
    <3> QED  BY <2>3, <3>1 DEF LoopReadFails, TypeOK
  <2>4. CASE HandlerSucceeds(i)
    <3>1. PICK k \in batch[i] : runs' = [runs EXCEPT ![k] = @ + 1]
      BY <2>4 DEF HandlerSucceeds
    <3>2. runs' \in [Entries -> Nat]
      BY <3>1 DEF TypeOK
    <3> QED  BY <2>4, <3>2 DEF HandlerSucceeds, TypeOK
  <2>5. CASE HandlerRetries(i)
    BY <2>5 DEF HandlerRetries, TypeOK
  <2>6. CASE HandlerGivesUp(i)
    <3>1. gaveUp' \subseteq Entries
      BY <2>6 DEF HandlerGivesUp, TypeOK
    <3> QED  BY <2>6, <3>1 DEF HandlerGivesUp, TypeOK
  <2>7. CASE HandlerPanics(i)
    BY <2>7 DEF HandlerPanics, TypeOK
  <2> QED  BY <1>4, <2>1, <2>2, <2>3, <2>4, <2>5, <2>6, <2>7, <2>8 DEF LoopStep
<1>5. ASSUME NEW i \in Instances, CleanupStep(i) PROVE TypeOK'
  <2>1. CASE CleanupList(i)
    BY <2>1 DEF CleanupList, TypeOK
  <2>2. CASE CleanupInspect(i)
    BY <2>2 DEF CleanupInspect, TypeOK
  <2>3. CASE CleanupAck(i)
    <3>1. pend' \subseteq Entries /\ faults' \in Nat
      BY <2>3 DEF CleanupAck, CommandFails, TypeOK
    <3> QED  BY <2>3, <3>1 DEF CleanupAck, TypeOK
  <2>4. CASE CleanupMove(i)
    <3>1. dlq' \subseteq Entries /\ claim' \in [Instances -> SUBSET Entries]
      BY <2>4 DEF CleanupMove, TypeOK
    <3> QED  BY <2>4, <3>1 DEF CleanupMove, TypeOK
  <2>5. CASE CleanupEnds(i)
    BY <2>5 DEF CleanupEnds, TypeOK
  <2>6. CASE CleanupQuits(i)
    <3>1. faults' \in Nat
      BY <2>6 DEF CleanupQuits, CommandFails, TypeOK
    <3> QED  BY <2>6, <3>1 DEF CleanupQuits, TypeOK
  <2>7. CASE CleanupSkips(i)
    <3>1. faults' \in Nat
      BY <2>7 DEF CleanupSkips, CommandFails, TypeOK
    <3>2. claim' \in [Instances -> SUBSET Entries]
      BY <2>7 DEF CleanupSkips, TypeOK
    <3> QED  BY <2>7, <3>1, <3>2 DEF CleanupSkips, TypeOK
  <2> QED  BY <1>5, <2>1, <2>2, <2>3, <2>4, <2>5, <2>6, <2>7 DEF CleanupStep
<1>6. ASSUME NEW i \in Instances, Start(i) PROVE TypeOK'
  BY <1>6 DEF Start, TypeOK
<1>7. ASSUME NEW i \in Instances, Stop(i) PROVE TypeOK'
  BY <1>7 DEF Stop, TypeOK
<1>8. ASSUME NEW i \in Instances, Exit(i) \/ Crash(i) PROVE TypeOK'
  <2>1. faults' \in Nat
    BY <1>8 DEF Exit, Crash, TypeOK
  <2>2. Vanish(i)
    BY <1>8 DEF Exit, Crash
  <2> QED  BY <2>1, <2>2 DEF Vanish, TypeOK
<1>9. CASE UNCHANGED vars
  BY <1>9 DEF vars, TypeOK
<1> QED
  BY <1>1, <1>2, <1>3, <1>4, <1>5, <1>6, <1>7, <1>8, <1>9 DEF Next

\* The first state has its type.
LEMMA TypeInitially == Init => TypeOK
<1> SUFFICES ASSUME Init PROVE TypeOK
  OBVIOUS
<1>1. added \in 0..MaxEntries /\ last \in 0..added /\ runs \in [Entries -> Nat]
  BY CountAssumption DEF Init
<1> QED  BY <1>1 DEF Init, TypeOK

\* Every state of the subscription has its type.
THEOREM TypeCorrect == Spec => []TypeOK
BY TypeInitially, TypeInductive, PTL DEF Spec

-----------------------------------------------------------------------------
(* Handled at most once.                                                    *)

\* The group has not delivered what was handled later: entries after its
\* last-delivered id are untouched.
Ahead == \A k \in Entries : k > last => runs[k] = 0 /\ k \notin gaveUp

\* A loop holds delivered entries nobody has handled or given up on ...
Held == \A i \in Instances : \A k \in batch[i] : k <= last /\ runs[k] = 0 /\ k \notin gaveUp

\* ... and no two loops hold the same entry.
Apart == \A i, j \in Instances : \A k \in batch[i] : k \in batch[j] => i = j

OnceInv == TypeOK /\ Ahead /\ Held /\ Apart /\ HandledAtMostOnce

\* Every step keeps entries ahead of the group unhandled, and batches apart.
LEMMA OnceInductive == OnceInv /\ [Next]_vars => OnceInv'
<1> SUFFICES ASSUME OnceInv, [Next]_vars PROVE OnceInv'
  OBVIOUS
<1> USE DEF Set, LoopGoto, brokerVars, loopVars, cleanVars, processVars, outcomeVars
<1>1. /\ TypeOK /\ TypeOK'
      /\ added \in Nat /\ last \in Nat /\ last <= added /\ Entries \subseteq Nat
      /\ batch \in [Instances -> SUBSET Entries] /\ runs \in [Entries -> Nat]
  <2>1. TypeOK /\ TypeOK'
    BY TypeInductive DEF OnceInv
  <2>2. Entries \subseteq Nat
    BY DEF Entries
  <2> QED  BY <2>1, <2>2 DEF TypeOK
\* Nothing but the loop and the group's position changes what the parts name;
\* a loop may also let go of what it holds.
<1>2. ASSUME last' = last, runs' = runs, gaveUp' = gaveUp,
             \A i \in Instances : batch'[i] \subseteq batch[i]
      PROVE  OnceInv'
  BY <1>1, <1>2 DEF OnceInv, Ahead, Held, Apart, HandledAtMostOnce
<1>3. ASSUME NEW i \in Instances, EnsureGroup(i) PROVE OnceInv'
  <2>1. last' \in Nat /\ last' >= last /\ runs' = runs /\ gaveUp' = gaveUp /\ batch' = batch
    BY <1>1, <1>3 DEF EnsureGroup
  <2>2. Ahead' /\ Held'
    BY <1>1, <2>1 DEF OnceInv, Ahead, Held
  <2> QED  BY <1>1, <2>1, <2>2 DEF OnceInv, Apart, HandledAtMostOnce
<1>4. ASSUME NEW i \in Instances, LoopRead(i) PROVE OnceInv'
  <2>1. /\ last' = NextLast /\ runs' = runs /\ gaveUp' = gaveUp
        /\ batch' = [batch EXCEPT ![i] = Arrived \ garbled]
    BY <1>4 DEF LoopRead, Sort
  <2>2. /\ NextLast \in Nat /\ NextLast >= last
        /\ \A k \in Arrived : k \in Entries /\ k > last /\ k <= NextLast
    BY <1>1, NextLastInRange DEF Arrived
  <2>3. Ahead' /\ Held'
    BY <1>1, <2>1, <2>2 DEF OnceInv, Ahead, Held
  <2>4. Apart'
    <3> SUFFICES ASSUME NEW j \in Instances, NEW m \in Instances,
                        NEW k \in batch'[j], k \in batch'[m]
                 PROVE  j = m
      BY DEF Apart
    <3>1. \A n \in Instances : n # i => (k \in batch'[n] => k \in batch[n] /\ k <= last)
      BY <1>1, <2>1 DEF OnceInv, Held
    <3>2. k \in batch'[i] => k > last /\ k \in Nat
      BY <1>1, <2>1, <2>2
    <3>3. CASE j = i \/ m = i
      BY <1>1, <3>1, <3>2, <3>3
    <3>4. CASE j # i /\ m # i
      BY <3>1, <3>4 DEF OnceInv, Apart
    <3> QED  BY <3>3, <3>4
  <2> QED  BY <1>1, <2>1, <2>3, <2>4 DEF OnceInv, HandledAtMostOnce
<1>5. ASSUME NEW i \in Instances, LoopReadFails(i) PROVE OnceInv'
  <2>1. /\ runs' = runs /\ gaveUp' = gaveUp /\ batch' = batch
        /\ last' \in Nat /\ last' >= last
    BY <1>1, <1>5, NextLastInRange DEF LoopReadFails
  <2>2. Ahead' /\ Held'
    BY <1>1, <2>1 DEF OnceInv, Ahead, Held
  <2> QED  BY <1>1, <2>1, <2>2 DEF OnceInv, Apart, HandledAtMostOnce
<1>6. ASSUME NEW i \in Instances, HandlerSucceeds(i) \/ HandlerGivesUp(i) PROVE OnceInv'
  <2>1. PICK k \in batch[i] :
          \/ runs' = [runs EXCEPT ![k] = @ + 1] /\ gaveUp' = gaveUp
          \/ runs' = runs /\ gaveUp' = gaveUp \cup {k}
    BY <1>6 DEF HandlerSucceeds, HandlerGivesUp
  <2>2. last' = last /\ batch' = [batch EXCEPT ![i] = {}]
    BY <1>6 DEF HandlerSucceeds, HandlerGivesUp
  <2>3. k \in Entries /\ k <= last /\ runs[k] = 0 /\ k \notin gaveUp
    BY <1>1 DEF OnceInv, Held
  <2>4. Ahead'
    BY <1>1, <2>1, <2>2, <2>3 DEF OnceInv, Ahead
  <2>5. \A j \in Instances : batch'[j] \subseteq batch[j] /\ k \notin batch'[j]
    BY <1>1, <2>2 DEF OnceInv, Apart
  <2>6. Held' /\ Apart'
    <3>1. \A n \in Entries : n # k => runs'[n] = runs[n] /\ (n \in gaveUp' <=> n \in gaveUp)
      BY <1>1, <2>1, <2>3
    <3> QED  BY <1>1, <2>2, <2>5, <3>1 DEF OnceInv, Held, Apart
  <2>7. HandledAtMostOnce'
    BY <1>1, <2>1, <2>3 DEF OnceInv, HandledAtMostOnce
  <2> QED  BY <1>1, <2>4, <2>6, <2>7 DEF OnceInv
<1>7. ASSUME NEW i \in Instances,
             LoopTop(i) \/ LoopDiscards(i) \/ HandlerRetries(i) \/ HandlerPanics(i)
      PROVE  OnceInv'
  <2>1. /\ UNCHANGED <<last, runs, gaveUp>>
        /\ batch' = batch \/ batch' = [batch EXCEPT ![i] = {}]
    BY <1>7 DEF LoopTop, LoopDiscards, HandlerRetries, HandlerPanics
  <2> QED  BY <1>1, <1>2, <2>1
<1>8. ASSUME NEW i \in Instances, EnsureGroupFails(i) \/ EnsureReturns(i) PROVE OnceInv'
  BY <1>2, <1>8 DEF EnsureGroupFails, EnsureReturns
<1>9. ASSUME NEW i \in Instances, CleanupStep(i) PROVE OnceInv'
  BY <1>2, <1>9 DEF CleanupStep, CleanupList, CleanupQuits, CleanupInspect, CleanupSkips,
     CleanupAck, CleanupMove, CleanupEnds
<1>10. ASSUME NEW i \in Instances, Start(i) \/ Stop(i) PROVE OnceInv'
  BY <1>2, <1>10 DEF Start, Stop
<1>11. ASSUME NEW i \in Instances, Exit(i) \/ Crash(i) PROVE OnceInv'
  <2>1. /\ last' = last /\ runs' = runs /\ gaveUp' = gaveUp
        /\ batch' = [batch EXCEPT ![i] = {}]
    BY <1>11 DEF Exit, Crash, Vanish
  <2> QED  BY <1>1, <1>2, <2>1
<1>12. CASE Publish \/ UNCHANGED vars \/ \E k \in Entries : Expire(k)
  BY <1>2, <1>12 DEF Publish, Expire, vars
<1> QED
  BY <1>3, <1>4, <1>5, <1>6, <1>7, <1>8, <1>9, <1>10, <1>11, <1>12
     DEF Next, SubscribeStep, LoopStep

\* The first state satisfies the invariant.
LEMMA OnceInitially == Init => OnceInv
<1> SUFFICES ASSUME Init PROVE OnceInv
  OBVIOUS
<1>1. TypeOK
  BY TypeInitially
<1> QED  BY <1>1 DEF Init, OnceInv, Ahead, Held, Apart, HandledAtMostOnce

\* However many replicas share the group, crash, restart and retry, a message
\* is handled or given up on at most once.
THEOREM AtMostOnce == Spec => []HandledAtMostOnce
<1>1. OnceInv => HandledAtMostOnce
  BY DEF OnceInv
<1> QED
  BY <1>1, OnceInitially, OnceInductive, PTL DEF Spec

-----------------------------------------------------------------------------
(* What leaves the pending list.                                            *)

\* The entry a cleanup is working on was found expired, and a deadline
\* that has passed stays passed.
AckedExpired ==
    \A i \in Instances : cleanup[i] \in {"ack", "move"} =>
        \A k \in claim[i] : IsFirst(k, claim[i]) => k \in expired

\* What a loop discards is what it could not decode.
JunkGarbled == \A i \in Instances : junk[i] \subseteq garbled

Undecodable == {k \in garbled : \E i \in Instances : k \in junk[i]}

PendInv == TypeOK /\ AckedExpired /\ JunkGarbled

\* A set of entries has at most one first.
LEMMA OneFirst ==
    ASSUME NEW S \in SUBSET Entries, NEW j \in S, NEW k \in S, IsFirst(j, S), IsFirst(k, S)
    PROVE  j = k
BY DEF IsFirst, Entries

\* Every step keeps what a loop discards undecodable.
LEMMA JunkInductive == TypeOK /\ JunkGarbled /\ [Next]_vars => JunkGarbled'
<1> SUFFICES ASSUME TypeOK, JunkGarbled, [Next]_vars PROVE JunkGarbled'
  OBVIOUS
<1> USE DEF Set, LoopGoto, brokerVars, loopVars, cleanVars, processVars, outcomeVars
<1>1. junk \in [Instances -> SUBSET Entries] /\ garbled \subseteq garbled'
  BY DEF TypeOK, Next, SubscribeStep, LoopStep, CleanupStep, vars, Publish, Expire, EnsureGroup,
     EnsureGroupFails, EnsureReturns, LoopTop, LoopRead, LoopReadFails, LoopDiscards,
     HandlerSucceeds, HandlerRetries, HandlerGivesUp, HandlerPanics, CleanupList, CleanupQuits,
     CleanupInspect, CleanupSkips, CleanupAck, CleanupMove, CleanupEnds, Start, Stop, Exit, Crash,
     Vanish
<1>2. ASSUME NEW i \in Instances, NEW S \in SUBSET garbled, junk' = [junk EXCEPT ![i] = S]
      PROVE  JunkGarbled'
  BY <1>1, <1>2 DEF JunkGarbled
<1>3. junk' = junk => JunkGarbled'
  BY <1>1 DEF JunkGarbled
<1>4. ASSUME NEW i \in Instances, LoopRead(i) PROVE JunkGarbled'
  BY <1>2, <1>4 DEF LoopRead, Sort
<1>5. ASSUME NEW i \in Instances, LoopDiscards(i) PROVE JunkGarbled'
  <2>1. PICK k : junk' = [junk EXCEPT ![i] = junk[i] \ {k}]
    BY <1>5 DEF LoopDiscards
  <2>2. junk[i] \ {k} \subseteq garbled
    BY DEF JunkGarbled
  <2> QED  BY <1>2, <2>1, <2>2
<1>6. ASSUME NEW i \in Instances, Exit(i) \/ Crash(i) PROVE JunkGarbled'
  BY <1>2, <1>6 DEF Exit, Crash, Vanish
<1>7. \/ junk' = junk
      \/ \E i \in Instances : LoopRead(i) \/ LoopDiscards(i) \/ Exit(i) \/ Crash(i)
  BY DEF Next, SubscribeStep, LoopStep, CleanupStep, vars, Publish, Expire, EnsureGroup,
     EnsureGroupFails, EnsureReturns, LoopTop, LoopReadFails, HandlerSucceeds, HandlerRetries,
     HandlerGivesUp, HandlerPanics, CleanupList, CleanupQuits, CleanupInspect, CleanupSkips,
     CleanupAck, CleanupMove, CleanupEnds, Start, Stop
<1> QED  BY <1>3, <1>4, <1>5, <1>6, <1>7

\* Every step keeps the entry a cleanup is working on expired, and takes off the
\* pending list what has expired or is being discarded.
LEMMA PendInductive ==
    PendInv /\ [Next]_vars =>
        /\ PendInv'
        /\ pend \ pend' \subseteq expired \cup Undecodable
        /\ dlq' \ dlq \subseteq expired
<1> SUFFICES ASSUME PendInv, [Next]_vars
             PROVE  /\ AckedExpired'
                    /\ pend \ pend' \subseteq expired \cup Undecodable
                    /\ dlq' \ dlq \subseteq expired
  BY TypeInductive, JunkInductive DEF PendInv
<1> USE DEF Set, LoopGoto, brokerVars, loopVars, cleanVars, processVars, outcomeVars
<1> DEFINE Kept == pend \ pend' \subseteq expired \cup Undecodable /\ dlq' \ dlq \subseteq expired
<1>1. /\ TypeOK' /\ claim \in [Instances -> SUBSET Entries]
      /\ cleanup \in [Instances -> {"off", "list", "scan", "ack", "move"}]
  <2>1. TypeOK /\ TypeOK'
    BY TypeInductive DEF PendInv
  <2> QED  BY <2>1 DEF TypeOK
<1>2. ASSUME expired \subseteq expired', UNCHANGED <<cleanup, claim>> PROVE AckedExpired'
  BY <1>2 DEF PendInv, AckedExpired
\* A step of one process that leaves its cleanup in no such place keeps the rest.
<1>3. ASSUME NEW i \in Instances, expired' = expired, cleanup'[i] \notin {"ack", "move"},
             \A j \in Instances \ {i} : cleanup'[j] = cleanup[j] /\ claim'[j] = claim[j]
      PROVE  AckedExpired'
  BY <1>3 DEF PendInv, AckedExpired
<1>4. ASSUME NEW i \in Instances, CleanupInspect(i) PROVE AckedExpired' /\ Kept
  <2>1. pend' = pend /\ dlq' = dlq /\ expired' = expired /\ claim' = claim
        /\ cleanup' = [cleanup EXCEPT ![i] = "ack"]
    BY <1>4 DEF CleanupInspect
  <2>2. PICK k \in expired : Claimed(i, k)
    BY <1>4 DEF CleanupInspect
  <2>3. \A j \in claim[i] : IsFirst(j, claim[i]) => j \in expired
    BY <1>1, <2>2, OneFirst DEF Claimed
  <2> QED  BY <1>1, <2>1, <2>3 DEF PendInv, AckedExpired
<1>5. ASSUME NEW i \in Instances, CleanupAck(i) PROVE AckedExpired' /\ Kept
  <2>1. /\ cleanup[i] = "ack" /\ dlq' = dlq
        /\ pend' = pend \/ \E k : Claimed(i, k) /\ pend' = pend \ {k}
    BY <1>5 DEF CleanupAck
  <2>2. /\ expired' = expired /\ cleanup' = [cleanup EXCEPT ![i] = "move"] /\ claim' = claim
    BY <1>5 DEF CleanupAck
  <2>3. Kept
    BY <2>1 DEF Claimed, PendInv, AckedExpired
  <2> QED  BY <1>1, <2>1, <2>2, <2>3 DEF PendInv, AckedExpired
<1>6. ASSUME NEW i \in Instances, CleanupMove(i) PROVE AckedExpired' /\ Kept
  <2>1. /\ expired' = expired /\ pend' = pend /\ cleanup' = [cleanup EXCEPT ![i] = "scan"]
        /\ \E k \in claim[i] : claim' = [claim EXCEPT ![i] = claim[i] \ {k}]
    BY <1>6 DEF CleanupMove
  <2>2. /\ cleanup[i] = "move"
        /\ \E k : Claimed(i, k) /\ dlq' \subseteq dlq \cup {k}
    BY <1>6 DEF CleanupMove
  <2>3. Kept
    BY <2>1, <2>2 DEF Claimed, PendInv, AckedExpired
  <2> QED  BY <1>1, <1>3, <2>1, <2>3
<1>7. ASSUME NEW i \in Instances, CleanupList(i) \/ CleanupQuits(i) \/ CleanupEnds(i)
      PROVE  AckedExpired' /\ Kept
  <2>1. /\ expired' = expired /\ UNCHANGED <<pend, dlq>>
        /\ \/ cleanup' = [cleanup EXCEPT ![i] = "scan"]
           \/ cleanup' = [cleanup EXCEPT ![i] = "off"]
        /\ claim' = claim \/ claim' = [claim EXCEPT ![i] = pend]
    BY <1>7 DEF CleanupList, CleanupQuits, CleanupEnds
  <2> QED  BY <1>1, <1>3, <2>1
<1>13. ASSUME NEW i \in Instances, CleanupSkips(i) PROVE AckedExpired' /\ Kept
  <2>1. /\ expired' = expired /\ UNCHANGED <<pend, dlq, cleanup>> /\ cleanup[i] = "scan"
        /\ \E k : claim' = [claim EXCEPT ![i] = claim[i] \ {k}]
    BY <1>13 DEF CleanupSkips
  <2> QED  BY <1>1, <1>3, <2>1
<1>14. ASSUME NEW i \in Instances, LoopDiscards(i) PROVE AckedExpired' /\ Kept
  <2>1. /\ expired' = expired /\ UNCHANGED <<cleanup, claim, dlq>>
        /\ \E k \in junk[i] : pend \ pend' \subseteq {k}
    BY <1>14 DEF LoopDiscards
  <2>2. pend \ pend' \subseteq Undecodable
    BY <2>1 DEF PendInv, JunkGarbled, Undecodable
  <2> QED  BY <1>2, <2>1, <2>2
<1>8. ASSUME NEW i \in Instances, LoopStep(i), ~LoopDiscards(i) PROVE AckedExpired' /\ Kept
  <2>1. expired' = expired /\ UNCHANGED <<cleanup, claim, dlq>> /\ pend \subseteq pend'
    BY <1>8 DEF LoopStep, LoopTop, LoopRead, LoopReadFails, HandlerSucceeds, HandlerRetries,
         HandlerGivesUp, HandlerPanics
  <2> QED  BY <1>2, <2>1
<1>9. ASSUME NEW i \in Instances, EnsureGroup(i) PROVE AckedExpired' /\ Kept
  <2>1. /\ expired' = expired /\ UNCHANGED <<pend, dlq, claim>>
        /\ \E to \in {"list", "off"} : cleanup' = [cleanup EXCEPT ![i] = to]
    BY <1>9 DEF EnsureGroup
  <2> QED  BY <1>1, <1>3, <2>1
<1>10. ASSUME NEW i \in Instances, EnsureGroupFails(i) \/ EnsureReturns(i) \/ Start(i) \/ Stop(i)
       PROVE  AckedExpired' /\ Kept
  BY <1>2, <1>10 DEF EnsureGroupFails, EnsureReturns, Start, Stop
<1>11. ASSUME NEW i \in Instances, Exit(i) \/ Crash(i) PROVE AckedExpired' /\ Kept
  <2>1. /\ expired' = expired /\ UNCHANGED <<pend, dlq>> /\ cleanup' = [cleanup EXCEPT ![i] = "off"]
        /\ claim' = [claim EXCEPT ![i] = {}]
    BY <1>11 DEF Exit, Crash, Vanish
  <2> QED  BY <1>1, <1>3, <2>1
<1>12. CASE Publish \/ UNCHANGED vars \/ \E k \in Entries : Expire(k)
  <2>1. expired \subseteq expired' /\ UNCHANGED <<cleanup, claim, pend, dlq>>
    BY <1>12 DEF Publish, Expire, vars
  <2> QED  BY <1>1, <1>2, <2>1 DEF PendInv
<1> QED
  BY <1>1, <1>4, <1>5, <1>6, <1>7, <1>8, <1>9, <1>10, <1>11, <1>12, <1>13, <1>14
     DEF Next, SubscribeStep, CleanupStep, PendInv

\* The first state satisfies the invariant.
LEMMA PendInitially == Init => PendInv
<1>1. Init => AckedExpired /\ JunkGarbled
  BY DEF Init, AckedExpired, JunkGarbled
<1> QED  BY <1>1, TypeInitially DEF PendInv

\* Whatever the loops and cleanups of any number of replicas are doing, only a
\* message past its deadline is taken off the pending list or copied to the
\* dead-letter stream, and only its reader's discarding takes off another: an
\* entry that cannot be decoded.
THEOREM OnlyForCause == Spec => LeavesForCause
<1>1. PendInv /\ [Next]_vars =>
        [/\ pend \ pend' \subseteq expired \cup {k \in garbled : \E i \in Instances : k \in junk[i]}
         /\ dlq' \ dlq \subseteq expired]_vars
  BY PendInductive DEF Undecodable
<1> QED
  BY <1>1, PendInitially, PendInductive, PTL DEF Spec, LeavesForCause

\* What is held, was handled or was given up on was read.
Tracked(k) == runs[k] > 0 \/ k \in gaveUp \/ \E i \in Instances : k \in batch[i]

\* Only what can be decoded is: a loop keeps apart what it discards.
Decoded == \A k \in Entries : Tracked(k) => k \notin garbled

StayInv == PendInv /\ OnceInv /\ Decoded /\ DeliveredStaysPending

\* A message that was read stays pending until its deadline.
LEMMA StayInductive ==
    PendInv /\ OnceInv /\ Decoded /\ DeliveredStaysPending /\ [Next]_vars =>
        Decoded' /\ DeliveredStaysPending'
<1> SUFFICES ASSUME PendInv, OnceInv, Decoded, DeliveredStaysPending, [Next]_vars
             PROVE  Decoded' /\ DeliveredStaysPending'
  OBVIOUS
<1> USE DEF Set, LoopGoto, brokerVars, loopVars, cleanVars, processVars, outcomeVars
<1> DEFINE New(k) == Tracked(k)' => Tracked(k) \/ (k \in pend' /\ k \in Arrived \ garbled)
<1>1. TypeOK /\ pend \ pend' \subseteq expired \cup Undecodable
  BY PendInductive DEF PendInv
<1>2. expired \subseteq expired'
  BY DEF Next, SubscribeStep, LoopStep, CleanupStep, Publish, Expire, EnsureGroup, EnsureGroupFails,
     EnsureReturns, LoopTop, LoopRead, Sort, LoopReadFails, LoopDiscards, HandlerSucceeds,
     HandlerRetries, HandlerGivesUp, HandlerPanics, CleanupList, CleanupQuits, CleanupInspect,
     CleanupSkips, CleanupAck, CleanupMove, CleanupEnds, Start, Stop, Exit, Crash, Vanish, vars
<1>13. garbled' = garbled \/ garbled' = garbled \cup {added + 1}
  BY DEF Next, SubscribeStep, LoopStep, CleanupStep, Publish, Expire, EnsureGroup, EnsureGroupFails,
     EnsureReturns, LoopTop, LoopRead, Sort, LoopReadFails, LoopDiscards, HandlerSucceeds,
     HandlerRetries, HandlerGivesUp, HandlerPanics, CleanupList, CleanupQuits, CleanupInspect,
     CleanupSkips, CleanupAck, CleanupMove, CleanupEnds, Start, Stop, Exit, Crash, Vanish, vars
\* What is new to the tracked entries is not what is new to the stream.
<1>14. \A k \in Entries : Tracked(k) \/ k \in Arrived => k <= added /\ k \in Nat /\ added \in Nat
  <2>1. last \in Nat /\ added \in Nat /\ last <= added /\ Entries \subseteq Nat
    BY <1>1 DEF TypeOK, Entries
  <2>2. \A k \in Arrived : k <= added
    BY <2>1, NextLastInRange, <1>1 DEF Arrived
  <2>3. \A k \in Entries : Tracked(k) => k <= last
    BY <1>1, <2>1 DEF OnceInv, Ahead, Held, Tracked, TypeOK
  <2> QED  BY <2>1, <2>2, <2>3
<1>3. (\A k \in Entries : New(k)) => Decoded' /\ DeliveredStaysPending'
  <2> SUFFICES ASSUME \A k \in Entries : New(k), NEW k \in Entries, Tracked(k)'
               PROVE  k \notin garbled' /\ k \in pend' \cup expired'
    BY DEF DeliveredStaysPending, Decoded, Tracked
  <2>1. Tracked(k) \/ (k \in pend' /\ k \in Arrived \ garbled)
    OBVIOUS
  <2>2. Tracked(k) => k \in pend \cup expired /\ k \notin Undecodable
    BY DEF DeliveredStaysPending, Decoded, Tracked, Undecodable
  <2>3. k \notin garbled'
    <3>1. k \notin garbled
      BY <2>1 DEF Decoded
    <3>2. k # added + 1
      BY <1>14, <2>1
    <3> QED  BY <1>13, <3>1, <3>2
  <2> QED  BY <1>1, <1>2, <2>1, <2>2, <2>3
<1>4. /\ batch \in [Instances -> SUBSET Entries] /\ runs \in [Entries -> Nat]
      /\ pend \subseteq Entries
  BY <1>1 DEF TypeOK
<1>5. UNCHANGED <<runs, gaveUp, batch>> => \A k \in Entries : New(k)
  BY DEF Tracked
<1>6. ASSUME NEW i \in Instances, UNCHANGED <<runs, gaveUp>>, batch' = [batch EXCEPT ![i] = {}]
      PROVE  \A k \in Entries : New(k)
  BY <1>4, <1>6 DEF Tracked
<1>7. ASSUME NEW i \in Instances, LoopRead(i) PROVE \A k \in Entries : New(k)
  <2>1. /\ UNCHANGED <<runs, gaveUp>> /\ batch' = [batch EXCEPT ![i] = Arrived \ garbled]
        /\ Arrived \ garbled \subseteq pend'
    BY <1>7 DEF LoopRead, Sort
  <2> QED  BY <1>4, <2>1 DEF Tracked
<1>8. ASSUME NEW i \in Instances, HandlerSucceeds(i) PROVE \A k \in Entries : New(k)
  <2>1. PICK j \in batch[i] : runs' = [runs EXCEPT ![j] = @ + 1]
    BY <1>8 DEF HandlerSucceeds
  <2>2. gaveUp' = gaveUp /\ batch' = [batch EXCEPT ![i] = {}]
    BY <1>8 DEF HandlerSucceeds
  <2>3. \A k \in Entries : runs'[k] > 0 => runs[k] > 0 \/ k \in batch[i]
    BY <1>4, <2>1
  <2> QED  BY <1>4, <2>2, <2>3 DEF Tracked
<1>9. ASSUME NEW i \in Instances, HandlerGivesUp(i) PROVE \A k \in Entries : New(k)
  <2>1. PICK j \in batch[i] : gaveUp' = gaveUp \cup {j}
    BY <1>9 DEF HandlerGivesUp
  <2>2. runs' = runs /\ batch' = [batch EXCEPT ![i] = {}]
    BY <1>9 DEF HandlerGivesUp
  <2> QED  BY <1>4, <2>1, <2>2 DEF Tracked
<1>10. ASSUME NEW i \in Instances, HandlerPanics(i) \/ Exit(i) \/ Crash(i)
       PROVE  \A k \in Entries : New(k)
  BY <1>6, <1>10 DEF HandlerPanics, Exit, Crash, Vanish
<1>11. ASSUME NEW i \in Instances,
              \/ LoopTop(i) \/ LoopReadFails(i) \/ LoopDiscards(i) \/ HandlerRetries(i)
              \/ SubscribeStep(i)
              \/ CleanupStep(i) \/ Start(i) \/ Stop(i)
       PROVE  \A k \in Entries : New(k)
  <2>1. UNCHANGED <<runs, gaveUp, batch>>
    BY <1>11 DEF LoopTop, LoopReadFails, LoopDiscards, HandlerRetries, SubscribeStep, CleanupStep,
       Start, Stop, EnsureGroup, EnsureGroupFails, EnsureReturns, CleanupList, CleanupQuits,
       CleanupInspect, CleanupSkips, CleanupAck, CleanupMove, CleanupEnds
  <2> QED  BY <1>5, <2>1
<1>12. CASE Publish \/ UNCHANGED vars \/ \E k \in Entries : Expire(k)
  <2>1. UNCHANGED <<runs, gaveUp, batch>>
    BY <1>12 DEF Publish, Expire, vars
  <2> QED  BY <1>3, <1>5, <2>1
<1> QED
  BY <1>3, <1>7, <1>8, <1>9, <1>10, <1>11, <1>12 DEF Next, LoopStep

\* A message that was read is on the pending list until its deadline passes:
\* neither a crash nor the handler's success or failure takes it off.
THEOREM ReadStaysPending == Spec => []DeliveredStaysPending
<1>1. Init => StayInv
  BY PendInitially, OnceInitially DEF Init, StayInv, Decoded, Tracked, DeliveredStaysPending
<1>2. StayInv /\ [Next]_vars => StayInv'
  BY PendInductive, OnceInductive, StayInductive DEF StayInv
<1>3. StayInv => DeliveredStaysPending
  BY DEF StayInv
<1> QED
  BY <1>1, <1>2, <1>3, PTL DEF Spec

-----------------------------------------------------------------------------
(* The order of handling.                                                   *)

Alone == \A i, j \in Instances : i = j

\* What the loop holds comes before nothing that was handled or given up on.
Front == \A i \in Instances : \A k \in batch[i] : \A j \in Entries :
             j >= k => runs[j] = 0 /\ j \notin gaveUp

\* A subscriber that is alone keeps what it holds at the front.
LEMMA FrontInductive ==
    ASSUME Alone
    PROVE  OnceInv /\ Front /\ [Next]_vars => Front'
<1> SUFFICES ASSUME OnceInv, Front, [Next]_vars PROVE Front'
  OBVIOUS
<1> USE DEF Set, LoopGoto, brokerVars, loopVars, cleanVars, processVars, outcomeVars
<1>1. /\ TypeOK /\ added \in Nat /\ last \in Nat /\ last <= added /\ Entries \subseteq Nat
      /\ batch \in [Instances -> SUBSET Entries] /\ runs \in [Entries -> Nat]
  <2>1. Entries \subseteq Nat
    BY DEF Entries
  <2> QED  BY <2>1 DEF OnceInv, TypeOK
<1>2. ASSUME runs' = runs, gaveUp' = gaveUp, \A i \in Instances : batch'[i] \subseteq batch[i]
      PROVE  Front'
  BY <1>2 DEF Front
<1>3. ASSUME NEW i \in Instances, LoopRead(i) PROVE Front'
  <2>1. /\ runs' = runs /\ gaveUp' = gaveUp
        /\ batch' = [batch EXCEPT ![i] = Arrived \ garbled]
    BY <1>3 DEF LoopRead, Sort
  <2>2. \A k \in Arrived : k \in Nat /\ k > last
    BY <1>1, NextLastInRange DEF Arrived
  <2>3. \A k \in batch'[i] : k \in Nat /\ k > last
    BY <1>1, <2>1, <2>2
  <2>4. \A j \in Entries : j > last => runs[j] = 0 /\ j \notin gaveUp
    BY DEF OnceInv, Ahead
  <2>5. \A k \in batch'[i] : \A j \in Entries : j >= k => runs[j] = 0 /\ j \notin gaveUp
    <3> SUFFICES ASSUME NEW k \in batch'[i], NEW j \in Entries, j >= k PROVE j > last
      BY <2>4
    <3>1. k \in Nat /\ k > last /\ j \in Nat
      BY <1>1, <2>3
    <3> QED  BY <1>1, <3>1
  <2> QED  BY <2>1, <2>5 DEF Alone, Front
<1>4. ASSUME NEW i \in Instances, HandlerSucceeds(i) \/ HandlerGivesUp(i) PROVE Front'
  <2>1. batch' = [batch EXCEPT ![i] = {}]
    BY <1>4 DEF HandlerSucceeds, HandlerGivesUp
  <2>2. \A j \in Instances : batch'[j] = {}
    BY <1>1, <2>1 DEF Alone
  <2> QED  BY <2>2 DEF Front
<1>5. ASSUME NEW i \in Instances,
             \/ LoopTop(i) \/ LoopReadFails(i) \/ LoopDiscards(i) \/ HandlerRetries(i)
             \/ HandlerPanics(i)
      PROVE  Front'
  <2>1. /\ UNCHANGED <<runs, gaveUp>>
        /\ batch' = batch \/ batch' = [batch EXCEPT ![i] = {}]
    BY <1>5 DEF LoopTop, LoopReadFails, LoopDiscards, HandlerRetries, HandlerPanics
  <2> QED  BY <1>1, <1>2, <2>1
<1>6. ASSUME NEW i \in Instances, SubscribeStep(i) PROVE Front'
  BY <1>2, <1>6 DEF SubscribeStep, EnsureGroup, EnsureGroupFails, EnsureReturns
<1>7. ASSUME NEW i \in Instances, CleanupStep(i) PROVE Front'
  BY <1>2, <1>7 DEF CleanupStep, CleanupList, CleanupQuits, CleanupInspect, CleanupSkips,
     CleanupAck, CleanupMove, CleanupEnds
<1>8. ASSUME NEW i \in Instances, Start(i) \/ Stop(i) PROVE Front'
  BY <1>2, <1>8 DEF Start, Stop
<1>9. ASSUME NEW i \in Instances, Exit(i) \/ Crash(i) PROVE Front'
  <2>1. /\ runs' = runs /\ gaveUp' = gaveUp /\ batch' = [batch EXCEPT ![i] = {}]
    BY <1>9 DEF Exit, Crash, Vanish
  <2> QED  BY <1>1, <1>2, <2>1
<1>10. CASE Publish \/ UNCHANGED vars \/ \E k \in Entries : Expire(k)
  BY <1>2, <1>10 DEF Publish, Expire, vars
<1> QED
  BY <1>3, <1>4, <1>5, <1>6, <1>7, <1>8, <1>9, <1>10 DEF Next, LoopStep

\* A subscriber that has its group to itself handles messages in stream order,
\* across retries, crashes and restarts: the loop of Subscribe never handles one
\* after a later one.
THEOREM InOrderAlone ==
    ASSUME Alone
    PROVE  Spec => HandledInOrder
<1>1. ASSUME OnceInv, Front, [Next]_vars, NEW k \in Entries, runs'[k] > runs[k]
      PROVE  \A j \in Entries : j > k => runs[j] = 0 /\ j \notin gaveUp
  <2> USE <1>1 DEF brokerVars, outcomeVars
  <2>1. runs \in [Entries -> Nat] /\ Entries \subseteq Nat
    BY DEF OnceInv, TypeOK, Entries
  <2>2. runs' # runs
    BY <2>1
  <2>3. PICK i \in Instances : HandlerSucceeds(i)
    BY <2>2, ZenonT(60) DEF Next, SubscribeStep, LoopStep, CleanupStep, vars, Publish, Expire,
       EnsureGroup, EnsureGroupFails, EnsureReturns, LoopTop, LoopRead, Sort, LoopReadFails,
       LoopDiscards, HandlerRetries, HandlerGivesUp, HandlerPanics, CleanupList, CleanupQuits,
       CleanupInspect, CleanupSkips, CleanupAck, CleanupMove, CleanupEnds, Start, Stop, Exit, Crash,
       Vanish, processVars, cleanVars, loopVars
  <2>4. PICK m \in batch[i] : runs' = [runs EXCEPT ![m] = @ + 1]
    BY <2>3 DEF HandlerSucceeds
  <2>5. m = k
    BY <2>1, <2>4
  <2> QED  BY <2>1, <2>4, <2>5 DEF Front
<1>2. OnceInv /\ Front /\ [Next]_vars =>
        [\A k \in Entries : runs'[k] > runs[k] =>
             \A j \in Entries : j > k => runs[j] = 0 /\ j \notin gaveUp]_vars
  BY <1>1
<1>3. Init => OnceInv /\ Front
  BY OnceInitially DEF Init, Front
<1>4. OnceInv /\ Front /\ [Next]_vars => OnceInv' /\ Front'
  BY OnceInductive, FrontInductive
<1> QED
  BY <1>2, <1>3, <1>4, PTL DEF Spec, HandledInOrder

-----------------------------------------------------------------------------
(* Liveness.  A loop that stays behind an entry uses up what may hold it up: *)
(* faults, reads by other replicas, and the attempts at its handler.         *)

AtTop(i) == loop[i] = "top"
AtRead(i) == loop[i] = "read"
Discards(i) == loop[i] = "discard"
Handles(i) == loop[i] = "handle"
Runs(i) == loop[i] \in Running
Up(i) == phase[i] = "up"
Behind(i, k) == group /\ k <= added /\ k > last /\ Runs(i)
CaughtUp(i, k) == k <= last \/ ~Runs(i)

Unread == MaxEntries - last
Spare == MaxFaults - faults
Patience(i) == MaxAttempts - tries[i]
Pile(i) == Cardinality(junk[i])

\* Faults and attempts keep within their bounds.
Bounded == TypeOK /\ faults <= MaxFaults /\ \A i \in Instances : tries[i] < MaxAttempts

\* A loop belongs to a process that has subscribed, and runs.
Owned ==
    \A i \in Instances :
        /\ loop[i] # "none" => sub[i] = "subscribed"
        /\ sub[i] # "none" => phase[i] # "down"

\* Every step keeps them there.
LEMMA BoundedInductive == Bounded /\ [Next]_vars => Bounded'
<1> SUFFICES ASSUME Bounded, [Next]_vars
             PROVE  faults' <= MaxFaults /\ \A i \in Instances : tries'[i] < MaxAttempts
  BY TypeInductive DEF Bounded
<1>1. /\ faults \in Nat /\ faults <= MaxFaults /\ tries \in [Instances -> Nat]
      /\ \A i \in Instances : tries[i] < MaxAttempts
      /\ MaxFaults \in Nat /\ MaxAttempts \in Nat /\ 0 < MaxAttempts
  BY CountAssumption DEF Bounded, TypeOK
<1>2. faults' <= MaxFaults
  <2>1. Fault => faults' <= MaxFaults
    BY <1>1 DEF Fault
  <2>2. NoFault => faults' <= MaxFaults
    BY <1>1 DEF NoFault
  <2>3. Fault \/ NoFault
    BY ZenonT(60) DEF Next, SubscribeStep, LoopStep, CleanupStep, vars, Publish, Expire, EnsureGroup,
       EnsureGroupFails, EnsureReturns, LoopTop, LoopRead, Sort, LoopReadFails, LoopDiscards,
       HandlerSucceeds, HandlerRetries, HandlerGivesUp, HandlerPanics, CleanupList, CleanupQuits,
       CleanupInspect, CleanupSkips, CleanupAck, CleanupMove, CleanupEnds, CommandFails, Start,
       Stop, Exit, Crash, NoFault
  <2> QED  BY <2>1, <2>2, <2>3
<1>3. \/ tries' = tries
      \/ \E i \in Instances : tries' = [tries EXCEPT ![i] = 0]
      \/ \E i \in Instances :
           tries[i] + 1 < MaxAttempts /\ tries' = [tries EXCEPT ![i] = tries[i] + 1]
  BY DEF Next, SubscribeStep, LoopStep, CleanupStep, vars, Publish, Expire, EnsureGroup,
     EnsureGroupFails, EnsureReturns, LoopTop, LoopRead, Sort, LoopReadFails, LoopDiscards,
     HandlerSucceeds, HandlerRetries, HandlerGivesUp, HandlerPanics, CleanupList, CleanupQuits,
     CleanupInspect, CleanupSkips, CleanupAck, CleanupMove, CleanupEnds, Start, Stop, Exit, Crash,
     Vanish, Set, loopVars
<1> QED  BY <1>1, <1>2, <1>3

\* The bounds hold in every state.
LEMMA BoundedHolds == Spec => []Bounded
<1>1. Init => Bounded
  BY TypeInitially, CountAssumption DEF Init, Bounded
<1> QED  BY <1>1, BoundedInductive, PTL DEF Spec

\* Every step keeps a loop with its process.
LEMMA OwnedInductive == TypeOK /\ Owned /\ [Next]_vars => Owned'
<1> SUFFICES ASSUME TypeOK, Owned, [Next]_vars PROVE Owned'
  OBVIOUS
<1> USE DEF Set, LoopGoto, brokerVars, loopVars, cleanVars, processVars, outcomeVars
<1>1. /\ loop \in [Instances -> {"none", "top", "read", "discard", "handle", "dead"}]
      /\ phase \in [Instances -> {"down", "up", "cancelled"}]
      /\ sub \in [Instances -> {"none", "ensure", "ensured", "subscribed", "failed"}]
      /\ \A i \in Instances : /\ loop[i] # "none" => sub[i] = "subscribed"
                              /\ sub[i] # "none" => phase[i] # "down"
  BY DEF TypeOK, Owned
<1>2. ASSUME NEW i \in Instances, EnsureGroup(i) \/ EnsureGroupFails(i) PROVE Owned'
  BY <1>1, <1>2 DEF EnsureGroup, EnsureGroupFails, Owned
<1>3. ASSUME NEW i \in Instances, EnsureReturns(i) PROVE Owned'
  BY <1>1, <1>3 DEF EnsureReturns, Owned
<1>4. ASSUME NEW i \in Instances, LoopStep(i) PROVE Owned'
  <2>1. /\ phase' = phase /\ sub' = sub
        /\ loop[i] # "none" /\ \A j \in Instances : j # i => loop'[j] = loop[j]
    BY <1>1, <1>4 DEF LoopStep, LoopTop, LoopRead, Sort, LoopReadFails, LoopDiscards,
       HandlerSucceeds, HandlerRetries, HandlerGivesUp, HandlerPanics
  <2> QED  BY <1>1, <2>1 DEF Owned
<1>5. ASSUME NEW i \in Instances, Start(i) \/ Stop(i) PROVE Owned'
  BY <1>1, <1>5 DEF Start, Stop, Owned
<1>6. ASSUME NEW i \in Instances, Exit(i) \/ Crash(i) PROVE Owned'
  BY <1>1, <1>6 DEF Exit, Crash, Vanish, Owned
<1>7. ASSUME NEW i \in Instances, CleanupStep(i) PROVE Owned'
  BY <1>1, <1>7 DEF CleanupStep, CleanupList, CleanupQuits, CleanupInspect, CleanupSkips,
     CleanupAck, CleanupMove, CleanupEnds, Owned
<1>8. CASE Publish \/ UNCHANGED vars \/ \E k \in Entries : Expire(k)
  BY <1>1, <1>8 DEF Publish, Expire, vars, Owned
<1> QED
  BY <1>2, <1>3, <1>4, <1>5, <1>6, <1>7, <1>8 DEF Next, SubscribeStep

\* So does this, in every state.
LEMMA OwnedHolds == Spec => []Owned
<1>1. Init => Owned
  BY DEF Init, Owned
<1> QED  BY <1>1, TypeCorrect, OwnedInductive, PTL DEF Spec

\* Nothing but the loop's own steps moves it, except for the end of its process.
LEMMA OthersLeave ==
    ASSUME TypeOK, Owned, NEW i \in Instances, Runs(i), Runs(i)', [Next]_vars, ~LoopStep(i)
    PROVE  loop'[i] = loop[i] /\ tries'[i] = tries[i] /\ junk'[i] = junk[i] /\ (~Up(i) => ~Up(i)')
<1> USE DEF Set, LoopGoto, brokerVars, loopVars, cleanVars, processVars, outcomeVars, Runs, Running,
   Up
<1>1. /\ loop \in [Instances -> {"none", "top", "read", "discard", "handle", "dead"}]
      /\ phase \in [Instances -> {"down", "up", "cancelled"}]
      /\ tries \in [Instances -> Nat] /\ junk \in [Instances -> SUBSET Entries]
      /\ sub[i] = "subscribed" /\ phase[i] # "down"
  BY DEF TypeOK, Owned
<1>2. ASSUME NEW j \in Instances, SubscribeStep(j) \/ Start(j) \/ Stop(j) \/ Exit(j) \/ Crash(j)
      PROVE  loop'[i] = loop[i] /\ tries'[i] = tries[i] /\ junk'[i] = junk[i] /\ (~Up(i) => ~Up(i)')
  <2>1. CASE EnsureGroup(j) \/ EnsureGroupFails(j)
    BY <1>1, <2>1 DEF EnsureGroup, EnsureGroupFails
  <2>2. CASE EnsureReturns(j)
    BY <1>1, <2>2 DEF EnsureReturns
  <2>3. CASE Start(j) \/ Stop(j)
    BY <1>1, <2>3 DEF Start, Stop
  <2>4. CASE Exit(j) \/ Crash(j)
    BY <1>1, <2>4 DEF Exit, Crash, Vanish
  <2> QED  BY <1>2, <2>1, <2>2, <2>3, <2>4 DEF SubscribeStep
<1>3. ASSUME NEW j \in Instances, LoopStep(j)
      PROVE  loop'[i] = loop[i] /\ tries'[i] = tries[i] /\ junk'[i] = junk[i] /\ (~Up(i) => ~Up(i)')
  BY <1>1, <1>3 DEF LoopStep, LoopTop, LoopRead, Sort, LoopReadFails, LoopDiscards, HandlerSucceeds,
     HandlerRetries, HandlerGivesUp, HandlerPanics
<1>4. ASSUME NEW j \in Instances, CleanupStep(j)
      PROVE  loop'[i] = loop[i] /\ tries'[i] = tries[i] /\ junk'[i] = junk[i] /\ (~Up(i) => ~Up(i)')
  BY <1>1, <1>4 DEF CleanupStep, CleanupList, CleanupQuits, CleanupInspect, CleanupSkips,
     CleanupAck, CleanupMove, CleanupEnds
<1>5. CASE Publish \/ UNCHANGED vars \/ \E k \in Entries : Expire(k)
  BY <1>1, <1>5 DEF Publish, Expire, vars
<1> QED  BY <1>2, <1>3, <1>4, <1>5 DEF Next

\* The counters are natural numbers within their bounds.
Numbers ==
    /\ added \in Nat /\ last \in Nat /\ faults \in Nat
    /\ last <= added /\ added <= MaxEntries /\ faults <= MaxFaults
    /\ MaxEntries \in Nat /\ MaxFaults \in Nat
    /\ Unread \in Nat /\ Spare \in Nat

\* They are, before a step and after it.
LEMMA NumbersHold == Bounded => Numbers
<1> SUFFICES ASSUME Bounded PROVE Numbers
  OBVIOUS
<1>1. added \in 0..MaxEntries /\ last \in 0..added /\ faults \in Nat /\ faults <= MaxFaults
  BY DEF Bounded, TypeOK
<1> QED  BY <1>1, CountAssumption DEF Numbers, Unread, Spare

\* After a step they are natural numbers too.
LEMMA NumbersStay == Bounded' => Numbers'
  BY NumbersHold, PTL

\* What is left of a bound shrinks as the number under it grows.
LEMMA Differences ==
    \A m, x, y \in Nat : (m - y = m - x => y = x) /\ (x <= y => m - y <= m - x)
  OBVIOUS

\* The group only moves on, and faults are only used up.
LEMMA Progress ==
    ASSUME Bounded, [Next]_vars, group
    PROVE  /\ group' /\ added' >= added /\ last' >= last /\ faults' >= faults
           /\ Unread \in Nat /\ Spare \in Nat /\ Unread' \in Int /\ Spare' \in Int
           /\ Unread' <= Unread /\ Spare' <= Spare
           /\ (Unread' = Unread => last' = last) /\ (Spare' = Spare => faults' = faults)
<1>1. /\ group' /\ added' >= added /\ last' >= last
  <2>1. NextLast >= last
    BY NextLastInRange DEF Bounded, TypeOK
  <2>2. /\ added \in Nat /\ last \in Nat
    BY CountAssumption DEF Bounded, TypeOK
  <2>3. added' = added \/ added' = added + 1
    BY ZenonT(60) DEF Next, SubscribeStep, LoopStep, CleanupStep, vars, Publish, Expire, EnsureGroup,
       EnsureGroupFails, EnsureReturns, LoopTop, LoopRead, Sort, LoopReadFails, LoopDiscards,
       HandlerSucceeds, HandlerRetries, HandlerGivesUp, HandlerPanics, CleanupList, CleanupQuits,
       CleanupInspect, CleanupSkips, CleanupAck, CleanupMove, CleanupEnds, Start, Stop, Exit, Crash,
       Vanish, brokerVars
  <2>4. last' = last \/ last' = NextLast
    BY ZenonT(60) DEF Next, SubscribeStep, LoopStep, CleanupStep, vars, Publish, Expire, EnsureGroup,
       EnsureGroupFails, EnsureReturns, LoopTop, LoopRead, Sort, LoopReadFails, LoopDiscards,
       HandlerSucceeds, HandlerRetries, HandlerGivesUp, HandlerPanics, CleanupList, CleanupQuits,
       CleanupInspect, CleanupSkips, CleanupAck, CleanupMove, CleanupEnds, Start, Stop, Exit, Crash,
       Vanish, brokerVars
  <2>5. group'
    BY ZenonT(60) DEF Next, SubscribeStep, LoopStep, CleanupStep, vars, Publish, Expire, EnsureGroup,
       EnsureGroupFails, EnsureReturns, LoopTop, LoopRead, Sort, LoopReadFails, LoopDiscards,
       HandlerSucceeds, HandlerRetries, HandlerGivesUp, HandlerPanics, CleanupList, CleanupQuits,
       CleanupInspect, CleanupSkips, CleanupAck, CleanupMove, CleanupEnds, Start, Stop, Exit, Crash,
       Vanish, brokerVars
  <2> QED  BY <2>1, <2>2, <2>3, <2>4, <2>5
<1>2. faults' >= faults
  <2>1. faults \in Nat /\ (Fault => faults' = faults + 1) /\ (NoFault => faults' = faults)
    BY DEF Bounded, TypeOK, Fault, NoFault
  <2>2. Fault \/ NoFault
    BY ZenonT(60) DEF Next, SubscribeStep, LoopStep, CleanupStep, vars, Publish, Expire, EnsureGroup,
       EnsureGroupFails, EnsureReturns, LoopTop, LoopRead, Sort, LoopReadFails, LoopDiscards,
       HandlerSucceeds, HandlerRetries, HandlerGivesUp, HandlerPanics, CleanupList, CleanupQuits,
       CleanupInspect, CleanupSkips, CleanupAck, CleanupMove, CleanupEnds, CommandFails, Start,
       Stop, Exit, Crash, NoFault
  <2> QED  BY <2>1, <2>2
<1>3. Bounded'
  BY BoundedInductive
<1>4. Numbers /\ Numbers'
  BY <1>3, NumbersHold, NumbersStay
<1>5. /\ last \in Nat /\ last' \in Nat /\ faults \in Nat /\ faults' \in Nat
      /\ MaxEntries \in Nat /\ MaxFaults \in Nat
  BY <1>4 DEF Numbers
<1>6. /\ Unread = MaxEntries - last /\ Unread' = MaxEntries - last'
      /\ Spare = MaxFaults - faults /\ Spare' = MaxFaults - faults'
  BY DEF Unread, Spare
<1>7. (Unread' = Unread => last' = last) /\ (Spare' = Spare => faults' = faults)
  BY <1>5, <1>6, Differences
<1>8. Unread' <= Unread /\ Spare' <= Spare
  BY <1>1, <1>2, <1>5, <1>6, Differences
<1>9. Unread \in Nat /\ Unread' \in Nat /\ Spare \in Nat /\ Spare' \in Nat
  BY <1>4 DEF Numbers
<1> QED  BY <1>1, <1>2, <1>7, <1>8, <1>9

\* What a loop has to discard is finite, and each discarding makes it less.
LEMMA PileFalls ==
    ASSUME TypeOK, NEW i \in Instances
    PROVE  /\ Pile(i) \in Nat
           /\ LoopDiscards(i) => Pile(i)' \in Nat /\ Pile(i)' < Pile(i)
<1>1. junk \in [Instances -> SUBSET Entries] /\ IsFiniteSet(junk[i])
  <2>1. IsFiniteSet(Entries)
    <3>1. 1 \in Int /\ MaxEntries \in Int
      BY CountAssumption
    <3> QED  BY <3>1, FS_Interval DEF Entries
  <2>2. junk \in [Instances -> SUBSET Entries]
    BY DEF TypeOK
  <2>3. junk[i] \subseteq Entries
    BY <2>2
  <2> QED  BY <2>1, <2>2, <2>3, FS_Subset
<1>2. Pile(i) \in Nat
  BY <1>1, FS_CardinalityType DEF Pile
<1>3. ASSUME LoopDiscards(i) PROVE Pile(i)' \in Nat /\ Pile(i)' < Pile(i)
  <2>1. PICK k \in junk[i] : junk' = [junk EXCEPT ![i] = junk[i] \ {k}]
    BY <1>3 DEF LoopDiscards, Set
  <2>2. junk'[i] = junk[i] \ {k}
    BY <1>1, <2>1
  <2>3. Cardinality(junk[i] \ {k}) = Cardinality(junk[i]) - 1 /\ Cardinality(junk[i] \ {k}) \in Nat
    BY <1>1, FS_RemoveElement, FS_Subset, FS_CardinalityType
  <2> QED  BY <1>2, <2>2, <2>3 DEF Pile
<1> QED  BY <1>2, <1>3

\* While it stays behind and nothing is used up, a loop can only work through
\* what it discards and the attempts at a handler, and it can not read.
LEMMA LoopMoves ==
    ASSUME Bounded, NEW i \in Instances, NEW k \in Entries, Behind(i, k), Behind(i, k)',
           LoopStep(i), last' = last, faults' = faults
    PROVE  /\ AtTop(i) => Up(i) /\ AtRead(i)'
           /\ AtRead(i) => ~Up(i) /\ AtTop(i)' /\ ~Up(i)'
           /\ Discards(i) => Pile(i)' < Pile(i) /\ (AtTop(i)' \/ Handles(i)' \/ Discards(i)')
           /\ Handles(i) => AtTop(i)' \/ (Handles(i)' /\ Patience(i)' < Patience(i))
           /\ Patience(i)' <= Patience(i) /\ Pile(i)' <= Pile(i)
<1> USE DEF Set, LoopGoto, AtTop, AtRead, Discards, Handles, Runs, Running, Up, Behind, Patience,
   brokerVars, loopVars, cleanVars, processVars, outcomeVars
<1>1. /\ loop \in [Instances -> {"none", "top", "read", "discard", "handle", "dead"}]
      /\ tries \in [Instances -> Nat] /\ faults \in Nat
      /\ MaxAttempts \in Nat /\ Entries \subseteq Nat /\ last \in Nat /\ added \in Nat
  BY CountAssumption DEF Bounded, TypeOK, Entries
<1>8. Pile(i) \in Nat /\ (junk' = junk => Pile(i)' <= Pile(i))
  <2>1. Pile(i) \in Nat
    BY PileFalls DEF Bounded
  <2>2. junk' = junk => Pile(i)' = Pile(i)
    BY DEF Pile
  <2> QED  BY <2>1, <2>2
<1>9. CASE LoopDiscards(i)
  <2>1. Pile(i)' \in Nat /\ Pile(i)' < Pile(i)
    BY <1>9, PileFalls DEF Bounded
  <2>2. /\ loop[i] = "discard" /\ loop'[i] \in {"discard", "handle", "top"} /\ tries' = tries
    BY <1>1, <1>9 DEF LoopDiscards
  <2> QED  BY <1>1, <1>8, <2>1, <2>2
<1>2. CASE LoopTop(i)
  BY <1>1, <1>2, <1>8 DEF LoopTop
<1>3. CASE LoopRead(i)
  <2>1. NextLast > last
    BY <1>1, CountAssumption DEF NextLast
  <2> QED  BY <1>1, <1>3, <2>1 DEF LoopRead, Sort
<1>4. CASE LoopReadFails(i)
  <2>1. ~Fault
    BY <1>1 DEF Fault
  <2> QED  BY <1>1, <1>4, <1>8, <2>1 DEF LoopReadFails
<1>5. CASE HandlerSucceeds(i)
  BY <1>1, <1>5, <1>8 DEF HandlerSucceeds
<1>6. CASE HandlerRetries(i)
  <2>1. tries'[i] = tries[i] + 1 /\ loop' = loop /\ loop[i] = "handle" /\ junk' = junk
    BY <1>1, <1>6 DEF HandlerRetries
  <2> QED  BY <1>1, <1>8, <2>1
<1>7. CASE HandlerGivesUp(i) \/ HandlerPanics(i)
  BY <1>1, <1>7 DEF HandlerGivesUp, HandlerPanics
<1> QED  BY <1>2, <1>3, <1>4, <1>5, <1>6, <1>7, <1>9, LoopStep(i) DEF LoopStep

\* A loop at "discard" has something to discard, and one at "handle" something to
\* handle.
InHand == \A i \in Instances : /\ Discards(i) => junk[i] # {}
                              /\ Handles(i) => batch[i] # {}
LEMMA WorkInHand == Spec => []InHand
<1>1. Init => InHand
  BY DEF Init, InHand, Discards, Handles
<1>2. TypeOK /\ InHand /\ [Next]_vars => InHand'
  <2> SUFFICES ASSUME TypeOK, InHand, [Next]_vars PROVE InHand'
    OBVIOUS
  <2> USE DEF Set, LoopGoto, brokerVars, loopVars, cleanVars, processVars, outcomeVars, Discards,
     Handles
  <2>1. /\ loop \in [Instances -> {"none", "top", "read", "discard", "handle", "dead"}]
        /\ junk \in [Instances -> SUBSET Entries] /\ batch \in [Instances -> SUBSET Entries]
    BY DEF TypeOK
  \* A step of one loop that leaves it with work, or at no such place, keeps the rest.
  <2>2. ASSUME NEW i \in Instances, loop'[i] = "discard" => junk'[i] # {},
               loop'[i] = "handle" => batch'[i] # {},
               \A j \in Instances \ {i} : /\ loop'[j] = loop[j] /\ junk'[j] = junk[j]
                                         /\ batch'[j] = batch[j]
        PROVE  InHand'
    BY <2>2 DEF InHand
  <2>3. ASSUME NEW i \in Instances, LoopRead(i) PROVE InHand'
    <3>1. /\ \A j \in Instances \ {i} : /\ loop'[j] = loop[j] /\ junk'[j] = junk[j]
                                      /\ batch'[j] = batch[j]
          /\ junk'[i] = Arrived \cap garbled /\ batch'[i] = Arrived \ garbled
          /\ loop'[i] = IF Arrived \cap garbled # {} THEN "discard"
                        ELSE IF Arrived # {} THEN "handle" ELSE "top"
      BY <2>1, <2>3 DEF LoopRead, Sort
    <3> QED  BY <2>2, <3>1
  <2>4. ASSUME NEW i \in Instances, LoopDiscards(i) PROVE InHand'
    <3>1. PICK k \in junk[i] :
            /\ junk' = [junk EXCEPT ![i] = junk[i] \ {k}]
            /\ loop' = [loop EXCEPT ![i] = IF junk[i] # {k} THEN "discard"
                                           ELSE IF batch[i] # {} THEN "handle" ELSE "top"]
      BY <2>4 DEF LoopDiscards
    <3>2. batch' = batch
      BY <2>4 DEF LoopDiscards
    <3> QED  BY <2>1, <2>2, <3>1, <3>2
  <2>5. ASSUME NEW i \in Instances,
               \/ LoopTop(i) \/ LoopReadFails(i) \/ HandlerSucceeds(i) \/ HandlerRetries(i)
               \/ HandlerGivesUp(i) \/ HandlerPanics(i) \/ Exit(i) \/ Crash(i) \/ EnsureReturns(i)
        PROVE  InHand'
    BY <2>1, <2>2, <2>5 DEF LoopTop, LoopReadFails, HandlerSucceeds, HandlerRetries, HandlerGivesUp,
       HandlerPanics, Exit, Crash, Vanish, EnsureReturns, InHand
  <2>6. ASSUME UNCHANGED <<loop, junk, batch>> PROVE InHand'
    BY <2>6 DEF InHand
  <2>7. ASSUME NEW i \in Instances,
               \/ EnsureGroup(i) \/ EnsureGroupFails(i) \/ CleanupStep(i) \/ Start(i) \/ Stop(i)
        PROVE  InHand'
    BY <2>6, <2>7 DEF EnsureGroup, EnsureGroupFails, CleanupStep, CleanupList, CleanupQuits,
       CleanupInspect, CleanupSkips, CleanupAck, CleanupMove, CleanupEnds, Start, Stop
  <2>8. CASE Publish \/ UNCHANGED vars \/ \E k \in Entries : Expire(k)
    BY <2>6, <2>8 DEF Publish, Expire, vars
  <2> QED  BY <2>3, <2>4, <2>5, <2>7, <2>8 DEF Next, SubscribeStep, LoopStep
<1> QED  BY <1>1, <1>2, TypeCorrect, PTL DEF Spec

\* What the proof takes from numbers that do not decrease for ever.
LoopsSettle ==
    /\ Settles(Unread, vars) /\ Settles(Spare, vars)
    /\ \A i \in Instances : Settles(Patience(i), vars) /\ Settles(Pile(i), vars)

\* That a loop has a step to take wherever it runs.  At "top" and "read" the
\* guards are complementary; at "discard" and "handle" there is something left
\* to discard or to handle, WorkInHand.
LoopCanGoOn == \A i \in Instances : Runs(i) => ENABLED <<LoopStep(i)>>_vars

\* As the temporal steps below use it: a fair loop that is never stuck.
Driven(i) ==
    /\ []Bounded /\ []Owned /\ [][Next]_vars
    /\ WF_vars(LoopStep(i)) /\ [](Runs(i) => ENABLED <<LoopStep(i)>>_vars)

\* The fairness of the specification drives every loop.
LEMMA Drives ==
    ASSUME NEW i \in Instances
    PROVE  FairSpec /\ []LoopCanGoOn => Driven(i)
<1>1. FairSpec => Spec /\ WF_vars(LoopStep(i))
  <2>1. Fairness => FairProcess(i)
    BY DEF Fairness
  <2> QED  BY <2>1, PTL DEF FairSpec, FairProcess
<1>2. LoopCanGoOn => (Runs(i) => ENABLED <<LoopStep(i)>>_vars)
  BY DEF LoopCanGoOn
<1> QED  BY <1>1, <1>2, BoundedHolds, OwnedHolds, PTL DEF Driven, Spec

\* While its loop runs, a process does not leave published entries unread,
\* whatever other replicas read or leave, and however often handlers fail.
THEOREM LoopCatchesUp == FairSpec /\ []LoopCanGoOn /\ LoopsSettle => LiveLoopCatchesUp
<1> SUFFICES ASSUME NEW i \in Instances, NEW k \in Entries
             PROVE  FairSpec /\ []LoopCanGoOn /\ LoopsSettle =>
                      ((group /\ k <= added /\ loop[i] \in Running)
                          ~> (k <= last \/ loop[i] \notin Running))
  BY DEF LiveLoopCatchesUp
<1> DEFINE Still == [Unread' = Unread]_vars /\ [Spare' = Spare]_vars
<1>1. Bounded /\ [Next]_vars /\ Behind(i, k) => Behind(i, k)' \/ CaughtUp(i, k)'
  <2> SUFFICES ASSUME Bounded, [Next]_vars, Behind(i, k) PROVE Behind(i, k)' \/ CaughtUp(i, k)'
    OBVIOUS
  <2>1. /\ added \in Nat /\ last \in Nat /\ k \in Nat /\ added' \in Nat /\ last' \in Nat
    <3>1. Bounded'
      BY BoundedInductive
    <3> QED  BY <3>1, NumbersHold, NumbersStay DEF Numbers, Entries
  <2> QED  BY <2>1, Progress DEF Behind, CaughtUp
<1>2. Bounded => Unread \in Nat /\ Spare \in Nat /\ Patience(i) \in Nat /\ Pile(i) \in Nat
  BY CountAssumption, PileFalls DEF Bounded, TypeOK, Unread, Spare, Patience
<1>3. Bounded /\ [Next]_vars /\ Behind(i, k) => [Unread' <= Unread]_vars /\ [Spare' <= Spare]_vars
  BY Progress DEF Behind
<1>4. Bounded /\ Owned /\ [Next]_vars /\ Still /\ Behind(i, k) /\ Behind(i, k)' =>
        /\ [Patience(i)' <= Patience(i)]_vars /\ [Pile(i)' <= Pile(i)]_vars
        /\ AtTop(i) => AtTop(i)' \/ (Up(i) /\ AtRead(i)')
        /\ AtRead(i) => AtRead(i)' \/ (~Up(i)' /\ AtTop(i)')
        /\ Discards(i) => Discards(i)' \/ Handles(i)' \/ AtTop(i)'
        /\ Handles(i) => Handles(i)' \/ AtTop(i)'
        /\ ~Up(i) => ~Up(i)'
  <2> SUFFICES ASSUME Bounded, Owned, [Next]_vars, Still, Behind(i, k), Behind(i, k)'
               PROVE  /\ Patience(i)' <= Patience(i) /\ Pile(i)' <= Pile(i)
                      /\ AtTop(i) => AtTop(i)' \/ (Up(i) /\ AtRead(i)')
                      /\ AtRead(i) => AtRead(i)' \/ (~Up(i)' /\ AtTop(i)')
                      /\ Discards(i) => Discards(i)' \/ Handles(i)' \/ AtTop(i)'
                      /\ Handles(i) => Handles(i)' \/ AtTop(i)'
                      /\ ~Up(i) => ~Up(i)'
    OBVIOUS
  <2>1. last' = last /\ faults' = faults
    BY Progress DEF Behind, vars, brokerVars
  <2>2. Patience(i) \in Int /\ Pile(i) \in Int
    BY CountAssumption, PileFalls DEF Bounded, TypeOK, Patience
  <2>3. CASE LoopStep(i)
    <3>1. ~Up(i) => ~Up(i)'
      BY <2>3 DEF LoopStep, LoopTop, LoopRead, Sort, LoopReadFails, LoopDiscards, HandlerSucceeds,
         HandlerRetries, HandlerGivesUp, HandlerPanics, processVars, Up
    <3> QED  BY <2>1, <2>3, <3>1, LoopMoves
  <2>4. CASE ~LoopStep(i)
    <3>1. loop'[i] = loop[i] /\ tries'[i] = tries[i] /\ junk'[i] = junk[i] /\ (~Up(i) => ~Up(i)')
      BY <2>4, OthersLeave DEF Bounded, Behind
    <3> QED  BY <2>2, <3>1 DEF AtTop, AtRead, Handles, Discards, Patience, Pile
  <2> QED  BY <2>3, <2>4
<1>5. Bounded /\ Still /\ [Patience(i)' = Patience(i)]_vars /\ [Pile(i)' = Pile(i)]_vars
      /\ Behind(i, k) /\ Behind(i, k)'
      /\ [Next]_vars /\ <<LoopStep(i)>>_vars =>
        /\ AtTop(i) => Up(i) /\ AtRead(i)'
        /\ AtRead(i) => ~Up(i) /\ AtTop(i)' /\ ~Up(i)'
        /\ ~Discards(i) /\ (Handles(i) => AtTop(i)')
  <2> SUFFICES ASSUME Bounded, Still, [Patience(i)' = Patience(i)]_vars,
                      [Pile(i)' = Pile(i)]_vars, Behind(i, k), Behind(i, k)',
                      [Next]_vars, <<LoopStep(i)>>_vars
               PROVE  /\ AtTop(i) => Up(i) /\ AtRead(i)'
                      /\ AtRead(i) => ~Up(i) /\ AtTop(i)' /\ ~Up(i)'
                      /\ ~Discards(i) /\ (Handles(i) => AtTop(i)')
    OBVIOUS
  <2>1. last' = last /\ faults' = faults /\ Patience(i)' = Patience(i) /\ Pile(i)' = Pile(i)
    BY Progress DEF Behind
  <2>2. Patience(i) \in Int /\ Pile(i) \in Int
    BY CountAssumption, PileFalls DEF Bounded, TypeOK, Patience
  <2> QED  BY <2>1, <2>2, LoopMoves
<1>6. Behind(i, k) => AtTop(i) \/ AtRead(i) \/ Discards(i) \/ Handles(i)
  BY DEF Behind, Runs, Running, AtTop, AtRead, Discards, Handles
<1>7. Behind(i, k) => Runs(i)
  BY DEF Behind
<1>8. LoopsSettle => /\ Settles(Unread, vars) /\ Settles(Spare, vars)
                     /\ Settles(Patience(i), vars) /\ Settles(Pile(i), vars)
  BY DEF LoopsSettle
<1>9. Driven(i) /\ LoopsSettle => (Behind(i, k) ~> CaughtUp(i, k))
  <2>1. LoopsSettle /\ Driven(i) /\ <>[]Behind(i, k) =>
          <>[][Unread' = Unread]_vars /\ <>[][Spare' = Spare]_vars
    BY <1>2, <1>3, <1>8, PTL DEF Driven, Settles
  <2>2. LoopsSettle /\ Driven(i) /\ <>[]Behind(i, k) => <>[][Patience(i)' = Patience(i)]_vars
                                                  /\ <>[][Pile(i)' = Pile(i)]_vars
    BY <1>2, <1>4, <1>8, <2>1, PTL DEF Driven, Settles
  <2>3. LoopsSettle /\ Driven(i) => ~<>[]Behind(i, k)
    BY <1>4, <1>5, <1>6, <1>7, <2>1, <2>2, PTL DEF Driven
  <2> QED  BY <1>1, <2>3, PTL DEF Driven
<1>10. Bounded /\ group /\ k <= added /\ loop[i] \in Running => Behind(i, k) \/ CaughtUp(i, k)
  BY NumbersHold DEF Numbers, Entries, Behind, CaughtUp, Runs
<1>11. CaughtUp(i, k) => k <= last \/ loop[i] \notin Running
  BY DEF CaughtUp, Runs
<1> QED  BY <1>9, <1>10, <1>11, Drives, PTL DEF Driven
=============================================================================

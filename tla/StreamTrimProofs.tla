--------------------------- MODULE StreamTrimProofs ---------------------------
(***************************************************************************)
(* Proofs about StreamTrim, for any number of processes, any maximal       *)
(* length, exact or approximate trimming: the types, what trims can cost a *)
(* consumer, and that the loops set and clear their flags.                 *)
(***************************************************************************)
EXTENDS StreamTrim, TLAPS

\* The position of the consumer and the flags, apart from the numbers.
FlagsOK ==
    /\ overflowing \in [Instances -> BOOLEAN]
    /\ verdict \in [Instances -> BOOLEAN]
    /\ blind \in [Instances -> BOOLEAN]

CountsOK ==
    /\ added \in Nat /\ first \in Nat \ {0} /\ read \in Nat
    /\ first <= added + 1 /\ read <= added
    /\ trimmer \in [Instances -> {"idle", "store", "trim"}]
    /\ sampled \in [Instances -> Nat]
    /\ pub \in [Instances -> {"idle", "check", "sleep", "add"}]
    /\ faults \in Nat

\* A bound on a position survives when entries are added.
LEMMA BoundGrows == \A f, a, b \in Nat : f <= a + 1 /\ a <= b => f <= b + 1
OBVIOUS

\* What a consumer reads next moves on with its position and the stream's start.
LEMMA LaterGrows ==
    \A r, f, s, g \in Nat :
        LET now == IF r + 1 > f THEN r + 1 ELSE f
            then == IF s + 1 > g THEN s + 1 ELSE g
        IN  now \in Nat /\ then \in Nat /\ (r <= s /\ f <= g => now <= then)
OBVIOUS

\* What is unread of a sample only shrinks.
LEMMA BacklogShrinks ==
    \A s, n, m, k \in Nat : s + 1 - n <= k /\ n <= m => s + 1 - m <= k
OBVIOUS

\* The type invariant, split into flags and counters.
LEMMA TypeHalves == TypeOK <=> FlagsOK /\ CountsOK
BY DEF TypeOK, FlagsOK, CountsOK

\* A trim keeps the stream inside its old bounds.
LEMMA TrimInRange ==
    ASSUME CountsOK, Trim
    PROVE  /\ first' \in Nat \ {0} /\ first' >= first /\ first' <= FirstKept
           /\ first' <= added + 1 /\ added' = added /\ read' = read
<1>1. FirstKept \in Nat /\ FirstKept >= first /\ FirstKept <= added + 1
  BY LenAssumption DEF CountsOK, FirstKept
<1> QED
  BY <1>1, LenAssumption DEF CountsOK, Trim

\* Every step keeps the flags and program counters in their types.
LEMMA FlagsInductive == FlagsOK /\ [Next]_vars => FlagsOK'
<1> SUFFICES ASSUME FlagsOK, [Next]_vars PROVE FlagsOK'
  OBVIOUS
<1> USE DEF Set, Pass, PassEnds, PubGoto, Fault, streamVars, trimVars
<1>1. ASSUME NEW i \in Instances, PublishBegins(i) \/ PublishStep(i) \/ HealthTrim(i)
      PROVE  FlagsOK'
  BY <1>1 DEF PublishBegins, PublishStep, CheckOverflow, ThrottleEnds, AddEntry, AddFails,
     HealthTrim, FlagsOK
<1>2. ASSUME NEW i \in Instances, SampleGroups(i) PROVE FlagsOK'
  <2>1. PICK lag : verdict' = [verdict EXCEPT ![i] = lag > MaxLen]
    BY <1>2 DEF SampleGroups
  <2>2. blind' = [blind EXCEPT ![i] = FALSE] /\ overflowing' = overflowing
    BY <1>2 DEF SampleGroups
  <2>3. (lag > MaxLen) \in BOOLEAN
    OBVIOUS
  <2>4. verdict' \in [Instances -> BOOLEAN]
    BY <2>1, <2>3 DEF FlagsOK
  <2> QED  BY <2>2, <2>4 DEF FlagsOK
<1>3. ASSUME NEW i \in Instances, SampleBlindly(i) \/ StoreVerdict(i) \/ PeriodicTrim(i)
      PROVE  FlagsOK'
  BY <1>3 DEF SampleBlindly, StoreVerdict, PeriodicTrim, FlagsOK
<1>4. CASE Consume \/ UNCHANGED vars
  BY <1>4 DEF Consume, vars, FlagsOK
<1> QED
  BY <1>1, <1>2, <1>3, <1>4 DEF Next, SampleStep

\* Every step keeps the positions ordered: first and read stay within added.
LEMMA CountsInductive == CountsOK /\ [Next]_vars => CountsOK'
<1> SUFFICES ASSUME CountsOK, [Next]_vars PROVE CountsOK'
  OBVIOUS
<1> USE DEF Set, Pass, PassEnds, PubGoto, Fault, streamVars, trimVars
<1>1. ASSUME NEW i \in Instances, PublishBegins(i) \/ PublishStep(i) PROVE CountsOK'
  <2>1. added' \in Nat /\ added' >= added
    BY <1>1 DEF PublishBegins, PublishStep, CheckOverflow, ThrottleEnds, AddEntry, AddFails, CountsOK
  <2>2. faults' \in Nat /\ pub' \in [Instances -> {"idle", "check", "sleep", "add"}]
    BY <1>1 DEF PublishBegins, PublishStep, CheckOverflow, ThrottleEnds, AddEntry, AddFails, CountsOK
  <2>3. UNCHANGED <<first, read, trimmer, sampled>>
    BY <1>1 DEF PublishBegins, PublishStep, CheckOverflow, ThrottleEnds, AddEntry, AddFails
  <2>4. first' \in Nat \ {0} /\ read' \in Nat /\ first' <= added' + 1 /\ read' <= added'
    <3>1. first' = first /\ read' = read
      BY <2>3
    <3>2. first \in Nat \ {0} /\ read \in Nat /\ added \in Nat /\ first <= added + 1 /\ read <= added
      BY DEF CountsOK
    <3>3. added <= added' /\ added' \in Nat
      BY <2>1, <3>2
    <3>4. first <= added' + 1
      BY <3>2, <3>3, BoundGrows
    <3>5. read <= added'
      BY <3>2, <3>3
    <3> QED  BY <3>1, <3>2, <3>4, <3>5
  <2>5. trimmer' = trimmer /\ sampled' = sampled
    BY <2>3
  <2> QED  BY <2>1, <2>2, <2>4, <2>5 DEF CountsOK
<1>2. ASSUME NEW i \in Instances, SampleGroups(i) \/ SampleBlindly(i) \/ StoreVerdict(i)
      PROVE  CountsOK'
  BY <1>2 DEF SampleGroups, SampleBlindly, StoreVerdict, CountsOK
<1>3. ASSUME NEW i \in Instances, PeriodicTrim(i) PROVE CountsOK'
  <2>1. CASE Trim /\ UNCHANGED faults
    BY <1>3, <2>1, TrimInRange DEF PeriodicTrim, CountsOK
  <2>2. CASE Fault /\ UNCHANGED streamVars
    BY <1>3, <2>2 DEF PeriodicTrim, CountsOK
  <2> QED  BY <1>3, <2>1, <2>2 DEF PeriodicTrim
<1>4. ASSUME NEW i \in Instances, HealthTrim(i) PROVE CountsOK'
  BY <1>4, TrimInRange DEF HealthTrim, CountsOK
<1>5. CASE Consume
  BY <1>5 DEF Consume, NextUnread, CountsOK
<1>6. CASE UNCHANGED vars
  BY <1>6 DEF vars, CountsOK
<1> QED
  BY <1>1, <1>2, <1>3, <1>4, <1>5, <1>6 DEF Next, SampleStep

\* The empty stream has its type.
LEMMA Initially == Init => FlagsOK /\ CountsOK
<1>1. Init => FlagsOK
  BY DEF Init, FlagsOK
<1>2. Init => CountsOK
  BY DEF Init, CountsOK
<1> QED  BY <1>1, <1>2

\* Every state of the stream and its trim loops has its type.
THEOREM TypeCorrect == Spec => []TypeOK
BY Initially, FlagsInductive, CountsInductive, TypeHalves, PTL DEF Spec

-----------------------------------------------------------------------------
(* What trims cost.                                                         *)

\* The stream loses entries to a trim and to nothing else.
LEMMA OnlyTrims == [Next]_vars => (first' = first \/ Trim)
BY DEF Next, Consume, PublishBegins, PublishStep, CheckOverflow, ThrottleEnds, AddEntry,
   AddFails, SampleStep, SampleGroups, SampleBlindly, StoreVerdict, PeriodicTrim, HealthTrim,
   vars, streamVars

\* A consumer with at most MaxLen entries in front of it loses none.
THEOREM CloseConsumerSafe == Spec => CloseConsumerLosesNothing
<1>1. CountsOK /\ [Next]_vars => (Backlog <= MaxLen => LostUpTo(first') = 0)
  <2> SUFFICES ASSUME CountsOK, [Next]_vars, Backlog <= MaxLen PROVE LostUpTo(first') = 0
    OBVIOUS
  <2>1. first <= NextUnread /\ FirstKept <= NextUnread
    BY LenAssumption DEF CountsOK, Backlog, NextUnread, FirstKept
  <2>2. first' = first \/ Trim
    BY OnlyTrims
  <2>3. first' \in Nat /\ NextUnread \in Nat /\ FirstKept \in Int
    BY CountsInductive, LenAssumption DEF CountsOK, NextUnread, FirstKept
  <2>4. first' <= NextUnread
    BY <2>1, <2>2, <2>3, TrimInRange
  <2>5. ~(first' > NextUnread)
    BY <2>3, <2>4
  <2> QED  BY <2>5 DEF LostUpTo
<1> QED
  BY <1>1, Initially, CountsInductive, PTL DEF Spec, CloseConsumerLosesNothing

\* The verdict a trim loop is acting on stays true of what was there when it was
\* taken: the consumer only moves on.
SampleHolds ==
    \A i \in Instances :
        /\ sampled[i] <= added
        /\ trimmer[i] = "trim" => ~verdict[i]
        /\ (trimmer[i] # "idle" /\ ~verdict[i] /\ ~blind[i])
               => sampled[i] + 1 - NextUnread <= MaxLen

\* Entries are only added, the stream only loses its oldest ones, and the
\* consumer only moves on.
LEMMA Forward ==
    ASSUME CountsOK, [Next]_vars
    PROVE  added' >= added /\ NextUnread <= NextUnread' /\ NextUnread \in Nat /\ NextUnread' \in Nat
<1>1. CountsOK'
  BY CountsInductive
<1>2. added' \in {added, added + 1} /\ (read' = read \/ read' = NextUnread)
  BY DEF Next, Consume, PublishBegins, PublishStep, CheckOverflow, ThrottleEnds, AddEntry,
     AddFails, SampleStep, SampleGroups, SampleBlindly, StoreVerdict, PeriodicTrim, HealthTrim,
     Trim, vars, streamVars
<1>3. first' >= first
  BY OnlyTrims, TrimInRange DEF CountsOK
<1>4. added' >= added
  BY <1>2 DEF CountsOK
<1>5. read' >= read
  BY <1>2 DEF CountsOK, NextUnread
<1>6. first \in Nat /\ first' \in Nat /\ read \in Nat /\ read' \in Nat
  BY <1>1 DEF CountsOK
<1>7. first <= first' /\ read <= read'
  BY <1>3, <1>5, <1>6
<1>8. NextUnread' = IF read' + 1 > first' THEN read' + 1 ELSE first'
  BY DEF NextUnread
<1>9. NextUnread \in Nat /\ NextUnread' \in Nat /\ NextUnread <= NextUnread'
  BY <1>6, <1>7, <1>8, LaterGrows DEF NextUnread
<1> QED
  BY <1>4, <1>9

\* What one process's trim loop holds moves only when that loop does.
LEMMA OneLoop ==
    ASSUME FlagsOK, CountsOK, [Next]_vars, NEW j \in Instances
    PROVE  SampleStep(j) \/ /\ trimmer'[j] = trimmer[j] /\ verdict'[j] = verdict[j]
                            /\ sampled'[j] = sampled[j] /\ blind'[j] = blind[j]
<1> USE DEF Set, Pass, PassEnds
<1>1. ASSUME NEW i \in Instances, SampleStep(i), i # j
      PROVE  /\ trimmer'[j] = trimmer[j] /\ verdict'[j] = verdict[j]
             /\ sampled'[j] = sampled[j] /\ blind'[j] = blind[j]
  BY <1>1 DEF SampleStep, SampleGroups, SampleBlindly, StoreVerdict, PeriodicTrim, FlagsOK, CountsOK
<1>2. CASE UNCHANGED trimVars
  BY <1>2 DEF trimVars
<1>3. UNCHANGED trimVars \/ \E i \in Instances : SampleStep(i)
  BY DEF Next, Consume, PublishBegins, PublishStep, CheckOverflow, ThrottleEnds, AddEntry,
     AddFails, HealthTrim, vars, trimVars
<1> QED
  BY <1>1, <1>2, <1>3

\* Between sample and XTRIM a verdict stays sound: what it saw unread fits in MaxLen.
LEMMA SampleInductive ==
    ASSUME FlagsOK, CountsOK, SampleHolds, [Next]_vars
    PROVE  SampleHolds'
<1> USE DEF Pass, PassEnds
<1> SUFFICES ASSUME NEW j \in Instances
             PROVE  /\ sampled'[j] <= added'
                    /\ trimmer'[j] = "trim" => ~verdict'[j]
                    /\ (trimmer'[j] # "idle" /\ ~verdict'[j] /\ ~blind'[j])
                           => sampled'[j] + 1 - NextUnread' <= MaxLen
  BY DEF SampleHolds
<1>1. /\ sampled[j] <= added
      /\ trimmer[j] = "trim" => ~verdict[j]
      /\ (trimmer[j] # "idle" /\ ~verdict[j] /\ ~blind[j])
             => sampled[j] + 1 - NextUnread <= MaxLen
  BY DEF SampleHolds
<1>2. /\ added \in Nat /\ added' \in Nat /\ added <= added' /\ sampled[j] \in Nat
      /\ NextUnread \in Nat /\ NextUnread' \in Nat /\ NextUnread <= NextUnread'
  BY CountsInductive, Forward DEF CountsOK
<1>3. CASE /\ sampled'[j] = sampled[j] /\ verdict'[j] = verdict[j] /\ blind'[j] = blind[j]
           /\ trimmer[j] = "idle" => trimmer'[j] = "idle"
           /\ trimmer'[j] = "trim" => ~verdict[j]
  <2>1. sampled'[j] <= added'
    BY <1>1, <1>2, <1>3
  <2>2. ASSUME trimmer'[j] # "idle", ~verdict'[j], ~blind'[j]
        PROVE  sampled'[j] + 1 - NextUnread' <= MaxLen
    <3>1. sampled[j] + 1 - NextUnread <= MaxLen
      BY <1>1, <1>3, <2>2
    <3> QED  BY <1>2, <1>3, <3>1, BacklogShrinks, LenAssumption
  <2> QED  BY <1>3, <2>1, <2>2
<1>4. CASE SampleGroups(j)
  <2>1. PICK lag \in {added - read, Backlog} : verdict' = [verdict EXCEPT ![j] = lag > MaxLen]
    BY <1>4 DEF SampleGroups, Set
  <2>2. sampled'[j] = added /\ added' = added /\ NextUnread' = NextUnread /\ trimmer'[j] = "store"
    BY <1>4 DEF SampleGroups, Set, CountsOK, streamVars, NextUnread
  <2>3. verdict'[j] = (lag > MaxLen)
    BY <2>1 DEF FlagsOK
  <2>4. Backlog <= lag /\ lag \in Int /\ Backlog \in Int
    BY <2>1 DEF Backlog, NextUnread, CountsOK
  <2>5. ~verdict'[j] => Backlog <= MaxLen
    <3> SUFFICES ASSUME ~verdict'[j] PROVE Backlog <= MaxLen
      OBVIOUS
    <3>1. ~(lag > MaxLen)
      BY <2>3
    <3> QED  BY <2>4, <3>1, LenAssumption
  <2> QED  BY <1>2, <2>2, <2>5 DEF Backlog
<1>5. CASE SampleBlindly(j)
  <2>1. sampled'[j] = added /\ added' = added /\ blind'[j] = TRUE /\ trimmer'[j] = "store"
    BY <1>5 DEF SampleBlindly, Set, FlagsOK, CountsOK, streamVars
  <2> QED  BY <1>2, <2>1
<1>6. CASE StoreVerdict(j) /\ ~verdict[j]
  <2>1. UNCHANGED <<verdict, sampled, blind>> /\ trimmer[j] = "store"
    BY <1>6 DEF StoreVerdict
  <2> QED  BY <1>3, <1>6, <2>1
<1>7. CASE PeriodicTrim(j) \/ (StoreVerdict(j) /\ verdict[j])
  <2>1. trimmer'[j] = "idle" /\ sampled'[j] = 0
    BY <1>7 DEF PeriodicTrim, StoreVerdict, Set, CountsOK
  <2> QED  BY <1>2, <2>1
<1> QED
  BY <1>1, <1>3, <1>4, <1>5, <1>6, <1>7, OneLoop DEF SampleStep

\* A pass of the trim loop costs the consumer at most what was published since
\* its sample.
THEOREM PeriodicLoss == Spec => PeriodicLossBounded
<1>1. Init => SampleHolds
  <2> SUFFICES ASSUME Init, NEW i \in Instances
               PROVE  sampled[i] <= added /\ trimmer[i] = "idle"
    BY DEF SampleHolds
  <2> QED  BY DEF Init
<1>2. FlagsOK /\ CountsOK /\ SampleHolds /\ [Next]_vars
      => \A i \in Instances :
            (trimmer[i] = "trim" /\ trimmer'[i] = "idle" /\ ~blind[i])
                => LostUpTo(first') <= added - sampled[i]
  <2> SUFFICES ASSUME FlagsOK, CountsOK, SampleHolds, [Next]_vars, NEW i \in Instances,
                      trimmer[i] = "trim", ~blind[i]
               PROVE  LostUpTo(first') <= added - sampled[i]
    OBVIOUS
  <2>1. sampled[i] <= added /\ sampled[i] + 1 - NextUnread <= MaxLen
    BY DEF SampleHolds
  <2>2. first' \in Nat /\ first \in Nat /\ NextUnread \in Nat /\ added \in Nat /\ sampled[i] \in Nat
    BY CountsInductive, Forward DEF CountsOK
  <2>3. first <= NextUnread
    BY DEF CountsOK, NextUnread
  <2>4. first' <= first \/ first' <= added - MaxLen + 1
    BY OnlyTrims, TrimInRange, <2>2, LenAssumption DEF FirstKept
  <2> DEFINE start == first'
  <2>5. start \in Nat /\ (start <= first \/ start <= added - MaxLen + 1)
    BY <2>2, <2>4
  <2> HIDE DEF start
  <2>6. start <= NextUnread \/ start - NextUnread <= added - sampled[i]
    BY <2>1, <2>2, <2>3, <2>5, LenAssumption
  <2>7. LostUpTo(start) <= added - sampled[i]
    BY <2>1, <2>2, <2>5, <2>6 DEF LostUpTo
  <2> QED  BY <2>7 DEF start
<1> QED
  BY <1>1, <1>2, Initially, FlagsInductive, CountsInductive, SampleInductive, PTL
     DEF Spec, PeriodicLossBounded

\* LossIsBounded: both bounds on what a trim costs the consumer, for any number
\* of processes.
THEOREM LossBounded == Spec => LossIsBounded
BY PeriodicLoss, CloseConsumerSafe DEF LossIsBounded

-----------------------------------------------------------------------------
(* Liveness.  A trim loop has a step to take wherever it is, and fairness     *)
(* makes it take one again and again (LoopsRun).                              *)

AtIdle(i) == trimmer[i] = "idle"
AtTrim(i) == trimmer[i] = "trim"
Found(i) == trimmer[i] = "store" /\ verdict[i]
FoundNone(i) == trimmer[i] = "store" /\ ~verdict[i]
Marked(i) == overflowing[i]

Near == added - read <= MaxLen
Far == Backlog > MaxLen

Typed == FlagsOK /\ CountsOK

\* Every state has its type.
LEMMA TypedHolds == Spec => []Typed
BY Initially, FlagsInductive, CountsInductive, PTL DEF Spec, Typed

\* A step of the loop: a sample, its verdict stored, a trim.  A sample that learns
\* the lag finds a consumer that is far behind, and none finds one that is near.
LEMMA LoopMoves ==
    ASSUME NEW i \in Instances, Typed, SampleStep(i)
    PROVE  /\ AtIdle(i) => /\ Found(i)' \/ FoundNone(i)'
                           /\ Marked(i)' <=> Marked(i)
                           /\ Near => FoundNone(i)'
                           /\ Far /\ ~blind'[i] => Found(i)'
           /\ Found(i) => AtIdle(i)' /\ Marked(i)'
           /\ FoundNone(i) => AtTrim(i)' /\ ~Marked(i)'
           /\ AtTrim(i) => AtIdle(i)' /\ (Marked(i)' <=> Marked(i))
<1> USE DEF AtIdle, AtTrim, Found, FoundNone, Marked, Set, Pass, PassEnds, Typed, FlagsOK, CountsOK,
            streamVars, trimVars
<1>1. CASE SampleGroups(i)
  <2>1. PICK lag \in {added - read, Backlog} : verdict' = [verdict EXCEPT ![i] = lag > MaxLen]
    BY <1>1 DEF SampleGroups
  <2>2. verdict'[i] <=> lag > MaxLen
    BY <2>1
  <2>3. lag \in Int /\ Backlog <= lag /\ lag <= added - read
    BY <2>1 DEF Backlog, NextUnread
  <2>4. /\ trimmer[i] = "idle" /\ trimmer'[i] = "store" /\ overflowing' = overflowing
    BY <1>1 DEF SampleGroups
  <2>5. Backlog \in Int
    BY DEF Backlog, NextUnread
  <2>6. (Near => ~(lag > MaxLen)) /\ (Far => lag > MaxLen)
    BY <2>3, <2>5, LenAssumption DEF Near, Far
  <2> QED  BY <2>2, <2>4, <2>6
<1>2. CASE SampleBlindly(i)
  <2>1. /\ trimmer[i] = "idle" /\ trimmer'[i] = "store" /\ overflowing' = overflowing
        /\ verdict'[i] = FALSE /\ blind'[i] = TRUE
    BY <1>2 DEF SampleBlindly
  <2> QED  BY <2>1
<1>3. CASE StoreVerdict(i)
  <2>1. /\ trimmer[i] = "store" /\ trimmer'[i] = IF verdict[i] THEN "idle" ELSE "trim"
        /\ overflowing'[i] = verdict[i]
    BY <1>3 DEF StoreVerdict
  <2> QED  BY <2>1
<1>4. CASE PeriodicTrim(i)
  <2>1. trimmer[i] = "trim" /\ trimmer'[i] = "idle" /\ overflowing' = overflowing
    BY <1>4 DEF PeriodicTrim
  <2> QED  BY <2>1
<1> QED  BY <1>1, <1>2, <1>3, <1>4 DEF SampleStep

\* Nobody else moves the loop or changes what it found and stored.
LEMMA OthersLeave ==
    ASSUME NEW i \in Instances, Typed, [Next]_vars, ~SampleStep(i)
    PROVE  /\ AtIdle(i) => AtIdle(i)'
           /\ AtTrim(i) => AtTrim(i)'
           /\ Found(i) => Found(i)'
           /\ FoundNone(i) => FoundNone(i)'
           /\ Marked(i)' <=> Marked(i)
<1> DEFINE Same == /\ trimmer'[i] = trimmer[i] /\ verdict'[i] = verdict[i]
                   /\ overflowing'[i] = overflowing[i]
<1> USE DEF Set, Pass, PassEnds, Typed, FlagsOK, CountsOK, streamVars, trimVars
<1>1. ASSUME NEW j \in Instances, PublishBegins(j) \/ PublishStep(j) \/ HealthTrim(j)
      PROVE  Same
  BY <1>1 DEF PublishBegins, PublishStep, CheckOverflow, ThrottleEnds, AddEntry, AddFails,
     HealthTrim
<1>2. ASSUME NEW j \in Instances, j # i, SampleStep(j) PROVE Same
  <2>1. CASE SampleGroups(j)
    <3>1. PICK lag : verdict' = [verdict EXCEPT ![j] = lag > MaxLen]
      BY <2>1 DEF SampleGroups
    <3> QED  BY <1>2, <2>1, <3>1 DEF SampleGroups
  <2>2. CASE SampleBlindly(j) \/ StoreVerdict(j) \/ PeriodicTrim(j)
    BY <1>2, <2>2 DEF SampleBlindly, StoreVerdict, PeriodicTrim
  <2> QED  BY <1>2, <2>1, <2>2 DEF SampleStep
<1>3. ASSUME Consume \/ UNCHANGED vars PROVE Same
  BY <1>3 DEF Consume, vars
<1>4. Same
  BY <1>1, <1>2, <1>3 DEF Next
<1> QED  BY <1>4 DEF AtIdle, AtTrim, Found, FoundNone, Marked

\* The loops go on, tick after tick.  This is the fairness of LoopSpec as far as
\* the prover can follow it, to which ENABLED is opaque: a trim loop has a step to
\* take wherever it is.
LoopsRun == \A i \in Instances : []<><<SampleStep(i)>>_vars

\* A fair loop that always has a step to take runs.
LEMMA LoopIsFair ==
    ASSUME NEW i \in Instances
    PROVE  LoopFair(i) /\ []ENABLED <<SampleStep(i)>>_vars => []<><<SampleStep(i)>>_vars
BY PTL DEF LoopFair

\* As the temporal steps below use it, in any suffix of an execution.
Driven(i) == []Typed /\ [][Next]_vars /\ []<><<SampleStep(i)>>_vars

\* Every execution in which the loops run drives each of them.
LEMMA Drives ==
    ASSUME NEW i \in Instances
    PROVE  Spec /\ LoopsRun => Driven(i)
<1>1. LoopsRun => []<><<SampleStep(i)>>_vars
  BY DEF LoopsRun
<1> QED  BY <1>1, TypedHolds, PTL DEF Driven, Spec

\* The loop comes back to its next sample.
ComesBack(i) == Found(i) \/ FoundNone(i) \/ AtTrim(i) \/ AtIdle(i) ~> AtIdle(i)

\* From wherever a pass is, its loop samples again.
LEMMA SamplesAgain ==
    ASSUME NEW i \in Instances
    PROVE  Driven(i) => ComesBack(i)
<1>1. Typed /\ [Next]_vars /\ Found(i) => Found(i)' \/ AtIdle(i)'
  BY LoopMoves, OthersLeave
<1>2. Typed /\ <<SampleStep(i)>>_vars /\ Found(i) => AtIdle(i)'
  BY LoopMoves
<1>3. Typed /\ [Next]_vars /\ FoundNone(i) => FoundNone(i)' \/ AtTrim(i)'
  BY LoopMoves, OthersLeave
<1>4. Typed /\ <<SampleStep(i)>>_vars /\ FoundNone(i) => AtTrim(i)'
  BY LoopMoves
<1>5. Typed /\ [Next]_vars /\ AtTrim(i) => AtTrim(i)' \/ AtIdle(i)'
  BY LoopMoves, OthersLeave
<1>6. Typed /\ <<SampleStep(i)>>_vars /\ AtTrim(i) => AtIdle(i)'
  BY LoopMoves
<1>7. Driven(i) => (Found(i) ~> AtIdle(i))
  BY <1>1, <1>2, PTL DEF Driven
<1>8. Driven(i) => (FoundNone(i) ~> AtTrim(i))
  BY <1>3, <1>4, PTL DEF Driven
<1>9. Driven(i) => (AtTrim(i) ~> AtIdle(i))
  BY <1>5, <1>6, PTL DEF Driven
<1> QED  BY <1>7, <1>8, <1>9, PTL DEF ComesBack

\* Where a loop can be.
LEMMA Stages ==
    ASSUME NEW i \in Instances, Typed
    PROVE  Found(i) \/ FoundNone(i) \/ AtTrim(i) \/ AtIdle(i)
BY DEF Typed, CountsOK, Found, FoundNone, AtTrim, AtIdle

\* A publisher is not throttled for ever: once the group stays within MaxLen of
\* the entries ever added, the flag of every process is taken back and stays
\* so, as long as the trim loops go on.
THEOREM FlagClears == Spec /\ LoopsRun => OverflowClears
<1> DEFINE Clears(i) == <>[]~overflowing[i]
<1> SUFFICES ASSUME NEW i \in Instances
             PROVE  Spec /\ LoopsRun => (<>[](added - read <= MaxLen) => Clears(i))
  BY DEF OverflowClears
<1> DEFINE Calm == ~Marked(i) /\ ~Found(i)
<1>1. Driven(i) /\ []Near => (AtIdle(i) ~> FoundNone(i))
  <2>1. Typed /\ Near /\ [Next]_vars /\ AtIdle(i) => AtIdle(i)' \/ FoundNone(i)'
    BY LoopMoves, OthersLeave
  <2>2. Typed /\ Near /\ <<SampleStep(i)>>_vars /\ AtIdle(i) => FoundNone(i)'
    BY LoopMoves
  <2> QED  BY <2>1, <2>2, PTL DEF Driven
<1>2. Driven(i) => (FoundNone(i) ~> Calm)
  <2>1. Typed /\ [Next]_vars /\ FoundNone(i) => FoundNone(i)' \/ Calm'
    BY LoopMoves, OthersLeave DEF AtTrim, Found
  <2>2. Typed /\ <<SampleStep(i)>>_vars /\ FoundNone(i) => Calm'
    BY LoopMoves DEF AtTrim, Found
  <2> QED  BY <2>1, <2>2, PTL DEF Driven
<1>3. Typed /\ Near /\ [Next]_vars /\ Calm => Calm'
  <2> SUFFICES ASSUME Typed, Near, [Next]_vars, Calm PROVE Calm'
    OBVIOUS
  <2>1. CASE SampleStep(i)
    BY <2>1, LoopMoves, Stages DEF AtIdle, AtTrim, Found, FoundNone
  <2>2. CASE ~SampleStep(i)
    <3>1. FoundNone(i)' \/ AtTrim(i)' \/ AtIdle(i)'
      BY <2>2, OthersLeave, Stages
    <3> QED  BY <2>2, <3>1, OthersLeave DEF AtIdle, AtTrim, Found, FoundNone
  <2> QED  BY <2>1, <2>2
<1>4. Typed => Found(i) \/ FoundNone(i) \/ AtTrim(i) \/ AtIdle(i)
  BY Stages
<1>5. Driven(i) => (<>[]Near => <>[]~Marked(i))
  <2>1. Driven(i) => ComesBack(i)
    BY SamplesAgain
  <2> QED
    BY <1>1, <1>2, <1>3, <1>4, <2>1, PTL DEF Driven, ComesBack
<1>6. Near <=> added - read <= MaxLen
  BY DEF Near
<1>7. Marked(i) <=> overflowing[i]
  BY DEF Marked
<1> QED  BY <1>5, <1>6, <1>7, Drives, PTL

\* A consumer too far behind is noticed by every process, whether or not it
\* goes on reading, as long as the trim loops go on and the samples of the
\* process learn the lag in the end: one that does not finds nothing.
THEOREM OverrunNoticed == Spec /\ LoopsRun => OverrunIsNoticed
<1> DEFINE Notices(i) ==
        <>[]~blind[i] => ((Backlog > MaxLen) ~> (overflowing[i] \/ Backlog <= MaxLen))
<1> SUFFICES ASSUME NEW i \in Instances
             PROVE  Spec /\ LoopsRun => Notices(i)
  BY DEF OverrunIsNoticed
<1> DEFINE Unseen == Far /\ ~Marked(i)
           Sees == ~blind[i]
<1>1. Driven(i) /\ []Sees => (AtIdle(i) /\ Unseen ~> Found(i) \/ ~Unseen)
  <2>1. Typed /\ [Next]_vars /\ Sees' /\ AtIdle(i) /\ Unseen =>
          (AtIdle(i) /\ Unseen)' \/ Found(i)' \/ ~Unseen'
    BY LoopMoves, OthersLeave
  <2>2. Typed /\ <<SampleStep(i)>>_vars /\ Sees' /\ AtIdle(i) /\ Unseen => Found(i)'
    BY LoopMoves
  <2> QED  BY <2>1, <2>2, PTL DEF Driven
<1>2. Driven(i) => (Found(i) ~> ~Unseen)
  <2>1. Typed /\ [Next]_vars /\ Found(i) => Found(i)' \/ ~Unseen'
    BY LoopMoves, OthersLeave
  <2>2. Typed /\ <<SampleStep(i)>>_vars /\ Found(i) => ~Unseen'
    BY LoopMoves
  <2> QED  BY <2>1, <2>2, PTL DEF Driven
<1>3. Typed => Found(i) \/ FoundNone(i) \/ AtTrim(i) \/ AtIdle(i)
  BY Stages
<1>4. Driven(i) /\ <>[]Sees => (Unseen ~> ~Unseen)
  <2>1. Driven(i) => ComesBack(i)
    BY SamplesAgain
  <2> QED  BY <1>1, <1>2, <1>3, <2>1, PTL DEF Driven, ComesBack
<1>5. Far <=> Backlog > MaxLen
  BY DEF Far
<1>6. Typed => (~Unseen => overflowing[i] \/ Backlog <= MaxLen)
  <2>1. Typed => Backlog \in Int
    BY DEF Typed, CountsOK, Backlog, NextUnread
  <2> QED  BY <2>1, LenAssumption DEF Far, Marked
<1> QED  BY <1>4, <1>5, <1>6, Drives, PTL DEF Driven

\* In the end the flag of every process says what the group is like, as far as
\* its samples learn it, if the trim loops go on.
THEOREM FlagIsRight == Spec /\ LoopsRun => FlagFollowsGroup
BY FlagClears, OverrunNoticed DEF FlagFollowsGroup
=============================================================================

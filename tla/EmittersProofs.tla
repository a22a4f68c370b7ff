---------------------------- MODULE EmittersProofs ----------------------------
(***************************************************************************)
(* Proofs about Emitters, for any number of senders, any capacity, batch   *)
(* size and number of attempts: the types, that the end of a loop is told, *)
(* what has to fail before a message is lost, that each stream is fed like *)
(* a LossyQueue, how often a message can appear on it, that every message  *)
(* is settled, and that a cancellation ends both loops.                    *)
(***************************************************************************)
EXTENDS Emitters, Descent, Integers, SequenceTheorems, TLAPS

\* Retry has an attempt left, unless the loop is about to use the dead-letter
\* stream.
Counts ==
    \A l \in Loops :
        /\ loop[l] # "dlq" => tries[l] < Attempts
        /\ loop[l] = "dlq" /\ live => tries[l] = Attempts

\* Between its messages a loop has none in its hands.
Idle ==
    /\ \A l \in Loops : loop[l] \in {"top", "ready", "call", "sleep"} => todo[l] = <<>>
    /\ loop["channel"] \notin {"call", "each"} /\ Len(todo["channel"]) <= 1

Base == TypeOK /\ Counts /\ Idle

\* Messages of a shorter range are messages of a longer one.
LEMMA SeqMonotone ==
    ASSUME NEW m \in Nat, NEW n \in Nat, m <= n, NEW s \in Seq(1..m)
    PROVE  s \in Seq(1..n)
<1>1. \A i \in 1..Len(s) : s[i] \in 1..n
  OBVIOUS
<1> QED  BY <1>1

\* An element of a tail was an element of the sequence, one place later.
LEMMA TailElements ==
    ASSUME NEW S, NEW s \in Seq(S), s # <<>>
    PROVE  /\ Tail(s) \in Seq(S) /\ Len(Tail(s)) = Len(s) - 1 /\ Len(s) \in Nat \ {0}
           /\ Head(s) = s[1] /\ Head(s) \in S
           /\ \A i \in 1..Len(Tail(s)) : i + 1 \in 1..Len(s) /\ Tail(s)[i] = s[i + 1]
OBVIOUS

\* A concatenation has the elements of both sequences.
LEMMA ConcatElements ==
    ASSUME NEW S, NEW s \in Seq(S), NEW t \in Seq(S)
    PROVE  /\ s \o t \in Seq(S) /\ Len(s \o t) = Len(s) + Len(t)
           /\ Len(s) \in Nat /\ Len(t) \in Nat
           /\ \A i \in 1..Len(s) : i \in 1..Len(s \o t) /\ (s \o t)[i] = s[i]
           /\ \A i \in 1..Len(t) : Len(s) + i \in 1..Len(s \o t) /\ (s \o t)[Len(s) + i] = t[i]
           /\ \A i \in 1..Len(s \o t) :
                i \in 1..Len(s) \/ (i - Len(s) \in 1..Len(t) /\ (s \o t)[i] = t[i - Len(s)])
OBVIOUS

\* A sequence without elements is the empty one.
LEMMA EmptySequence ==
    ASSUME NEW S, NEW s \in Seq(S), Len(s) = 0
    PROVE  s = <<>>
OBVIOUS

\* The type invariant, without the conjunct on todo, by variable.
LEMMA Typed ==
    ASSUME TypeOK
    PROVE  /\ kind \in Seq(Kinds) /\ Made \in Nat
           /\ queue \in Seq(1..Made)
           /\ loop \in [Loops -> Pcs]
           /\ todo \in [Loops -> Seq(1..Made)]
           /\ tries \in [Loops -> 0..Attempts]
           /\ resent \in [Loops -> 0..Resends]
           /\ out \in [Loops -> Seq(1..Made)]
           /\ dlq \subseteq 1..Made
           /\ pullErr \in BOOLEAN /\ panicked \in BOOLEAN /\ errs \in BOOLEAN /\ live \in BOOLEAN
           /\ handler \in {"select", "stop", "done"}
           /\ faults \in 0..MaxFaults
           /\ "pull" \in Loops /\ "channel" \in Loops
           /\ Attempts \in Nat \ {0} /\ Resends \in Nat /\ MaxFaults \in Nat
BY BoundAssumption DEF TypeOK, Messages, Made, Loops

\* The first state.
LEMMA BaseInitially == Init => Base
<1> SUFFICES ASSUME Init PROVE Base
  OBVIOUS
<1>1. Made = 0 /\ <<>> \in Seq(Kinds) /\ <<>> \in Seq(Messages) /\ Len(<<>>) = 0
  BY DEF Init, Made
<1>2. /\ kind \in Seq(Kinds) /\ queue \in Seq(Messages)
      /\ loop \in [Loops -> Pcs] /\ todo \in [Loops -> Seq(Messages)]
      /\ tries \in [Loops -> 0..Attempts] /\ resent \in [Loops -> 0..Resends]
      /\ out \in [Loops -> Seq(Messages)]
      /\ dlq \subseteq Messages /\ faults \in 0..MaxFaults
      /\ handler \in {"select", "stop", "done"}
      /\ \A l \in Loops : loop[l] = "top" /\ tries[l] = 0 /\ todo[l] = <<>>
  BY <1>1, BoundAssumption DEF Init, Pcs
<1>3. pullErr \in BOOLEAN /\ panicked \in BOOLEAN /\ errs \in BOOLEAN /\ live \in BOOLEAN
  BY DEF Init
<1>4. TypeOK
  BY <1>2, <1>3 DEF TypeOK
<1>5. Counts /\ Idle
  BY <1>1, <1>2, BoundAssumption DEF Counts, Idle, Loops
<1> QED  BY <1>4, <1>5 DEF Base

\* The steps of the shutdown goroutine.
LEMMA BaseShutdown == Base /\ (Shutdown \/ Signal) => Base'
<1> SUFFICES ASSUME Base, Shutdown \/ Signal PROVE Base'
  OBVIOUS
<1>1. /\ UNCHANGED <<sendVars, loop, todo, emitVars, pullVars, faults>>
      /\ handler' \in {"stop", "done"}
  BY DEF Shutdown, HandlerTakesError, Signal, Cancel
<1>2. live' \in {live, FALSE} /\ errs' \in {errs, FALSE}
  BY DEF Shutdown, HandlerTakesError, Signal, Cancel
<1>3. TypeOK'
  BY <1>1, <1>2 DEF Base, TypeOK, Messages, Made, sendVars, emitVars, pullVars
<1>4. Counts'
  BY <1>1, <1>2 DEF Base, Counts, emitVars
<1>5. Idle'
  BY <1>1 DEF Base, Idle
<1> QED  BY <1>3, <1>4, <1>5 DEF Base

\* A step of loop l that makes no message, to a place where it has messages t
\* in its hands and n failed attempts.
Moves(l, to, t, n) ==
    /\ loop' = [loop EXCEPT ![l] = to]
    /\ todo' = [todo EXCEPT ![l] = t]
    /\ tries' = [tries EXCEPT ![l] = n]

Fits(l, to, t, n) ==
    /\ to \in Pcs /\ t \in Seq(1..Made) /\ n \in 0..Attempts
    /\ to \in {"add", "wait", "dlq"} => t # <<>>
    /\ IF to = "dlq" THEN live => n = Attempts ELSE n < Attempts
    /\ to \in {"top", "ready", "call", "sleep"} => t = <<>>
    /\ l = "channel" => to \notin {"call", "each"} /\ Len(t) <= 1

RestOK ==
    /\ UNCHANGED <<kind, live, handler>>
    /\ queue' = queue \/ (queue # <<>> /\ queue' = Tail(queue))
    /\ out' \in [Loops -> Seq(1..Made)] /\ dlq' \subseteq 1..Made
    /\ pullErr' \in BOOLEAN /\ panicked' \in BOOLEAN /\ errs' \in BOOLEAN
    /\ faults' \in 0..MaxFaults /\ resent' \in [Loops -> 0..Resends]

\* Such a step keeps the invariant.
LEMMA BaseLocal ==
    ASSUME Base, NEW l \in Loops, NEW to, NEW t, NEW n,
           Moves(l, to, t, n), Fits(l, to, t, n), RestOK
    PROVE  Base'
<1>1. TypeOK /\ Counts /\ Idle
  BY DEF Base
<1> USE Typed, <1>1 DEF Moves, Fits, RestOK
<1>2. Made' = Made
  BY DEF Made
<1>3. queue' \in Seq(1..Made)
  <2>1. CASE queue' = queue
    BY <2>1
  <2>2. CASE queue # <<>> /\ queue' = Tail(queue)
    BY <2>2, TailElements
  <2> QED  BY <2>1, <2>2
<1>4. TypeOK'
  <2>1. \A k \in Loops : loop'[k] \in {"add", "wait", "dlq"} => todo'[k] # <<>>
    BY DEF TypeOK
  <2>2. /\ loop' \in [Loops -> Pcs] /\ todo' \in [Loops -> Seq(1..Made)]
        /\ tries' \in [Loops -> 0..Attempts]
    OBVIOUS
  <2> QED  BY <1>2, <1>3, <2>1, <2>2 DEF TypeOK, Messages
<1>5. Counts'
  BY DEF Counts
<1>6. Idle'
  BY DEF Idle, Loops
<1> QED  BY <1>4, <1>5, <1>6 DEF Base

\* What the invariant says of loop l before a step.
LEMMA BaseHere ==
    ASSUME Base, NEW l \in Loops
    PROVE  /\ todo[l] \in Seq(1..Made) /\ tries[l] \in 0..Attempts /\ loop[l] \in Pcs
           /\ out[l] \in Seq(1..Made)
           /\ loop[l] # "dlq" => tries[l] < Attempts
           /\ loop[l] \in {"top", "ready", "call", "sleep"} => todo[l] = <<>>
           /\ loop[l] \in {"add", "wait", "dlq"} => todo[l] # <<>>
           /\ l = "channel" => Len(todo[l]) <= 1
           /\ l = "pull" \/ l = "channel"
           /\ todo' = todo => todo' = [todo EXCEPT ![l] = todo[l]]
           /\ tries' = tries => tries' = [tries EXCEPT ![l] = tries[l]]
           /\ <<>> \in Seq(1..Made) /\ Len(<<>>) = 0
<1>1. TypeOK /\ Counts /\ Idle
  BY DEF Base
<1>2. /\ loop[l] \in {"add", "wait", "dlq"} => todo[l] # <<>>
      /\ loop[l] # "dlq" => tries[l] < Attempts
      /\ loop[l] \in {"top", "ready", "call", "sleep"} => todo[l] = <<>>
      /\ l = "channel" => Len(todo[l]) <= 1
      /\ l = "pull" \/ l = "channel"
  BY <1>1 DEF TypeOK, Counts, Idle, Loops
<1>3. /\ todo \in [Loops -> Seq(1..Made)] /\ tries \in [Loops -> 0..Attempts]
      /\ loop \in [Loops -> Pcs] /\ out \in [Loops -> Seq(1..Made)]
  BY <1>1, Typed
<1> QED  BY <1>2, <1>3

\* A step that leaves these alone needs no more for RestOK.
LEMMA RestSame ==
    ASSUME Base, UNCHANGED <<kind, live, handler, out, dlq, resent, pullErr>>,
           queue' = queue \/ (queue # <<>> /\ queue' = Tail(queue)),
           panicked' \in {panicked, TRUE}, errs' \in {errs, TRUE},
           faults' \in {faults, faults + 1}, faults' = faults \/ faults < MaxFaults
    PROVE  RestOK
<1>1. TypeOK
  BY DEF Base
<1>2. faults' \in 0..MaxFaults /\ out' \in [Loops -> Seq(1..Made)] /\ dlq' \subseteq 1..Made
  BY <1>1, Typed, SMTT(30)
<1>3. /\ pullErr' \in BOOLEAN /\ panicked' \in BOOLEAN /\ errs' \in BOOLEAN
      /\ resent' \in [Loops -> 0..Resends]
  BY <1>1, Typed
<1> QED  BY <1>2, <1>3 DEF RestOK

\* GoLoop itself, and the steps of a loop that emit nothing.
LEMMA BaseLoops ==
    ASSUME Base, NEW l \in Loops,
           \/ GoLoop(l)
           \/ l = "channel" /\ (ChannelReceives \/ ChannelSeesCancel)
           \/ l = "pull" /\ (\/ PullCalls \/ PullSkips \/ PullPanics
                             \/ PullSkipsNil \/ PullTakesNext \/ PullAbandons \/ PullEnds)
    PROVE  Base'
<1> USE DEF Set, Goto, LoopFails, sendVars, emitVars, pullVars, stopVars, NoFault
<1>1. CASE GoLoop(l)
  <2>1. PICK to \in {"ready", "top", "done"} :
          /\ loop' = [loop EXCEPT ![l] = to] /\ UNCHANGED <<todo, tries>>
          /\ loop[l] \in {"top", "sleep"}
    BY <1>1 DEF GoLoop, LoopTop, LoopSleeps
  <2>2. Moves(l, to, todo[l], tries[l]) /\ Fits(l, to, todo[l], tries[l])
    BY <2>1, BaseHere DEF Moves, Fits, Pcs
  <2>3. RestOK
    BY <1>1, RestSame DEF GoLoop, LoopTop, LoopSleeps
  <2> QED  BY <2>2, <2>3, BaseLocal
<1>2. CASE l = "channel" /\ ChannelReceives
  <2>1. queue # <<>> /\ queue' = Tail(queue) /\ loop[l] = "ready" /\ tries' = tries
    BY <1>2 DEF ChannelReceives
  <2>2. RestOK
    BY <1>2, RestSame DEF ChannelReceives
  <2>3. CASE todo' = todo /\ loop' = [loop EXCEPT ![l] = "sleep"]
    <3>1. Moves(l, "sleep", todo[l], tries[l]) /\ Fits(l, "sleep", todo[l], tries[l])
      BY <2>1, <2>3, BaseHere DEF Moves, Fits, Pcs
    <3> QED  BY <2>2, <3>1, BaseLocal
  <2>4. CASE /\ todo' = [todo EXCEPT ![l] = <<Head(queue)>>]
             /\ loop' = [loop EXCEPT ![l] = "add"]
    <3>1. Head(queue) \in 1..Made
      BY <2>1, Typed, TailElements DEF Base
    <3>2. /\ <<Head(queue)>> \in Seq(1..Made) /\ <<Head(queue)>> # <<>>
          /\ Len(<<Head(queue)>>) = 1
      BY <3>1
    <3>3. Moves(l, "add", <<Head(queue)>>, tries[l])
      BY <2>1, <2>4, BaseHere DEF Moves
    <3>4. Fits(l, "add", <<Head(queue)>>, tries[l])
      BY <2>1, <3>2, BaseHere DEF Fits, Pcs
    <3> QED  BY <2>2, <3>3, <3>4, BaseLocal
  <2> QED  BY <1>2, <2>3, <2>4 DEF ChannelReceives
<1>3. CASE l = "channel" /\ ChannelSeesCancel
  <2>1. loop[l] = "ready" /\ loop' = [loop EXCEPT ![l] = "sleep"] /\ UNCHANGED <<todo, tries>>
    BY <1>3 DEF ChannelSeesCancel
  <2>2. Moves(l, "sleep", todo[l], tries[l]) /\ Fits(l, "sleep", todo[l], tries[l])
    BY <2>1, BaseHere DEF Moves, Fits, Pcs
  <2>3. RestOK
    BY <1>3, RestSame DEF ChannelSeesCancel
  <2> QED  BY <2>2, <2>3, BaseLocal
<1>4. CASE l = "pull" /\ (PullCalls \/ PullSkips \/ PullPanics)
  <2>1. PICK to \in {"call", "done"} :
          /\ loop' = [loop EXCEPT ![l] = to] /\ UNCHANGED <<todo, tries>>
          /\ loop[l] \in {"ready", "call"}
    BY <1>4 DEF PullCalls, PullSkips, PullPanics
  <2>2. Moves(l, to, todo[l], tries[l]) /\ Fits(l, to, todo[l], tries[l])
    BY <1>4, <2>1, BaseHere DEF Moves, Fits, Pcs
  <2>3. RestOK
    BY <1>4, RestSame DEF PullCalls, PullSkips, PullPanics, Fault
  <2> QED  BY <2>2, <2>3, BaseLocal
<1>5. CASE l = "pull" /\ (PullSkipsNil \/ PullAbandons)
  <2>1. PICK t \in {Tail(todo[l]), <<>>}, to \in {"each", "done"} :
          /\ loop' = [loop EXCEPT ![l] = to] /\ todo' = [todo EXCEPT ![l] = t]
          /\ tries' = tries /\ loop[l] = "each" /\ todo[l] # <<>>
    <3>1. CASE PullSkipsNil
      <4>1. /\ loop' = loop /\ todo' = [todo EXCEPT ![l] = Tail(todo[l])]
            /\ tries' = tries /\ loop[l] = "each" /\ todo[l] # <<>>
        BY <1>5, <3>1 DEF PullSkipsNil
      <4>2. loop' = [loop EXCEPT ![l] = "each"]
        BY <4>1, Typed DEF Base
      <4> QED  BY <4>1, <4>2
    <3>2. CASE PullAbandons
      BY <1>5, <3>2 DEF PullAbandons
    <3> QED  BY <1>5, <3>1, <3>2
  <2>2. t \in Seq(1..Made)
    <3>1. todo[l] \in Seq(1..Made) /\ <<>> \in Seq(1..Made)
      BY BaseHere
    <3>2. Tail(todo[l]) \in Seq(1..Made)
      BY <2>1, <3>1, TailElements
    <3> QED  BY <3>1, <3>2
  <2>3. Moves(l, to, t, tries[l]) /\ Fits(l, to, t, tries[l])
    BY <1>5, <2>1, <2>2, BaseHere DEF Moves, Fits, Pcs
  <2>4. RestOK
    BY <1>5, RestSame DEF PullSkipsNil, PullAbandons
  <2> QED  BY <2>3, <2>4, BaseLocal
<1>6. CASE l = "pull" /\ (PullTakesNext \/ PullEnds)
  <2>1. PICK to \in {"add", "sleep", "done"} :
          /\ loop' = [loop EXCEPT ![l] = to] /\ UNCHANGED <<todo, tries>>
          /\ loop[l] = "each" /\ (to = "add" => todo[l] # <<>>) /\ (to = "sleep" => todo[l] = <<>>)
    BY <1>6 DEF PullTakesNext, PullEnds
  <2>2. Moves(l, to, todo[l], tries[l]) /\ Fits(l, to, todo[l], tries[l])
    BY <1>6, <2>1, BaseHere DEF Moves, Fits, Pcs
  <2>3. RestOK
    BY <1>6, RestSame DEF PullTakesNext, PullEnds
  <2> QED  BY <2>2, <2>3, BaseLocal
<1> QED  BY <1>1, <1>2, <1>3, <1>4, <1>5, <1>6

\* The steps of Emit.
LEMMA BaseEmit ==
    ASSUME Base, NEW l \in Loops, Emit(l)
    PROVE  Base'
<1> USE DEF Set, Goto, sendVars, emitVars, pullVars, stopVars, NoFault
<1> DEFINE m == Head(todo[l])
<1>1. /\ loop[l] \in {"add", "wait", "dlq"}
      /\ UNCHANGED <<kind, queue, live, handler, pullErr, panicked, errs>>
  BY DEF Emit, EncodeFails, Add, AddFails, AddIsResent, RetryWakes, CopyToDlq, Settled
<1>2. /\ Tail(todo[l]) \in Seq(1..Made) /\ m \in 1..Made
      /\ l = "channel" => Tail(todo[l]) = <<>> /\ Len(Tail(todo[l])) <= 1
      /\ Append(out[l], m) \in Seq(1..Made)
  <2>1. todo[l] \in Seq(1..Made) /\ todo[l] # <<>> /\ out[l] \in Seq(1..Made)
    BY <1>1, BaseHere
  <2>2. /\ Tail(todo[l]) \in Seq(1..Made) /\ m \in 1..Made
        /\ Len(Tail(todo[l])) = Len(todo[l]) - 1 /\ Len(todo[l]) \in Nat /\ Len(todo[l]) # 0
    BY <2>1, TailElements
  <2>3. l = "channel" => Len(todo[l]) <= 1
    BY BaseHere
  <2>4. ASSUME l = "channel" PROVE Len(Tail(todo[l])) = 0
    <3> DEFINE k == Len(todo[l])
    <3>1. k \in Nat /\ k # 0 /\ k <= 1
      BY <2>2, <2>3, <2>4
    <3> HIDE DEF k
    <3>2. k - 1 = 0
      BY <3>1
    <3> QED  BY <2>2, <3>2 DEF k
  <2>5. l = "channel" => Tail(todo[l]) = <<>>
    BY <2>2, <2>4, EmptySequence
  <2>6. Append(out[l], m) \in Seq(1..Made)
    BY <2>1, <2>2
  <2>7. l = "channel" => Len(Tail(todo[l])) <= 1
    BY <2>4
  <2> QED  BY <2>2, <2>5, <2>6, <2>7
<1>3. RestOK
  <2>1. faults' = faults \/ (faults' = faults + 1 /\ faults < MaxFaults)
    BY DEF Emit, EncodeFails, Add, AddFails, AddIsResent, RetryWakes, CopyToDlq, CommandFails, Fault
  <2>2. out' = out \/ out' = [out EXCEPT ![l] = Append(out[l], m)]
    BY DEF Emit, EncodeFails, Add, AddFails, AddIsResent, RetryWakes, CopyToDlq
  <2>3. dlq' = dlq \/ dlq' = dlq \cup {m}
    BY DEF Emit, EncodeFails, Add, AddFails, AddIsResent, RetryWakes, CopyToDlq
  <2>4. faults' \in 0..MaxFaults
    BY <2>1, Typed, SMTT(30) DEF Base
  <2>5. out' \in [Loops -> Seq(1..Made)]
    BY <1>2, <2>2, Typed DEF Base
  <2>6. dlq' \subseteq 1..Made
    BY <1>2, <2>3, Typed DEF Base
  <2>7. resent' \in [Loops -> 0..Resends]
    <3>1. \/ resent' = resent \/ resent' = [resent EXCEPT ![l] = 0]
          \/ resent[l] < Resends /\ resent' = [resent EXCEPT ![l] = resent[l] + 1]
      BY DEF Emit, EncodeFails, Add, AddFails, AddIsResent, RetryWakes, CopyToDlq, Settled
    <3>2. resent \in [Loops -> 0..Resends] /\ resent[l] \in 0..Resends /\ Resends \in Nat
      BY Typed DEF Base
    <3>3. resent[l] < Resends => resent[l] + 1 \in 0..Resends
      BY <3>2
    <3> QED  BY <3>1, <3>2, <3>3
  <2> QED  BY <1>1, <2>4, <2>5, <2>6, <2>7, Typed DEF Base, RestOK
<1>4. CASE \E from \in {"add", "dlq"} : Settled(l, from)
  <2> DEFINE next == IF l = "pull" THEN "each" ELSE "sleep"
  <2>1. Moves(l, next, Tail(todo[l]), 0)
    BY <1>4 DEF Settled, Moves
  <2>2. Fits(l, next, Tail(todo[l]), 0)
    BY <1>2, BaseHere, BoundAssumption DEF Fits, Pcs
  <2> QED  BY <1>3, <2>1, <2>2, BaseLocal
<1>5. CASE AddFails(l)
  <2> DEFINE next == IF tries[l] + 1 < Attempts THEN "wait" ELSE "dlq"
  <2>1. loop[l] = "add" /\ Moves(l, next, todo[l], tries[l] + 1)
    BY <1>5, BaseHere DEF AddFails, Moves
  <2>2. Fits(l, next, todo[l], tries[l] + 1)
    BY <2>1, BaseHere, BoundAssumption DEF Fits, Pcs
  <2> QED  BY <1>3, <2>1, <2>2, BaseLocal
<1>6. CASE AddIsResent(l)
  <2>1. loop[l] = "add" /\ UNCHANGED <<loop, todo, tries>>
    BY <1>6 DEF AddIsResent
  <2>2. Moves(l, "add", todo[l], tries[l])
    BY <2>1, BaseHere, Typed DEF Base, Moves
  <2>3. Fits(l, "add", todo[l], tries[l])
    BY <2>1, BaseHere DEF Fits, Pcs
  <2> QED  BY <1>3, <2>2, <2>3, BaseLocal
<1>7. CASE RetryWakes(l)
  <2>1. PICK to \in {"add", "dlq"} :
          /\ loop[l] = "wait" /\ (to = "dlq" => ~live)
          /\ Moves(l, to, todo[l], tries[l])
    BY <1>7, BaseHere DEF RetryWakes, Moves
  <2>2. Fits(l, to, todo[l], tries[l])
    BY <2>1, BaseHere DEF Fits, Pcs
  <2> QED  BY <1>3, <2>1, <2>2, BaseLocal
<1> QED  BY <1>4, <1>5, <1>6, <1>7 DEF Emit, EncodeFails, Add, CopyToDlq

\* What was a message, or a sequence of them, still is when more are made.
LEMMA Grown ==
    ASSUME Base, Made' \in Nat, Made <= Made'
    PROVE  /\ queue \in Seq(1..Made')
           /\ \A l \in Loops : todo[l] \in Seq(1..Made') /\ out[l] \in Seq(1..Made')
           /\ todo \in [Loops -> Seq(1..Made')] /\ out \in [Loops -> Seq(1..Made')]
           /\ dlq \subseteq 1..Made'
<1>1. TypeOK
  BY DEF Base
<1>2. queue \in Seq(1..Made')
  BY <1>1, Typed, SeqMonotone
<1>3. ASSUME NEW l \in Loops PROVE todo[l] \in Seq(1..Made') /\ out[l] \in Seq(1..Made')
  <2>1. todo[l] \in Seq(1..Made) /\ out[l] \in Seq(1..Made)
    BY <1>1, Typed
  <2> QED  BY <1>1, <2>1, Typed, SeqMonotone
<1>4. todo \in [Loops -> Seq(1..Made')] /\ out \in [Loops -> Seq(1..Made')]
  BY <1>1, <1>3, Typed
<1> QED  BY <1>1, <1>2, <1>3, <1>4, Typed

\* A send into the channel.
LEMMA BaseSend == Base /\ Send => Base'
<1> SUFFICES ASSUME Base, Send PROVE Base'
  OBVIOUS
<1>1. TypeOK /\ Counts /\ Idle
  BY DEF Base
<1>2. /\ kind' \in Seq(Kinds) /\ Made' = Made + 1 /\ Made' \in Nat /\ Made <= Made'
      /\ UNCHANGED <<loop, todo, emitVars, pullVars, errs, stopVars, faults>>
      /\ queue' = Append(queue, Made + 1)
  <2>1. PICK k \in Kinds : kind' = Append(kind, k)
    BY DEF Send
  <2> QED  BY <1>1, <2>1, Typed DEF Send, Made
<1>3. queue' \in Seq(1..Made')
  BY <1>1, <1>2, Grown, Typed, SMTT(30)
<1>4. TypeOK'
  BY <1>1, <1>2, <1>3, Grown DEF TypeOK, Messages, emitVars, pullVars, stopVars
<1>5. Counts' /\ Idle'
  BY <1>1, <1>2 DEF Counts, Idle, emitVars, stopVars
<1> QED  BY <1>4, <1>5 DEF Base

\* The return of the pull method, with new messages.
LEMMA BaseReturns == Base /\ PullReturns => Base'
<1> SUFFICES ASSUME Base, PullReturns PROVE Base'
  OBVIOUS
<1> USE DEF Set, Goto
<1>1. TypeOK /\ Counts /\ Idle
  BY DEF Base
<1>2. PICK n \in 0..MaxBatch : \E ks \in [1..n -> Kinds] :
        kind' = kind \o ks /\ todo' = [todo EXCEPT !["pull"] = [i \in 1..n |-> Made + i]]
  BY DEF PullReturns
<1>3. n \in Nat
  BY <1>2, BoundAssumption
<1>4. /\ kind' \in Seq(Kinds) /\ Made' = Made + n /\ Made' \in Nat /\ Made <= Made'
      /\ UNCHANGED <<queue, emitVars, panicked, errs, stopVars, faults>>
      /\ loop["pull"] = "call" /\ loop' = [loop EXCEPT !["pull"] = "each"]
      /\ pullErr' \in BOOLEAN
  <2>1. PICK ks \in [1..n -> Kinds] : kind' = kind \o ks
    BY <1>2
  <2>2. ks \in Seq(Kinds) /\ Len(ks) = n
    BY <1>3, <2>1
  <2>3. kind \in Seq(Kinds) /\ Made \in Nat
    BY <1>1, Typed
  <2>4. kind' \in Seq(Kinds) /\ Made' = Made + n
    BY <2>1, <2>2, <2>3, ConcatElements DEF Made
  <2>5. Made' \in Nat /\ Made <= Made'
    BY <1>3, <2>3, <2>4
  <2> QED  BY <2>4, <2>5 DEF PullReturns
<1>5. [i \in 1..n |-> Made + i] \in Seq(1..Made')
  <2>1. \A i \in 1..n : Made + i \in 1..Made'
    BY <1>1, <1>3, <1>4, Typed, SMTT(30)
  <2> QED  BY <1>3, <2>1
<1>6. todo' \in [Loops -> Seq(1..Made')]
  BY <1>1, <1>2, <1>4, <1>5, Grown
<1>7. loop' \in [Loops -> Pcs]
  BY <1>1, <1>4, Typed DEF Pcs
<1>8. \A l \in Loops : loop'[l] \in {"add", "wait", "dlq"} => todo'[l] # <<>>
  BY <1>1, <1>2, <1>4, Typed DEF TypeOK
<1>9. TypeOK'
  BY <1>1, <1>4, <1>6, <1>7, <1>8, Grown DEF TypeOK, Messages, emitVars, stopVars
<1>10. Counts'
  BY <1>1, <1>4, Typed DEF Counts, emitVars, stopVars
<1>11. Idle'
  BY <1>1, <1>2, <1>4, Typed DEF Idle, Loops
<1> QED  BY <1>9, <1>10, <1>11 DEF Base

\* Every step keeps types, attempts and hands in order.
LEMMA BaseInductive == Base /\ [Next]_vars => Base'
<1> SUFFICES ASSUME Base, [Next]_vars PROVE Base'
  OBVIOUS
<1>1. CASE ChannelStep
  <2>1. "channel" \in Loops
    BY DEF Loops
  <2> QED  BY <1>1, <2>1, BaseLoops, BaseEmit DEF ChannelStep
<1>2. CASE PullStep
  <2>1. "pull" \in Loops
    BY DEF Loops
  <2> QED  BY <1>2, <2>1, BaseLoops, BaseEmit, BaseReturns DEF PullStep
<1>3. CASE Send \/ Shutdown \/ Signal
  BY <1>3, BaseSend, BaseShutdown
<1>4. CASE UNCHANGED vars
  BY <1>4 DEF vars, sendVars, emitVars, pullVars, stopVars, Base, TypeOK, Counts, Idle, Messages,
     Made
<1> QED  BY <1>1, <1>2, <1>3, <1>4 DEF Next

\* Every state of the emitters has its type.
THEOREM TypeCorrect == Spec => []TypeOK
<1>1. Base => TypeOK
  BY DEF Base
<1> QED  BY <1>1, BaseInitially, BaseInductive, PTL DEF Spec

-----------------------------------------------------------------------------
(* The ends of the loops.                                                   *)

\* A loop that has ended while the process goes on has told the shutdown
\* goroutine, or its method panicked.
THEOREM EndsAreTold == Spec => []EndIsTold
<1>1. Init => EndIsTold
  BY DEF Init, EndIsTold
<1>2. Base /\ EndIsTold /\ [Next]_vars => EndIsTold'
  <2> SUFFICES ASSUME Base, EndIsTold, [Next]_vars PROVE EndIsTold'
    OBVIOUS
  <2> USE DEF Set, Goto, LoopFails, sendVars, emitVars, pullVars, stopVars
  <2>1. loop \in [Loops -> Pcs]
    BY Typed DEF Base
  <2>2. ASSUME NEW l \in Loops, GoLoop(l) \/ Emit(l) PROVE EndIsTold'
    <3>1. UNCHANGED <<errs, handler, live, panicked>>
      BY <2>2 DEF GoLoop, LoopTop, LoopSleeps, Emit, EncodeFails, Add, AddFails, AddIsResent,
         RetryWakes, CopyToDlq
    <3>2. loop' = loop \/ \E to : loop' = [loop EXCEPT ![l] = to] /\ (to = "done" => ~live)
      BY <2>2 DEF GoLoop, LoopTop, LoopSleeps, Emit, EncodeFails, Add, AddFails, AddIsResent,
         RetryWakes, CopyToDlq, Settled
    <3> QED  BY <2>1, <3>1, <3>2 DEF EndIsTold
  <2>3. CASE ChannelReceives \/ ChannelSeesCancel
    <3>1. /\ UNCHANGED <<errs, handler, live, panicked>>
          /\ \E to \in {"sleep", "add"} : loop' = [loop EXCEPT !["channel"] = to]
      BY <2>3 DEF ChannelReceives, ChannelSeesCancel
    <3> QED  BY <2>1, <3>1 DEF EndIsTold
  <2>4. CASE PullCalls \/ PullReturns \/ PullSkipsNil \/ PullTakesNext
    <3>1. /\ UNCHANGED <<errs, handler, live, panicked>>
          /\ \/ loop' = loop
             \/ \E to \in {"call", "each", "add"} : loop' = [loop EXCEPT !["pull"] = to]
      BY <2>4 DEF PullCalls, PullReturns, PullSkipsNil, PullTakesNext
    <3> QED  BY <2>1, <3>1 DEF EndIsTold
  <2>5. CASE PullSkips \/ PullAbandons \/ PullEnds \/ PullPanics
    <3>1. /\ UNCHANGED <<handler, live>> /\ (errs => errs') /\ (panicked => panicked')
          /\ \E to \in {"sleep", "done"} :
               /\ loop' = [loop EXCEPT !["pull"] = to]
               /\ to = "done" => errs' \/ panicked'
      BY <2>5 DEF PullSkips, PullAbandons, PullEnds, PullPanics
    <3> QED  BY <2>1, <3>1 DEF EndIsTold
  <2>6. CASE Send \/ UNCHANGED vars
    BY <2>6 DEF Send, vars, EndIsTold
  <2>7. CASE Shutdown \/ Signal
    <3>1. loop' = loop /\ handler' # "select"
      BY <2>7 DEF Shutdown, HandlerTakesError, Signal, Cancel
    <3> QED  BY <3>1 DEF EndIsTold
  <2> QED
    BY <2>2, <2>3, <2>4, <2>5, <2>6, <2>7 DEF Next, ChannelStep, PullStep, Loops
<1> QED  BY <1>1, <1>2, BaseInitially, BaseInductive, PTL DEF Spec

-----------------------------------------------------------------------------
(* What has to fail before a message is lost.                               *)

\* While the process goes on, a failed attempt is a fault.
Counted == live => \A l \in Loops : tries[l] <= faults

\* A message is held by the channel or by a loop.
Held(m) == InSeq(m, queue) \/ \E l \in Loops : InSeq(m, todo[l])

\* An element of a concatenation is one of either sequence.
LEMMA InConcatenated ==
    ASSUME NEW S, NEW s \in Seq(S), NEW t \in Seq(S), NEW m
    PROVE  InSeq(m, s \o t) <=> InSeq(m, s) \/ InSeq(m, t)
<1>1. ASSUME InSeq(m, s \o t) PROVE InSeq(m, s) \/ InSeq(m, t)
  <2>1. PICK i \in 1..Len(s \o t) : (s \o t)[i] = m
    BY <1>1 DEF InSeq
  <2>2. CASE i \in 1..Len(s)
    BY <2>1, <2>2, ConcatElements DEF InSeq
  <2>3. CASE i - Len(s) \in 1..Len(t) /\ (s \o t)[i] = t[i - Len(s)]
    BY <2>1, <2>3 DEF InSeq
  <2> QED  BY <2>2, <2>3, ConcatElements
<1>2. ASSUME InSeq(m, s) PROVE InSeq(m, s \o t)
  BY <1>2, ConcatElements DEF InSeq
<1>3. ASSUME InSeq(m, t) PROVE InSeq(m, s \o t)
  <2>1. PICK i \in 1..Len(t) : t[i] = m
    BY <1>3 DEF InSeq
  <2>2. Len(s) + i \in 1..Len(s \o t) /\ (s \o t)[Len(s) + i] = m
    BY <2>1, ConcatElements
  <2> QED  BY <2>2 DEF InSeq
<1> QED  BY <1>1, <1>2, <1>3

\* Held and OnItsWay are the same ...
LEMMA HeldMeansOnItsWay ==
    ASSUME TypeOK, NEW m PROVE OnItsWay(m) <=> Held(m)
<1>1. queue \in Seq(1..Made) /\ todo["channel"] \in Seq(1..Made)
  BY Typed
<1>2. InSeq(m, Pushing) <=> InSeq(m, todo["channel"]) \/ InSeq(m, queue)
  BY <1>1, InConcatenated DEF Pushing
<1> QED  BY <1>2 DEF OnItsWay, Held, Pulling, Loops

\* ... also after a step.
LEMMA HeldMeansOnItsWayNext ==
    ASSUME TypeOK', NEW m PROVE OnItsWay(m)' <=> Held(m)'
<1>1. queue' \in Seq(Messages') /\ todo'["channel"] \in Seq(Messages')
  BY DEF TypeOK, Loops
<1>2. InSeq(m, Pushing') <=> InSeq(m, todo'["channel"]) \/ InSeq(m, queue')
  BY <1>1, InConcatenated DEF Pushing
<1> QED  BY <1>2 DEF OnItsWay, Held, Pulling, Loops, InSeq

\* An element of a sequence is its head or in its tail.
LEMMA InTail ==
    ASSUME NEW S, NEW s \in Seq(S), s # <<>>, NEW m, InSeq(m, s)
    PROVE  m = Head(s) \/ InSeq(m, Tail(s))
<1>1. PICK i \in 1..Len(s) : s[i] = m
  BY DEF InSeq
<1>2. CASE i = 1
  BY <1>1, <1>2, TailElements
<1>3. CASE i # 1
  <2>1. i - 1 \in 1..Len(Tail(s)) /\ Tail(s)[i - 1] = s[i]
    BY <1>3, TailElements
  <2> QED  BY <1>1, <2>1 DEF InSeq
<1> QED  BY <1>2, <1>3

\* A longer sequence has the new element and the old ones.
LEMMA InAppended ==
    ASSUME NEW S, NEW s \in Seq(S), NEW n \in S
    PROVE  InSeq(n, Append(s, n)) /\ \A m : InSeq(m, s) => InSeq(m, Append(s, n))
BY DEF InSeq

\* What has to be shown of a step of a living process.
LossStep ==
    /\ \A m \in Messages : kind'[m] = kind[m]
    /\ faults' \in Nat /\ faults' >= faults
    /\ \A m \in Messages : Appeared(m) => Appeared(m)'
    /\ dlq \subseteq dlq' /\ (dlq' # dlq => faults' >= Attempts)
    /\ \A m \in Messages : Held(m) =>
         Held(m)' \/ Appeared(m)' \/ m \in dlq' \/ kind[m] # "good" \/ faults' > Attempts
    /\ \A m \in Messages' \ Messages : Held(m)'

\* It is enough.
LEMMA LossKept ==
    ASSUME Base, Base', LossNeedsFailures, live' => live /\ LossStep
    PROVE  LossNeedsFailures'
<1> SUFFICES ASSUME live', NEW m \in Messages'
             PROVE  /\ m \in dlq' => faults' >= Attempts
                    /\ kind'[m] = "good" /\ ~OnItsWay(m)' /\ ~Appeared(m)' /\ m \notin dlq' =>
                         faults' > Attempts
  BY DEF LossNeedsFailures
<1>1. live /\ LossStep /\ TypeOK /\ TypeOK'
  BY DEF Base
<1>2. faults \in Nat /\ faults' \in Nat /\ faults' >= faults /\ Attempts \in Nat /\ dlq \subseteq Messages
  BY <1>1, Typed DEF LossStep, TypeOK
<1>3. m \in dlq' => faults' >= Attempts
  BY <1>1, <1>2 DEF LossStep, LossNeedsFailures
<1>4. OnItsWay(m)' <=> Held(m)'
  BY <1>1, HeldMeansOnItsWayNext
<1>5. ASSUME kind'[m] = "good", ~Held(m)', ~Appeared(m)', m \notin dlq' PROVE faults' > Attempts
  <2>1. m \in Messages /\ kind[m] = "good" /\ ~Appeared(m) /\ m \notin dlq
    BY <1>1, <1>5 DEF LossStep
  <2>2. CASE Held(m)
    BY <1>1, <1>5, <2>1, <2>2 DEF LossStep
  <2>3. CASE ~Held(m)
    BY <1>1, <1>2, <2>1, <2>3, HeldMeansOnItsWay DEF LossNeedsFailures
  <2> QED  BY <2>2, <2>3
<1> QED  BY <1>3, <1>4, <1>5

\* The facts about a state that the steps need.
LEMMA Facts ==
    ASSUME Base
    PROVE  /\ TypeOK /\ faults \in Nat /\ Attempts \in Nat \ {0} /\ queue \in Seq(1..Made)
           /\ Messages = 1..Made /\ Made \in Nat
           /\ todo \in [Loops -> Seq(1..Made)] /\ out \in [Loops -> Seq(1..Made)]
           /\ \A l \in Loops : todo[l] \in Seq(1..Made) /\ out[l] \in Seq(1..Made)
           /\ "pull" \in Loops /\ "channel" \in Loops
<1>1. TypeOK
  BY DEF Base
<1> QED  BY <1>1, Typed DEF Messages

\* Steps that move no message.
LEMMA LossQuiet ==
    ASSUME Base, UNCHANGED <<kind, queue, todo, out, dlq>>, faults' \in {faults, faults + 1}
    PROVE  LossStep
<1>1. Messages' = Messages
  BY DEF Messages, Made
<1> QED  BY <1>1, Facts DEF LossStep, Appeared, Held, InSeq

\* What it is to be held or to have appeared, before and after a step.
LEMMA Places ==
    \A m :
        /\ Held(m) <=> InSeq(m, queue) \/ \E l \in Loops : InSeq(m, todo[l])
        /\ Held(m)' <=> InSeq(m, queue') \/ \E l \in Loops : InSeq(m, todo'[l])
        /\ Appeared(m) <=> \E l \in Loops : InSeq(m, out[l])
        /\ Appeared(m)' <=> \E l \in Loops : InSeq(m, out'[l])
BY DEF Held, Appeared, InSeq, Loops

\* Steps that make messages.
LEMMA LossMakes ==
    ASSUME Base, Send \/ PullReturns
    PROVE  LossStep
<1> USE DEF Set, Goto, emitVars, stopVars
<1>1. faults' = faults /\ out' = out /\ dlq' = dlq
  BY DEF Send, PullReturns
<1>2. \A m : Appeared(m) => Appeared(m)'
  BY <1>1 DEF Appeared, InSeq
<1>3. CASE Send
  <2>1. PICK k \in Kinds : kind' = Append(kind, k)
    BY <1>3 DEF Send
  <2>2. kind \in Seq(Kinds)
    BY Facts, Typed
  <2>3. /\ Made' = Made + 1 /\ \A m \in Messages : kind'[m] = kind[m]
        /\ Messages' \ Messages \subseteq {Made + 1}
    BY <2>1, <2>2, Facts DEF Made, Messages
  <2>4. todo' = todo /\ queue' = Append(queue, Made + 1)
    BY <1>3 DEF Send
  <2>5. queue \in Seq(1..(Made + 1)) /\ Made + 1 \in 1..(Made + 1)
    BY Facts, SeqMonotone
  <2>6. InSeq(Made + 1, queue') /\ \A m : InSeq(m, queue) => InSeq(m, queue')
    BY <2>4, <2>5, InAppended
  <2>7. \A m : Held(m) => Held(m)'
    BY <2>4, <2>6, Places
  <2>8. \A m \in Messages' \ Messages : Held(m)'
    <3> SUFFICES ASSUME NEW m \in Messages' \ Messages PROVE Held(m)'
      OBVIOUS
    <3>1. m = Made + 1
      BY <2>3
    <3> QED  BY <2>6, <3>1, Places
  <2> QED  BY <1>1, <1>2, <2>3, <2>7, <2>8, Facts DEF LossStep
<1>4. CASE PullReturns
  <2>1. PICK n \in 0..MaxBatch : \E ks \in [1..n -> Kinds] :
          kind' = kind \o ks /\ todo' = [todo EXCEPT !["pull"] = [i \in 1..n |-> Made + i]]
    BY <1>4 DEF PullReturns
  <2>2. \A s, t \in Seq(Kinds) :
           Len(s \o t) = Len(s) + Len(t) /\ \A i \in 1..Len(s) : (s \o t)[i] = s[i]
    BY ConcatElements
  <2>3. PICK ks \in [1..n -> Kinds] : kind' = kind \o ks
    BY <2>1
  <2>4. kind \in Seq(Kinds) /\ n \in Nat /\ ks \in Seq(Kinds) /\ Len(ks) = n
    <3>1. n \in Nat
      BY BoundAssumption
    <3>2. kind \in Seq(Kinds)
      BY Facts, Typed
    <3> QED  BY <2>3, <3>1, <3>2, Typed
  <2>5. Made' = Made + n /\ \A m \in Messages : kind'[m] = kind[m]
    <3>1. Len(kind \o ks) = Len(kind) + n /\ \A i \in 1..Len(kind) : (kind \o ks)[i] = kind[i]
      BY <2>4, <2>2
    <3> QED  BY <2>3, <3>1 DEF Made, Messages
  <2>6. queue' = queue /\ loop["pull"] = "call"
    BY <1>4 DEF PullReturns
  <2>7. todo["pull"] = <<>>
    BY <2>6, BaseHere, Facts
  <2>8. \A m : ~InSeq(m, <<>>)
    BY DEF InSeq
  <2>9. \A m : Held(m) => Held(m)'
    BY <2>1, <2>6, <2>7, <2>8, Facts DEF Held, InSeq
  <2>10. \A m \in Messages' \ Messages : Held(m)'
    <3> SUFFICES ASSUME NEW m \in Messages' \ Messages PROVE Held(m)'
      OBVIOUS
    <3>1. m - Made \in 1..n /\ m = Made + (m - Made)
      BY <2>4, <2>5, Facts DEF Messages
    <3>2. /\ todo'["pull"] = [i \in 1..n |-> Made + i]
          /\ Len([i \in 1..n |-> Made + i]) = n
      BY <2>1, <2>4, Facts
    <3>3. InSeq(m, todo'["pull"])
      BY <3>1, <3>2 DEF InSeq
    <3> QED  BY <3>3, Facts DEF Held, InSeq
  <2> QED  BY <1>1, <1>2, <2>5, <2>9, <2>10, Facts DEF LossStep
<1> QED  BY <1>3, <1>4

\* The channel loop receives a message: a nil one is dropped, another is in
\* its hands.
LEMMA LossReceives ==
    ASSUME Base, ChannelReceives
    PROVE  LossStep
<1> USE DEF Set, Goto, emitVars
<1>1. /\ UNCHANGED <<kind, out, dlq, faults>> /\ queue # <<>> /\ queue' = Tail(queue)
      /\ loop["channel"] = "ready"
  BY DEF ChannelReceives
<1>2. todo["channel"] = <<>> /\ \A m : ~InSeq(m, <<>>)
  BY <1>1, BaseHere, Facts DEF InSeq
<1>3. kind[Head(queue)] # "good" \/ todo' = [todo EXCEPT !["channel"] = <<Head(queue)>>]
  BY DEF ChannelReceives
<1>4. todo' = todo \/ todo' = [todo EXCEPT !["channel"] = <<Head(queue)>>]
  BY DEF ChannelReceives
<1>5. \A l \in Loops : todo[l] # <<>> => todo'[l] = todo[l]
  BY <1>2, <1>4, Facts
<1>6. \A m : InSeq(m, queue) => m = Head(queue) \/ InSeq(m, queue')
  BY <1>1, Facts, InTail
<1>7. ASSUME NEW m, Held(m) PROVE Held(m)' \/ kind[m] # "good"
  <2>1. CASE InSeq(m, queue)
    <3>1. CASE m # Head(queue)
      BY <1>6, <2>1, <3>1, Places
    <3>2. CASE m = Head(queue) /\ kind[m] = "good"
      <4>1. todo'["channel"] = <<m>>
        BY <1>3, <3>2, Facts
      <4>2. InSeq(m, <<m>>)
        BY DEF InSeq
      <4>3. InSeq(m, todo'["channel"])
        BY <4>1, <4>2
      <4> QED  BY <4>3, Places, Facts
    <3> QED  BY <3>1, <3>2
  <2>2. CASE \E l \in Loops : InSeq(m, todo[l])
    BY <1>2, <1>5, <2>2, Places
  <2> QED  BY <1>7, <2>1, <2>2, Places
<1>8. Messages' = Messages
  BY <1>1 DEF Messages, Made
<1>9. \A m : Appeared(m) => Appeared(m)'
  BY <1>1 DEF Appeared, InSeq
<1> QED  BY <1>1, <1>7, <1>8, <1>9, Facts DEF LossStep

\* A loop is done with the first message in its hands, which is now in a
\* stream, cannot be encoded, or has had enough failures.
Disposes(l) ==
    /\ todo[l] # <<>> /\ todo' = [todo EXCEPT ![l] = Tail(todo[l])]
    /\ UNCHANGED <<kind, queue>> /\ faults' \in {faults, faults + 1}
    /\ out' = out \/ out' = [out EXCEPT ![l] = Append(out[l], Head(todo[l]))]
    /\ dlq' = dlq \/ (dlq' = dlq \cup {Head(todo[l])} /\ faults' >= Attempts)
    /\ \/ kind[Head(todo[l])] # "good" \/ out' # out
       \/ Head(todo[l]) \in dlq' \/ faults' > Attempts

\* Such a step loses nothing without failures.
LEMMA LossSettles ==
    ASSUME Base, NEW l \in Loops, Disposes(l)
    PROVE  LossStep
<1> USE DEF Disposes
<1> DEFINE h == Head(todo[l])
<1>1. h \in 1..Made /\ Messages' = Messages /\ (dlq' # dlq => faults' >= Attempts)
  BY Facts, TailElements DEF Messages, Made
<1>2. InSeq(h, Append(out[l], h)) /\ \A m : InSeq(m, out[l]) => InSeq(m, Append(out[l], h))
  BY <1>1, Facts, InAppended
<1>3. \A k \in Loops : \A m : InSeq(m, out[k]) => InSeq(m, out'[k])
  BY <1>2, Facts
<1>4. \A m : Appeared(m) => Appeared(m)'
  BY <1>3, Places
<1>5. \A m : m = h /\ out' # out => Appeared(m)'
  <2>1. out' # out => InSeq(h, out'[l])
    BY <1>2, Facts
  <2> QED  BY <2>1, Places
<1>6. \A m : InSeq(m, todo[l]) => m = h \/ InSeq(m, Tail(todo[l]))
  BY Facts, InTail
<1>7. \A k \in Loops : \A m : InSeq(m, todo[k]) => m = h \/ InSeq(m, todo'[k])
  BY <1>6, Facts
<1>8. \A m : Held(m) => Held(m)' \/ m = h
  <2> SUFFICES ASSUME NEW m, Held(m), m # h PROVE Held(m)'
    OBVIOUS
  <2>1. InSeq(m, queue') \/ \E k \in Loops : InSeq(m, todo'[k])
    BY <1>7, Places
  <2> QED  BY <2>1, Places
<1> QED  BY <1>1, <1>4, <1>5, <1>8, Facts, SMTT(30) DEF LossStep

\* A failed XADD may have added the entry all the same.
LEMMA LossAddFails ==
    ASSUME Base, NEW l \in Loops, AddFails(l) \/ AddIsResent(l)
    PROVE  LossStep
<1> USE DEF Set, Goto
<1>1. /\ UNCHANGED <<kind, queue, todo, dlq>> /\ faults' \in {faults, faults + 1}
      /\ loop[l] = "add"
      /\ out' = out \/ out' = [out EXCEPT ![l] = Append(out[l], Head(todo[l]))]
  BY DEF AddFails, AddIsResent, CommandFails, Fault, NoFault, sendVars
<1>2. todo[l] # <<>> /\ Head(todo[l]) \in 1..Made /\ Messages' = Messages
  BY <1>1, BaseHere, Facts, TailElements DEF Messages, Made
<1>3. \A m : InSeq(m, out[l]) => InSeq(m, Append(out[l], Head(todo[l])))
  BY <1>2, Facts, InAppended
<1>4. \A k \in Loops : \A m : InSeq(m, out[k]) => InSeq(m, out'[k])
  BY <1>1, <1>3, Facts
<1>5. \A m : Appeared(m) => Appeared(m)'
  BY <1>4, Places
<1>6. \A m : Held(m) => Held(m)'
  BY <1>1, Places
<1> QED  BY <1>1, <1>2, <1>5, <1>6, Facts, SMTT(30) DEF LossStep

\* The steps of Emit of a living process.
LEMMA LossEmits ==
    ASSUME Base, Counted, live, NEW l \in Loops, Emit(l)
    PROVE  LossStep
<1> USE DEF Set, Goto, Settled, NoFault, sendVars, emitVars, pullVars
<1>1. loop[l] \in {"add", "wait", "dlq"} /\ todo[l] # <<>>
  BY BaseHere DEF Emit, EncodeFails, Add, AddFails, AddIsResent, RetryWakes, CopyToDlq
<1>2. CASE EncodeFails(l)
  <2>1. /\ UNCHANGED <<kind, queue, out, dlq, faults>> /\ todo' = [todo EXCEPT ![l] = Tail(todo[l])]
        /\ kind[Head(todo[l])] # "good"
    BY <1>2 DEF EncodeFails
  <2>2. Disposes(l)
    BY <1>1, <2>1 DEF Disposes
  <2> QED  BY <2>2, LossSettles
<1>3. CASE Add(l)
  <2>1. out' = [out EXCEPT ![l] = Append(out[l], Head(todo[l]))] /\ UNCHANGED <<kind, queue, dlq, faults>>
        /\ todo' = [todo EXCEPT ![l] = Tail(todo[l])]
    BY <1>3 DEF Add
  <2>2. Append(out[l], Head(todo[l])) # out[l]
    <3>1. out[l] \in Seq(1..Made) /\ Head(todo[l]) \in 1..Made
      BY <1>1, Facts, TailElements
    <3>2. Len(Append(out[l], Head(todo[l]))) # Len(out[l])
      BY <3>1
    <3> QED  BY <3>2
  <2>3. out' # out
    BY <2>1, <2>2, Facts
  <2>4. Disposes(l)
    BY <1>1, <2>1, <2>3 DEF Disposes
  <2> QED  BY <2>4, LossSettles
<1>4. CASE AddFails(l) \/ AddIsResent(l)
  BY <1>4, LossAddFails
<1>5. CASE RetryWakes(l)
  BY <1>5, LossQuiet DEF RetryWakes
<1>6. CASE CopyToDlq(l)
  <2>1. /\ UNCHANGED <<kind, queue, out>> /\ todo' = [todo EXCEPT ![l] = Tail(todo[l])]
        /\ \/ dlq' = dlq \cup {Head(todo[l])} /\ faults' = faults
           \/ dlq' = dlq /\ faults' = faults + 1
        /\ loop[l] = "dlq"
    BY <1>6 DEF CopyToDlq, CommandFails, Fault
  <2>2. tries[l] = Attempts /\ tries[l] <= faults
    BY <2>1 DEF Counted, Base, Counts
  <2>3. faults >= Attempts /\ faults + 1 > Attempts
    BY <2>2, Facts
  <2>4. Disposes(l)
    BY <1>1, <2>1, <2>3 DEF Disposes
  <2> QED  BY <2>4, LossSettles
<1> QED  BY <1>2, <1>3, <1>4, <1>5, <1>6 DEF Emit

\* Every step of a living process.
LEMMA LossSteps ==
    ASSUME Base, Counted, [Next]_vars, live'
    PROVE  live /\ LossStep
<1> USE DEF Set, Goto, LoopFails, sendVars, emitVars, pullVars, stopVars
<1>1. live
  BY DEF Next, Send, ChannelStep, PullStep, Shutdown, Signal, GoLoop, LoopTop, LoopSleeps,
     ChannelReceives, ChannelSeesCancel, Emit, EncodeFails, Add, AddFails, AddIsResent, RetryWakes,
     CopyToDlq, PullCalls, PullSkips, PullReturns, PullPanics, PullSkipsNil, PullTakesNext,
     PullAbandons, PullEnds, HandlerTakesError, Cancel, vars
<1> SUFFICES LossStep
  BY <1>1
<1>2. ASSUME NEW l \in Loops, GoLoop(l) PROVE LossStep
  BY <1>2, LossQuiet DEF GoLoop, LoopTop, LoopSleeps
<1>3. CASE ChannelSeesCancel \/ PullCalls \/ PullSkips \/ PullPanics \/ PullTakesNext \/ PullEnds
  BY <1>3, LossQuiet DEF ChannelSeesCancel, PullCalls, PullSkips, PullPanics, PullTakesNext,
     PullEnds, Fault
<1>4. CASE HandlerTakesError \/ Signal
  BY <1>4, LossQuiet DEF HandlerTakesError, Signal
<1>5. CASE Cancel
  BY <1>1, <1>5 DEF Cancel
<1>6. CASE PullAbandons
  BY <1>1, <1>6 DEF PullAbandons
<1>7. CASE UNCHANGED vars
  BY <1>7, LossQuiet DEF vars
<1>8. CASE PullSkipsNil
  <2>1. /\ todo["pull"] # <<>> /\ todo' = [todo EXCEPT !["pull"] = Tail(todo["pull"])]
        /\ kind[Head(todo["pull"])] # "good" /\ UNCHANGED <<kind, queue, out, dlq, faults>>
    BY <1>8 DEF PullSkipsNil
  <2>2. Disposes("pull")
    BY <2>1 DEF Disposes
  <2> QED  BY <2>2, Facts, LossSettles
<1>9. CASE Send \/ PullReturns
  BY <1>9, LossMakes
<1>10. CASE ChannelReceives
  BY <1>10, LossReceives
<1>11. ASSUME NEW l \in Loops, Emit(l) PROVE LossStep
  BY <1>1, <1>11, LossEmits
<1> QED
  BY <1>1, <1>2, <1>3, <1>4, <1>5, <1>6, <1>7, <1>8, <1>9, <1>10, <1>11
     DEF Next, ChannelStep, PullStep, Shutdown, Loops

\* A failed attempt of a living process is a fault.
LEMMA CountedNext == Base /\ Counted /\ [Next]_vars => Counted'
<1> SUFFICES ASSUME Base, Counted, [Next]_vars, live' PROVE \A l \in Loops : tries'[l] <= faults'
  BY DEF Counted
<1> USE DEF Set, Goto, LoopFails, sendVars, emitVars, pullVars, stopVars
<1>1. /\ live /\ faults' >= faults /\ faults' \in Nat /\ faults \in Nat
      /\ tries \in [Loops -> 0..Attempts] /\ Attempts \in Nat
  BY LossSteps, Facts, Typed DEF LossStep
<1>2. \A l \in Loops : tries[l] \in Nat /\ tries[l] <= faults /\ tries[l] <= faults'
  BY <1>1 DEF Counted
<1>3. CASE tries' = tries
  BY <1>2, <1>3
<1>4. ASSUME NEW l \in Loops, Emit(l) PROVE \A k \in Loops : tries'[k] <= faults'
  <2>1. CASE AddFails(l)
    <3>1. tries' = [tries EXCEPT ![l] = tries[l] + 1] /\ faults' = faults + 1
      BY <1>1, <2>1 DEF AddFails, CommandFails, Fault
    <3>2. tries[l] + 1 <= faults'
      BY <1>1, <1>2, <3>1
    <3> QED  BY <1>1, <1>2, <3>1, <3>2
  <2>2. CASE tries' = tries \/ tries' = [tries EXCEPT ![l] = 0]
    BY <1>1, <1>2, <2>2
  <2> QED
    BY <1>4, <2>1, <2>2 DEF Emit, EncodeFails, Add, AddIsResent, RetryWakes, CopyToDlq, Settled
<1>5. tries' = tries \/ \E l \in Loops : Emit(l)
  BY DEF Next, Send, ChannelStep, PullStep, Shutdown, Signal, GoLoop, LoopTop, LoopSleeps,
     ChannelReceives, ChannelSeesCancel, PullCalls, PullSkips, PullReturns, PullPanics,
     PullSkipsNil, PullTakesNext, PullAbandons, PullEnds, HandlerTakesError, Cancel, vars, Loops
<1> QED  BY <1>3, <1>4, <1>5

\* While the process goes on, no message is given up before all attempts
\* failed, nor lost before the copy to the dead-letter stream failed too.
THEOREM LossNeeds == Spec => []LossNeedsFailures
<1>1. Init => Counted /\ LossNeedsFailures
  BY DEF Init, Counted, LossNeedsFailures, Messages, Made
<1>2. Base /\ Counted /\ LossNeedsFailures /\ [Next]_vars => LossNeedsFailures'
  BY BaseInductive, LossSteps, LossKept
<1> QED  BY <1>1, <1>2, BaseInitially, BaseInductive, CountedNext, PTL DEF Spec

-----------------------------------------------------------------------------
(* Each stream is fed like a LossyQueue.                                    *)

Rising(s) == \A i, j \in 1..Len(s) : i < j => s[i] < s[j]

\* A step that makes no message, as the queue w with the stream d sees it.
Drains(w, w2, d, d2) ==
    \/ w2 = w /\ d2 = d
    \/ w # <<>> /\ w2 = Tail(w) /\ d2 = d
    \/ w # <<>> /\ w2 \in {w, Tail(w)} /\ d2 = Append(d, Head(w))
    \/ w2 = <<>> /\ d2 = d

\* A step that may make messages, and put some of them into the queue.
Grows(w, w2, d, d2) ==
    /\ d2 = d /\ Made' >= Made
    /\ Len(w2) >= Len(w) /\ \A i \in 1..Len(w) : w2[i] = w[i]
    /\ \A i \in (Len(w) + 1)..Len(w2) : w2[i] \in (Made + 1)..Made'
    /\ Rising(w2)

Fed(w, w2, d, d2) == (Made' = Made /\ Drains(w, w2, d, d2)) \/ Grows(w, w2, d, d2)

\* A queue in order stays so as it is drained.
LEMMA StaysRising ==
    ASSUME NEW w \in Seq(Nat), NEW w2, NEW d, NEW d2, Rising(w), Fed(w, w2, d, d2)
    PROVE  Rising(w2)
<1>1. CASE w # <<>> /\ w2 = Tail(w)
  BY <1>1, TailElements DEF Rising
<1>2. CASE w2 = <<>>
  <2>1. 1..Len(w2) = {}
    BY <1>2
  <2> QED  BY <2>1 DEF Rising
<1> QED  BY <1>1, <1>2 DEF Fed, Drains, Grows

\* A queue that only sees that messages are made elsewhere.
LEMMA GrowsElsewhere ==
    ASSUME NEW w \in Seq(Nat), NEW d, Rising(w), Made' >= Made
    PROVE  Fed(w, w, d, d)
<1>1. (Len(w) + 1)..Len(w) = {}
  OBVIOUS
<1> QED  BY <1>1 DEF Fed, Grows

\* A sequence of messages is one of numbers.
LEMMA Numbers ==
    ASSUME NEW m \in Nat, NEW s \in Seq(1..m)
    PROVE  s \in Seq(Nat) /\ \A i \in 1..Len(s) : s[i] <= m /\ s[i] \in Nat
OBVIOUS

\* A loop that emits takes from the head of what it has in its hands.
LEMMA EmitDrains ==
    ASSUME Base, NEW l \in Loops, Emit(l)
    PROVE  /\ todo[l] # <<>> /\ Made' = Made /\ queue' = queue
           /\ \E t \in {todo[l], Tail(todo[l])} : todo' = [todo EXCEPT ![l] = t]
           /\ \/ out' = out
              \/ out' = [out EXCEPT ![l] = Append(out[l], Head(todo[l]))]
<1> USE DEF Set, Goto, Settled, sendVars, emitVars, pullVars
<1>1. loop[l] \in {"add", "wait", "dlq"} /\ kind' = kind /\ queue' = queue
  BY DEF Emit, EncodeFails, Add, AddFails, AddIsResent, RetryWakes, CopyToDlq
<1>2. todo[l] # <<>> /\ Made' = Made
  BY <1>1, BaseHere DEF Made
<1>3. todo' = todo \/ todo' = [todo EXCEPT ![l] = Tail(todo[l])]
  BY DEF Emit, EncodeFails, Add, AddFails, AddIsResent, RetryWakes, CopyToDlq
<1>4. todo = [todo EXCEPT ![l] = todo[l]]
  BY Facts
<1>5. out' = out \/ out' = [out EXCEPT ![l] = Append(out[l], Head(todo[l]))]
  BY DEF Emit, EncodeFails, Add, AddFails, AddIsResent, RetryWakes, CopyToDlq
<1> QED  BY <1>1, <1>2, <1>3, <1>4, <1>5

\* What the other loop has and has emitted stays as it is.
LEMMA EmitElsewhere ==
    ASSUME Base, NEW l \in Loops, Emit(l), NEW k \in Loops, k # l
    PROVE  /\ Made' = Made /\ queue' = queue
           /\ todo'[k] = todo[k] /\ out'[k] = out[k]
<1>1. PICK t \in {todo[l], Tail(todo[l])} : todo' = [todo EXCEPT ![l] = t]
  BY EmitDrains
<1>2. todo \in [Loops -> Seq(1..Made)] /\ out \in [Loops -> Seq(1..Made)]
  BY Facts
<1>3. todo'[k] = todo[k]
  BY <1>1, <1>2
<1>4. Made' = Made /\ queue' = queue
  BY EmitDrains
<1>5. out'[k] = out[k]
  <2>1. out' = out \/ out' = [out EXCEPT ![l] = Append(out[l], Head(todo[l]))]
    BY EmitDrains
  <2> QED  BY <1>2, <2>1
<1> QED  BY <1>3, <1>4, <1>5

\* The messages of a batch are new and in order.
LEMMA PullGrows ==
    ASSUME Base, PullReturns
    PROVE  Grows(todo["pull"], todo'["pull"], out["pull"], out'["pull"]) /\ Made' \in Nat /\ Made' >= Made
<1> USE DEF Set, Goto
<1>1. PICK n \in 0..MaxBatch : \E ks \in [1..n -> Kinds] :
        kind' = kind \o ks /\ todo' = [todo EXCEPT !["pull"] = [i \in 1..n |-> Made + i]]
  BY DEF PullReturns
<1>2. \A s, t \in Seq(Kinds) : Len(s \o t) = Len(s) + Len(t)
  BY ConcatElements
<1>3. PICK ks \in [1..n -> Kinds] : kind' = kind \o ks
  BY <1>1
<1>4. kind \in Seq(Kinds) /\ n \in Nat /\ ks \in Seq(Kinds) /\ Len(ks) = n
  BY <1>3, Facts, Typed, BoundAssumption
<1>5. Made' = Made + n
  BY <1>2, <1>3, <1>4 DEF Made
<1>6. todo["pull"] = <<>> /\ out' = out
  <2>1. loop["pull"] = "call" /\ out' = out
    BY DEF PullReturns, emitVars
  <2> QED  BY <2>1, BaseHere, Facts
<1>7. todo'["pull"] = [i \in 1..n |-> Made + i] /\ Len(todo'["pull"]) = n
  BY <1>1, <1>4, Facts
<1>8. /\ \A i \in 1..n : todo'["pull"][i] = Made + i /\ Made + i \in (Made + 1)..Made'
      /\ Len(<<>>) = 0 /\ Made \in Nat /\ Made' >= Made
  BY <1>4, <1>5, <1>7, Facts
<1>9. Rising(todo'["pull"])
  BY <1>4, <1>7, <1>8, Facts DEF Rising
<1> QED  BY <1>4, <1>5, <1>6, <1>7, <1>8, <1>9 DEF Grows

\* What the pull loop and its stream see of a step.
LEMMA PullFed ==
    ASSUME Base, Rising(Pulling), [Next]_vars
    PROVE  Fed(Pulling, Pulling', out["pull"], out'["pull"]) /\ Made' \in Nat
<1> USE DEF Set, Goto, LoopFails, sendVars, emitVars, pullVars, Pulling
<1>1. todo["pull"] \in Seq(Nat) /\ Made \in Nat /\ todo \in [Loops -> Seq(1..Made)]
  BY Facts, Numbers
<1>2. CASE Emit("pull")
  BY <1>1, <1>2, EmitDrains, Facts, SMTT(30) DEF Fed, Drains
<1>3. CASE Emit("channel")
  <2>1. todo'["pull"] = todo["pull"] /\ out'["pull"] = out["pull"] /\ Made' = Made
    BY <1>3, EmitElsewhere, Facts
  <2> QED  BY <1>1, <2>1 DEF Fed, Drains
<1>4. CASE PullReturns
  BY <1>4, PullGrows DEF Fed
<1>5. CASE Send
  <2>1. Made' = Made + 1
    <3>1. PICK k \in Kinds : kind' = Append(kind, k)
      BY <1>5 DEF Send
    <3> QED  BY <3>1, Facts, Typed DEF Made
  <2>2. todo' = todo /\ out' = out
    BY <1>5 DEF Send
  <2> QED  BY <1>1, <2>1, <2>2, GrowsElsewhere
<1>6. CASE PullSkipsNil \/ PullAbandons
  <2>1. /\ kind' = kind /\ out' = out /\ todo["pull"] # <<>>
        /\ \E t \in {Tail(todo["pull"]), <<>>} : todo' = [todo EXCEPT !["pull"] = t]
    BY <1>6 DEF PullSkipsNil, PullAbandons
  <2> QED  BY <1>1, <2>1, Facts DEF Fed, Drains, Made
<1>7. CASE /\ kind' = kind /\ out' = out
           /\ todo' = todo \/ \E t : todo' = [todo EXCEPT !["channel"] = t]
  <2>1. todo'["pull"] = todo["pull"] /\ Made' = Made
    BY <1>1, <1>7, Facts DEF Made
  <2> QED  BY <1>1, <1>7, <2>1 DEF Fed, Drains
<1>8. \/ Emit("pull") \/ Emit("channel") \/ PullReturns \/ Send \/ PullSkipsNil \/ PullAbandons
      \/ /\ kind' = kind /\ out' = out
         /\ todo' = todo \/ \E t : todo' = [todo EXCEPT !["channel"] = t]
  BY DEF Next, ChannelStep, PullStep, Shutdown, Signal, GoLoop, LoopTop, LoopSleeps,
     ChannelReceives, ChannelSeesCancel, PullCalls, PullSkips, PullPanics, PullTakesNext,
     PullEnds, HandlerTakesError, Cancel, vars
<1> QED  BY <1>2, <1>3, <1>4, <1>5, <1>6, <1>7, <1>8

\* The pull loop feeds its stream in order: a batch from its first message,
\* one batch after the other.
THEOREM PullRefines == Spec => PullKeepsOrder
<1>1. Init => Pulled!Init /\ Rising(Pulling)
  BY DEF Init, Pulled!Init, Pulling, Made, Rising, Loops
<1>2. Base /\ Rising(Pulling) /\ [Next]_vars =>
        Rising(Pulling)' /\ [Pulled!Next]_<<Made, Pulling, out["pull"]>>
  <2> SUFFICES ASSUME Base, Base', Rising(Pulling), [Next]_vars
               PROVE  Rising(Pulling') /\ [Pulled!Next]_<<Made, Pulling, out["pull"]>>
    BY BaseInductive DEF Rising
  <2>1. Pulling \in Seq(Nat) /\ Made \in Nat
    BY Facts, Numbers DEF Pulling
  <2>2. Fed(Pulling, Pulling', out["pull"], out'["pull"]) /\ Made' \in Nat
    BY PullFed
  <2>3. Pulling' \in Seq(Nat)
    <3>1. todo'["pull"] \in Seq(1..Made')
      BY DEF Base, TypeOK, Messages, Loops
    <3> QED  BY <2>2, <3>1, Numbers DEF Pulling
  <2>4. Rising(Pulling')
    BY <2>1, <2>2, StaysRising
  <2>5. [Pulled!Next]_<<Made, Pulling, out["pull"]>>
    BY <2>2, <2>3 DEF Fed, Drains, Grows, Rising, Pulled!Next, Pulled!Put, Pulled!Deliver,
       Pulled!Settle, Pulled!Abandon, Pulled!Extends, Pulled!Increasing
  <2> QED  BY <2>4, <2>5
<1> QED  BY <1>1, <1>2, BaseInitially, BaseInductive, PTL DEF Spec, PullKeepsOrder, Pulled!Spec

\* A head joined to its tail is the sequence.
LEMMA HeadJoined ==
    ASSUME NEW S, NEW s \in Seq(S), s # <<>>
    PROVE  <<Head(s)>> \o Tail(s) = s
<1>1. Len(s) \in Nat \ {0} /\ Head(s) = s[1]
  BY TailElements
<1>2. 1 \in 1..Len(s) /\ Len(s) \in 1..Len(s)
  BY <1>1
<1>3. SubSeq(s, 1, Len(s)) = <<s[1]>> \o SubSeq(s, 1 + 1, Len(s))
  BY <1>2, SubSeqRecursiveFirst
<1>4. Tail(s) = SubSeq(s, 2, Len(s)) /\ SubSeq(s, 1, Len(s)) = s
  BY TailIsSubSeq, SubSeqFull
<1>5. 1 + 1 = 2
  OBVIOUS
<1> QED  BY <1>1, <1>3, <1>4, <1>5

\* A sequence of one element before another.
LEMMA OneBefore ==
    ASSUME NEW S, NEW s \in Seq(S), NEW t \in Seq(S), s # <<>>, Len(s) <= 1
    PROVE  /\ s \o t # <<>> /\ Head(s \o t) = Head(s)
           /\ Tail(s) \o t = t /\ Tail(s \o t) = t
<1> DEFINE u == s \o t
           n == Len(s)
<1>1. n \in Nat \ {0} /\ n <= 1 /\ Head(s) = s[1] /\ Tail(s) \in Seq(S) /\ Len(Tail(s)) = n - 1
  BY TailElements
<1>2. n = 1 /\ n - 1 = 0
  <2> HIDE DEF n
  <2> QED  BY <1>1
<1>3. Tail(s) = <<>>
  BY <1>1, <1>2, EmptySequence
<1>4. Tail(s) \o t = t
  BY <1>3, ConcatEmptySeq
<1>5. u # <<>> /\ u \in Seq(S) /\ Len(u) = 1 + Len(t) /\ Len(t) \in Nat
  BY <1>2, ConcatEqualIffEmpty, ConcatElements
<1>6. u[1] = s[1] /\ \A i \in 1..Len(t) : u[1 + i] = t[i]
  <2>1. 1 \in 1..n
    BY <1>2
  <2>2. u[1] = s[1] /\ \A i \in 1..Len(t) : u[n + i] = t[i]
    BY <2>1, ConcatElements
  <2> HIDE DEF u, n
  <2> QED  BY <1>2, <2>2
<1>7. /\ Head(u) = u[1] /\ Tail(u) \in Seq(S) /\ Len(Tail(u)) = Len(u) - 1
      /\ \A i \in 1..Len(Tail(u)) : Tail(u)[i] = u[i + 1]
  <2> HIDE DEF u
  <2> QED  BY <1>5, TailElements
<1>8. Tail(u) = t
  <2> HIDE DEF u
  <2>1. Len(Tail(u)) = Len(t)
    BY <1>5, <1>7
  <2>2. \A i \in 1..Len(Tail(u)) : Tail(u)[i] = t[i]
    BY <1>6, <1>7, <2>1
  <2> QED  BY <1>7, <2>1, <2>2, SeqEqual
<1> QED  BY <1>1, <1>4, <1>5, <1>6, <1>7, <1>8

\* An element appended to the second of two sequences.
LEMMA AppendJoined ==
    ASSUME NEW S, NEW s \in Seq(S), NEW t \in Seq(S), NEW x \in S
    PROVE  s \o Append(t, x) = Append(s \o t, x)
<1>1. s \o t \in Seq(S) /\ <<x>> \in Seq(S)
  BY ConcatElements
<1>2. Append(t, x) = t \o <<x>> /\ Append(s \o t, x) = (s \o t) \o <<x>>
  BY <1>1, AppendIsConcat
<1>3. (s \o t) \o <<x>> = s \o (t \o <<x>>)
  BY <1>1, ConcatAssociative
<1> QED  BY <1>2, <1>3

\* What the channel and its stream see of a step.
LEMMA PushFed ==
    ASSUME Base, Rising(Pushing), [Next]_vars
    PROVE  Fed(Pushing, Pushing', out["channel"], out'["channel"]) /\ Made' \in Nat
<1> USE DEF Set, Goto, LoopFails, sendVars, emitVars, pullVars
<1>1. /\ todo["channel"] \in Seq(1..Made) /\ queue \in Seq(1..Made) /\ Made \in Nat
      /\ Pushing \in Seq(1..Made) /\ Pushing \in Seq(Nat)
      /\ Len(todo["channel"]) <= 1
  BY Facts, Numbers, ConcatElements, BaseHere DEF Pushing
<1>2. Pushing' = todo'["channel"] \o queue'
  BY DEF Pushing
<1>3. CASE Emit("channel")
  <2>1. /\ todo["channel"] # <<>> /\ Made' = Made /\ queue' = queue
        /\ todo'["channel"] \in {todo["channel"], Tail(todo["channel"])}
        /\ \/ out'["channel"] = out["channel"]
           \/ out'["channel"] = Append(out["channel"], Head(todo["channel"]))
    BY <1>3, EmitDrains, Facts, SMTT(30)
  <2>2. /\ Pushing # <<>> /\ Head(Pushing) = Head(todo["channel"])
        /\ Tail(todo["channel"]) \o queue = Tail(Pushing)
    <3>1. \A s, t \in Seq(1..Made) :
            s # <<>> /\ Len(s) <= 1 =>
              s \o t # <<>> /\ Head(s \o t) = Head(s) /\ Tail(s) \o t = Tail(s \o t)
      BY OneBefore
    <3> QED  BY <1>1, <2>1, <3>1 DEF Pushing
  <2>3. Pushing' \in {Pushing, Tail(Pushing)}
    BY <1>2, <2>1, <2>2 DEF Pushing
  <2> QED  BY <1>1, <2>1, <2>2, <2>3 DEF Fed, Drains
<1>4. CASE Emit("pull")
  <2>1. /\ todo'["channel"] = todo["channel"] /\ out'["channel"] = out["channel"] /\ Made' = Made
        /\ queue' = queue
    BY <1>4, EmitElsewhere, Facts
  <2> QED  BY <1>1, <1>2, <2>1 DEF Fed, Drains, Pushing
<1>5. CASE PullReturns
  <2>1. Made' \in Nat /\ Made' >= Made
    BY <1>5, PullGrows
  <2>2. out' = out /\ queue' = queue /\ todo'["channel"] = todo["channel"]
    <3>1. \E t : todo' = [todo EXCEPT !["pull"] = t]
      BY <1>5 DEF PullReturns
    <3> QED  BY <1>5, <3>1, Facts DEF PullReturns
  <2> QED  BY <1>1, <1>2, <2>1, <2>2, GrowsElsewhere DEF Pushing
<1>6. CASE Send
  <2>1. Made' = Made + 1
    <3>1. PICK k \in Kinds : kind' = Append(kind, k)
      BY <1>6 DEF Send
    <3> QED  BY <3>1, Facts, Typed DEF Made
  <2>2. todo' = todo /\ out' = out /\ queue' = Append(queue, Made + 1)
    BY <1>6 DEF Send
  <2>3. Pushing' = Append(Pushing, Made + 1)
    <3>1. todo["channel"] \in Seq(Nat) /\ queue \in Seq(Nat) /\ Made + 1 \in Nat
      BY <1>1, Numbers
    <3>2. \A s, t \in Seq(Nat), x \in Nat : s \o Append(t, x) = Append(s \o t, x)
      BY AppendJoined
    <3> QED  BY <1>2, <2>2, <3>1, <3>2 DEF Pushing
  <2>4. \A i \in 1..Len(Pushing) : Pushing[i] \in Nat /\ Pushing[i] <= Made
    BY <1>1, Numbers
  <2>5. Grows(Pushing, Pushing', out["channel"], out'["channel"])
    <3> DEFINE w == Pushing
    <3>1. w \in Seq(Nat) /\ Rising(w) /\ \A i \in 1..Len(w) : w[i] \in Nat /\ w[i] <= Made
      BY <1>1, <2>4
    <3> HIDE DEF w
    <3>2. /\ Len(Append(w, Made + 1)) = Len(w) + 1
          /\ \A i \in 1..Len(w) : Append(w, Made + 1)[i] = w[i]
          /\ Append(w, Made + 1)[Len(w) + 1] = Made + 1
      BY <1>1, <3>1
    <3>3. \A i \in 1..(Len(w) + 1) : i \in 1..Len(w) \/ i = Len(w) + 1
      BY <3>1
    <3>4. Rising(Append(w, Made + 1))
      BY <1>1, <3>1, <3>2, <3>3 DEF Rising
    <3>5. Grows(w, Append(w, Made + 1), out["channel"], out'["channel"])
      BY <1>1, <2>1, <2>2, <3>1, <3>2, <3>4 DEF Grows
    <3> QED  BY <2>3, <3>5 DEF w
  <2> QED  BY <1>1, <2>1, <2>5 DEF Fed
<1>7. CASE ChannelReceives
  <2>1. /\ kind' = kind /\ out' = out /\ queue # <<>> /\ queue' = Tail(queue)
        /\ loop["channel"] = "ready"
        /\ todo' = todo \/ todo' = [todo EXCEPT !["channel"] = <<Head(queue)>>]
    BY <1>7 DEF ChannelReceives
  <2>2. todo["channel"] = <<>> /\ Made' = Made
    BY <2>1, BaseHere, Facts DEF Made
  <2>3. Pushing = queue /\ Tail(queue) \in Seq(1..Made)
    BY <1>1, <2>1, <2>2, ConcatEmptySeq, TailElements DEF Pushing
  <2>4. CASE todo' = todo
    <3>1. Pushing' = Tail(Pushing)
      BY <1>2, <2>1, <2>2, <2>3, <2>4, ConcatEmptySeq
    <3> QED  BY <1>1, <2>1, <2>2, <2>3, <3>1 DEF Fed, Drains
  <2>5. CASE todo' = [todo EXCEPT !["channel"] = <<Head(queue)>>]
    <3>1. todo'["channel"] = <<Head(queue)>>
      BY <2>5, Facts
    <3>2. Pushing' = Pushing
      BY <1>1, <1>2, <2>1, <2>3, <3>1, HeadJoined
    <3> QED  BY <1>1, <2>1, <2>2, <3>2 DEF Fed, Drains
  <2> QED  BY <2>1, <2>4, <2>5
<1>8. CASE UNCHANGED <<kind, queue, out>> /\ (todo' = todo \/ \E t : todo' = [todo EXCEPT !["pull"] = t])
  <2>1. todo'["channel"] = todo["channel"] /\ Made' = Made
    BY <1>8, Facts DEF Made
  <2> QED  BY <1>1, <1>2, <1>8, <2>1 DEF Fed, Drains, Pushing
<1>9. \/ Emit("channel") \/ Emit("pull") \/ PullReturns \/ Send \/ ChannelReceives
      \/ UNCHANGED <<kind, queue, out>> /\ (todo' = todo \/ \E t : todo' = [todo EXCEPT !["pull"] = t])
  BY DEF Next, ChannelStep, PullStep, Shutdown, Signal, GoLoop, LoopTop, LoopSleeps,
     ChannelSeesCancel, PullCalls, PullSkips, PullPanics, PullSkipsNil, PullTakesNext,
     PullAbandons, PullEnds, HandlerTakesError, Cancel, vars
<1> QED  BY <1>3, <1>4, <1>5, <1>6, <1>7, <1>8, <1>9

\* The channel feeds its stream in the order of the sends.
THEOREM PushRefines == Spec => PushKeepsOrder
<1>1. Init => Pushed!Init /\ Rising(Pushing)
  <2> SUFFICES ASSUME Init PROVE Pushed!Init /\ Rising(Pushing)
    OBVIOUS
  <2>1. Pushing = <<>> \o <<>> /\ Made = 0 /\ out["channel"] = <<>>
    BY DEF Init, Pushing, Made, Loops
  <2>2. <<>> \in Seq(Nat)
    OBVIOUS
  <2>3. Pushing = <<>>
    BY <2>1, <2>2, ConcatEmptySeq
  <2> QED  BY <2>1, <2>3 DEF Pushed!Init, Rising
<1>2. Base /\ Rising(Pushing) /\ [Next]_vars =>
        Rising(Pushing)' /\ [Pushed!Next]_<<Made, Pushing, out["channel"]>>
  <2> SUFFICES ASSUME Base, Base', Rising(Pushing), [Next]_vars
               PROVE  Rising(Pushing') /\ [Pushed!Next]_<<Made, Pushing, out["channel"]>>
    BY BaseInductive DEF Rising
  <2>1. Pushing \in Seq(Nat) /\ Made \in Nat
    <3>1. Pushing \in Seq(1..Made) /\ Made \in Nat
      BY Facts, ConcatElements DEF Pushing
    <3> QED  BY <3>1, Numbers
  <2>2. Fed(Pushing, Pushing', out["channel"], out'["channel"]) /\ Made' \in Nat
    BY PushFed
  <2>3. Pushing' \in Seq(Nat)
    <3>1. todo'["channel"] \in Seq(1..Made') /\ queue' \in Seq(1..Made')
      BY DEF Base, TypeOK, Messages, Loops
    <3>2. Pushing' \in Seq(1..Made')
      BY <3>1, ConcatElements DEF Pushing
    <3> QED  BY <2>2, <3>2, Numbers
  <2>4. Rising(Pushing')
    BY <2>1, <2>2, StaysRising
  <2>5. [Pushed!Next]_<<Made, Pushing, out["channel"]>>
    BY <2>2, <2>3 DEF Fed, Drains, Grows, Rising, Pushed!Next, Pushed!Put, Pushed!Deliver,
       Pushed!Settle, Pushed!Abandon, Pushed!Extends, Pushed!Increasing
  <2> QED  BY <2>4, <2>5
<1> QED  BY <1>1, <1>2, BaseInitially, BaseInductive, PTL DEF Spec, PushKeepsOrder, Pushed!Spec

\* Both streams keep the order of the messages.
THEOREM StreamsRefine == Spec => StreamsKeepOrder
BY PushRefines, PullRefines DEF StreamsKeepOrder

-----------------------------------------------------------------------------
(* How often a message appears on its stream.                               *)

\* How often XADD has been sent for the first message of a loop, each time in
\* vain, and how often it may be.
Sent(l) == tries[l] + resent[l]
Sends == Attempts + Resends

\* It is never sent more often.
LEMMA SentSoFar ==
    ASSUME Base
    PROVE  /\ Sends \in Nat /\ \A l \in Loops : Sent(l) \in 0..Sends /\ Sent(l) \in Nat
           /\ \A l \in Loops : loop[l] = "add" => Sent(l) < Sends
<1>1. /\ Attempts \in Nat /\ Resends \in Nat
      /\ \A l \in Loops : tries[l] \in 0..Attempts /\ resent[l] \in 0..Resends
  BY Typed DEF Base
<1>2. \A l \in Loops : loop[l] = "add" => tries[l] < Attempts
  BY DEF Base, Counts
<1> QED  BY <1>1, <1>2 DEF Sent, Sends

LEMMA SentSoFarNext ==
    ASSUME Base'
    PROVE  \A l \in Loops : Sent(l)' \in 0..Sends /\ Sent(l)' \in Nat
<1>1. /\ Attempts \in Nat /\ Resends \in Nat
      /\ \A l \in Loops : tries'[l] \in 0..Attempts /\ resent'[l] \in 0..Resends
  BY BoundAssumption DEF Base, TypeOK
<1> QED  BY <1>1 DEF Sent, Sends

\* A stream d, the queue w that feeds it, and t, how often its head was sent.
Copies(w, d, t) ==
    /\ w # <<>> => \A i \in 1..Len(d) : /\ d[i] <= w[1]
                                        /\ d[i] = w[1] => Len(d) - i + 1 <= t /\ Len(d) - i + 1 <= faults
    /\ \A i, j \in 1..Len(d) : i <= j /\ d[i] = d[j] => j - i < Sends /\ j - i <= faults

\* What that has to do with a step of the loop.
Tallied(w, w2, d, d2, t, t2) ==
    /\ faults' \in {faults, faults + 1}
    /\ t2 >= t \/ (w # <<>> /\ w2 = Tail(w))
    /\ \/ d2 = d
       \/ /\ w # <<>> /\ t < Sends /\ d2 = Append(d, Head(w))
          /\ w2 = Tail(w) \/ (w2 = w /\ t2 = t + 1 /\ faults' = faults + 1)

\* A stream that gets nothing, while more faults are counted.
LEMMA PairsKept ==
    ASSUME NEW w, NEW d \in Seq(Nat), NEW t, Copies(w, d, t),
           faults \in Nat, faults' \in {faults, faults + 1}
    PROVE  \A i, j \in 1..Len(d) : i <= j /\ d[i] = d[j] => j - i < Sends /\ j - i <= faults'
<1>1. \A i, j \in 1..Len(d) : i <= j => (j - i <= faults => j - i <= faults')
  OBVIOUS
<1> QED  BY <1>1 DEF Copies

\* The queue goes on to a later message, of which the stream has no copy.
LEMMA CopiesPassed ==
    ASSUME NEW w \in Seq(Nat), NEW d \in Seq(Nat), NEW t, NEW t2, Copies(w, d, t), Rising(w), w # <<>>,
           faults \in Nat, faults' \in {faults, faults + 1}
    PROVE  Copies(Tail(w), d, t2)'
<1>1. /\ Len(Tail(w)) = Len(w) - 1 /\ Len(w) \in Nat \ {0}
      /\ \A i \in 1..Len(Tail(w)) : i + 1 \in 1..Len(w) /\ Tail(w)[i] = w[i + 1]
  BY TailElements
<1>2. \A i \in 1..Len(d) : d[i] \in Nat /\ d[i] <= w[1]
  BY DEF Copies
<1>3. ASSUME Tail(w) # <<>> PROVE Tail(w)[1] \in Nat /\ w[1] \in Nat /\ w[1] < Tail(w)[1]
  <2>1. Len(Tail(w)) # 0 /\ Tail(w) \in Seq(Nat)
    BY <1>3, TailElements, EmptySequence
  <2>2. 1 \in 1..Len(Tail(w)) /\ 1 \in 1..Len(w) /\ 2 \in 1..Len(w) /\ 1 + 1 = 2
    BY <1>1, <2>1
  <2>3. Tail(w)[1] = w[2] /\ w[1] < w[2]
    BY <1>1, <2>2 DEF Rising
  <2> QED  BY <2>2, <2>3
<1>4. Tail(w) # <<>> => \A i \in 1..Len(d) : d[i] < Tail(w)[1] /\ d[i] # Tail(w)[1] /\ d[i] <= Tail(w)[1]
  BY <1>2, <1>3, SMTT(30)
<1> QED  BY <1>4, PairsKept DEF Copies

\* The head of the queue appears on the stream.
LEMMA CopiesAdded ==
    ASSUME NEW w \in Seq(Nat), NEW d \in Seq(Nat), NEW t \in Nat, Copies(w, d, t), w # <<>>, t < Sends,
           faults \in Nat, faults' \in {faults, faults + 1}, Sends \in Nat
    PROVE  LET e == Append(d, Head(w)) IN
           /\ \A i \in 1..Len(e) : /\ e[i] <= w[1]
                                   /\ e[i] = w[1] => Len(e) - i <= t /\ Len(e) - i <= faults
           /\ \A i, j \in 1..Len(e) : i <= j /\ e[i] = e[j] => j - i < Sends /\ j - i <= faults'
<1> DEFINE e == Append(d, Head(w))
<1>1. Head(w) = w[1] /\ w[1] \in Nat
  BY TailElements
<1>2. /\ Len(e) = Len(d) + 1 /\ Len(d) \in Nat
      /\ \A i \in 1..Len(d) : e[i] = d[i]
      /\ e[Len(d) + 1] = w[1]
  BY <1>1
<1> HIDE DEF e
<1>3. \A i \in 1..Len(e) : i \in 1..Len(d) \/ i = Len(d) + 1
  BY <1>2
<1>4. ASSUME NEW i \in 1..Len(e)
      PROVE  e[i] <= w[1] /\ (e[i] = w[1] => Len(e) - i <= t /\ Len(e) - i <= faults)
  <2>1. CASE i \in 1..Len(d)
    <3>1. e[i] = d[i] /\ d[i] <= w[1] /\ Len(e) - i = Len(d) - i + 1
      BY <1>2, <2>1 DEF Copies
    <3>2. d[i] = w[1] => Len(d) - i + 1 <= t /\ Len(d) - i + 1 <= faults
      BY <2>1 DEF Copies
    <3> QED  BY <3>1, <3>2
  <2>2. CASE i = Len(d) + 1
    BY <1>1, <1>2, <2>2
  <2> QED  BY <1>3, <2>1, <2>2
<1>5. ASSUME NEW i \in 1..Len(e), NEW j \in 1..Len(e), i <= j, e[i] = e[j]
      PROVE  j - i < Sends /\ j - i <= faults'
  <2>1. CASE j \in 1..Len(d)
    <3>1. i \in 1..Len(d)
      BY <1>2, <1>5, <2>1
    <3> QED  BY <1>2, <1>5, <2>1, <3>1, PairsKept
  <2>2. CASE j = Len(d) + 1
    <3>1. e[i] = w[1] /\ j = Len(e)
      BY <1>2, <1>5, <2>2
    <3>2. j - i <= t /\ j - i <= faults
      BY <1>4, <3>1
    <3> QED  BY <1>2, <3>2
  <2> QED  BY <1>3, <2>1, <2>2
<1> QED  BY <1>4, <1>5 DEF e

\* A step of a loop keeps the count of the copies.
LEMMA CopiesKept ==
    ASSUME NEW w \in Seq(Nat), NEW d \in Seq(1..Made), NEW t \in Nat, NEW w2 \in Seq(Nat), NEW d2,
           NEW t2 \in Nat, Made \in Nat, Made' \in Nat, faults \in Nat, Sends \in Nat, Rising(w),
           Copies(w, d, t), Fed(w, w2, d, d2), Tallied(w, w2, d, d2, t, t2)
    PROVE  Copies(w2, d2, t2)'
<1>1. d \in Seq(Nat) /\ faults' \in {faults, faults + 1} /\ \A i \in 1..Len(d) : d[i] \in Nat /\ d[i] <= Made
  BY Numbers DEF Tallied
<1>2. \A i, j \in 1..Len(d) : i <= j /\ d[i] = d[j] => j - i < Sends /\ j - i <= faults'
  BY <1>1, PairsKept
<1>3. CASE w # <<>> /\ w2 = Tail(w) /\ d2 = d
  BY <1>1, <1>3, CopiesPassed
<1>4. CASE w2 = <<>> /\ d2 = d
  BY <1>2, <1>4 DEF Copies
<1>5. CASE w2 = w /\ d2 = d /\ t2 >= t
  <2>1. \A i \in 1..Len(d) : Len(d) - i + 1 \in Int
    OBVIOUS
  <2>2. w # <<>> => \A i \in 1..Len(d) :
          d[i] <= w[1] /\ (d[i] = w[1] => Len(d) - i + 1 <= t2 /\ Len(d) - i + 1 <= faults')
    BY <1>1, <1>5, <2>1 DEF Copies
  <2> QED  BY <1>2, <1>5, <2>2 DEF Copies
<1>6. CASE Grows(w, w2, d, d2) /\ t2 >= t
  <2>1. CASE w = <<>>
    <3>1. ASSUME w2 # <<>> PROVE w2[1] > Made
      <4>1. Len(w) = 0 /\ Len(w2) # 0
        BY <2>1, <3>1, EmptySequence
      <4>2. 1 \in (Len(w) + 1)..Len(w2)
        BY <4>1
      <4> QED  BY <1>6, <4>2 DEF Grows
    <3>2. w2 # <<>> => w2[1] \in Nat
      BY EmptySequence
    <3>3. w2 # <<>> => \A i \in 1..Len(d) : d[i] <= w2[1] /\ d[i] # w2[1]
      BY <1>1, <3>1, <3>2, SMTT(30)
    <3> QED  BY <1>2, <1>6, <3>3 DEF Copies, Grows
  <2>2. CASE w # <<>>
    <3>1. 1 \in 1..Len(w)
      BY <2>2, TailElements
    <3>2. w2[1] = w[1] /\ d2 = d
      BY <1>6, <3>1 DEF Grows
    <3>3. \A i \in 1..Len(d) : Len(d) - i + 1 \in Int
      OBVIOUS
    <3>4. \A i \in 1..Len(d) :
            d[i] <= w[1] /\ (d[i] = w[1] => Len(d) - i + 1 <= t2 /\ Len(d) - i + 1 <= faults')
      BY <1>1, <1>6, <2>2, <3>3 DEF Copies
    <3> QED  BY <1>2, <3>2, <3>4 DEF Copies
  <2> QED  BY <2>1, <2>2
<1>7. CASE d2 = d
  BY <1>3, <1>4, <1>5, <1>6, <1>7 DEF Fed, Drains, Tallied
<1>8. CASE d2 # d
  <2>1. /\ w # <<>> /\ t < Sends /\ d2 = Append(d, Head(w))
        /\ w2 = Tail(w) \/ (w2 = w /\ t2 = t + 1 /\ faults' = faults + 1)
    BY <1>8 DEF Tallied
  <2>2. /\ \A i \in 1..Len(d2) : /\ d2[i] <= w[1]
                                 /\ d2[i] = w[1] => Len(d2) - i <= t /\ Len(d2) - i <= faults
        /\ \A i, j \in 1..Len(d2) : i <= j /\ d2[i] = d2[j] => j - i < Sends /\ j - i <= faults'
    BY <1>1, <2>1, CopiesAdded
  <2>3. d2 \in Seq(Nat) /\ Len(d2) \in Nat
    <3>1. Head(w) \in Nat
      BY <2>1, TailElements
    <3> QED  BY <1>1, <2>1, <3>1
  <2>4. CASE w2 = Tail(w)
    <3>1. \A i \in 1..Len(d2) : d2[i] \in Nat /\ d2[i] <= w[1]
      BY <2>2, <2>3, SMTT(30)
    <3>2. w2 # <<>> => w2[1] \in Nat /\ w[1] \in Nat /\ w[1] < w2[1]
      <4> SUFFICES ASSUME w2 # <<>> PROVE w2[1] \in Nat /\ w[1] \in Nat /\ w[1] < w2[1]
        OBVIOUS
      <4>1. /\ Len(w2) = Len(w) - 1 /\ Len(w) \in Nat \ {0}
            /\ \A i \in 1..Len(w2) : i + 1 \in 1..Len(w) /\ w2[i] = w[i + 1]
        BY <2>1, <2>4, TailElements
      <4>2. Len(w2) # 0
        BY EmptySequence
      <4>3. 1 \in 1..Len(w2) /\ 1 \in 1..Len(w) /\ 2 \in 1..Len(w) /\ 1 + 1 = 2
        BY <4>1, <4>2
      <4>4. w2[1] = w[2] /\ w[1] < w[2]
        BY <4>1, <4>3 DEF Rising
      <4> QED  BY <4>3, <4>4, SMTT(30)
    <3>3. ASSUME w2 # <<>>, NEW i \in 1..Len(d2) PROVE d2[i] <= w2[1] /\ d2[i] # w2[1]
      <4>1. /\ d2[i] \in Nat /\ d2[i] <= w[1]
            /\ w2[1] \in Nat /\ w[1] \in Nat /\ w[1] < w2[1]
        BY <3>1, <3>2, <3>3
      <4>2. \A x, y, z \in Nat : x <= y /\ y < z => x <= z /\ x # z
        OBVIOUS
      <4> QED  BY <4>1, <4>2
    <3> QED  BY <2>2, <3>3 DEF Copies
  <2>5. CASE w2 = w /\ t2 = t + 1 /\ faults' = faults + 1
    <3>1. \A i \in 1..Len(d2) : d2[i] = w[1] => Len(d2) - i + 1 <= t2 /\ Len(d2) - i + 1 <= faults'
      BY <2>2, <2>3, <2>5, SMTT(30)
    <3> QED  BY <2>2, <2>5, <3>1 DEF Copies
  <2> QED  BY <2>1, <2>4, <2>5
<1> QED  BY <1>7, <1>8

\* What a loop that emits does to its attempts and to its stream.
LEMMA EmitTallies ==
    ASSUME Base, NEW l \in Loops, Emit(l)
    PROVE  Tallied(todo[l], todo'[l], out[l], out'[l], Sent(l), Sent(l)')
<1> USE DEF Set, Goto, Settled, sendVars, emitVars, pullVars
<1>1. /\ todo \in [Loops -> Seq(1..Made)] /\ out \in [Loops -> Seq(1..Made)]
      /\ tries \in [Loops -> 0..Attempts] /\ resent \in [Loops -> 0..Resends]
      /\ tries[l] \in Nat /\ resent[l] \in Nat /\ Sent(l) \in Nat /\ faults \in Nat
  <2>1. tries \in [Loops -> 0..Attempts] /\ resent \in [Loops -> 0..Resends]
    BY Facts, Typed
  <2>2. tries[l] \in Nat /\ resent[l] \in Nat
    BY <2>1, Facts, Typed
  <2> QED  BY <2>1, <2>2, Facts, SentSoFar
<1>2. todo[l] # <<>>
  BY EmitDrains
<1>3. loop[l] = "add" => Sent(l) < Sends
  BY SentSoFar
<1>4. faults' \in {faults, faults + 1}
  BY DEF Emit, EncodeFails, Add, AddFails, AddIsResent, RetryWakes, CopyToDlq, CommandFails, Fault,
     NoFault
<1>5. CASE EncodeFails(l) \/ CopyToDlq(l)
  <2>1. todo'[l] = Tail(todo[l]) /\ out' = out
    BY <1>1, <1>5 DEF EncodeFails, CopyToDlq
  <2> QED  BY <1>2, <1>4, <2>1 DEF Tallied
<1>6. CASE Add(l)
  <2>1. loop[l] = "add" /\ todo'[l] = Tail(todo[l]) /\ out'[l] = Append(out[l], Head(todo[l]))
    BY <1>1, <1>6 DEF Add
  <2> QED  BY <1>2, <1>3, <1>4, <2>1 DEF Tallied
<1>7. CASE AddFails(l) \/ AddIsResent(l)
  <2>1. /\ loop[l] = "add" /\ todo' = todo
        /\ \/ tries'[l] = tries[l] + 1 /\ resent'[l] = resent[l]
           \/ tries'[l] = tries[l] /\ resent'[l] = resent[l] + 1
    BY <1>1, <1>7 DEF AddFails, AddIsResent
  <2>2. \/ out' = out
        \/ faults' = faults + 1 /\ out'[l] = Append(out[l], Head(todo[l]))
    BY <1>1, <1>7 DEF AddFails, AddIsResent, CommandFails, Fault
  <2>3. Sent(l)' = Sent(l) + 1 /\ Sent(l)' >= Sent(l)
    BY <1>1, <2>1 DEF Sent
  <2> QED  BY <1>2, <1>3, <1>4, <2>1, <2>2, <2>3 DEF Tallied
<1>8. CASE RetryWakes(l)
  <2>1. out' = out /\ Sent(l)' = Sent(l)
    BY <1>8 DEF RetryWakes, Sent
  <2> QED  BY <1>1, <1>4, <2>1 DEF Tallied
<1> QED  BY <1>5, <1>6, <1>7, <1>8 DEF Emit

\* Every other step leaves a loop's attempts and its stream alone.
LEMMA RestTallies ==
    ASSUME Base, NEW l \in Loops, [Next]_vars, ~Emit(l)
    PROVE  faults' \in {faults, faults + 1} /\ Sent(l)' = Sent(l) /\ out'[l] = out[l]
<1> USE DEF Set, Goto, Settled, LoopFails, sendVars, emitVars, pullVars, stopVars
<1>1. /\ out \in [Loops -> Seq(1..Made)]
      /\ tries \in [Loops -> 0..Attempts] /\ resent \in [Loops -> 0..Resends]
  BY Facts, Typed
<1>2. ASSUME NEW k \in Loops, Emit(k)
      PROVE  faults' \in {faults, faults + 1} /\ Sent(l)' = Sent(l) /\ out'[l] = out[l]
  <2>1. faults' \in {faults, faults + 1}
    BY <1>2 DEF Emit, EncodeFails, Add, AddFails, AddIsResent, RetryWakes, CopyToDlq, CommandFails,
       Fault, NoFault
  <2>2. out' = out \/ \E s : out' = [out EXCEPT ![k] = s]
    BY <1>2 DEF Emit, EncodeFails, Add, AddFails, AddIsResent, RetryWakes, CopyToDlq
  <2>3. tries' = tries \/ \E n : tries' = [tries EXCEPT ![k] = n]
    BY <1>2 DEF Emit, EncodeFails, Add, AddFails, AddIsResent, RetryWakes, CopyToDlq
  <2>4. resent' = resent \/ \E n : resent' = [resent EXCEPT ![k] = n]
    BY <1>2 DEF Emit, EncodeFails, Add, AddFails, AddIsResent, RetryWakes, CopyToDlq
  <2>5. k # l
    BY <1>2
  <2>6. out'[l] = out[l] /\ tries'[l] = tries[l] /\ resent'[l] = resent[l]
    BY <1>1, <2>2, <2>3, <2>4, <2>5
  <2> QED  BY <2>1, <2>6 DEF Sent
<1>3. \/ \E k \in Loops : Emit(k)
      \/ faults' \in {faults, faults + 1} /\ tries' = tries /\ resent' = resent /\ out' = out
  BY DEF Next, Send, ChannelStep, PullStep, Shutdown, Signal, GoLoop, LoopTop, LoopSleeps,
     ChannelReceives, ChannelSeesCancel, PullCalls, PullSkips, PullReturns, PullPanics,
     PullSkipsNil, PullTakesNext, PullAbandons, PullEnds, HandlerTakesError, Cancel, vars, Loops,
     Fault
<1> QED  BY <1>2, <1>3 DEF Sent

\* What the attempts of the pull loop have to do with a step.
LEMMA PullTallied ==
    ASSUME Base, [Next]_vars
    PROVE  Tallied(Pulling, Pulling', out["pull"], out'["pull"], Sent("pull"), Sent("pull")')
<1>1. "pull" \in Loops /\ Sent("pull") \in Nat
  BY Facts, SentSoFar
<1>2. CASE Emit("pull")
  BY <1>1, <1>2, EmitTallies DEF Pulling
<1>3. CASE ~Emit("pull")
  <2>1. faults' \in {faults, faults + 1} /\ Sent("pull")' = Sent("pull") /\ out'["pull"] = out["pull"]
    BY <1>1, <1>3, RestTallies
  <2> QED  BY <1>1, <2>1 DEF Tallied
<1> QED  BY <1>2, <1>3

\* The same for the loop of the channel.
LEMMA PushTallied ==
    ASSUME Base, [Next]_vars
    PROVE  Tallied(Pushing, Pushing', out["channel"], out'["channel"], Sent("channel"), Sent("channel")')
<1>1. "channel" \in Loops /\ Sent("channel") \in Nat
  BY Facts, SentSoFar
<1>2. CASE Emit("channel")
  <2>1. /\ todo["channel"] # <<>> /\ queue' = queue
        /\ todo["channel"] \in Seq(1..Made) /\ queue \in Seq(1..Made) /\ Len(todo["channel"]) <= 1
    BY <1>1, <1>2, EmitDrains, Facts, BaseHere
  <2>2. /\ Pushing # <<>> /\ Head(Pushing) = Head(todo["channel"])
        /\ Tail(todo["channel"]) \o queue = Tail(Pushing)
    <3>1. \A s, t \in Seq(1..Made) :
            s # <<>> /\ Len(s) <= 1 =>
              s \o t # <<>> /\ Head(s \o t) = Head(s) /\ Tail(s) \o t = Tail(s \o t)
      BY OneBefore
    <3> QED  BY <2>1, <3>1 DEF Pushing
  <2>3. Pushing' = todo'["channel"] \o queue
    BY <2>1 DEF Pushing
  <2>4. /\ todo'["channel"] = todo["channel"] => Pushing' = Pushing
        /\ todo'["channel"] = Tail(todo["channel"]) => Pushing' = Tail(Pushing)
    BY <2>2, <2>3 DEF Pushing
  <2>5. Tallied(todo["channel"], todo'["channel"], out["channel"], out'["channel"],
                Sent("channel"), Sent("channel")')
    BY <1>1, <1>2, EmitTallies
  <2> QED  BY <2>2, <2>4, <2>5 DEF Tallied
<1>3. CASE ~Emit("channel")
  <2>1. /\ faults' \in {faults, faults + 1}
        /\ Sent("channel")' = Sent("channel") /\ out'["channel"] = out["channel"]
    BY <1>1, <1>3, RestTallies
  <2> QED  BY <1>1, <2>1 DEF Tallied
<1> QED  BY <1>2, <1>3

\* The copies on both streams, with what the loops hold in order.
Copied ==
    /\ Rising(Pulling) /\ Copies(Pulling, out["pull"], Sent("pull"))
    /\ Rising(Pushing) /\ Copies(Pushing, out["channel"], Sent("channel"))

\* Every step keeps the count of the copies.
LEMMA CopiedInductive == Base /\ Copied /\ [Next]_vars => Copied'
<1> SUFFICES ASSUME Base, Base', Copied, [Next]_vars PROVE Copied'
  BY BaseInductive
<1>1. /\ Made \in Nat /\ faults \in Nat /\ Sends \in Nat
      /\ out["pull"] \in Seq(1..Made) /\ out["channel"] \in Seq(1..Made)
      /\ Sent("pull") \in Nat /\ Sent("channel") \in Nat
  BY Facts, SentSoFar
<1>2. /\ Made' \in Nat /\ Sent("pull")' \in Nat /\ Sent("channel")' \in Nat
      /\ todo'["pull"] \in Seq(1..Made') /\ todo'["channel"] \in Seq(1..Made') /\ queue' \in Seq(1..Made')
  <2>1. /\ todo'["pull"] \in Seq(1..Made') /\ todo'["channel"] \in Seq(1..Made')
        /\ queue' \in Seq(1..Made')
    BY DEF Base, TypeOK, Messages, Loops
  <2>2. Made' \in Nat
    BY PullFed DEF Copied
  <2>3. Sent("pull")' \in Nat /\ Sent("channel")' \in Nat
    BY SentSoFarNext DEF Loops
  <2> QED  BY <2>1, <2>2, <2>3
<1>3. Rising(Pulling') /\ Copies(Pulling, out["pull"], Sent("pull"))'
  <2>1. Pulling \in Seq(Nat) /\ Pulling' \in Seq(Nat) /\ Rising(Pulling)
        /\ Copies(Pulling, out["pull"], Sent("pull"))
    BY <1>2, Facts, Numbers DEF Pulling, Copied
  <2>2. Fed(Pulling, Pulling', out["pull"], out'["pull"])
    BY <2>1, PullFed
  <2>3. Rising(Pulling')
    BY <2>1, <2>2, StaysRising
  <2> QED  BY <1>1, <1>2, <2>1, <2>2, <2>3, PullTallied, CopiesKept
<1>4. Rising(Pushing') /\ Copies(Pushing, out["channel"], Sent("channel"))'
  <2>1. Pushing \in Seq(1..Made) /\ Pushing' \in Seq(1..Made')
    BY <1>2, Facts, ConcatElements DEF Pushing
  <2>2. Pushing \in Seq(Nat) /\ Pushing' \in Seq(Nat) /\ Rising(Pushing)
        /\ Copies(Pushing, out["channel"], Sent("channel"))
    BY <1>1, <1>2, <2>1, Numbers DEF Copied
  <2>3. Fed(Pushing, Pushing', out["channel"], out'["channel"])
    BY <2>2, PushFed
  <2>4. Rising(Pushing')
    BY <2>2, <2>3, StaysRising
  <2> QED  BY <1>1, <1>2, <2>2, <2>3, <2>4, PushTallied, CopiesKept
<1> QED  BY <1>3, <1>4 DEF Copied, Rising

\* It holds from the start.
LEMMA CopiedHolds == Spec => [](Base /\ Copied)
<1>1. Init => Copied
  <2> SUFFICES ASSUME Init PROVE Copied
    OBVIOUS
  <2>1. /\ Pulling = <<>> /\ Pushing = <<>> \o <<>>
        /\ out["pull"] = <<>> /\ out["channel"] = <<>>
    BY DEF Init, Pulling, Pushing, Loops
  <2>2. Pushing = <<>>
    <3>1. <<>> \in Seq(Nat)
      OBVIOUS
    <3> QED  BY <2>1, <3>1, ConcatEmptySeq
  <2> QED  BY <2>1, <2>2 DEF Copied, Copies, Rising
<1> QED  BY <1>1, BaseInitially, BaseInductive, CopiedInductive, PTL DEF Spec

\* A message is more than once on its stream only because of failed attempts:
\* as often as it was sent at the most.
THEOREM CopiesAreFew == Spec => []CopiesAreRetries
<1>1. Copied => CopiesAreRetries
  BY DEF Copied, Copies, CopiesAreRetries, Loops, Sends
<1> QED  BY <1>1, CopiedHolds, PTL

\* Both at once: failures, and as many as it takes, come before any harm.
THEOREM HarmNeedsFailures == Spec => []OnlyFailuresHurt
BY LossNeeds, CopiesAreFew, PTL DEF OnlyFailuresHurt

-----------------------------------------------------------------------------
(* The loops go on, and end.  What keeps a loop from being done are messages, *)
(* made or yet to be made, and failed sendings, and there is an end to both.  *)

At(l, p) == loop[l] = p
Pushes == Pushing # <<>>
Pulls == Pulling # <<>>
Left == MaxMessages - Made
PushLeft == Len(Pushing)
PullLeft == Len(Pulling)
SendsLeft(l) == Sends - Sent(l)

\* A loop ends only with the process, or with nothing in its hands.
Ended ==
    /\ loop["channel"] = "done" => ~live
    /\ loop["pull"] = "done" => todo["pull"] = <<>>
    /\ Made <= MaxMessages

Steady == Base /\ Copied /\ Ended

\* Only a loop's own steps move it.
LEMMA OwnSteps ==
    ASSUME Base, [Next]_vars
    PROVE  /\ ~ChannelStep => loop'["channel"] = loop["channel"] /\ todo'["channel"] = todo["channel"]
           /\ ~PullStep => loop'["pull"] = loop["pull"] /\ todo'["pull"] = todo["pull"]
           /\ live' => live
<1> USE DEF Set, Goto, Settled, LoopFails
<1>1. loop \in [Loops -> Pcs] /\ todo \in [Loops -> Seq(1..Made)] /\ "pull" \in Loops /\ "channel" \in Loops
  BY Typed, Facts DEF Base
<1>2. CASE Send \/ Shutdown \/ Signal \/ UNCHANGED vars
  BY <1>2 DEF Send, Shutdown, HandlerTakesError, Cancel, Signal, vars, stopVars
<1>3. CASE ChannelStep
  <2>1. /\ loop' = loop \/ \E to : loop' = [loop EXCEPT !["channel"] = to]
        /\ todo' = todo \/ \E t : todo' = [todo EXCEPT !["channel"] = t]
        /\ live' = live
    BY <1>3 DEF ChannelStep, GoLoop, LoopTop, LoopSleeps, ChannelReceives, ChannelSeesCancel, Emit,
       EncodeFails, Add, AddFails, AddIsResent, RetryWakes, CopyToDlq, stopVars
  <2> QED  BY <1>1, <1>3, <2>1
<1>4. CASE PullStep
  <2>1. /\ loop' = loop \/ \E to : loop' = [loop EXCEPT !["pull"] = to]
        /\ todo' = todo \/ \E t : todo' = [todo EXCEPT !["pull"] = t]
        /\ live' = live
    BY <1>4 DEF PullStep, GoLoop, LoopTop, LoopSleeps, PullCalls, PullSkips, PullReturns,
       PullPanics, PullSkipsNil, PullTakesNext, PullAbandons, PullEnds, Emit, EncodeFails, Add,
       AddFails, AddIsResent, RetryWakes, CopyToDlq, stopVars
  <2> QED  BY <1>1, <1>4, <2>1
<1> QED  BY <1>2, <1>3, <1>4 DEF Next

\* Every step keeps this.
LEMMA EndedInductive == Base /\ Ended /\ [Next]_vars => Ended'
<1> SUFFICES ASSUME Base, Ended, [Next]_vars PROVE Ended'
  OBVIOUS
<1> USE DEF Set, Goto, Settled, LoopFails
<1>1. loop \in [Loops -> Pcs] /\ todo \in [Loops -> Seq(1..Made)] /\ "pull" \in Loops /\ "channel" \in Loops
  BY Typed, Facts DEF Base
<1>2. loop'["channel"] = "done" => ~live'
  <2>1. CASE ChannelStep
    <3>1. \/ loop' = loop
          \/ \E to : loop' = [loop EXCEPT !["channel"] = to] /\ (to = "done" => ~live)
      BY <2>1 DEF ChannelStep, GoLoop, LoopTop, LoopSleeps, ChannelReceives, ChannelSeesCancel,
         Emit, EncodeFails, Add, AddFails, AddIsResent, RetryWakes, CopyToDlq
    <3>2. live' => live
      BY OwnSteps
    <3> QED  BY <1>1, <3>1, <3>2 DEF Ended
  <2>2. CASE ~ChannelStep
    BY <2>2, OwnSteps DEF Ended
  <2> QED  BY <2>1, <2>2
<1>3. loop'["pull"] = "done" => todo'["pull"] = <<>>
  <2>1. CASE PullStep
    <3>1. loop["pull"] \in {"top", "sleep", "ready", "call"} => todo["pull"] = <<>>
      BY <1>1, BaseHere
    <3>2. CASE GoLoop("pull") \/ PullSkips \/ PullPanics
      BY <1>1, <3>1, <3>2 DEF GoLoop, LoopTop, LoopSleeps, PullSkips, PullPanics
    <3>3. CASE PullAbandons \/ PullEnds
      BY <1>1, <3>3 DEF PullAbandons, PullEnds
    <3>4. CASE PullCalls \/ PullReturns \/ PullTakesNext \/ Emit("pull")
      <4>1. \/ loop' = loop /\ loop["pull"] = "add"
            \/ \E to \in Pcs \ {"done"} : loop' = [loop EXCEPT !["pull"] = to]
        BY <3>4 DEF PullCalls, PullReturns, PullTakesNext, Emit, EncodeFails, Add, AddFails,
           AddIsResent, RetryWakes, CopyToDlq, Pcs
      <4> QED  BY <1>1, <4>1
    <3>5. CASE PullSkipsNil
      BY <3>5 DEF PullSkipsNil
    <3> QED  BY <2>1, <3>2, <3>3, <3>4, <3>5 DEF PullStep
  <2>2. CASE ~PullStep
    BY <2>2, OwnSteps DEF Ended
  <2> QED  BY <2>1, <2>2
<1>4. Made' <= MaxMessages
  <2>1. CASE Send
    <3>1. PICK k \in Kinds : kind' = Append(kind, k)
      BY <2>1 DEF Send
    <3>2. Made' = Made + 1
      BY <3>1, Typed DEF Base, Made
    <3> QED  BY <2>1, <3>2, Facts, BoundAssumption DEF Send
  <2>2. CASE PullReturns
    <3>1. PICK n \in 0..MaxBatch : \E ks \in [1..n -> Kinds] :
            Made + n <= MaxMessages /\ kind' = kind \o ks
      BY <2>2 DEF PullReturns
    <3>2. PICK ks \in [1..n -> Kinds] : Made + n <= MaxMessages /\ kind' = kind \o ks
      BY <3>1
    <3>3. n \in Nat /\ ks \in Seq(Kinds) /\ Len(ks) = n /\ kind \in Seq(Kinds)
      BY <3>2, Typed, BoundAssumption DEF Base
    <3>4. Made' = Made + n
      BY <3>2, <3>3, ConcatElements DEF Made
    <3> QED  BY <3>2, <3>4
  <2>3. CASE kind' = kind
    BY <2>3 DEF Ended, Made
  <2>4. kind' = kind \/ Send \/ PullReturns
    BY DEF Next, ChannelStep, PullStep, Shutdown, Signal, GoLoop, LoopTop, LoopSleeps,
       ChannelReceives, ChannelSeesCancel, Emit, EncodeFails, Add, AddFails, AddIsResent,
       RetryWakes, CopyToDlq, PullCalls, PullSkips, PullPanics, PullSkipsNil, PullTakesNext,
       PullAbandons, PullEnds, HandlerTakesError, Cancel, vars, sendVars
  <2> QED  BY <2>1, <2>2, <2>3, <2>4
<1> QED  BY <1>2, <1>3, <1>4 DEF Ended

\* All of it holds in every state.
LEMMA SteadyHolds == Spec => []Steady
<1>1. Init => Ended
  BY BoundAssumption DEF Init, Ended, Loops, Made
<1> QED  BY <1>1, CopiedHolds, EndedInductive, PTL DEF Spec, Steady

\* While no message is made, a queue only shrinks.
LEMMA Shrinks ==
    ASSUME NEW w \in Seq(Nat), NEW w2 \in Seq(Nat), NEW d, NEW d2, Made \in Nat, Made' = Made,
           Fed(w, w2, d, d2)
    PROVE  /\ Len(w2) <= Len(w) /\ (w = <<>> => w2 = <<>>)
           /\ w # <<>> /\ w2 = Tail(w) => Len(w2) # Len(w)
<1>1. Len(w) \in Nat /\ Len(w2) \in Nat /\ Len(<<>>) = 0
  BY LenProperties
<1>2. w # <<>> => Len(Tail(w)) = Len(w) - 1 /\ Len(w) # 0
  BY TailElements
<1>3. ASSUME Grows(w, w2, d, d2) PROVE Len(w2) <= Len(w)
  <2>1. (Made + 1)..Made' = {}
    OBVIOUS
  <2>2. Len(w) + 1 \notin (Len(w) + 1)..Len(w2)
    BY <1>3, <2>1 DEF Grows
  <2> QED  BY <1>1, <2>2
<1>4. Len(w2) <= Len(w)
  BY <1>1, <1>2, <1>3 DEF Fed, Drains
<1>5. w = <<>> => w2 = <<>>
  <2> SUFFICES ASSUME w = <<>> PROVE w2 = <<>>
    OBVIOUS
  <2>1. Len(w2) = 0
    BY <1>1, <1>4
  <2> QED  BY <2>1, EmptySequence
<1> QED  BY <1>1, <1>2, <1>4, <1>5

\* The queues of both loops before and after a step.
LEMMA BothFed ==
    ASSUME Steady, [Next]_vars
    PROVE  /\ Pushing \in Seq(Nat) /\ Pushing' \in Seq(Nat) /\ Rising(Pushing) /\ Rising(Pushing')
           /\ Fed(Pushing, Pushing', out["channel"], out'["channel"])
           /\ Pulling \in Seq(Nat) /\ Pulling' \in Seq(Nat) /\ Rising(Pulling) /\ Rising(Pulling')
           /\ Fed(Pulling, Pulling', out["pull"], out'["pull"])
           /\ Made \in Nat /\ Made' \in Nat
<1>1. Base /\ Copied /\ Base' /\ Copied'
  BY BaseInductive, CopiedInductive DEF Steady
<1>2. /\ Rising(Pushing) /\ Rising(Pushing') /\ Rising(Pulling) /\ Rising(Pulling')
  BY <1>1 DEF Copied, Rising
<1>3. /\ Fed(Pushing, Pushing', out["channel"], out'["channel"]) /\ Made' \in Nat
      /\ Fed(Pulling, Pulling', out["pull"], out'["pull"])
  BY <1>1, <1>2, PushFed, PullFed
<1>4. Made \in Nat /\ Pulling \in Seq(Nat) /\ Pushing \in Seq(Nat)
  <2>1. Made \in Nat /\ todo["pull"] \in Seq(1..Made) /\ Pushing \in Seq(1..Made)
    BY <1>1, Facts, ConcatElements DEF Pushing
  <2> QED  BY <2>1, Numbers DEF Pulling
<1>5. Pulling' \in Seq(Nat) /\ Pushing' \in Seq(Nat)
  <2>1. /\ todo'["pull"] \in Seq(1..Made') /\ todo'["channel"] \in Seq(1..Made') /\ queue' \in Seq(1..Made')
    BY <1>1 DEF Base, TypeOK, Messages, Loops
  <2>2. Pushing' \in Seq(1..Made')
    BY <2>1, ConcatElements DEF Pushing
  <2> QED  BY <1>3, <2>1, <2>2, Numbers DEF Pulling
<1> QED  BY <1>2, <1>3, <1>4, <1>5

\* What the loop of the channel does in a step of its own.
LEMMA ChannelMoves ==
    ASSUME Base, ChannelStep
    PROVE  \/ At("channel", "top") /\ (IF live THEN At("channel", "ready")' ELSE At("channel", "done")')
           \/ At("channel", "sleep") /\ (At("channel", "top")' \/ (~live /\ At("channel", "done")'))
           \/ At("channel", "ready") /\ At("channel", "add")'
           \/ /\ At("channel", "ready") /\ At("channel", "sleep")'
              /\ ~live \/ (Pushing # <<>> /\ Pushing' = Tail(Pushing))
           \/ /\ At("channel", "add") /\ At("channel", "sleep")'
              /\ Pushing # <<>> /\ Pushing' = Tail(Pushing)
           \/ /\ At("channel", "add")
              /\ At("channel", "add")' \/ At("channel", "wait")' \/ At("channel", "dlq")'
              /\ Sent("channel")' = Sent("channel") + 1
           \/ At("channel", "wait") /\ (At("channel", "add")' \/ (~live /\ At("channel", "dlq")'))
           \/ /\ At("channel", "dlq") /\ At("channel", "sleep")'
              /\ Pushing # <<>> /\ Pushing' = Tail(Pushing)
<1> USE DEF Set, Goto, Settled, At
<1>1. /\ loop \in [Loops -> Pcs] /\ todo \in [Loops -> Seq(1..Made)] /\ tries \in [Loops -> 0..Attempts]
      /\ "channel" \in Loops /\ queue \in Seq(1..Made)
  BY Typed, Facts DEF Base
<1>2. CASE GoLoop("channel")
  <2>1. CASE LoopTop("channel")
    BY <1>1, <2>1 DEF LoopTop
  <2>2. CASE LoopSleeps("channel")
    <3>1. loop["channel"] = "sleep" /\ (loop'["channel"] = "top" \/ (~live /\ loop'["channel"] = "done"))
      BY <1>1, <2>2 DEF LoopSleeps
    <3> QED  BY <3>1
  <2> QED  BY <1>2, <2>1, <2>2 DEF GoLoop
<1>3. CASE ChannelReceives
  <2>1. loop["channel"] = "ready" /\ todo["channel"] = <<>> /\ queue # <<>> /\ queue' = Tail(queue)
    BY <1>1, <1>3, BaseHere DEF ChannelReceives
  <2>2. CASE kind[Head(queue)] = "nil"
    <3>1. todo' = todo /\ loop'["channel"] = "sleep"
      BY <1>1, <1>3, <2>2 DEF ChannelReceives
    <3>2. Pushing = queue /\ Pushing' = Tail(queue)
      <4>1. Tail(queue) \in Seq(1..Made)
        BY <1>1, <2>1, TailElements
      <4> QED  BY <1>1, <2>1, <3>1, <4>1, ConcatEmptySeq DEF Pushing
    <3> QED  BY <2>1, <3>1, <3>2
  <2>3. CASE kind[Head(queue)] # "nil"
    BY <1>1, <1>3, <2>3 DEF ChannelReceives
  <2> QED  BY <2>2, <2>3
<1>4. CASE ChannelSeesCancel
  BY <1>1, <1>4 DEF ChannelSeesCancel
<1>5. CASE EncodeFails("channel") \/ Add("channel") \/ CopyToDlq("channel")
  <2>1. /\ todo["channel"] # <<>> /\ queue' = queue /\ Len(todo["channel"]) <= 1
    <3>1. Emit("channel")
      BY <1>5 DEF Emit
    <3> QED  BY <1>1, <3>1, EmitDrains, BaseHere
  <2>2. todo'["channel"] = Tail(todo["channel"]) /\ loop'["channel"] = "sleep"
        /\ loop["channel"] \in {"add", "dlq"}
    BY <1>1, <1>5 DEF EncodeFails, Add, CopyToDlq
  <2>3. Pushing # <<>> /\ Pushing' = Tail(Pushing)
    <3>1. \A s, t \in Seq(1..Made) :
            s # <<>> /\ Len(s) <= 1 => s \o t # <<>> /\ Tail(s) \o t = Tail(s \o t)
      BY OneBefore
    <3> QED  BY <1>1, <2>1, <2>2, <3>1 DEF Pushing
  <2> QED  BY <2>2, <2>3
<1>6. CASE AddFails("channel") \/ AddIsResent("channel")
  <2>1. /\ tries["channel"] \in Nat /\ resent["channel"] \in Nat
        /\ tries \in [Loops -> 0..Attempts] /\ resent \in [Loops -> 0..Resends]
    BY <1>1, Typed DEF Base
  <2>2. /\ loop["channel"] = "add" /\ loop'["channel"] \in {"add", "wait", "dlq"}
        /\ \/ tries'["channel"] = tries["channel"] + 1 /\ resent'["channel"] = resent["channel"]
           \/ tries'["channel"] = tries["channel"] /\ resent'["channel"] = resent["channel"] + 1
    BY <1>1, <1>6, <2>1 DEF AddFails, AddIsResent
  <2>3. Sent("channel")' = Sent("channel") + 1
    BY <2>1, <2>2 DEF Sent
  <2> QED  BY <2>2, <2>3
<1>7. CASE RetryWakes("channel")
  <2>1. loop["channel"] = "wait" /\ (loop'["channel"] = "add" \/ (~live /\ loop'["channel"] = "dlq"))
    BY <1>1, <1>7 DEF RetryWakes
  <2> QED  BY <2>1
<1> QED  BY <1>2, <1>3, <1>4, <1>5, <1>6, <1>7 DEF ChannelStep, Emit

\* The measures are natural numbers.
LEMMA Measures ==
    ASSUME Steady
    PROVE  /\ Left \in Nat /\ PushLeft \in Nat /\ PullLeft \in Nat
           /\ \A l \in Loops : SendsLeft(l) \in Nat
<1>1. Base /\ Made <= MaxMessages /\ Made \in Nat /\ MaxMessages \in Nat
  BY Facts, BoundAssumption DEF Steady, Ended
<1>2. todo["pull"] \in Seq(1..Made) /\ Pushing \in Seq(1..Made)
  BY <1>1, Facts, ConcatElements DEF Pushing
<1>3. PushLeft \in Nat /\ PullLeft \in Nat
  BY <1>2, LenProperties DEF Pulling, PushLeft, PullLeft
<1>4. \A l \in Loops : Sent(l) \in 0..Sends /\ Sends \in Nat
  BY <1>1, SentSoFar
<1> QED  BY <1>1, <1>3, <1>4 DEF Left, SendsLeft

\* What the proof takes from numbers that do not decrease for ever.
SendsSettle(l) == Settles(SendsLeft(l), vars)
LoopsSettle ==
    /\ Settles(Left, vars) /\ Settles(PushLeft, vars) /\ Settles(PullLeft, vars)
    /\ \A l \in Loops : SendsSettle(l)

\* As the temporal steps below use it.
Driven ==
    /\ []Steady /\ [][Next]_vars /\ []LoopsNeverHeld
    /\ WF_vars(ChannelStep) /\ WF_vars(PullStep)
    /\ Settles(Left, vars) /\ Settles(PushLeft, vars) /\ Settles(PullLeft, vars)
    /\ SendsSettle("pull") /\ SendsSettle("channel")

\* The fairness of the specification drives both loops.
LEMMA Drives == FairSpec /\ []LoopsNeverHeld /\ LoopsSettle => Driven
<1>1. LoopsSettle => /\ Settles(Left, vars) /\ Settles(PushLeft, vars) /\ Settles(PullLeft, vars)
                     /\ SendsSettle("pull") /\ SendsSettle("channel")
  BY DEF LoopsSettle, Loops
<1> QED  BY <1>1, SteadyHolds, PTL DEF FairSpec, Fairness, Spec, Driven

\* A loop stays where it is but for its own steps.
StaysAt(l, p) == At(l, p) => At(l, p)'
Stays(l) ==
    /\ StaysAt(l, "top") /\ StaysAt(l, "ready") /\ StaysAt(l, "call") /\ StaysAt(l, "each")
    /\ StaysAt(l, "add") /\ StaysAt(l, "wait") /\ StaysAt(l, "dlq") /\ StaysAt(l, "sleep")
    /\ StaysAt(l, "done")

\* A loop is at one place.
OnePlace(l) ==
    /\ ~(At(l, "ready") /\ At(l, "top"))
    /\ ~(At(l, "call") /\ (At(l, "top") \/ At(l, "ready")))
    /\ ~(At(l, "each") /\ (At(l, "top") \/ At(l, "ready") \/ At(l, "call")))
    /\ ~(At(l, "add") /\ (At(l, "top") \/ At(l, "ready") \/ At(l, "call") \/ At(l, "each")))
    /\ ~(At(l, "wait") /\ (At(l, "top") \/ At(l, "ready") \/ At(l, "call") \/ At(l, "each") \/ At(l, "add")))
    /\ ~(At(l, "dlq") /\ (At(l, "top") \/ At(l, "ready") \/ At(l, "call") \/ At(l, "each") \/ At(l, "add")
                            \/ At(l, "wait")))
    /\ ~(At(l, "sleep") /\ (At(l, "top") \/ At(l, "ready") \/ At(l, "call") \/ At(l, "each") \/ At(l, "add")
                              \/ At(l, "wait") \/ At(l, "dlq")))
    /\ ~(At(l, "done") /\ (At(l, "top") \/ At(l, "ready") \/ At(l, "call") \/ At(l, "each") \/ At(l, "add")
                             \/ At(l, "wait") \/ At(l, "dlq") \/ At(l, "sleep")))
    /\ \/ At(l, "top") \/ At(l, "ready") \/ At(l, "call") \/ At(l, "each") \/ At(l, "add") \/ At(l, "wait")
       \/ At(l, "dlq") \/ At(l, "sleep") \/ At(l, "done")

\* A step leaves a loop where it is or is one of its own, and no step brings a
\* cancelled context back.
LEMMA Stay ==
    ASSUME Steady, [Next]_vars
    PROVE  /\ Stays("channel") \/ <<ChannelStep>>_vars
           /\ Stays("pull") \/ <<PullStep>>_vars
           /\ OnePlace("channel") /\ OnePlace("pull")
           /\ live' => live
<1>1. UNCHANGED vars => loop' = loop
  BY DEF vars
<1>2. Stays("channel") \/ <<ChannelStep>>_vars
  BY <1>1, OwnSteps DEF Steady, Stays, StaysAt, At
<1>3. Stays("pull") \/ <<PullStep>>_vars
  BY <1>1, OwnSteps DEF Steady, Stays, StaysAt, At
<1>4. loop["channel"] \in Pcs /\ loop["pull"] \in Pcs
  BY Typed DEF Steady, Base
<1>5. OnePlace("channel")
  BY <1>4 DEF OnePlace, At, Pcs
<1>6. OnePlace("pull")
  BY <1>4 DEF OnePlace, At, Pcs
<1> QED  BY <1>2, <1>3, <1>5, <1>6, OwnSteps DEF Steady

\* Only so many messages are made.
LEMMA FewerLeft == Steady /\ [Next]_vars => [Left' <= Left]_vars
<1> SUFFICES ASSUME Steady, [Next]_vars PROVE Left' <= Left
  OBVIOUS
<1>1. Made \in Nat /\ Made' \in Nat /\ MaxMessages \in Nat /\ Made' >= Made
  <2>1. /\ Made \in Nat /\ Made' \in Nat
        /\ Fed(Pulling, Pulling', out["pull"], out'["pull"])
    BY BothFed
  <2>2. Made' = Made \/ Made' >= Made
    BY <2>1 DEF Fed, Grows
  <2> QED  BY <2>1, <2>2, BoundAssumption
<1>2. Left = MaxMessages - Made /\ Left' = MaxMessages - Made'
  BY DEF Left
<1>3. \A x, y, z \in Nat : y >= x => z - y <= z - x
  OBVIOUS
<1> QED  BY <1>1, <1>2, <1>3

\* While none is made, those the loops have to deal with only become fewer.
LEMMA FewerWaiting ==
    ASSUME Steady, [Next]_vars, [Left' = Left]_vars
    PROVE  /\ PushLeft' <= PushLeft /\ (~Pushes => ~Pushes')
           /\ Pushes /\ Pushing' = Tail(Pushing) => PushLeft' # PushLeft
           /\ PullLeft' <= PullLeft /\ (~Pulls => ~Pulls')
           /\ Pulls /\ Pulling' = Tail(Pulling) => PullLeft' # PullLeft
<1>1. Made' = Made
  <2>1. Left' = Left
    BY DEF vars, Left, Made, sendVars
  <2>2. Made \in Nat /\ Made' \in Nat /\ MaxMessages \in Nat
    BY BothFed, BoundAssumption
  <2>3. Left = MaxMessages - Made /\ Left' = MaxMessages - Made'
    BY DEF Left
  <2>4. \A x, y, z \in Nat : z - y = z - x => y = x
    OBVIOUS
  <2> QED  BY <2>1, <2>2, <2>3, <2>4
<1>2. /\ Made \in Nat /\ Pushing \in Seq(Nat) /\ Pushing' \in Seq(Nat)
      /\ Pulling \in Seq(Nat) /\ Pulling' \in Seq(Nat)
      /\ Fed(Pushing, Pushing', out["channel"], out'["channel"])
      /\ Fed(Pulling, Pulling', out["pull"], out'["pull"])
  BY BothFed
<1>3. /\ Len(Pushing') <= Len(Pushing) /\ (Pushing = <<>> => Pushing' = <<>>)
      /\ Pushing # <<>> /\ Pushing' = Tail(Pushing) => Len(Pushing') # Len(Pushing)
  BY <1>1, <1>2, Shrinks
<1>4. /\ Len(Pulling') <= Len(Pulling) /\ (Pulling = <<>> => Pulling' = <<>>)
      /\ Pulling # <<>> /\ Pulling' = Tail(Pulling) => Len(Pulling') # Len(Pulling)
  BY <1>1, <1>2, Shrinks
<1> QED  BY <1>3, <1>4 DEF PushLeft, PullLeft, Pushes, Pulls

\* What the loop of the channel does while it settles nothing and sends nothing
\* in vain.
PushDoes ==
    /\ At("channel", "top") => At("channel", "ready")'
    /\ At("channel", "sleep") => At("channel", "top")'
    /\ At("channel", "ready") => At("channel", "add")'
    /\ At("channel", "wait") => At("channel", "add")'
    /\ ~At("channel", "add") /\ ~At("channel", "dlq")

\* While messages are with the channel they become fewer, then XADD is sent to
\* the last time, and a step that does neither leads on.
LEMMA PushSteps ==
    /\ Steady /\ [Next]_vars /\ [Left' = Left]_vars => [PushLeft' <= PushLeft]_vars
    /\ Steady /\ [Next]_vars /\ [Left' = Left]_vars => (~Pushes => ~Pushes')
    /\ Steady /\ [Next]_vars /\ [Left' = Left]_vars /\ Pushes /\ [PushLeft' = PushLeft]_vars
       => [SendsLeft("channel")' <= SendsLeft("channel")]_vars
    /\ Steady /\ live /\ Pushes /\ [Left' = Left]_vars /\ [PushLeft' = PushLeft]_vars
       /\ [SendsLeft("channel")' = SendsLeft("channel")]_vars /\ <<ChannelStep>>_vars /\ [Next]_vars
       => PushDoes
    /\ Steady /\ Pushes /\ live /\ LoopsNeverHeld => ENABLED <<ChannelStep>>_vars
    /\ Steady /\ live => ~At("channel", "done") /\ ~At("channel", "each") /\ ~At("channel", "call")
<1>1. ASSUME Steady, [Next]_vars, [Left' = Left]_vars, Pushes, [PushLeft' = PushLeft]_vars
      PROVE  [SendsLeft("channel")' <= SendsLeft("channel")]_vars
  <2> SUFFICES ASSUME PushLeft' = PushLeft
               PROVE  SendsLeft("channel")' <= SendsLeft("channel")
    BY <1>1
  <2>1. Pushing' # Tail(Pushing)
    BY <1>1, FewerWaiting
  <2>2. Sent("channel")' >= Sent("channel")
    BY <1>1, <2>1, PushTallied DEF Steady, Tallied
  <2>3. /\ Sent("channel") \in Nat /\ Sends \in Nat /\ Sent("channel")' \in Nat
    BY <1>1, BaseInductive, SentSoFar, SentSoFarNext DEF Steady, Loops
  <2> QED  BY <2>2, <2>3 DEF SendsLeft
<1>2. ASSUME Steady, live, Pushes, [Left' = Left]_vars, [PushLeft' = PushLeft]_vars,
             [SendsLeft("channel")' = SendsLeft("channel")]_vars, <<ChannelStep>>_vars, [Next]_vars
      PROVE  PushDoes
  <2>1. Pushing' # Tail(Pushing)
    BY <1>2, FewerWaiting
  <2>2. Sent("channel")' # Sent("channel") + 1
    <3>1. Sends - Sent("channel")' = Sends - Sent("channel")
      BY <1>2 DEF SendsLeft
    <3>2. Sent("channel") \in Nat /\ Sends \in Nat
      BY <1>2, SentSoFar DEF Steady, Loops
    <3> QED  BY <3>1, <3>2
  <2> QED  BY <1>2, <2>1, <2>2, ChannelMoves DEF Steady, PushDoes, At
<1>3. ASSUME Steady, Pushes, live, LoopsNeverHeld PROVE ENABLED <<ChannelStep>>_vars
  <2>1. loop["channel"] = "ready" => queue # <<>>
    <3> SUFFICES ASSUME loop["channel"] = "ready", queue = <<>> PROVE FALSE
      OBVIOUS
    <3>1. todo["channel"] = <<>> /\ <<>> \in Seq(1..Made)
      BY <1>3, Facts, BaseHere DEF Steady
    <3>2. Pushing = <<>>
      BY <3>1, ConcatEmptySeq DEF Pushing
    <3> QED  BY <1>3, <3>2 DEF Pushes
  <2> QED  BY <1>3, <2>1 DEF Steady, Ended, LoopsNeverHeld
<1>4. ASSUME Steady, live PROVE ~At("channel", "done") /\ ~At("channel", "each") /\ ~At("channel", "call")
  BY <1>4 DEF Steady, Ended, Base, Idle, At
<1>5. ASSUME Steady, [Next]_vars, [Left' = Left]_vars
      PROVE  [PushLeft' <= PushLeft]_vars /\ (~Pushes => ~Pushes')
  BY <1>5, FewerWaiting
<1> QED  BY <1>1, <1>2, <1>3, <1>4, <1>5

Stuck == Driven /\ <>[]Pushes /\ <>[]live

\* Messages do not stay with the channel for ever.
LEMMA PushedIsSettled == ~Stuck
<1>1. Steady => Left \in Nat /\ PushLeft \in Nat /\ SendsLeft("channel") \in Nat
  BY Measures DEF Loops
<1>2. Stuck => <>[][Left' = Left]_vars
  BY <1>1, FewerLeft, PTL DEF Stuck, Driven, Settles, SendsSettle
<1>3. Stuck => <>[][PushLeft' = PushLeft]_vars
  BY <1>1, <1>2, PushSteps, PTL DEF Stuck, Driven, Settles, SendsSettle
<1>4. Stuck => <>[][SendsLeft("channel")' = SendsLeft("channel")]_vars
  BY <1>1, <1>2, <1>3, PushSteps, PTL DEF Stuck, Driven, Settles, SendsSettle
<1> QED
  BY <1>2, <1>3, <1>4, PushSteps, Stay, PTL DEF Stuck, Driven, PushDoes, Stays, StaysAt, OnePlace

\* What the pull loop does in a step of its own.
LEMMA PullMoves ==
    ASSUME Base, PullStep
    PROVE  \/ At("pull", "top") /\ (IF live THEN At("pull", "ready")' ELSE At("pull", "done")')
           \/ At("pull", "sleep") /\ (At("pull", "top")' \/ (~live /\ At("pull", "done")'))
           \/ At("pull", "ready") /\ (IF live THEN At("pull", "call")' ELSE At("pull", "done")')
           \/ At("pull", "call") /\ (At("pull", "each")' \/ At("pull", "done")')
           \/ At("pull", "each") /\ At("pull", "each")' /\ Pulling # <<>> /\ Pulling' = Tail(Pulling)
           \/ At("pull", "each") /\ live /\ At("pull", "add")'
           \/ At("pull", "each") /\ ~live /\ At("pull", "done")'
           \/ At("pull", "each") /\ Pulling = <<>> /\ (At("pull", "sleep")' \/ At("pull", "done")')
           \/ At("pull", "add") /\ At("pull", "each")' /\ Pulling # <<>> /\ Pulling' = Tail(Pulling)
           \/ /\ At("pull", "add")
              /\ At("pull", "add")' \/ At("pull", "wait")' \/ At("pull", "dlq")'
              /\ Sent("pull")' = Sent("pull") + 1
           \/ At("pull", "wait") /\ (At("pull", "add")' \/ (~live /\ At("pull", "dlq")'))
           \/ At("pull", "dlq") /\ At("pull", "each")' /\ Pulling # <<>> /\ Pulling' = Tail(Pulling)
<1> USE DEF Set, Goto, Settled, LoopFails, At, Pulling
<1>1. /\ loop \in [Loops -> Pcs] /\ todo \in [Loops -> Seq(1..Made)] /\ tries \in [Loops -> 0..Attempts]
      /\ "pull" \in Loops
  BY Typed, Facts DEF Base
<1>2. CASE LoopTop("pull")
  BY <1>1, <1>2 DEF LoopTop
<1>3. CASE LoopSleeps("pull")
  <2>1. loop["pull"] = "sleep" /\ (loop'["pull"] = "top" \/ (~live /\ loop'["pull"] = "done"))
    BY <1>1, <1>3 DEF LoopSleeps
  <2> QED  BY <2>1
<1>4. CASE PullCalls \/ PullSkips
  BY <1>1, <1>4 DEF PullCalls, PullSkips
<1>5. CASE PullReturns \/ PullPanics
  <2>1. loop["pull"] = "call" /\ (loop'["pull"] = "each" \/ loop'["pull"] = "done")
    BY <1>1, <1>5 DEF PullReturns, PullPanics
  <2> QED  BY <2>1
<1>6. CASE PullSkipsNil
  BY <1>1, <1>6 DEF PullSkipsNil
<1>7. CASE PullTakesNext
  BY <1>1, <1>7 DEF PullTakesNext
<1>8. CASE PullAbandons
  BY <1>1, <1>8 DEF PullAbandons
<1>9. CASE PullEnds
  BY <1>1, <1>9 DEF PullEnds
<1>10. CASE EncodeFails("pull") \/ Add("pull") \/ CopyToDlq("pull")
  <2>1. todo["pull"] # <<>>
    <3>1. Emit("pull")
      BY <1>10 DEF Emit
    <3> QED  BY <1>1, <3>1, EmitDrains
  <2>2. todo'["pull"] = Tail(todo["pull"]) /\ loop'["pull"] = "each" /\ loop["pull"] \in {"add", "dlq"}
    BY <1>1, <1>10 DEF EncodeFails, Add, CopyToDlq
  <2> QED  BY <2>1, <2>2
<1>11. CASE AddFails("pull") \/ AddIsResent("pull")
  <2>1. /\ tries["pull"] \in Nat /\ resent["pull"] \in Nat
        /\ tries \in [Loops -> 0..Attempts] /\ resent \in [Loops -> 0..Resends]
    BY <1>1, Typed DEF Base
  <2>2. /\ loop["pull"] = "add" /\ loop'["pull"] \in {"add", "wait", "dlq"}
        /\ \/ tries'["pull"] = tries["pull"] + 1 /\ resent'["pull"] = resent["pull"]
           \/ tries'["pull"] = tries["pull"] /\ resent'["pull"] = resent["pull"] + 1
    BY <1>1, <1>11, <2>1 DEF AddFails, AddIsResent
  <2>3. Sent("pull")' = Sent("pull") + 1
    BY <2>1, <2>2 DEF Sent
  <2> QED  BY <2>2, <2>3
<1>12. CASE RetryWakes("pull")
  <2>1. loop["pull"] = "wait" /\ (loop'["pull"] = "add" \/ (~live /\ loop'["pull"] = "dlq"))
    BY <1>1, <1>12 DEF RetryWakes
  <2> QED  BY <2>1
<1> QED  BY <1>2, <1>3, <1>4, <1>5, <1>6, <1>7, <1>8, <1>9, <1>10, <1>11, <1>12, PullStep
         DEF PullStep, GoLoop, Emit

\* What the pull loop does while it settles nothing and sends nothing in vain.
PullDoes ==
    /\ At("pull", "each") => At("pull", "add")'
    /\ At("pull", "wait") => At("pull", "add")'
    /\ ~At("pull", "add") /\ ~At("pull", "dlq")

\* The same for messages with the pull loop.
LEMMA PullSteps ==
    /\ Steady /\ [Next]_vars /\ [Left' = Left]_vars => [PullLeft' <= PullLeft]_vars
    /\ Steady /\ [Next]_vars /\ [Left' = Left]_vars => (~Pulls => ~Pulls')
    /\ Steady /\ [Next]_vars /\ [Left' = Left]_vars /\ Pulls /\ [PullLeft' = PullLeft]_vars
       => [SendsLeft("pull")' <= SendsLeft("pull")]_vars
    /\ Steady /\ live /\ Pulls /\ [Left' = Left]_vars /\ [PullLeft' = PullLeft]_vars
       /\ [SendsLeft("pull")' = SendsLeft("pull")]_vars /\ <<PullStep>>_vars /\ [Next]_vars
       => PullDoes
    /\ Steady /\ Pulls /\ LoopsNeverHeld => ENABLED <<PullStep>>_vars
    /\ Steady /\ Pulls =>
         At("pull", "each") \/ At("pull", "add") \/ At("pull", "wait") \/ At("pull", "dlq")
<1>1. ASSUME Steady, [Next]_vars, [Left' = Left]_vars, Pulls, [PullLeft' = PullLeft]_vars
      PROVE  [SendsLeft("pull")' <= SendsLeft("pull")]_vars
  <2> SUFFICES ASSUME PullLeft' = PullLeft
               PROVE  SendsLeft("pull")' <= SendsLeft("pull")
    BY <1>1
  <2>1. Pulling' # Tail(Pulling)
    BY <1>1, FewerWaiting
  <2>2. Sent("pull")' >= Sent("pull")
    BY <1>1, <2>1, PullTallied DEF Steady, Tallied
  <2>3. /\ Sent("pull") \in Nat /\ Sends \in Nat /\ Sent("pull")' \in Nat
    BY <1>1, BaseInductive, SentSoFar, SentSoFarNext DEF Steady, Loops
  <2> QED  BY <2>2, <2>3 DEF SendsLeft
<1>2. ASSUME Steady, Pulls
      PROVE  At("pull", "each") \/ At("pull", "add") \/ At("pull", "wait") \/ At("pull", "dlq")
  <2>1. loop["pull"] \notin {"top", "ready", "call", "sleep", "done"} /\ loop["pull"] \in Pcs
    BY <1>2, Typed DEF Steady, Base, Idle, Ended, Pulls, Pulling, Loops
  <2> QED  BY <2>1 DEF At, Pcs
<1>3. ASSUME Steady, live, Pulls, [Left' = Left]_vars, [PullLeft' = PullLeft]_vars,
             [SendsLeft("pull")' = SendsLeft("pull")]_vars, <<PullStep>>_vars, [Next]_vars
      PROVE  PullDoes
  <2>1. Pulling' # Tail(Pulling) /\ Pulling # <<>>
    BY <1>3, FewerWaiting DEF Pulls
  <2>2. Sent("pull")' # Sent("pull") + 1
    <3>1. Sends - Sent("pull")' = Sends - Sent("pull")
      BY <1>3 DEF SendsLeft
    <3>2. Sent("pull") \in Nat /\ Sends \in Nat
      BY <1>3, SentSoFar DEF Steady, Loops
    <3> QED  BY <3>1, <3>2
  <2> QED  BY <1>3, <2>1, <2>2, PullMoves DEF Steady, PullDoes, At
<1>4. ASSUME Steady, Pulls, LoopsNeverHeld PROVE ENABLED <<PullStep>>_vars
  BY <1>2, <1>4 DEF At, LoopsNeverHeld
<1>5. ASSUME Steady, [Next]_vars, [Left' = Left]_vars
      PROVE  [PullLeft' <= PullLeft]_vars /\ (~Pulls => ~Pulls')
  BY <1>5, FewerWaiting
<1> QED  BY <1>1, <1>2, <1>3, <1>4, <1>5

Kept == Driven /\ <>[]Pulls /\ <>[]live

\* Messages do not stay with the pull loop for ever.
LEMMA PulledIsSettled == ~Kept
<1>1. Steady => Left \in Nat /\ PullLeft \in Nat /\ SendsLeft("pull") \in Nat
  BY Measures DEF Loops
<1>2. Kept => <>[][Left' = Left]_vars
  BY <1>1, FewerLeft, PTL DEF Kept, Driven, Settles, SendsSettle
<1>3. Kept => <>[][PullLeft' = PullLeft]_vars
  BY <1>1, <1>2, PullSteps, PTL DEF Kept, Driven, Settles, SendsSettle
<1>4. Kept => <>[][SendsLeft("pull")' = SendsLeft("pull")]_vars
  BY <1>1, <1>2, <1>3, PullSteps, PTL DEF Kept, Driven, Settles, SendsSettle
<1> QED
  BY <1>2, <1>3, <1>4, PullSteps, Stay, PTL DEF Kept, Driven, PullDoes, Stays, StaysAt, OnePlace

\* A loop is with Retry, where what was sent in vain is only added up.
Emitting(l) == At(l, "add") \/ At(l, "wait") \/ At(l, "dlq")

\* With Retry the sendings that are left only become fewer.
LEMMA SendsAddUp ==
    ASSUME Steady, [Next]_vars, NEW l \in Loops, Emitting(l), Emitting(l)'
    PROVE  SendsLeft(l)' <= SendsLeft(l)
<1>1. /\ Base /\ Base' /\ loop \in [Loops -> Pcs]
      /\ tries \in [Loops -> 0..Attempts] /\ resent \in [Loops -> 0..Resends]
      /\ tries[l] \in Nat /\ resent[l] \in Nat
  <2>1. /\ tries \in [Loops -> 0..Attempts] /\ resent \in [Loops -> 0..Resends]
        /\ Attempts \in Nat /\ Resends \in Nat /\ loop \in [Loops -> Pcs]
    BY Typed DEF Steady, Base
  <2> QED  BY <2>1, BaseInductive DEF Steady
<1>2. Sent(l) \in Nat /\ Sent(l)' \in Nat /\ Sends \in Nat
  BY <1>1, SentSoFar, SentSoFarNext
<1>3. Sent(l)' >= Sent(l)
  <2>1. CASE Emit(l)
    <3>1. AddFails(l) \/ AddIsResent(l) \/ RetryWakes(l)
      BY <1>1, <2>1 DEF Emit, EncodeFails, Add, CopyToDlq, Settled, Goto, Set, Emitting, At
    <3>2. \/ tries'[l] = tries[l] + 1 /\ resent'[l] = resent[l]
          \/ tries'[l] = tries[l] /\ resent'[l] = resent[l] + 1
          \/ tries'[l] = tries[l] /\ resent'[l] = resent[l]
      BY <1>1, <3>1 DEF AddFails, AddIsResent, RetryWakes, Set, emitVars
    <3> QED  BY <1>1, <3>2 DEF Sent
  <2>2. CASE ~Emit(l)
    <3>1. Sent(l)' = Sent(l)
      BY <1>1, <2>2, RestTallies
    <3> QED  BY <1>2, <3>1
  <2> QED  BY <2>1, <2>2
<1> QED  BY <1>2, <1>3 DEF SendsLeft

\* What the loops do once the root context is cancelled.
ChannelEnds ==
    /\ At("channel", "top") => At("channel", "done")'
    /\ At("channel", "sleep") => At("channel", "top")' \/ At("channel", "done")'
    /\ At("channel", "ready") => At("channel", "add")' \/ At("channel", "sleep")'
    /\ At("channel", "wait") => At("channel", "add")' \/ At("channel", "dlq")'
    /\ At("channel", "dlq") => At("channel", "sleep")'
    /\ At("channel", "add") => \/ At("channel", "sleep")'
                               \/ (At("channel", "add")' \/ At("channel", "wait")' \/ At("channel", "dlq")')
                                  /\ ~[SendsLeft("channel")' = SendsLeft("channel")]_vars
    /\ ~At("channel", "done") /\ ~At("channel", "each") /\ ~At("channel", "call")
PullsEnd ==
    /\ At("pull", "top") => At("pull", "done")'
    /\ At("pull", "sleep") => At("pull", "top")' \/ At("pull", "done")'
    /\ At("pull", "ready") => At("pull", "done")'
    /\ At("pull", "call") => At("pull", "each")' \/ At("pull", "done")'
    /\ At("pull", "wait") => At("pull", "add")' \/ At("pull", "dlq")'
    /\ At("pull", "dlq") => At("pull", "each")'
    /\ At("pull", "add") => \/ At("pull", "each")'
                            \/ (At("pull", "add")' \/ At("pull", "wait")' \/ At("pull", "dlq")')
                               /\ ~[SendsLeft("pull")' = SendsLeft("pull")]_vars
    /\ At("pull", "each") =>
         \/ At("pull", "each")' /\ ~[PullLeft' = PullLeft]_vars
         \/ At("pull", "sleep")' \/ At("pull", "done")'
    /\ ~At("pull", "done")

\* That is what each step of the loops does then; and a batch only shrinks while
\* the pull loop is between its messages.
LEMMA EndSteps ==
    /\ Steady /\ ~live /\ <<ChannelStep>>_vars => ChannelEnds
    /\ Steady /\ ~live /\ <<PullStep>>_vars => PullsEnd
    /\ Steady /\ [Next]_vars /\ At("pull", "each") /\ At("pull", "each")'
       => [PullLeft' <= PullLeft]_vars
<1> USE DEF At
<1>1. ASSUME Steady PROVE \A l \in Loops : Sent(l) \in Nat /\ Sends \in Nat
  BY <1>1, SentSoFar DEF Steady
<1>2. ASSUME Steady, ~live, <<ChannelStep>>_vars PROVE ChannelEnds
  <2>1. Sent("channel")' = Sent("channel") + 1 => SendsLeft("channel")' # SendsLeft("channel")
    BY <1>1, <1>2 DEF SendsLeft, Loops
  <2> QED  BY <1>2, <2>1, ChannelMoves DEF Steady, ChannelEnds
<1>3. ASSUME Steady, Pulling # <<>>, Pulling' = Tail(Pulling)
      PROVE  PullLeft' < PullLeft /\ PullLeft' <= PullLeft
  <2>1. todo["pull"] \in Seq(1..Made)
    BY <1>3, Facts DEF Steady
  <2>2. Len(Tail(todo["pull"])) = PullLeft - 1 /\ PullLeft \in Nat
    BY <1>3, <2>1, TailElements DEF Pulling, PullLeft
  <2>3. PullLeft' = PullLeft - 1
    BY <1>3, <2>2 DEF Pulling, PullLeft
  <2> QED  BY <2>2, <2>3
<1>4. ASSUME Steady PROVE PullLeft \in Nat
  BY <1>4, Measures
<1>5. ASSUME Steady, ~live, <<PullStep>>_vars PROVE PullsEnd
  <2>1. Sent("pull")' = Sent("pull") + 1 => SendsLeft("pull")' # SendsLeft("pull")
    BY <1>1, <1>5 DEF SendsLeft, Loops
  <2>2. Pulling # <<>> /\ Pulling' = Tail(Pulling) => PullLeft' # PullLeft
    BY <1>3, <1>4, <1>5
  <2> QED  BY <1>5, <2>1, <2>2, PullMoves DEF Steady, PullsEnd
<1>6. ASSUME Steady, [Next]_vars, At("pull", "each"), At("pull", "each")'
      PROVE  [PullLeft' <= PullLeft]_vars
  <2>1. CASE PullStep
    <3>1. Pulling # <<>> /\ Pulling' = Tail(Pulling)
      BY <1>6, <2>1, PullMoves DEF Steady
    <3> QED  BY <1>3, <1>4, <1>6, <3>1
  <2>2. CASE ~PullStep
    <3>1. todo'["pull"] = todo["pull"]
      BY <1>6, <2>2, OwnSteps DEF Steady
    <3>2. PullLeft' = PullLeft
      BY <3>1 DEF PullLeft, Pulling
    <3> QED  BY <1>4, <1>6, <3>2
  <2> QED  BY <2>1, <2>2
<1> QED  BY <1>2, <1>5, <1>6

\* The loop of the channel does not outlive the root context for ever.
LEMMA ChannelFinishes == Driven /\ <>[]~live => <>[]At("channel", "done")
<1> DEFINE Hung == Driven /\ <>[]~live /\ []~At("channel", "done")
<1>1. Steady => SendsLeft("channel") \in Nat
  BY Measures DEF Loops
<1>2. ~live /\ ~At("channel", "done") /\ LoopsNeverHeld => ENABLED <<ChannelStep>>_vars
  BY DEF LoopsNeverHeld, At
<1>3. Steady /\ [Next]_vars /\ Emitting("channel") /\ Emitting("channel")'
        => [SendsLeft("channel")' <= SendsLeft("channel")]_vars
  BY SendsAddUp DEF Loops
<1>4. Hung => <>[]~At("channel", "ready")
  BY <1>2, EndSteps, Stay, PTL DEF Driven, ChannelEnds, Stays, StaysAt, OnePlace
<1>5. Hung => <>[]Emitting("channel") \/ <>[]~Emitting("channel")
  BY <1>4, EndSteps, Stay, PTL DEF Driven, ChannelEnds, Stays, StaysAt, OnePlace, Emitting
<1>6. Hung /\ <>[]Emitting("channel") => <>[][SendsLeft("channel")' = SendsLeft("channel")]_vars
  BY <1>1, <1>3, PTL DEF Driven, Settles, SendsSettle
<1>7. Hung => <>[]~Emitting("channel")
  BY <1>2, <1>5, <1>6, EndSteps, Stay, PTL DEF Driven, ChannelEnds, Stays, StaysAt, OnePlace,
     Emitting
<1>8. ~Hung
  BY <1>2, <1>4, <1>7, EndSteps, Stay, PTL DEF Driven, ChannelEnds, Stays, StaysAt, OnePlace,
     Emitting
<1>9. Steady /\ [Next]_vars /\ At("channel", "done") => At("channel", "done")'
  BY Stay, ChannelMoves DEF Steady, Stays, StaysAt, At
<1>10. Driven /\ <>[]~live => <>At("channel", "done")
  BY <1>8, PTL
<1> QED  BY <1>9, <1>10, PTL DEF Driven

\* Nor does the pull loop.
LEMMA PullFinishes == Driven /\ <>[]~live => <>[]At("pull", "done")
<1> DEFINE Hung == Driven /\ <>[]~live /\ []~At("pull", "done")
<1>1. Steady => SendsLeft("pull") \in Nat /\ PullLeft \in Nat
  BY Measures DEF Loops
<1>2. ~At("pull", "done") /\ LoopsNeverHeld => ENABLED <<PullStep>>_vars
  BY DEF LoopsNeverHeld, At
<1>3. Steady /\ [Next]_vars /\ Emitting("pull") /\ Emitting("pull")'
        => [SendsLeft("pull")' <= SendsLeft("pull")]_vars
  BY SendsAddUp DEF Loops
<1>4. Hung => <>[]~At("pull", "ready")
  BY <1>2, EndSteps, Stay, PTL DEF Driven, PullsEnd, Stays, StaysAt, OnePlace
<1>5. Hung => <>[]~At("pull", "call")
  BY <1>2, <1>4, EndSteps, Stay, PTL DEF Driven, PullsEnd, Stays, StaysAt, OnePlace
<1>6. Hung => <>[]Emitting("pull") \/ <>[]~Emitting("pull")
  BY <1>5, EndSteps, Stay, PTL DEF Driven, PullsEnd, Stays, StaysAt, OnePlace, Emitting
<1>7. Hung /\ <>[]Emitting("pull") => <>[][SendsLeft("pull")' = SendsLeft("pull")]_vars
  BY <1>1, <1>3, PTL DEF Driven, Settles, SendsSettle
<1>8. Hung => <>[]~Emitting("pull")
  BY <1>2, <1>6, <1>7, EndSteps, Stay, PTL DEF Driven, PullsEnd, Stays, StaysAt, OnePlace, Emitting
<1>9. Hung => <>[]At("pull", "each") \/ <>[]~At("pull", "each")
  BY <1>4, <1>5, <1>8, EndSteps, Stay, PTL DEF Driven, PullsEnd, Stays, StaysAt, OnePlace, Emitting
<1>10. Hung /\ <>[]At("pull", "each") => <>[][PullLeft' = PullLeft]_vars
  BY <1>1, EndSteps, PTL DEF Driven, Settles, SendsSettle
<1>11. Hung => <>[]~At("pull", "each")
  BY <1>2, <1>9, <1>10, EndSteps, Stay, PTL DEF Driven, PullsEnd, Stays, StaysAt, OnePlace
<1>12. ~Hung
  BY <1>2, <1>4, <1>5, <1>8, <1>11, EndSteps, Stay, PTL
     DEF Driven, PullsEnd, Stays, StaysAt, OnePlace, Emitting
<1>13. Steady /\ [Next]_vars /\ At("pull", "done") => At("pull", "done")'
  BY Stay, PullMoves DEF Steady, Stays, StaysAt, At
<1>14. Driven /\ <>[]~live => <>At("pull", "done")
  BY <1>12, PTL
<1> QED  BY <1>13, <1>14, PTL DEF Driven

\* Both loops are over; nothing is on its way.
AllDone == \A l \in Loops : loop[l] = "done"
Quiet == \A m \in Messages : ~OnItsWay(m)
Goal == IF live THEN Quiet ELSE AllDone

\* LoopsGoOnOrEnd: every message is settled while the process goes on, and both
\* loops end with it, because messages and failed sendings are all that can
\* come in between, and both are used up.
THEOREM LoopsFinish == FairSpec /\ []LoopsNeverHeld /\ LoopsSettle => LoopsGoOnOrEnd
<1>1. Steady => Left \in Nat
  BY Measures
<1>2. Driven => <>[][Left' = Left]_vars
  BY <1>1, FewerLeft, PTL DEF Driven, Settles, SendsSettle
<1>3. Driven /\ <>[]live => <>[]~Pushes
  BY <1>2, PushedIsSettled, PushSteps, PTL DEF Stuck, Driven
<1>4. Driven /\ <>[]live => <>[]~Pulls
  BY <1>2, PulledIsSettled, PullSteps, PTL DEF Kept, Driven
<1>5. ~Pushes /\ ~Pulls => Quiet
  BY DEF Pushes, Pulls, Quiet, OnItsWay, InSeq
<1>6. live /\ Quiet => Goal
  BY DEF Goal
<1>7. Driven /\ <>[]live => []<>Goal
  BY <1>3, <1>4, <1>5, <1>6, PTL
<1>8. At("channel", "done") /\ At("pull", "done") /\ ~live => Goal
  BY DEF AllDone, At, Loops, Goal
<1>9. Driven /\ <>[]~live => []<>Goal
  BY <1>8, ChannelFinishes, PullFinishes, PTL
<1>10. Steady /\ [Next]_vars => (live' => live)
  BY Stay
<1>11. Driven => <>[]live \/ <>[]~live
  BY <1>10, PTL DEF Driven
<1>12. FairSpec /\ []LoopsNeverHeld /\ LoopsSettle => []<>Goal
  BY <1>7, <1>9, <1>11, Drives, PTL
<1> QED  BY <1>12 DEF LoopsGoOnOrEnd, Goal, Quiet, AllDone

=============================================================================

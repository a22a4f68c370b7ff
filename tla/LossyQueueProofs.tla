--------------------------- MODULE LossyQueueProofs ---------------------------
(***************************************************************************)
(* Proof that LossyQueue delivers in order: what an emitter that           *)
(* implements it puts on its stream never goes back, except for the        *)
(* repetition of its last message.                                         *)
(***************************************************************************)
EXTENDS LossyQueue, TLAPS

Types == made \in Nat /\ waiting \in Seq(Nat) /\ delivered \in Seq(Nat)

\* What waits is in order and was made; what was delivered is not younger.
Waits == Increasing(waiting) /\ \A i \in 1..Len(waiting) : waiting[i] <= made
Behind ==
    \A i \in 1..Len(delivered) :
        /\ delivered[i] <= made
        /\ \A j \in 1..Len(waiting) : delivered[i] <= waiting[j]

Inv == Types /\ Waits /\ Behind /\ InOrder

\* An element of a tail was an element of the sequence, one place later.
LEMMA TailElements ==
    ASSUME NEW s \in Seq(Nat), s # <<>>
    PROVE  /\ Tail(s) \in Seq(Nat) /\ Len(Tail(s)) = Len(s) - 1
           /\ Head(s) = s[1] /\ 1 \in 1..Len(s) /\ s[1] \in Nat
           /\ \A i \in 1..Len(Tail(s)) : i + 1 \in 1..Len(s) /\ Tail(s)[i] = s[i + 1]
OBVIOUS

\* Every step keeps the queue and the stream in order.
LEMMA Inductive == Inv /\ [Next]_<<made, waiting, delivered>> => Inv'
<1> SUFFICES ASSUME Inv, [Next]_<<made, waiting, delivered>> PROVE Inv'
  OBVIOUS
<1> USE DEF Inv
<1>1. /\ made \in Nat /\ waiting \in Seq(Nat) /\ delivered \in Seq(Nat)
      /\ \A i \in 1..Len(waiting) : waiting[i] \in Nat
      /\ \A i \in 1..Len(delivered) : delivered[i] \in Nat
      /\ Len(waiting) \in Nat /\ Len(delivered) \in Nat
  BY DEF Types
<1>2. CASE Put
  <2>1. /\ made' \in Nat /\ made' >= made /\ waiting' \in Seq(Nat) /\ delivered' = delivered
        /\ Len(waiting') \in Nat /\ Increasing(waiting')
    BY <1>2 DEF Put
  <2>2. \A j \in 1..Len(waiting') :
          \/ j \in 1..Len(waiting) /\ waiting'[j] = waiting[j]
          \/ waiting'[j] \in (made + 1)..made'
    BY <1>1, <1>2, <2>1 DEF Put, Extends
  <2>3. Waits'
    BY <1>1, <2>1, <2>2 DEF Waits, Increasing
  <2>4. Behind'
    <3> SUFFICES ASSUME NEW i \in 1..Len(delivered)
                 PROVE  /\ delivered[i] <= made'
                        /\ \A j \in 1..Len(waiting') : delivered[i] <= waiting'[j]
      BY <2>1 DEF Behind
    <3>1. /\ delivered[i] \in Nat /\ delivered[i] <= made
          /\ \A j \in 1..Len(waiting) : delivered[i] <= waiting[j]
      BY <1>1 DEF Behind
    <3>2. ASSUME NEW j \in 1..Len(waiting') PROVE delivered[i] <= waiting'[j]
      <4>1. CASE j \in 1..Len(waiting) /\ waiting'[j] = waiting[j]
        BY <3>1, <4>1
      <4>2. CASE waiting'[j] \in (made + 1)..made'
        BY <1>1, <2>1, <3>1, <4>2, SMTT(30)
      <4> QED  BY <2>2, <4>1, <4>2
    <3> QED  BY <1>1, <2>1, <3>1, <3>2
  <2> QED  BY <1>1, <2>1, <2>3, <2>4 DEF Types, InOrder
<1>3. CASE Deliver \/ Settle
  <2>1. waiting # <<>> /\ made' = made /\ waiting' \in {waiting, Tail(waiting)}
    BY <1>3 DEF Deliver, Settle
  <2>2. /\ waiting' \in Seq(Nat)
        /\ \A i \in 1..Len(waiting') : waiting'[i] \in Nat
        /\ Waits'
    <3>1. CASE waiting' = waiting
      BY <1>1, <2>1, <3>1 DEF Waits, Increasing
    <3>2. CASE waiting' = Tail(waiting)
      BY <1>1, <2>1, <3>2, TailElements DEF Waits, Increasing
    <3> QED  BY <2>1, <3>1, <3>2
  <2>3. \A j \in 1..Len(waiting') : \E i \in 1..Len(waiting) : waiting'[j] = waiting[i]
    <3>1. CASE waiting' = waiting
      BY <3>1
    <3>2. CASE waiting' = Tail(waiting)
      BY <1>1, <2>1, <3>2, TailElements
    <3> QED  BY <2>1, <3>1, <3>2
  <2>4. /\ waiting[1] \in Nat /\ 1 \in 1..Len(waiting) /\ waiting[1] <= made
        /\ \A i \in 1..Len(waiting) : waiting[1] <= waiting[i]
    BY <1>1, <2>1, TailElements DEF Waits, Increasing
  <2>5. CASE Settle
    BY <1>1, <2>1, <2>2, <2>3, <2>5 DEF Settle, Types, Behind, InOrder
  <2>6. CASE Deliver
    <3>1. /\ delivered' \in Seq(Nat)
          /\ \A i \in 1..Len(delivered') :
               \/ i \in 1..Len(delivered) /\ delivered'[i] = delivered[i]
               \/ i = Len(delivered) + 1 /\ delivered'[i] = waiting[1]
      BY <1>1, <2>1, <2>4, <2>6, TailElements DEF Deliver
    <3>2. Behind'
      BY <1>1, <2>1, <2>2, <2>3, <2>4, <3>1 DEF Behind
    <3>3. InOrder'
      <4> SUFFICES ASSUME NEW i \in 1..Len(delivered'), NEW j \in 1..Len(delivered'), i < j
                   PROVE  delivered'[i] <= delivered'[j]
        BY DEF InOrder
      <4>1. i \in 1..Len(delivered) /\ delivered'[i] = delivered[i]
        BY <1>1, <3>1, SMTT(30)
      <4>2. CASE j \in 1..Len(delivered) /\ delivered'[j] = delivered[j]
        BY <4>1, <4>2 DEF InOrder
      <4>3. CASE delivered'[j] = waiting[1]
        BY <2>4, <4>1, <4>3 DEF Behind
      <4> QED  BY <3>1, <4>2, <4>3
    <3> QED  BY <1>1, <2>1, <2>2, <3>1, <3>2, <3>3 DEF Types
  <2> QED  BY <1>3, <2>5, <2>6
<1>4. CASE Abandon
  BY <1>1, <1>4 DEF Abandon, Types, Waits, Increasing, Behind, InOrder
<1>5. CASE UNCHANGED <<made, waiting, delivered>>
  BY <1>5 DEF Types, Waits, Behind, InOrder
<1> QED  BY <1>2, <1>3, <1>4, <1>5 DEF Next

\* A stream fed like a LossyQueue is in the order of the making of its messages.
THEOREM DeliversInOrder == Spec => []InOrder
<1>1. Init => Inv
  BY DEF Init, Inv, Types, Waits, Increasing, Behind, InOrder
<1>2. Inv => InOrder
  BY DEF Inv
<1> QED  BY <1>1, <1>2, Inductive, PTL DEF Spec
=============================================================================

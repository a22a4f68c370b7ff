--------------------------- MODULE RpcExchangeProofs ---------------------------
(***************************************************************************)
(* Proofs about RpcExchange, for any calls, processes, instance ids, read  *)
(* count and fault bound: the types, what a call may rely on, that         *)
(* listeners never block nor vanish unseen, the refinement of RpcCall, and *)
(* that every call returns and every reply is read.                        *)
(***************************************************************************)
EXTENDS RpcExchange, Descent, Integers, SequenceTheorems, TLAPS

\* Cutting a sequence after its n-th element gives two sequences of its
\* elements, in their order.
LEMMA CutSequence ==
    ASSUME NEW S, NEW u \in Seq(S), NEW n \in 0..Len(u)
    PROVE  /\ SubSeq(u, 1, n) \in Seq(S)
           /\ Len(SubSeq(u, 1, n)) = n
           /\ \A j \in 1..n : SubSeq(u, 1, n)[j] = u[j]
           /\ SubSeq(u, n + 1, Len(u)) \in Seq(S)
           /\ Len(SubSeq(u, n + 1, Len(u))) = Len(u) - n
           /\ \A j \in 1..(Len(u) - n) : SubSeq(u, n + 1, Len(u))[j] = u[n + j]
<1>1. Len(u) \in Nat /\ n \in Nat /\ n <= Len(u)
  BY LenProperties
<1>2. \A j \in 1..Len(u) : u[j] \in S
  BY ElementOfSeq
<1>3. /\ SubSeq(u, 1, n) \in Seq(S)
      /\ Len(SubSeq(u, 1, n)) = IF 1 <= n THEN n - 1 + 1 ELSE 0
      /\ \A j \in 1..(n - 1 + 1) : SubSeq(u, 1, n)[j] = u[1 + j - 1]
  <2>1. \A j \in 1..n : u[j] \in S
    BY <1>1, <1>2
  <2> QED  BY <1>1, <2>1, SubSeqProperties
<1>4. /\ SubSeq(u, n + 1, Len(u)) \in Seq(S)
      /\ Len(SubSeq(u, n + 1, Len(u))) = IF n + 1 <= Len(u) THEN Len(u) - (n + 1) + 1 ELSE 0
      /\ \A j \in 1..(Len(u) - (n + 1) + 1) :
           SubSeq(u, n + 1, Len(u))[j] = u[(n + 1) + j - 1]
  <2>1. \A j \in (n + 1)..Len(u) : u[j] \in S
    BY <1>1, <1>2
  <2>2. n + 1 \in Int /\ Len(u) \in Int
    BY <1>1
  <2> QED  BY <2>1, <2>2, SubSeqProperties
<1>5. \A j : n - 1 + 1 = n /\ (j \in Int => 1 + j - 1 = j /\ (n + 1) + j - 1 = n + j)
  BY <1>1
<1>6. Len(u) - (n + 1) + 1 = Len(u) - n
  BY <1>1
<1>7. Len(SubSeq(u, 1, n)) = n /\ Len(SubSeq(u, n + 1, Len(u))) = Len(u) - n
  BY <1>1, <1>3, <1>4
<1>8. \A j \in 1..n : SubSeq(u, 1, n)[j] = u[j]
  BY <1>3, <1>5
<1>9. \A j \in 1..(Len(u) - n) : SubSeq(u, n + 1, Len(u))[j] = u[n + j]
  BY <1>4, <1>5, <1>6
<1> QED
  BY <1>3, <1>4, <1>7, <1>8, <1>9

\* A read takes no more than the stream holds.
LEMMA ReadSizeInRange ==
    ASSUME TypeOK, NEW s \in Streams
    PROVE  unread[s] \in Seq(Entries) /\ ReadSize(s) \in 0..Len(unread[s])
<1>1. unread[s] \in Seq(Entries)
  BY DEF TypeOK
<1>2. Len(unread[s]) \in Nat
  BY <1>1, LenProperties
<1> QED
  BY <1>1, <1>2, ReadCountAssumption DEF ReadSize

\* A nonempty batch has an entry in front and a sequence of entries behind it.
LEMMA HeadOfBatch ==
    ASSUME TypeOK, NEW l \in Calls, batch[l] # <<>>
    PROVE  /\ Head(batch[l]) \in Entries /\ Current(l) \in Calls
           /\ Tail(batch[l]) \in Seq(Entries)
<1>1. batch[l] \in Seq(Entries)
  BY DEF TypeOK
<1>2. Head(batch[l]) \in Entries /\ Tail(batch[l]) \in Seq(Entries)
  BY <1>1, HeadTailProperties
<1> QED
  BY <1>2 DEF Current, Entries

\* What a read hands over, what it leaves and what becomes pending are entries.
LEMMA ReadTypes ==
    ASSUME TypeOK, NEW s \in Streams
    PROVE  /\ ReadBatch(s) \in Seq(Entries)
           /\ SubSeq(unread[s], ReadSize(s) + 1, Len(unread[s])) \in Seq(Entries)
           /\ BatchSet(s) \subseteq Entries
           /\ unread[s] # <<>> => ReadBatch(s) # <<>>
<1>1. unread[s] \in Seq(Entries) /\ ReadSize(s) \in 0..Len(unread[s])
  BY ReadSizeInRange
<1>2. /\ ReadBatch(s) \in Seq(Entries) /\ Len(ReadBatch(s)) = ReadSize(s)
      /\ SubSeq(unread[s], ReadSize(s) + 1, Len(unread[s])) \in Seq(Entries)
  BY <1>1, CutSequence DEF ReadBatch
<1>3. Len(unread[s]) \in Nat /\ \A j \in 1..Len(unread[s]) : unread[s][j] \in Entries
  BY <1>1, LenProperties, ElementOfSeq
<1>4. BatchSet(s) \subseteq Entries
  BY <1>1, <1>3 DEF BatchSet
<1>5. unread[s] # <<>> => ReadSize(s) > 0
  <2>1. unread[s] # <<>> => Len(unread[s]) # 0
    BY <1>1, EmptySeq
  <2> QED  BY <1>3, <2>1, ReadCountAssumption DEF ReadSize
<1> QED
  BY <1>2, <1>4, <1>5, EmptySeq

\* Discarding an entry leaves the others of the batch, of which there is one less.
LEMMA Discards ==
    ASSUME TypeOK, NEW l \in Calls, LoopDiscards(l)
    PROVE  \E q \in Seq(Entries) :
             /\ batch' = [batch EXCEPT ![l] = q] /\ loop' = [loop EXCEPT ![l] = Sorted(q)]
             /\ Len(q) \in Nat /\ Len(batch[l]) \in Nat /\ Len(q) < Len(batch[l])
             /\ \A j \in 1..Len(q) : \E k \in 1..Len(batch[l]) : q[j] = batch[l][k]
<1>1. PICK j \in 1..Len(batch[l]) :
        /\ batch' = [batch EXCEPT ![l] = Without(batch[l], j)]
        /\ loop' = [loop EXCEPT ![l] = Sorted(Without(batch[l], j))]
  BY DEF LoopDiscards, LoopGoto
<1> DEFINE n == Len(batch[l]) - 1
           q == Without(batch[l], j)
<1>2. batch[l] \in Seq(Entries) /\ Len(batch[l]) \in Nat
      /\ \A k \in 1..Len(batch[l]) : batch[l][k] \in Entries
  <2>1. batch[l] \in Seq(Entries)
    BY DEF TypeOK
  <2> QED  BY <2>1, LenProperties, ElementOfSeq
<1>3. n \in Nat /\ n < Len(batch[l])
  BY <1>2
<1>4. \A h \in 1..n : h \in 1..Len(batch[l]) /\ h + 1 \in 1..Len(batch[l])
  BY <1>2
<1>5. \A h \in 1..n : \E k \in 1..Len(batch[l]) : q[h] = batch[l][k]
  <2> TAKE h \in 1..n
  <2>1. q[h] = IF h < j THEN batch[l][h] ELSE batch[l][h + 1]
    BY DEF Without
  <2> QED  BY <1>4, <2>1
<1>6. q = [h \in 1..n |-> IF h < j THEN batch[l][h] ELSE batch[l][h + 1]]
  BY DEF Without
<1>7. q \in Seq(Entries) /\ Len(q) = n
  BY <1>2, <1>3, <1>4, <1>6, IsASeq
<1> HIDE DEF q, n
<1> QED  BY <1>1, <1>2, <1>3, <1>5, <1>7 DEF q

\* A loop that has taken a channel out of replyRouter still holds the reply
\* it took it for: LoadAndDelete is never undone by losing the message.
Working == \A l \in Calls : loop[l] \in {"deliver", "ack"} => batch[l] # <<>>

TypeInv == TypeOK /\ Working

\* Every step keeps the types and what a loop at work holds (Working).
LEMMA TypeInductive == TypeInv /\ [Next]_vars => TypeInv'
<1> SUFFICES ASSUME TypeInv, [Next]_vars PROVE TypeInv'
  OBVIOUS
<1> USE OwnerAssumption
    DEF Goto, LoopGoto, NoFault, Fault, Loading, Returned, LoopPcs, callVars, loopVars,
        metaVars, brokerVars, serverVars, procVars
<1>1. \A c \in Calls : /\ ReplyTo(c) \in Streams /\ Owner[c] \in Instances
                       /\ <<Owner[c], ReplyTo(c)>> \in Instances \X Streams
  BY DEF Streams
<1>2. ASSUME NEW c \in Calls, BeginRequest(c) PROVE TypeInv'
  BY <1>1, <1>2 DEF BeginRequest, TypeInv, TypeOK, Working
<1>3. ASSUME NEW c \in Calls, RefuseRequest(c) PROVE TypeInv'
  BY <1>1, <1>3 DEF RefuseRequest, TypeInv, TypeOK, Working
<1>4. ASSUME NEW c \in Calls, EnsureGroup(c) PROVE TypeInv'
  <2>1. /\ pc' \in {[pc EXCEPT ![c] = "check"], [pc EXCEPT ![c] = "launched"]}
        /\ group' = [group EXCEPT ![ReplyTo(c)] = TRUE]
        /\ UNCHANGED <<router, chan, loopVars, subscribed, trimming, unread, pend,
                       serverVars, phase, erred, faults>>
    BY <1>4 DEF EnsureGroup
  <2>2. registered' \subseteq Instances \X Streams
    BY <1>1, <1>4 DEF EnsureGroup, TypeInv, TypeOK
  <2>3. todo' \in [Instances -> SUBSET Streams]
    <3>1. todo \in [Instances -> SUBSET Streams]
      BY DEF TypeInv, TypeOK
    <3>2. \/ todo' = todo
          \/ todo' = [todo EXCEPT ![Owner[c]] = @ \cup {ReplyTo(c)}]
      BY <1>4 DEF EnsureGroup
    <3>3. todo[Owner[c]] \cup {ReplyTo(c)} \in SUBSET Streams
      BY <1>1, <3>1
    <3> QED  BY <1>1, <3>1, <3>2, <3>3
  <2> QED  BY <2>1, <2>2, <2>3 DEF TypeInv, TypeOK, Working
<1>5. ASSUME NEW c \in Calls, EnsureGroupFails(c) PROVE TypeInv'
  <2>1. faults' \in Nat
    BY <1>5 DEF EnsureGroupFails, TypeInv, TypeOK
  <2>2. /\ pc' = [pc EXCEPT ![c] = "emit"]
        /\ UNCHANGED <<router, chan, loopVars, metaVars, brokerVars, serverVars, procVars>>
    BY <1>5 DEF EnsureGroupFails
  <2> QED  BY <2>1, <2>2 DEF TypeInv, TypeOK, Working
<1>6. ASSUME NEW c \in Calls, FindListener(c) PROVE TypeInv'
  BY <1>1, <1>6 DEF FindListener, TypeInv, TypeOK, Working
<1>7. ASSUME NEW c \in Calls, StartListener(c) PROVE TypeInv'
  BY <1>1, <1>7 DEF StartListener, TypeInv, TypeOK, Working
<1>8. ASSUME NEW c \in Calls, SeeListener(c) PROVE TypeInv'
  BY <1>1, <1>8 DEF SeeListener, TypeInv, TypeOK, Working
<1>9. ASSUME NEW c \in Calls, EmitRequest(c) PROVE TypeInv'
  BY <1>1, <1>9 DEF EmitRequest, TypeInv, TypeOK, Working
<1>10. ASSUME NEW c \in Calls, EmitFails(c) PROVE TypeInv'
  <2>1. UNCHANGED <<router, chan, loopVars, metaVars, brokerVars, executed, replies, garbled,
                    expired, procVars>>
    BY <1>10 DEF EmitFails
  <2>2. pc' \in [Calls -> Loading]
    BY <1>10 DEF EmitFails, TypeInv, TypeOK
  <2>3. requests' \in [Calls -> Nat] /\ faults' \in Nat
    <3>1. /\ faults' = faults \/ faults' = faults + 1
          /\ \/ requests' = requests
             \/ \E n \in {0, 1} : requests' = [requests EXCEPT ![c] = @ + n]
      BY <1>10 DEF EmitFails
    <3>2. faults \in Nat /\ requests \in [Calls -> Nat]
      BY DEF TypeInv, TypeOK
    <3>3. ASSUME NEW n \in {0, 1}, requests' = [requests EXCEPT ![c] = @ + n]
          PROVE  requests' \in [Calls -> Nat]
      BY <3>2, <3>3
    <3>4. faults' \in Nat
      BY <3>1, <3>2
    <3> QED  BY <3>1, <3>2, <3>3, <3>4
  <2> QED  BY <2>1, <2>2, <2>3 DEF TypeInv, TypeOK, Working
<1>11. ASSUME NEW c \in Calls, Receive(c) PROVE TypeInv'
  BY <1>1, <1>11 DEF Receive, TypeInv, TypeOK, Working
<1>12. ASSUME NEW c \in Calls, Timeout(c) PROVE TypeInv'
  BY <1>1, <1>12 DEF Timeout, TypeInv, TypeOK, Working
<1>13. ASSUME NEW l \in Calls, LoopTop(l) PROVE TypeInv'
  <2>1. \/ loop' = [loop EXCEPT ![l] = "dead"] /\ subscribed' = subscribed
        \/ /\ loop' = [loop EXCEPT ![l] = "read"]
           /\ subscribed' = subscribed \cup {<<Owner[l], ReplyTo(l)>>}
    BY <1>13 DEF LoopTop
  <2>2. UNCHANGED <<callVars, batch, registered, trimming, brokerVars, serverVars, procVars, faults>>
    BY <1>13 DEF LoopTop
  <2>3. subscribed' \subseteq Instances \X Streams
    BY <1>1, <2>1 DEF TypeInv, TypeOK
  <2>4. loop' \in [Calls -> LoopPcs] /\ Working'
    BY <2>1, <2>2 DEF TypeInv, TypeOK, Working
  <2> QED  BY <2>2, <2>3, <2>4 DEF TypeInv, TypeOK
<1>14. ASSUME NEW l \in Calls, LoopRead(l) PROVE TypeInv'
  <2> DEFINE s == ReplyTo(l)
  <2>1. s \in Streams
    BY <1>1
  <2>2. /\ \E to \in {"top", "discard", "handle"} : loop' = [loop EXCEPT ![l] = to]
        /\ batch' = [batch EXCEPT ![l] = ReadBatch(s)]
        /\ DeliverBatch(s)
        /\ UNCHANGED <<callVars, metaVars, serverVars, procVars, faults>>
    BY <1>14 DEF LoopRead, Sorted
  <2>3. /\ ReadBatch(s) \in Seq(Entries) /\ BatchSet(s) \subseteq Entries
        /\ SubSeq(unread[s], ReadSize(s) + 1, Len(unread[s])) \in Seq(Entries)
    BY <2>1, ReadTypes DEF TypeInv
  <2>4. batch' \in [Calls -> Seq(Entries)] /\ loop' \in [Calls -> LoopPcs]
    BY <2>2, <2>3 DEF TypeInv, TypeOK
  <2>5. unread' \in [Streams -> Seq(Entries)] /\ pend' \in [Streams -> SUBSET Entries] /\ group' = group
    BY <2>1, <2>2, <2>3 DEF DeliverBatch, TypeInv, TypeOK
  <2>6. Working'
    BY <2>2 DEF Working, TypeInv, TypeOK
  <2> QED  BY <2>2, <2>4, <2>5, <2>6 DEF TypeInv, TypeOK
<1>15. ASSUME NEW l \in Calls, LoopReadFails(l) PROVE TypeInv'
  <2> DEFINE s == ReplyTo(l)
  <2>1. s \in Streams /\ Owner[l] \in Instances
    BY <1>1
  <2>2. UNCHANGED <<callVars, batch, metaVars, serverVars, phase, todo>>
    BY <1>15 DEF LoopReadFails, LoopDiscards, LoopDies
  <2>3. loop' = [loop EXCEPT ![l] = "top"] \/ loop' = [loop EXCEPT ![l] = "dead"]
    BY <1>15 DEF LoopReadFails, LoopDiscards, LoopDies
  <2>4. erred' = erred \/ erred' = erred \cup {Owner[l]}
    BY <1>15 DEF LoopReadFails, LoopDiscards, LoopDies
  <2>5. faults' = faults \/ faults' = faults + 1
    BY <1>15 DEF LoopReadFails
  <2>6. UNCHANGED brokerVars \/ DeliverBatch(s)
    BY <1>15 DEF LoopReadFails
  <2>7. /\ BatchSet(s) \subseteq Entries
        /\ SubSeq(unread[s], ReadSize(s) + 1, Len(unread[s])) \in Seq(Entries)
    BY <2>1, ReadTypes DEF TypeInv
  <2>8. unread' \in [Streams -> Seq(Entries)] /\ pend' \in [Streams -> SUBSET Entries] /\ group' = group
    <3>1. /\ unread \in [Streams -> Seq(Entries)] /\ pend \in [Streams -> SUBSET Entries]
          /\ pend[s] \subseteq Entries
      BY <2>1 DEF TypeInv, TypeOK
    <3>2. CASE UNCHANGED brokerVars
      BY <3>1, <3>2 DEF brokerVars
    <3>3. CASE DeliverBatch(s)
      <4> DEFINE rest == SubSeq(unread[s], ReadSize(s) + 1, Len(unread[s]))
      <4>1. /\ unread' = [unread EXCEPT ![s] = rest]
            /\ pend' = [pend EXCEPT ![s] = pend[s] \cup BatchSet(s)] /\ group' = group
        BY <3>3 DEF DeliverBatch
      <4> HIDE DEF rest
      <4>2. rest \in Seq(Entries)
        BY <2>7 DEF rest
      <4> QED  BY <2>7, <3>1, <4>1, <4>2
    <3> QED  BY <2>6, <3>2, <3>3
  <2>9. loop' \in [Calls -> LoopPcs] /\ Working'
    BY <2>2, <2>3 DEF TypeInv, TypeOK, Working
  <2>10. erred' \subseteq Instances /\ faults' \in Nat
    BY <2>1, <2>4, <2>5 DEF TypeInv, TypeOK
  <2> QED  BY <2>2, <2>8, <2>9, <2>10 DEF TypeInv, TypeOK
<1>16. ASSUME NEW l \in Calls, TakeChannel(l) PROVE TypeInv'
  BY <1>1, <1>16 DEF TakeChannel, InTime, TypeInv, TypeOK, Working
<1>17. ASSUME NEW l \in Calls, SendToCaller(l) PROVE TypeInv'
  <2>1. Current(l) \in Calls
    BY <1>17, HeadOfBatch DEF SendToCaller, TypeInv, Working
  <2> QED  BY <1>17, <2>1 DEF SendToCaller, TypeInv, TypeOK, Working
<1>18. ASSUME NEW l \in Calls, AckReply(l) PROVE TypeInv'
  <2>1. Tail(batch[l]) \in Seq(Entries)
    BY <1>18, HeadOfBatch DEF AckReply, TypeInv, Working
  <2>2. /\ batch' = [batch EXCEPT ![l] = Tail(batch[l])]
        /\ loop' = [loop EXCEPT ![l] = "handle"]
        /\ UNCHANGED <<callVars, metaVars, group, unread, serverVars, procVars>>
    BY <1>18 DEF AckReply
  <2>3. pend' \in [Streams -> SUBSET Entries]
    <3>1. pend \in [Streams -> SUBSET Entries]
      BY DEF TypeInv, TypeOK
    <3>2. pend' = pend \/ \E e : pend' = [pend EXCEPT ![ReplyTo(l)] = pend[ReplyTo(l)] \ {e}]
      BY <1>18 DEF AckReply
    <3> QED  BY <3>1, <3>2
  <2>4. faults' \in Nat
    BY <1>18 DEF AckReply, TypeInv, TypeOK
  <2> QED  BY <2>1, <2>2, <2>3, <2>4 DEF TypeInv, TypeOK, Working
<1>19. ASSUME NEW l \in Calls, StrayReply(l) PROVE TypeInv'
  <2>1. Tail(batch[l]) \in Seq(Entries)
    BY <1>19, HeadOfBatch DEF StrayReply, InTime, TypeInv
  <2> QED  BY <1>19, <2>1 DEF StrayReply, TypeInv, TypeOK, Working
<1>20. ASSUME NEW l \in Calls, ExpiredReply(l) PROVE TypeInv'
  <2>1. <<>> \in Seq(Entries)
    BY EmptySeq
  <2> QED  BY <1>20, <1>1, <2>1 DEF ExpiredReply, LoopDies, TypeInv, TypeOK, Working
<1>21. ASSUME NEW l \in Calls, BatchDone(l) PROVE TypeInv'
  BY <1>1, <1>21 DEF BatchDone, TypeInv, TypeOK, Working
<1>22. ASSUME NEW c \in Calls, Serve(c) PROVE TypeInv'
  <2>1. PICK n \in 0..2 :
          /\ PublishReplies(c, n) /\ (faults' = faults \/ faults' = faults + 1)
          /\ garbled' \in {garbled, garbled \cup {<<c, replies[c] + j>> : j \in 1..n}}
    BY <1>22 DEF Serve, Reply
  <2> DEFINE s == ReplyTo(c)
  <2>2. \A k \in Nat \ {0} : <<c, k>> \in Entries
    BY DEF Entries
  <2>3. replies[c] + 1 \in Nat \ {0} /\ replies[c] + 2 \in Nat \ {0}
    BY DEF TypeInv, TypeOK
  <2>4. << <<c, replies[c] + 1>>, <<c, replies[c] + 2>> >> \in Seq(Entries)
    BY <2>2, <2>3
  <2>5. SubSeq(<< <<c, replies[c] + 1>>, <<c, replies[c] + 2>> >>, 1, n) \in Seq(Entries)
    BY <2>4, CutSequence
  <2>6. unread' \in [Streams -> Seq(Entries)] /\ replies' \in [Calls -> Nat]
    <3>1. s \in Streams /\ unread \in [Streams -> Seq(Entries)] /\ replies \in [Calls -> Nat]
      BY <1>1 DEF TypeInv, TypeOK
    <3>2. unread[s] \o SubSeq(<< <<c, replies[c] + 1>>, <<c, replies[c] + 2>> >>, 1, n)
            \in Seq(Entries)
      BY <2>5, <3>1, ConcatProperties
    <3>3. replies' = [replies EXCEPT ![c] = @ + n]
      BY <2>1 DEF PublishReplies
    <3>4. \/ unread' = unread
          \/ unread' = [unread EXCEPT ![s] =
                          @ \o SubSeq(<< <<c, replies[c] + 1>>, <<c, replies[c] + 2>> >>, 1, n)]
      BY <2>1 DEF PublishReplies
    <3>5. unread' \in [Streams -> Seq(Entries)]
      BY <3>1, <3>2, <3>4
    <3>6. replies' \in [Calls -> Nat]
      BY <3>1, <3>3
    <3> QED  BY <3>5, <3>6
  <2>7. requests' \in [Calls -> Nat] /\ executed' \in [Calls -> Nat]
    BY <1>22 DEF Serve, TypeInv, TypeOK
  <2>8. faults' \in Nat /\ garbled' \subseteq Entries
    <3>1. \A j \in 1..n : replies[c] + j \in Nat \ {0}
      BY DEF TypeInv, TypeOK
    <3> QED  BY <2>1, <2>2, <3>1 DEF TypeInv, TypeOK
  <2>9. UNCHANGED <<callVars, loopVars, metaVars, expired, group, pend, procVars>>
    BY <1>22 DEF Serve
  <2> QED  BY <2>6, <2>7, <2>8, <2>9 DEF TypeInv, TypeOK, Working
<1>23. ASSUME NEW c \in Calls, DropRequest(c) PROVE TypeInv'
  BY <1>1, <1>23 DEF DropRequest, TypeInv, TypeOK, Working
<1>34. ASSUME NEW l \in Calls, LoopDiscards(l) PROVE TypeInv'
  <2>1. PICK q \in Seq(Entries) : /\ batch' = [batch EXCEPT ![l] = q]
                                  /\ loop' = [loop EXCEPT ![l] = Sorted(q)]
    BY <1>34, Discards DEF TypeInv
  <2>2. pend' = pend \/ \E e : pend' = [pend EXCEPT ![ReplyTo(l)] = pend[ReplyTo(l)] \ {e}]
    BY <1>34 DEF LoopDiscards
  <2>3. pend' \in [Streams -> SUBSET Entries]
    <3>1. pend \in [Streams -> SUBSET Entries]
      BY DEF TypeInv, TypeOK
    <3> QED  BY <2>2, <3>1
  <2>4. faults' \in Nat
    BY <1>34 DEF LoopDiscards, TypeInv, TypeOK
  <2>5. UNCHANGED <<callVars, metaVars, group, unread, serverVars, procVars>>
    BY <1>34 DEF LoopDiscards
  <2> QED  BY <2>1, <2>3, <2>4, <2>5 DEF Sorted, TypeInv, TypeOK, Working
<1>33. ASSUME NEW c \in Calls, MethodFails(c) PROVE TypeInv'
  <2>1. PICK left \in {requests[c], requests[c] - 1} : requests' = [requests EXCEPT ![c] = left]
    BY <1>33 DEF MethodFails
  <2>2. left \in Nat
    BY <1>33, <2>1 DEF MethodFails, TypeInv, TypeOK
  <2>3. requests' \in [Calls -> Nat] /\ executed' \in [Calls -> Nat] /\ faults' \in Nat
    BY <1>33, <2>1, <2>2 DEF MethodFails, TypeInv, TypeOK
  <2>4. UNCHANGED <<callVars, loopVars, metaVars, brokerVars, replies, garbled, expired,
                   procVars>>
    BY <1>33 DEF MethodFails
  <2> QED  BY <2>3, <2>4 DEF TypeInv, TypeOK, Working
<1>24. ASSUME NEW i \in Instances, TrimStore(i) PROVE TypeInv'
  BY <1>1, <1>24 DEF TrimStore, TypeInv, TypeOK, Working
<1>25. ASSUME NEW i \in Instances, BeginShutdown(i) PROVE TypeInv'
  BY <1>1, <1>25 DEF BeginShutdown, TypeInv, TypeOK, Working
<1>26. ASSUME NEW i \in Instances, Cancel(i) PROVE TypeInv'
  BY <1>1, <1>26 DEF Cancel, TypeInv, TypeOK, Working
<1>27. ASSUME NEW i \in Instances, NEW s \in Streams, TrimLoad(i, s) PROVE TypeInv'
  BY <1>1, <1>27 DEF TrimLoad, TypeInv, TypeOK, Working
<1>28. ASSUME NEW i \in Instances, NEW s \in Streams, DeleteStream(i, s) PROVE TypeInv'
  <2>1. <<>> \in Seq(Entries) /\ {} \in SUBSET Entries
    BY EmptySeq
  <2>2. CASE UNCHANGED brokerVars
    BY <1>28, <2>2 DEF DeleteStream, TypeInv, TypeOK, Working
  <2>3. CASE /\ group' = [group EXCEPT ![s] = FALSE]
             /\ unread' = [unread EXCEPT ![s] = <<>>]
             /\ pend' = [pend EXCEPT ![s] = {}]
             /\ NoFault
    <3>1. unread' \in [Streams -> Seq(Entries)] /\ pend' \in [Streams -> SUBSET Entries]
      BY <2>1, <2>3 DEF TypeInv, TypeOK
    <3>2. todo' \in [Instances -> SUBSET Streams]
      BY <1>28 DEF DeleteStream, TypeInv, TypeOK
    <3>3. UNCHANGED <<callVars, loopVars, metaVars, serverVars, phase, erred>>
      BY <1>28 DEF DeleteStream
    <3> QED  BY <2>3, <3>1, <3>2, <3>3 DEF TypeInv, TypeOK, Working
  <2> QED  BY <1>28, <2>2, <2>3 DEF DeleteStream
<1>29. CASE UNCHANGED vars
  BY <1>29 DEF vars, TypeInv, TypeOK, Working
<1>30. ASSUME NEW c \in Calls, EnsureReturns(c) PROVE TypeInv'
  BY <1>30 DEF EnsureReturns, TypeInv, TypeOK, Working
<1>31. ASSUME NEW c \in Calls, CleanupAcks(c) PROVE TypeInv'
  <2>1. pend' \in [Streams -> SUBSET Entries]
    <3>1. \E e : pend' = [pend EXCEPT ![ReplyTo(c)] = @ \ {e}]
      BY <1>31 DEF CleanupAcks
    <3>2. pend \in [Streams -> SUBSET Entries]
      BY DEF TypeInv, TypeOK
    <3> QED  BY <1>1, <3>1, <3>2
  <2>2. UNCHANGED <<callVars, loopVars, metaVars, group, unread, serverVars, procVars, faults>>
    BY <1>31 DEF CleanupAcks
  <2> QED  BY <2>1, <2>2 DEF TypeInv, TypeOK, Working
<1>32. ASSUME NEW c \in Calls, Expire(c) PROVE TypeInv'
  <2>1. expired' \subseteq Entries
    BY <1>32 DEF Expire, Entries, TypeInv, TypeOK
  <2>2. faults' \in Nat
    BY <1>32 DEF Expire, TypeInv, TypeOK
  <2>3. UNCHANGED <<callVars, loopVars, metaVars, brokerVars, requests, executed, replies, garbled,
                   procVars>>
    BY <1>32 DEF Expire
  <2> QED  BY <2>1, <2>2, <2>3 DEF TypeInv, TypeOK, Working
<1> QED
  BY <1>30, <1>31, <1>32, <1>33, <1>34, <1>2, <1>3, <1>4, <1>5, <1>6, <1>7, <1>8, <1>9, <1>10,
     <1>11, <1>12, <1>13, <1>14, <1>15, <1>16, <1>17, <1>18, <1>19, <1>20, <1>21, <1>22, <1>23,
     <1>24, <1>25, <1>26, <1>27, <1>28, <1>29
     DEF Next, CallStep, LoopStep, ServerStep, EntryStep, ProcessStep

\* The first state has its type.
LEMMA TypeInitially == Init => TypeInv
<1>1. <<>> \in Seq(Entries)
  BY EmptySeq
<1> QED
  BY <1>1 DEF Init, TypeInv, TypeOK, Working, Loading, LoopPcs

\* Every variable keeps its type: in particular what is read, delivered and
\* pending are entries of calls, and no counter falls below zero.
THEOREM TypeCorrect == Spec => []TypeOK
<1>1. TypeInv => TypeOK
  BY DEF TypeInv
<1> QED
  BY <1>1, TypeInitially, TypeInductive, PTL DEF Spec

-----------------------------------------------------------------------------
(* The invariant behind the safety properties: where replies come from, what  *)
(* a delivered reply implies, and who may touch a caller's channel.           *)

InFlight == {"ensure", "launched", "check", "spin", "emit", "wait", "failed"}
Emitting == {"emit", "wait", "replied", "timedout", "failed"}

\* A reply sits in the stream its call named, and its method ran.
Origin ==
    /\ \A s \in Streams : \A j \in 1..Len(unread[s]) :
         ReplyTo(unread[s][j][1]) = s /\ executed[unread[s][j][1]] > 0
    /\ \A l \in Calls : \A j \in 1..Len(batch[l]) :
         ReplyTo(batch[l][j][1]) = ReplyTo(l) /\ executed[batch[l][j][1]] > 0

\* Requests exist, and methods run, only for calls that reached Emit.
Begun == \A c \in Calls : requests[c] > 0 \/ executed[c] > 0 => pc[c] \in Emitting

\* A caller's channel is filled, and emptied, only by a reply to its request.
Delivered == \A c \in Calls : c \in chan \/ pc[c] = "replied" => executed[c] > 0

\* replyRouter holds the channels of calls that may still want them.
Routed == \A c \in router : pc[c] \in InFlight

\* A call's channel is in replyRouter, or in the hands of one loop, or filled.
Taken ==
    /\ \A c \in router : c \notin chan
    /\ \A l \in Calls : loop[l] = "deliver" => Current(l) \notin router \cup chan
    /\ \A l, m \in Calls :
         loop[l] = "deliver" /\ loop[m] = "deliver" /\ Current(l) = Current(m) => l = m

SafeInv == TypeInv /\ Origin /\ Begun /\ Delivered /\ Routed /\ Taken

\* The first state is safe.
LEMMA SafeInitially == Init => SafeInv
<1>1. Init => TypeInv
  BY TypeInitially
<1>2. Init => Origin
  BY EmptySeq DEF Init, Origin
<1>3. Init => Begun /\ Delivered /\ Routed /\ Taken
  BY DEF Init, Begun, Delivered, Routed, Taken
<1> QED
  BY <1>1, <1>2, <1>3 DEF SafeInv

\* Methods are only ever run, never unrun.
LEMMA ExecutedGrows ==
    ASSUME TypeInv, [Next]_vars
    PROVE  \A c \in Calls : executed'[c] >= executed[c]
<1> USE DEF serverVars
<1>1. executed \in [Calls -> Nat]
  BY DEF TypeInv, TypeOK
<1>2. ASSUME NEW c \in Calls, Serve(c) \/ MethodFails(c)
      PROVE  \A d \in Calls : executed'[d] >= executed[d]
  BY <1>1, <1>2 DEF Serve, MethodFails
<1>3. ASSUME NEW c \in Calls, BeginRequest(c) \/ RefuseRequest(c) \/ CallStep(c)
      PROVE  executed' = executed
  BY <1>3 DEF CallStep, BeginRequest, RefuseRequest, EnsureGroup, EnsureReturns, EnsureGroupFails,
     FindListener, StartListener, SeeListener, EmitRequest, EmitFails, Receive, Timeout
<1>4. ASSUME NEW l \in Calls, LoopStep(l) PROVE executed' = executed
  BY <1>4 DEF LoopStep, LoopTop, LoopRead, LoopReadFails, LoopDiscards, TakeChannel, SendToCaller,
     AckReply, StrayReply, ExpiredReply, BatchDone
<1>5. ASSUME NEW c \in Calls, DropRequest(c) PROVE executed' = executed
  BY <1>5 DEF DropRequest
<1>6. ASSUME NEW i \in Instances, ProcessStep(i) PROVE executed' = executed
  BY <1>6 DEF ProcessStep, TrimStore, BeginShutdown, Cancel, TrimLoad, DeleteStream
<1>7. CASE UNCHANGED vars
  BY <1>1, <1>7 DEF vars
<1>8. ASSUME NEW c \in Calls, EntryStep(c) PROVE executed' = executed
  BY <1>8 DEF EntryStep, CleanupAcks, Expire
<1> QED
  BY <1>1, <1>2, <1>3, <1>4, <1>5, <1>6, <1>7, <1>8 DEF Next, ServerStep

\* The reply a loop is about to deliver answers a method that ran.
LEMMA CurrentServed ==
    ASSUME TypeInv, Origin, NEW l \in Calls, batch[l] # <<>>
    PROVE  Current(l) \in Calls /\ executed[Current(l)] > 0 /\ ReplyTo(Current(l)) = ReplyTo(l)
<1>1. batch[l] \in Seq(Entries) /\ Current(l) \in Calls
  BY HeadOfBatch DEF TypeInv, TypeOK
<1>2. 1 \in 1..Len(batch[l]) /\ Head(batch[l]) = batch[l][1]
  BY <1>1, EmptySeq, LenProperties, HeadTailProperties
<1> QED
  BY <1>1, <1>2 DEF Origin, Current

\* A channel that left replyRouter is held by one loop, full, or its call is over.
LEMMA TakenInductive == TypeInv /\ Origin /\ Begun /\ Delivered /\ Taken /\ [Next]_vars => Taken'
<1> SUFFICES ASSUME TypeInv, Origin, Begun, Delivered, Taken, [Next]_vars PROVE Taken'
  OBVIOUS
<1> USE DEF Goto, LoopGoto, callVars, loopVars
<1> DEFINE Shrinks ==
             /\ router' \subseteq router /\ chan' \subseteq chan
             /\ \A m \in Calls :
                  loop'[m] = "deliver" => loop[m] = "deliver" /\ batch'[m] = batch[m]
<1>1. Shrinks => Taken'
  BY DEF Taken, Current
<1>2. loop \in [Calls -> LoopPcs] /\ batch \in [Calls -> Seq(Entries)]
  BY DEF TypeInv, TypeOK
<1>3. \A l \in Calls : loop[l] = "deliver" => executed[Current(l)] > 0
  BY CurrentServed DEF TypeInv, Working
<1>4. ASSUME NEW c \in Calls, BeginRequest(c) PROVE Taken'
  <2>1. pc[c] = "idle" /\ router' = router \cup {c} /\ UNCHANGED <<chan, loop, batch>>
    BY <1>4 DEF BeginRequest
  <2>2. ~(executed[c] > 0)
    BY <2>1 DEF Begun, Emitting
  <2>3. c \notin chan
    BY <2>2 DEF Delivered
  <2>4. \A l \in Calls : loop[l] = "deliver" => Current(l) # c
    BY <1>3, <2>2
  <2> QED  BY <2>1, <2>3, <2>4 DEF Taken, Current
<1>5. ASSUME NEW l \in Calls, TakeChannel(l) PROVE Taken'
  <2>1. /\ Current(l) \in router /\ router' = router \ {Current(l)}
        /\ loop' = [loop EXCEPT ![l] = "deliver"] /\ UNCHANGED <<chan, batch>>
    BY <1>5 DEF TakeChannel
  <2>2. \A m \in Calls : m # l /\ loop'[m] = "deliver" => loop[m] = "deliver"
    BY <1>2, <2>1
  <2>3. \A m \in Calls : loop[m] = "deliver" => Current(m) # Current(l)
    BY <2>1 DEF Taken
  <2>4. Current(l) \notin chan
    BY <2>1 DEF Taken
  <2>5. \A m \in Calls : loop'[m] = "deliver" => Current(m) \notin router' \cup chan'
    BY <2>1, <2>2, <2>4 DEF Taken
  <2>6. \A m \in Calls : Current(m)' = Current(m)
    BY <2>1 DEF Current
  <2>7. \A m, n \in Calls :
          loop'[m] = "deliver" /\ loop'[n] = "deliver" /\ Current(m) = Current(n) => m = n
    BY <2>2, <2>3 DEF Taken
  <2> QED  BY <2>1, <2>5, <2>6, <2>7 DEF Taken
<1>6. ASSUME NEW l \in Calls, SendToCaller(l) PROVE Taken'
  <2>1. /\ loop[l] = "deliver" /\ chan' = chan \cup {Current(l)}
        /\ loop' = [loop EXCEPT ![l] = "ack"] /\ UNCHANGED <<router, batch>>
    BY <1>6 DEF SendToCaller
  <2>2. \A m \in Calls : loop'[m] = "deliver" => loop[m] = "deliver" /\ m # l
    BY <1>2, <2>1
  <2>3. \A m \in Calls : Current(m)' = Current(m)
    BY <2>1 DEF Current
  <2>4. Current(l) \notin router
    BY <2>1 DEF Taken
  <2> QED  BY <2>1, <2>2, <2>3, <2>4 DEF Taken
<1>7. ASSUME NEW c \in Calls, RefuseRequest(c) \/ CallStep(c) PROVE Shrinks
  BY <1>2, <1>7 DEF CallStep, RefuseRequest, EnsureGroup, EnsureReturns, EnsureGroupFails,
     FindListener, StartListener, SeeListener, EmitRequest, EmitFails, Receive, Timeout
<1>8. ASSUME NEW l \in Calls, LoopStep(l), ~TakeChannel(l), ~SendToCaller(l) PROVE Shrinks
  <2>1. UNCHANGED <<router, chan>>
    BY <1>8 DEF LoopStep, LoopTop, LoopRead, LoopReadFails, LoopDiscards, AckReply, StrayReply,
       ExpiredReply, BatchDone
  <2>2. /\ loop[l] # "deliver" \/ UNCHANGED <<loop, batch>>
        /\ \E to \in LoopPcs \ {"deliver"} : loop' = [loop EXCEPT ![l] = to]
        /\ batch' = batch \/ \E b : batch' = [batch EXCEPT ![l] = b]
    BY <1>2, <1>8 DEF LoopStep, LoopTop, LoopRead, LoopReadFails, LoopDiscards, Sorted, AckReply,
       StrayReply, ExpiredReply, BatchDone, LoopDies, LoopPcs
  <2> QED  BY <1>2, <2>1, <2>2
<1>9. ASSUME NEW c \in Calls, ServerStep(c) PROVE Shrinks
  BY <1>9 DEF ServerStep, Serve, MethodFails, DropRequest
<1>10. ASSUME NEW i \in Instances, ProcessStep(i) PROVE Shrinks
  BY <1>10 DEF ProcessStep, TrimStore, BeginShutdown, Cancel, TrimLoad, DeleteStream
<1>11. CASE UNCHANGED vars
  BY <1>1, <1>11 DEF vars
<1>12. ASSUME NEW c \in Calls, EntryStep(c) PROVE Shrinks
  BY <1>12 DEF EntryStep, CleanupAcks, Expire
<1> QED
  BY <1>1, <1>4, <1>5, <1>6, <1>7, <1>8, <1>9, <1>10, <1>11, <1>12 DEF Next

\* Requests exist, and methods ran, only for calls that got as far as Emit.
LEMMA BegunInductive == TypeInv /\ Begun /\ [Next]_vars => Begun'
<1> SUFFICES ASSUME TypeInv, Begun, [Next]_vars PROVE Begun'
  OBVIOUS
<1> USE DEF Goto, callVars, serverVars, Emitting
<1>1. /\ pc \in [Calls -> Loading] /\ requests \in [Calls -> Nat] /\ executed \in [Calls -> Nat]
  BY DEF TypeInv, TypeOK
<1>2. ASSUME NEW c \in Calls, EmitRequest(c) \/ EmitFails(c) PROVE Begun'
  BY <1>1, <1>2 DEF EmitRequest, EmitFails, Begun
<1>3. ASSUME NEW c \in Calls, ServerStep(c) PROVE Begun'
  BY <1>1, <1>3 DEF ServerStep, Serve, MethodFails, DropRequest, Begun
<1>4. ASSUME NEW c \in Calls, BeginRequest(c) \/ RefuseRequest(c) \/ CallStep(c),
             ~EmitRequest(c), ~EmitFails(c)
      PROVE  Begun'
  <2>1. UNCHANGED <<requests, executed>>
    BY <1>4 DEF CallStep, BeginRequest, RefuseRequest, EnsureGroup, EnsureReturns, EnsureGroupFails,
         FindListener, StartListener, SeeListener, Receive, Timeout
  <2>2. \A d \in Calls : pc[d] \in Emitting => pc'[d] \in Emitting
    BY <1>1, <1>4 DEF CallStep, BeginRequest, RefuseRequest, EnsureGroup, EnsureReturns,
       EnsureGroupFails, FindListener, StartListener, SeeListener, Receive, Timeout
  <2> QED  BY <2>1, <2>2 DEF Begun
<1>5. ASSUME NEW l \in Calls, LoopStep(l) PROVE UNCHANGED <<pc, requests, executed>>
  BY <1>5 DEF LoopStep, LoopTop, LoopRead, LoopReadFails, LoopDiscards, TakeChannel, SendToCaller,
     AckReply, StrayReply, ExpiredReply, BatchDone
<1>6. ASSUME NEW i \in Instances, ProcessStep(i) PROVE UNCHANGED <<pc, requests, executed>>
  BY <1>6 DEF ProcessStep, TrimStore, BeginShutdown, Cancel, TrimLoad, DeleteStream
<1>7. UNCHANGED <<pc, requests, executed>> => Begun'
  BY DEF Begun
<1>8. CASE UNCHANGED vars
  BY <1>7, <1>8 DEF vars
<1>9. ASSUME NEW c \in Calls, EntryStep(c) PROVE UNCHANGED <<pc, requests, executed>>
  BY <1>9 DEF EntryStep, CleanupAcks, Expire
<1> QED
  BY <1>2, <1>3, <1>4, <1>5, <1>6, <1>7, <1>8, <1>9 DEF Next, ServerStep

\* replyRouter holds calls in flight and those whose Emit failed.
LEMMA RoutedInductive == TypeInv /\ Taken /\ Routed /\ [Next]_vars => Routed'
<1> SUFFICES ASSUME TypeInv, Taken, Routed, [Next]_vars PROVE Routed'
  OBVIOUS
<1> USE DEF Goto, callVars, InFlight
<1>1. pc \in [Calls -> Loading] /\ router \subseteq Calls
  BY DEF TypeInv, TypeOK
<1>2. ASSUME NEW c \in Calls, BeginRequest(c) PROVE Routed'
  BY <1>1, <1>2 DEF BeginRequest, Routed
<1>3. ASSUME NEW c \in Calls, Timeout(c) PROVE Routed'
  BY <1>1, <1>3 DEF Timeout, Routed
<1>4. ASSUME NEW c \in Calls, Receive(c) PROVE Routed'
  BY <1>1, <1>4 DEF Receive, Routed, Taken
<1>5. ASSUME NEW c \in Calls, RefuseRequest(c) PROVE Routed'
  BY <1>1, <1>5 DEF RefuseRequest, Routed
<1>6. ASSUME NEW c \in Calls, CallStep(c), ~Timeout(c), ~Receive(c) PROVE Routed'
  BY <1>1, <1>6 DEF CallStep, EnsureGroup, EnsureReturns, EnsureGroupFails, FindListener,
     StartListener, SeeListener, EmitRequest, EmitFails, Routed
<1>7. ASSUME NEW l \in Calls, LoopStep(l) PROVE router' \subseteq router /\ pc' = pc
  BY <1>7 DEF LoopStep, LoopTop, LoopRead, LoopReadFails, LoopDiscards, TakeChannel, SendToCaller,
     AckReply, StrayReply, ExpiredReply, BatchDone
<1>8. ASSUME NEW c \in Calls, ServerStep(c) PROVE router' \subseteq router /\ pc' = pc
  BY <1>8 DEF ServerStep, Serve, MethodFails, DropRequest
<1>9. ASSUME NEW i \in Instances, ProcessStep(i) PROVE router' \subseteq router /\ pc' = pc
  BY <1>9 DEF ProcessStep, TrimStore, BeginShutdown, Cancel, TrimLoad, DeleteStream
<1>10. router' \subseteq router /\ pc' = pc => Routed'
  BY DEF Routed
<1>11. CASE UNCHANGED vars
  BY <1>10, <1>11 DEF vars
<1>12. ASSUME NEW c \in Calls, EntryStep(c) PROVE router' \subseteq router /\ pc' = pc
  BY <1>12 DEF EntryStep, CleanupAcks, Expire
<1> QED
  BY <1>2, <1>3, <1>4, <1>5, <1>6, <1>7, <1>8, <1>9, <1>10, <1>11, <1>12 DEF Next

\* A channel that is full, and a call that got its reply, had its method run.
LEMMA DeliveredInductive == TypeInv /\ Origin /\ Delivered /\ [Next]_vars => Delivered'
<1> SUFFICES ASSUME TypeInv, Origin, Delivered, [Next]_vars PROVE Delivered'
  OBVIOUS
<1> USE DEF Goto, LoopGoto, callVars
<1> DEFINE Got(c) == c \in chan \/ pc[c] = "replied"
<1>1. /\ pc \in [Calls -> Loading] /\ executed \in [Calls -> Nat]
      /\ \A c \in Calls : executed'[c] >= executed[c]
  BY ExecutedGrows DEF TypeInv, TypeOK
<1>2. executed' \in [Calls -> Nat]
  BY TypeInductive DEF TypeInv, TypeOK
<1>3. (\A c \in Calls : (c \in chan' \/ pc'[c] = "replied") => Got(c)) => Delivered'
  BY <1>1, <1>2 DEF Delivered
<1>4. ASSUME NEW l \in Calls, SendToCaller(l) PROVE Delivered'
  <2>1. loop[l] = "deliver" /\ chan' = chan \cup {Current(l)} /\ pc' = pc
    BY <1>4 DEF SendToCaller
  <2>2. executed[Current(l)] > 0 /\ Current(l) \in Calls
    BY <2>1, CurrentServed DEF TypeInv, Working
  <2>3. executed'[Current(l)] > 0
    BY <1>1, <1>2, <2>2
  <2>4. \A c \in Calls : Got(c) => executed'[c] > 0
    BY <1>1, <1>2 DEF Delivered
  <2> QED  BY <2>1, <2>3, <2>4 DEF Delivered
<1>5. ASSUME NEW c \in Calls, BeginRequest(c) \/ RefuseRequest(c) \/ CallStep(c) PROVE Delivered'
  <2>1. \A d \in Calls : (d \in chan' \/ pc'[d] = "replied") => Got(d)
    BY <1>1, <1>5 DEF CallStep, BeginRequest, RefuseRequest, EnsureGroup, EnsureReturns,
       EnsureGroupFails, FindListener, StartListener, SeeListener, EmitRequest, EmitFails, Receive,
       Timeout
  <2> QED  BY <1>3, <2>1
<1>6. ASSUME NEW l \in Calls, LoopStep(l), ~SendToCaller(l) PROVE UNCHANGED <<pc, chan>>
  BY <1>6 DEF LoopStep, LoopTop, LoopRead, LoopReadFails, LoopDiscards, TakeChannel, AckReply,
       StrayReply, ExpiredReply, BatchDone
<1>7. ASSUME NEW c \in Calls, ServerStep(c) PROVE UNCHANGED <<pc, chan>>
  BY <1>7 DEF ServerStep, Serve, MethodFails, DropRequest
<1>8. ASSUME NEW i \in Instances, ProcessStep(i) PROVE UNCHANGED <<pc, chan>>
  BY <1>8 DEF ProcessStep, TrimStore, BeginShutdown, Cancel, TrimLoad, DeleteStream
<1>9. UNCHANGED <<pc, chan>> => Delivered'
  BY <1>3
<1>10. CASE UNCHANGED vars
  BY <1>9, <1>10 DEF vars
<1>11. ASSUME NEW c \in Calls, EntryStep(c) PROVE UNCHANGED <<pc, chan>>
  BY <1>11 DEF EntryStep, CleanupAcks, Expire
<1> QED
  BY <1>4, <1>5, <1>6, <1>7, <1>8, <1>9, <1>10, <1>11 DEF Next

\* The entries XREADGROUP returns, and those it leaves, are the stream's.
LEMMA ReadElements ==
    ASSUME TypeOK, NEW s \in Streams
    PROVE  LET left == SubSeq(unread[s], ReadSize(s) + 1, Len(unread[s])) IN
           /\ \A j \in 1..Len(ReadBatch(s)) :
                \E k \in 1..Len(unread[s]) : ReadBatch(s)[j] = unread[s][k]
           /\ \A j \in 1..Len(left) : \E k \in 1..Len(unread[s]) : left[j] = unread[s][k]
<1> DEFINE left == SubSeq(unread[s], ReadSize(s) + 1, Len(unread[s]))
<1>1. unread[s] \in Seq(Entries) /\ ReadSize(s) \in 0..Len(unread[s])
  BY ReadSizeInRange
<1>2. Len(unread[s]) \in Nat
  BY <1>1, LenProperties
<1>3. /\ Len(ReadBatch(s)) = ReadSize(s)
      /\ \A j \in 1..ReadSize(s) : ReadBatch(s)[j] = unread[s][j]
      /\ Len(left) = Len(unread[s]) - ReadSize(s)
      /\ \A j \in 1..(Len(unread[s]) - ReadSize(s)) : left[j] = unread[s][ReadSize(s) + j]
  BY <1>1, CutSequence DEF ReadBatch
<1>4. \A j \in 1..Len(ReadBatch(s)) :
        j \in 1..Len(unread[s]) /\ ReadBatch(s)[j] = unread[s][j]
  BY <1>1, <1>2, <1>3
<1>5. \A j \in 1..Len(left) :
        ReadSize(s) + j \in 1..Len(unread[s]) /\ left[j] = unread[s][ReadSize(s) + j]
  BY <1>1, <1>2, <1>3, SMTT(30)
<1> QED  BY <1>4, <1>5

\* An unread or read reply lies on the stream its call named, and its method ran.
LEMMA OriginInductive == TypeInv /\ Origin /\ [Next]_vars => Origin'
<1> SUFFICES ASSUME TypeInv, Origin, [Next]_vars PROVE Origin'
  OBVIOUS
<1> USE DEF LoopGoto, brokerVars, loopVars
<1> DEFINE Good(e, s) == ReplyTo(e[1]) = s /\ executed[e[1]] > 0
           GoodStream(s) == \A j \in 1..Len(unread[s]) : Good(unread[s][j], s)
           GoodBatch(l) == \A j \in 1..Len(batch[l]) : Good(batch[l][j], ReplyTo(l))
<1>1. Origin <=> (\A s \in Streams : GoodStream(s)) /\ (\A l \in Calls : GoodBatch(l))
  BY DEF Origin
<1>2. Origin' <=> (\A s \in Streams : GoodStream(s)') /\ (\A l \in Calls : GoodBatch(l)')
  BY DEF Origin, ReplyTo
<1>3. \A e \in Entries, s \in Streams : Good(e, s) => Good(e, s)'
  <2>1. \A c \in Calls : executed[c] \in Nat /\ executed'[c] \in Nat /\ executed'[c] >= executed[c]
    BY ExecutedGrows, TypeInductive DEF TypeInv, TypeOK
  <2>2. \A e \in Entries : e[1] \in Calls
    BY DEF Entries
  <2> QED  BY <2>1, <2>2 DEF ReplyTo
<1>4. /\ unread \in [Streams -> Seq(Entries)] /\ batch \in [Calls -> Seq(Entries)]
      /\ loop \in [Calls -> LoopPcs]
      /\ \A l \in Calls : ReplyTo(l) \in Streams
  BY DEF TypeInv, TypeOK, Streams
<1>5. \A s \in Streams : \A j \in 1..Len(unread[s]) : unread[s][j] \in Entries
  BY <1>4, ElementOfSeq
<1>6. \A l \in Calls : \A j \in 1..Len(batch[l]) : batch[l][j] \in Entries
  BY <1>4, ElementOfSeq
<1>7. \A s \in Streams : unread'[s] = unread[s] => GoodStream(s)'
  BY <1>1, <1>3, <1>5
<1>8. \A l \in Calls : batch'[l] = batch[l] => GoodBatch(l)'
  <2> SUFFICES ASSUME NEW l \in Calls, batch'[l] = batch[l], NEW j \in 1..Len(batch[l])
               PROVE  Good(batch[l][j], ReplyTo(l))'
    BY DEF ReplyTo
  <2>1. batch[l][j] \in Entries /\ Good(batch[l][j], ReplyTo(l)) /\ ReplyTo(l) \in Streams
    BY <1>1, <1>4, <1>6
  <2> QED  BY <1>3, <2>1 DEF ReplyTo
<1>9. ASSUME NEW s \in Streams, DeliverBatch(s)
      PROVE  \A t \in Streams : GoodStream(t)'
  <2> DEFINE left == SubSeq(unread[s], ReadSize(s) + 1, Len(unread[s]))
  <2>1. unread' = [unread EXCEPT ![s] = left]
    BY <1>9 DEF DeliverBatch
  <2>2. \A j \in 1..Len(left) : \E k \in 1..Len(unread[s]) : left[j] = unread[s][k]
    BY ReadElements DEF TypeInv
  <2> HIDE DEF left
  <2>3. \A j \in 1..Len(left) : left[j] \in Entries /\ Good(left[j], s)
    BY <1>1, <1>5, <2>2
  <2>4. unread'[s] = left /\ \A t \in Streams : t # s => unread'[t] = unread[t]
    BY <1>4, <2>1
  <2>5. GoodStream(s)'
    BY <1>3, <2>3, <2>4
  <2> QED  BY <1>7, <2>4, <2>5
<1>10. ASSUME NEW l \in Calls, LoopRead(l) PROVE Origin'
  <2> DEFINE s == ReplyTo(l)
  <2>1. s \in Streams /\ DeliverBatch(s) /\ batch' = [batch EXCEPT ![l] = ReadBatch(s)]
    BY <1>4, <1>10 DEF LoopRead
  <2>2. \A t \in Streams : GoodStream(t)'
    BY <1>9, <2>1
  <2>3. \A j \in 1..Len(ReadBatch(s)) :
          \E k \in 1..Len(unread[s]) : ReadBatch(s)[j] = unread[s][k]
    BY <2>1, ReadElements DEF TypeInv
  <2>4. \A j \in 1..Len(ReadBatch(s)) :
          ReadBatch(s)[j] \in Entries /\ Good(ReadBatch(s)[j], s)
    BY <1>1, <1>5, <2>1, <2>3
  <2>5. batch'[l] = ReadBatch(s) /\ \A m \in Calls : m # l => batch'[m] = batch[m]
    BY <1>4, <2>1
  <2>6. GoodBatch(l)'
    BY <1>3, <2>1, <2>4, <2>5 DEF ReplyTo
  <2>7. \A m \in Calls : GoodBatch(m)'
    BY <1>8, <2>5, <2>6
  <2> QED  BY <1>2, <2>2, <2>7
<1>11. ASSUME NEW l \in Calls, LoopReadFails(l) PROVE Origin'
  <2>1. batch' = batch /\ (unread' = unread \/ DeliverBatch(ReplyTo(l)))
    BY <1>11 DEF LoopReadFails
  <2> QED  BY <1>2, <1>4, <1>7, <1>8, <1>9, <2>1
<1>12. ASSUME NEW l \in Calls, AckReply(l) \/ StrayReply(l) PROVE Origin'
  <2>1. unread' = unread /\ batch' = [batch EXCEPT ![l] = Tail(@)] /\ batch[l] # <<>>
    BY <1>12 DEF AckReply, StrayReply, InTime, TypeInv, Working
  <2>2. \A m \in Calls : m # l => batch'[m] = batch[m]
    BY <1>4, <2>1
  <2>3. /\ batch'[l] = Tail(batch[l]) /\ Len(batch[l]) \in Nat
        /\ Len(Tail(batch[l])) = Len(batch[l]) - 1
        /\ \A j \in 1..Len(Tail(batch[l])) : Tail(batch[l])[j] = batch[l][j + 1]
    BY <1>4, <2>1, HeadTailProperties, LenProperties
  <2>4. \A j \in 1..Len(batch'[l]) :
          j + 1 \in 1..Len(batch[l]) /\ batch'[l][j] = batch[l][j + 1]
    BY <2>3
  <2>5. \A j \in 1..Len(batch'[l]) :
          batch'[l][j] \in Entries /\ Good(batch'[l][j], ReplyTo(l))
    BY <1>1, <1>6, <2>4
  <2>6. GoodBatch(l)'
    BY <1>3, <1>4, <2>5 DEF ReplyTo
  <2> QED  BY <1>2, <1>7, <1>8, <2>1, <2>2, <2>6
<1>24. ASSUME NEW l \in Calls, LoopDiscards(l) PROVE Origin'
  <2>1. unread' = unread
    BY <1>24 DEF LoopDiscards
  <2>2. PICK q \in Seq(Entries) :
          /\ batch' = [batch EXCEPT ![l] = q]
          /\ \A j \in 1..Len(q) : \E k \in 1..Len(batch[l]) : q[j] = batch[l][k]
    BY <1>24, Discards DEF TypeInv
  <2>3. \A j \in 1..Len(q) : q[j] \in Entries /\ Good(q[j], ReplyTo(l))
    BY <1>1, <1>6, <2>2
  <2>4. batch'[l] = q /\ \A m \in Calls : m # l => batch'[m] = batch[m]
    BY <1>4, <2>2
  <2>5. GoodBatch(l)'
    BY <1>3, <1>4, <2>3, <2>4 DEF ReplyTo
  <2> QED  BY <1>2, <1>7, <1>8, <2>1, <2>4, <2>5
<1>13. ASSUME NEW l \in Calls, ExpiredReply(l) PROVE Origin'
  <2>1. unread' = unread /\ batch' = [batch EXCEPT ![l] = <<>>]
    BY <1>13 DEF ExpiredReply
  <2>2. batch'[l] = <<>> /\ \A m \in Calls : m # l => batch'[m] = batch[m]
    BY <1>4, <2>1
  <2>3. GoodBatch(l)'
    BY <2>2
  <2> QED  BY <1>2, <1>7, <1>8, <2>1, <2>2, <2>3
<1>14. ASSUME NEW c \in Calls, Serve(c) PROVE Origin'
  <2> PICK s \in Streams : s = ReplyTo(c)
    BY <1>4
  <2> DEFINE two == << <<c, replies[c] + 1>>, <<c, replies[c] + 2>> >>
  <2>1. PICK n \in 0..2 : PublishReplies(c, n)
    BY <1>14 DEF Serve, Reply
  <2> DEFINE new == SubSeq(two, 1, n)
  <2>2. two \in Seq(Entries) /\ Len(two) = 2 /\ \A j \in 1..2 : two[j][1] = c
    BY DEF TypeInv, TypeOK, Entries
  <2>3. new \in Seq(Entries) /\ \A j \in 1..Len(new) : new[j][1] = c
    <3>1. new \in Seq(Entries) /\ Len(new) = n /\ \A j \in 1..n : new[j] = two[j]
      BY <2>2, CutSequence
    <3> HIDE DEF new, two
    <3> QED  BY <2>2, <3>1
  <2>4. s \in Streams /\ executed'[c] > 0
    BY <1>4, <1>14 DEF Serve, TypeInv, TypeOK
  <2>5. unread' = unread \/ unread' = [unread EXCEPT ![s] = @ \o new]
    BY <2>1 DEF PublishReplies
  <2> HIDE DEF new, two
  <2>6. \A t \in Streams : t # s => unread'[t] = unread[t]
    BY <1>4, <2>5
  <2>7. CASE unread'[s] = unread[s] \o new
    <3>1. /\ Len(unread[s]) \in Nat /\ Len(new) \in Nat
          /\ Len(unread[s] \o new) = Len(unread[s]) + Len(new)
          /\ \A j \in 1..(Len(unread[s]) + Len(new)) : (unread[s] \o new)[j] =
               IF j <= Len(unread[s]) THEN unread[s][j] ELSE new[j - Len(unread[s])]
      BY <1>4, <2>3, <2>4, ConcatProperties, LenProperties
    <3>2. ASSUME NEW j \in 1..Len(unread'[s]) PROVE Good(unread[s][j], s)'
      <4>1. CASE j \in 1..Len(unread[s])
        <5>1. unread'[s][j] = unread[s][j]
          BY <2>7, <3>1, <4>1
        <5> QED  BY <1>1, <1>3, <1>5, <2>4, <4>1, <5>1
      <4>2. CASE j - Len(unread[s]) \in 1..Len(new)
        <5>1. unread'[s][j] = new[j - Len(unread[s])]
          BY <2>7, <3>1, <4>2
        <5> QED  BY <2>3, <2>4, <4>2, <5>1 DEF ReplyTo
      <4> QED  BY <2>7, <3>1, <3>2, <4>1, <4>2
    <3>3. GoodStream(s)'
      BY <3>2 DEF ReplyTo
    <3>4. batch' = batch
      BY <1>14 DEF Serve
    <3> QED  BY <1>2, <1>7, <1>8, <2>6, <3>3, <3>4
  <2>8. CASE unread'[s] = unread[s]
    <3>1. batch' = batch
      BY <1>14 DEF Serve
    <3> QED  BY <1>2, <1>7, <1>8, <2>6, <2>8, <3>1
  <2> QED  BY <1>4, <2>4, <2>5, <2>7, <2>8
<1>15. ASSUME NEW i \in Instances, NEW s \in Streams, DeleteStream(i, s) PROVE Origin'
  <2>1. batch' = batch /\ (unread' = unread \/ unread' = [unread EXCEPT ![s] = <<>>])
    BY <1>15 DEF DeleteStream
  <2>2. \A t \in Streams : unread'[t] = unread[t] \/ unread'[t] = <<>>
    BY <1>4, <2>1
  <2>3. \A t \in Streams : GoodStream(t)'
    BY <1>7, <2>2
  <2> QED  BY <1>2, <1>8, <2>1, <2>3
<1>16. UNCHANGED <<unread, batch>> => Origin'
  BY <1>2, <1>7, <1>8
<1>17. ASSUME NEW c \in Calls, BeginRequest(c) \/ RefuseRequest(c) \/ CallStep(c)
       PROVE  UNCHANGED <<unread, batch>>
  BY <1>17 DEF CallStep, BeginRequest, RefuseRequest, EnsureGroup, EnsureReturns, EnsureGroupFails,
     FindListener, StartListener, SeeListener, EmitRequest, EmitFails, Receive, Timeout
<1>18. ASSUME NEW l \in Calls,
              LoopTop(l) \/ TakeChannel(l) \/ SendToCaller(l) \/ BatchDone(l)
       PROVE  UNCHANGED <<unread, batch>>
  BY <1>18 DEF LoopTop, TakeChannel, SendToCaller, BatchDone
<1>19. ASSUME NEW c \in Calls, MethodFails(c) \/ DropRequest(c) PROVE UNCHANGED <<unread, batch>>
  BY <1>19 DEF MethodFails, DropRequest
<1>20. ASSUME NEW i \in Instances, NEW s \in Streams,
              TrimStore(i) \/ BeginShutdown(i) \/ Cancel(i) \/ TrimLoad(i, s)
       PROVE  UNCHANGED <<unread, batch>>
  BY <1>20 DEF TrimStore, BeginShutdown, Cancel, TrimLoad
<1>21. ASSUME NEW i \in Instances, TrimStore(i) \/ BeginShutdown(i) \/ Cancel(i)
       PROVE  UNCHANGED <<unread, batch>>
  BY <1>21 DEF TrimStore, BeginShutdown, Cancel
<1>22. CASE UNCHANGED vars
  BY <1>16, <1>22 DEF vars
<1>23. ASSUME NEW c \in Calls, EntryStep(c) PROVE UNCHANGED <<unread, batch>>
  BY <1>23 DEF EntryStep, CleanupAcks, Expire
<1> QED
  BY <1>23, <1>24, <1>10, <1>11, <1>12, <1>13, <1>14, <1>15, <1>16, <1>17, <1>18, <1>19, <1>20,
     <1>21, <1>22
     DEF Next, LoopStep, ServerStep, ProcessStep

\* The inductive invariant the results below rest on: the six parts of SafeInv
\* hold together in every state the exchange reaches.
THEOREM SafeInvariant == Spec => []SafeInv
<1>1. SafeInv /\ [Next]_vars => SafeInv'
  BY TypeInductive, OriginInductive, BegunInductive, DeliveredInductive, RoutedInductive,
     TakenInductive DEF SafeInv
<1> QED
  BY <1>1, SafeInitially, PTL DEF Spec

\* A listener loop never blocks on a caller's channel: the
\* LoadAndDelete of replyRouter hands each one-place channel to a single send.
THEOREM ListenersNeverBlock == Spec => []ChannelNeverBlocks
<1>1. SafeInv => ChannelNeverBlocks
  BY DEF SafeInv, Taken, ChannelNeverBlocks
<1> QED
  BY <1>1, SafeInvariant, PTL

\* A Request that returns a reply returns one whose method ran for it.
THEOREM RepliesAreEarned == Spec => []RepliedWasServed
<1>1. SafeInv => RepliedWasServed
  BY DEF SafeInv, Delivered, RepliedWasServed
<1> QED
  BY <1>1, SafeInvariant, PTL

\* Request leaves a replyRouter entry behind only when its Emit failed.
THEOREM RouterLeaks == Spec => []RouterLeakOnlyOnFailedEmit
<1>1. SafeInv => RouterLeakOnlyOnFailedEmit
  BY DEF SafeInv, Routed, InFlight, RouterLeakOnlyOnFailedEmit
<1> QED
  BY <1>1, SafeInvariant, PTL

\* Reply streams are private when no two processes have calls that name the
\* same one: instance ids differ, or the call sites do.
PrivateStreams == \A c, d \in Calls : ReplyTo(c) = ReplyTo(d) => Owner[c] = Owner[d]

\* With private reply streams no process reads a reply meant for another.
THEOREM OwnersReadReplies ==
    ASSUME PrivateStreams
    PROVE  Spec => []RepliesReadByOwner
<1>1. SafeInv => RepliesReadByOwner
  <2> SUFFICES ASSUME SafeInv, NEW l \in Calls, NEW j \in 1..Len(batch[l])
               PROVE  Owner[batch[l][j][1]] = Owner[l]
    BY DEF RepliesReadByOwner
  <2>1. batch[l] \in Seq(Entries)
    BY DEF SafeInv, TypeInv, TypeOK
  <2>2. batch[l][j] \in Entries
    BY <2>1, ElementOfSeq
  <2>3. batch[l][j][1] \in Calls /\ ReplyTo(batch[l][j][1]) = ReplyTo(l)
    BY <2>2 DEF SafeInv, Origin, Entries
  <2> QED  BY <2>3 DEF PrivateStreams
<1> QED
  BY <1>1, SafeInvariant, PTL

-----------------------------------------------------------------------------
(* The contract of the caller.                                              *)

\* Whatever the listeners, trims, faults and shutdowns do, a caller sees a
\* behaviour of RpcCall: one return per call, a reply only after the method ran.
THEOREM RefinesRpcCall == Spec => ImplementsRpcCall
<1>1. Init => Contract!Init
  <2> SUFFICES ASSUME Init PROVE Contract!Init
    OBVIOUS
  <2>1. [c \in Calls |-> Status(c)] = [c \in Calls |-> "idle"]
    BY DEF Init, Status
  <2>2. {c \in Calls : executed[c] > 0} = {}
    BY DEF Init
  <2> QED  BY <2>1, <2>2 DEF Contract!Init
<1>2. SafeInv /\ [Next]_vars => [Contract!Next]_(Contract!vars)
  <2> SUFFICES ASSUME SafeInv, [Next]_vars PROVE [Contract!Next]_(Contract!vars)
    OBVIOUS
  <2> USE DEF Goto, callVars, serverVars
  <2>1. /\ pc \in [Calls -> Loading] /\ executed \in [Calls -> Nat]
    BY DEF SafeInv, TypeInv, TypeOK
  <2>2. pc' = pc /\ executed' = executed => UNCHANGED Contract!vars
    BY DEF Contract!vars, Status
  <2>3. ASSUME NEW c \in Calls, BeginRequest(c) PROVE Contract!Begin(c)
    BY <2>1, <2>3 DEF BeginRequest, Contract!Begin, Contract!Moves, Status, Returned
  <2>4. ASSUME NEW c \in Calls, RefuseRequest(c) PROVE Contract!Fail(c)
    BY <2>1, <2>4 DEF RefuseRequest, Contract!Fail, Contract!Moves, Status, Returned
  <2>5. ASSUME NEW c \in Calls, Receive(c) PROVE Contract!Reply(c)
    <3>1. executed[c] > 0
      BY <2>5 DEF Receive, SafeInv, Delivered
    <3> QED  BY <2>1, <2>5, <3>1 DEF Receive, Contract!Reply, Contract!Moves, Status, Returned
  <2>6. ASSUME NEW c \in Calls, Timeout(c) PROVE Contract!Fail(c)
    BY <2>1, <2>6 DEF Timeout, Contract!Fail, Contract!Moves, Status, Returned
  <2>7. ASSUME NEW c \in Calls, EmitFails(c)
        PROVE  Contract!Fail(c) \/ UNCHANGED Contract!vars
    <3>1. executed' = executed /\ pc[c] = "emit" /\ \/ pc' = [pc EXCEPT ![c] = "emit"]
                                                    \/ pc' = [pc EXCEPT ![c] = "failed"]
      BY <2>7 DEF EmitFails
    <3>2. CASE pc' = [pc EXCEPT ![c] = "emit"]
      BY <2>1, <2>2, <3>1, <3>2
    <3>3. CASE pc' = [pc EXCEPT ![c] = "failed"]
      BY <2>1, <3>1, <3>3 DEF Contract!Fail, Contract!Moves, Status, Returned
    <3> QED  BY <3>1, <3>2, <3>3
  <2>8. ASSUME NEW c \in Calls, CallStep(c), ~Receive(c), ~Timeout(c), ~EmitFails(c)
        PROVE  UNCHANGED Contract!vars
    <3>1. /\ executed' = executed
          /\ \E from, to \in {"ensure", "launched", "check", "spin", "emit", "wait"} :
               pc[c] = from /\ pc' = [pc EXCEPT ![c] = to]
      BY <2>8 DEF CallStep, EnsureGroup, EnsureReturns, EnsureGroupFails, FindListener,
         StartListener, SeeListener, EmitRequest
    <3>2. \A d \in Calls : Status(d)' = Status(d)
      BY <2>1, <3>1 DEF Status, Returned
    <3> QED  BY <3>1, <3>2 DEF Contract!vars
  <2>9. ASSUME NEW c \in Calls, Serve(c) \/ MethodFails(c) PROVE Contract!Run(c)
    <3>1. /\ pc' = pc /\ requests[c] > 0 /\ executed' = [executed EXCEPT ![c] = @ + 1]
      BY <2>9 DEF Serve, MethodFails
    <3>2. Status(c) # "idle"
      BY <3>1 DEF SafeInv, Begun, Emitting, Status, Returned
    <3>3. {d \in Calls : executed[d] > 0}' = {d \in Calls : executed[d] > 0} \cup {c}
      BY <2>1, <3>1
    <3>4. [d \in Calls |-> Status(d)]' = [d \in Calls |-> Status(d)]
      BY <3>1 DEF Status
    <3> QED  BY <3>2, <3>3, <3>4 DEF Contract!Run
  <2>10. ASSUME NEW l \in Calls, LoopStep(l) PROVE UNCHANGED <<pc, executed>>
    BY <2>10 DEF LoopStep, LoopTop, LoopRead, LoopReadFails, LoopDiscards, TakeChannel,
       SendToCaller, AckReply, StrayReply, ExpiredReply, BatchDone
  <2>11. ASSUME NEW c \in Calls, DropRequest(c) PROVE UNCHANGED <<pc, executed>>
    BY <2>11 DEF DropRequest
  <2>12. ASSUME NEW i \in Instances, ProcessStep(i) PROVE UNCHANGED <<pc, executed>>
    BY <2>12 DEF ProcessStep, TrimStore, BeginShutdown, Cancel, TrimLoad, DeleteStream
  <2>13. CASE UNCHANGED vars
    BY <2>2, <2>13 DEF vars
  <2>14. ASSUME NEW c \in Calls, EntryStep(c) PROVE UNCHANGED <<pc, executed>>
    BY <2>14 DEF EntryStep, CleanupAcks, Expire
  <2> QED
    BY <2>2, <2>3, <2>4, <2>5, <2>6, <2>7, <2>8, <2>9, <2>10, <2>11, <2>12, <2>13, <2>14
       DEF Next, ServerStep, Contract!Next
<1> QED
  BY <1>1, <1>2, SafeInvariant, PTL DEF Spec, ImplementsRpcCall, Contract!Spec

-----------------------------------------------------------------------------
(* What is paid for with faults.                                            *)

Sent == {"wait", "replied", "timedout"}

\* A call's requests and executions are the one Emit that succeeded and, beyond
\* it, one for each fault at most; so are its requests and replies.
Paid ==
    \A c \in Calls :
        LET due == faults + (IF pc[c] \in Sent THEN 1 ELSE 0) IN
        executed[c] + requests[c] <= due /\ replies[c] + requests[c] <= due

\* No step adds a request, an execution or a reply without an Emit or a fault.
LEMMA PaidInductive == TypeInv /\ Paid /\ [Next]_vars => Paid'
<1> SUFFICES ASSUME TypeInv, Paid, [Next]_vars PROVE Paid'
  OBVIOUS
<1> USE DEF Goto, callVars, serverVars, Sent, Fault, NoFault
<1> DEFINE Fewer ==
             /\ faults' \in Nat /\ faults' >= faults
             /\ UNCHANGED <<requests, executed, replies>>
             /\ \A d \in Calls : pc[d] \in Sent => pc'[d] \in Sent
<1>1. /\ pc \in [Calls -> Loading] /\ requests \in [Calls -> Nat]
      /\ executed \in [Calls -> Nat] /\ replies \in [Calls -> Nat] /\ faults \in Nat
  BY DEF TypeInv, TypeOK
<1>2. Fewer => Paid'
  <2> SUFFICES ASSUME Fewer, NEW d \in Calls
               PROVE  LET due == faults' + (IF pc'[d] \in Sent THEN 1 ELSE 0) IN
                      executed'[d] + requests'[d] <= due /\ replies'[d] + requests'[d] <= due
    BY DEF Paid
  <2>1. executed[d] \in Nat /\ requests[d] \in Nat /\ replies[d] \in Nat
    BY <1>1
  <2>2. LET due == faults + (IF pc[d] \in Sent THEN 1 ELSE 0) IN
        executed[d] + requests[d] <= due /\ replies[d] + requests[d] <= due
    BY DEF Paid
  <2> QED  BY <1>1, <2>1, <2>2
<1>3. ASSUME NEW c \in Calls, EmitRequest(c) PROVE Paid'
  <2>1. /\ pc[c] = "emit" /\ pc' = [pc EXCEPT ![c] = "wait"]
        /\ requests' = [requests EXCEPT ![c] = requests[c] + 1] /\ UNCHANGED <<executed, replies, faults>>
    BY <1>3 DEF EmitRequest
  <2> QED  BY <1>1, <2>1 DEF Paid
<1>4. ASSUME NEW c \in Calls, EmitFails(c) PROVE Paid'
  <2>1. /\ pc[c] = "emit" /\ UNCHANGED <<executed, replies>>
        /\ \E to \in {"emit", "failed"} : pc' = [pc EXCEPT ![c] = to]
    BY <1>4 DEF EmitFails
  <2>2. \/ requests' = requests /\ faults' = faults
        \/ \E n \in {0, 1} : requests' = [requests EXCEPT ![c] = requests[c] + n] /\ faults' = faults + 1
    BY <1>4 DEF EmitFails
  <2> QED  BY <1>1, <2>1, <2>2 DEF Paid
<1>5. ASSUME NEW c \in Calls, ServerStep(c) PROVE Paid'
  <2>1. pc' = pc /\ requests[c] > 0
    BY <1>5 DEF ServerStep, Serve, MethodFails, DropRequest
  <2>2. \/ /\ requests' = [requests EXCEPT ![c] = requests[c] - 1]
           /\ executed' = [executed EXCEPT ![c] = executed[c] + 1]
           /\ \/ replies' = [replies EXCEPT ![c] = replies[c] + 1] /\ faults' = faults
              \/ /\ \E n \in 0..2 : replies' = [replies EXCEPT ![c] = replies[c] + n]
                 /\ faults' = faults + 1
        \/ /\ \E left \in {requests[c], requests[c] - 1} : requests' = [requests EXCEPT ![c] = left]
           /\ executed' = [executed EXCEPT ![c] = executed[c] + 1]
           /\ replies' = replies /\ faults' = faults + 1
        \/ /\ requests' = [requests EXCEPT ![c] = requests[c] - 1]
           /\ UNCHANGED <<executed, replies>>
           /\ faults' = faults + 1
    <3>1. CASE Serve(c)
      <4>1. PICK n \in 0..2 : ((n = 1 /\ NoFault) \/ Fault) /\ PublishReplies(c, n)
        BY <3>1 DEF Serve, Reply
      <4> QED  BY <3>1, <4>1 DEF Serve, PublishReplies
    <3> QED  BY <1>5, <3>1 DEF ServerStep, MethodFails, DropRequest
  <2> QED  BY <1>1, <2>1, <2>2 DEF Paid
<1>6. ASSUME NEW c \in Calls, BeginRequest(c) \/ RefuseRequest(c) \/ CallStep(c),
             ~EmitRequest(c), ~EmitFails(c)
      PROVE  Fewer
  BY <1>1, <1>6 DEF CallStep, BeginRequest, RefuseRequest, EnsureGroup, EnsureReturns,
     EnsureGroupFails, FindListener, StartListener, SeeListener, Receive, Timeout
<1>7. ASSUME NEW l \in Calls, LoopStep(l) PROVE Fewer
  BY <1>1, <1>7 DEF LoopStep, LoopTop, LoopRead, LoopReadFails, LoopDiscards, TakeChannel,
     SendToCaller, AckReply, StrayReply, ExpiredReply, BatchDone
<1>8. ASSUME NEW c \in Calls, EntryStep(c) PROVE Fewer
  BY <1>1, <1>8 DEF EntryStep, CleanupAcks, Expire
<1>9. ASSUME NEW i \in Instances, ProcessStep(i) PROVE Fewer
  <2>1. UNCHANGED <<pc, requests, executed, replies>>
    BY <1>9 DEF ProcessStep, TrimStore, BeginShutdown, Cancel, TrimLoad, DeleteStream
  <2>2. faults' = faults \/ faults' = faults + 1
    BY <1>9 DEF ProcessStep, TrimStore, BeginShutdown, Cancel, TrimLoad, DeleteStream
  <2> QED  BY <1>1, <2>1, <2>2
<1>10. CASE UNCHANGED vars
  BY <1>1, <1>2, <1>10 DEF vars
<1> QED
  BY <1>2, <1>3, <1>4, <1>5, <1>6, <1>7, <1>8, <1>9, <1>10 DEF Next

\* A method runs twice for one call only after a failure (Emit, Retry and the
\* handler of registerRPCMethod), for any number of faults.
THEOREM ServedOnce == Spec => []ServedOnceWithoutFaults
<1>1. Init => Paid
  BY DEF Init, Paid
<1>2. TypeInv /\ Paid => ServedOnceWithoutFaults
  <2> SUFFICES ASSUME TypeInv, Paid, NEW c \in Calls PROVE executed[c] + requests[c] <= 1 + faults
    BY DEF ServedOnceWithoutFaults
  <2>1. executed[c] \in Nat /\ requests[c] \in Nat /\ faults \in Nat
    BY DEF TypeInv, TypeOK
  <2>2. executed[c] + requests[c] <= faults + (IF pc[c] \in Sent THEN 1 ELSE 0)
    BY DEF Paid
  <2> QED  BY <2>1, <2>2
<1> QED
  BY <1>1, <1>2, TypeInitially, TypeInductive, PaidInductive, PTL DEF Spec

\* OnlyFailuresShow: neither a routed entry nor a second execution comes of
\* anything but a command or a method that failed.
THEOREM FailuresShow == Spec => []OnlyFailuresShow
BY RouterLeaks, ServedOnce, PTL DEF OnlyFailuresShow

-----------------------------------------------------------------------------
(* What is acknowledged.                                                    *)

\* A loop about to acknowledge has offered the reply to its caller, and only a
\* stream with its group has pending entries.
Offered ==
    /\ \A l \in Calls : loop[l] = "ack" =>
         Current(l) \notin router /\ (Current(l) \in chan \/ pc[Current(l)] \in Returned)
    /\ \A s \in Streams : pend[s] # {} => group[s]

\* No step takes the offer back.
LEMMA OfferedInductive == SafeInv /\ Offered /\ [Next]_vars => Offered'
<1> SUFFICES ASSUME SafeInv, Offered, [Next]_vars PROVE Offered'
  OBVIOUS
<1> USE DEF Goto, LoopGoto, callVars, loopVars, brokerVars, Returned
<1> DEFINE Pends == \A s \in Streams : pend'[s] # {} => group'[s]
           Stays ==
             /\ router' \subseteq router
             /\ \A c \in Calls : c \in chan \/ pc[c] \in Returned => c \in chan' \/ pc'[c] \in Returned
             /\ \A m \in Calls : loop'[m] = "ack" => loop[m] = "ack" /\ batch'[m] = batch[m]
<1>1. /\ pc \in [Calls -> Loading] /\ loop \in [Calls -> LoopPcs] /\ batch \in [Calls -> Seq(Entries)]
      /\ pend \in [Streams -> SUBSET Entries] /\ group \in [Streams -> BOOLEAN]
  BY DEF SafeInv, TypeInv, TypeOK
<1>2. ASSUME NEW l \in Calls, loop[l] \in {"deliver", "ack"}
      PROVE  Current(l) \in Calls /\ executed[Current(l)] > 0
  BY <1>2, CurrentServed DEF SafeInv, TypeInv, Working
<1>3. Stays /\ Pends => Offered'
  <2> SUFFICES ASSUME Stays, Pends, NEW l \in Calls, loop'[l] = "ack"
               PROVE  Current(l)' \notin router' /\ (Current(l)' \in chan' \/ pc'[Current(l)'] \in Returned)
    BY DEF Offered
  <2>1. loop[l] = "ack" /\ Current(l)' = Current(l)
    BY DEF Current
  <2> QED  BY <1>2, <2>1 DEF Offered
<1>4. UNCHANGED <<pend, group>> => Pends
  BY DEF Offered
<1>5. ASSUME NEW c \in Calls, BeginRequest(c) PROVE Offered'
  <2>1. /\ pc[c] = "idle" /\ router' = router \cup {c}
        /\ pc' = [pc EXCEPT ![c] = "ensure"] /\ UNCHANGED <<chan, loop, batch, pend, group>>
    BY <1>5 DEF BeginRequest
  <2>2. ~(executed[c] > 0)
    BY <2>1 DEF SafeInv, Begun, Emitting
  <2>3. \A l \in Calls : loop[l] = "ack" => Current(l) # c /\ Current(l) \in Calls
    BY <1>2, <2>2
  <2>4. \A l \in Calls : Current(l)' = Current(l)
    BY <2>1 DEF Current
  <2> QED  BY <1>1, <2>1, <2>3, <2>4 DEF Offered
<1>6. ASSUME NEW l \in Calls, SendToCaller(l) PROVE Offered'
  <2>1. /\ loop[l] = "deliver" /\ chan' = chan \cup {Current(l)}
        /\ loop' = [loop EXCEPT ![l] = "ack"] /\ UNCHANGED <<router, pc, batch, pend, group>>
    BY <1>6 DEF SendToCaller
  <2>2. \A m \in Calls : Current(m)' = Current(m)
    BY <2>1 DEF Current
  <2>3. Current(l) \notin router
    BY <2>1 DEF SafeInv, Taken
  <2>4. \A m \in Calls : loop'[m] = "ack" => m = l \/ loop[m] = "ack"
    BY <1>1, <2>1
  <2> QED  BY <2>1, <2>2, <2>3, <2>4 DEF Offered
<1>7. ASSUME NEW c \in Calls, RefuseRequest(c) \/ CallStep(c) PROVE Stays /\ Pends
  <2>1. UNCHANGED pend /\ (UNCHANGED group \/ group' = [group EXCEPT ![ReplyTo(c)] = TRUE])
    BY <1>7 DEF CallStep, RefuseRequest, EnsureGroup, EnsureReturns, EnsureGroupFails, FindListener,
         StartListener, SeeListener, EmitRequest, EmitFails, Receive, Timeout
  <2>2. Pends
    BY <1>1, <2>1 DEF Offered
  <2>3. Stays
    BY <1>1, <1>7 DEF CallStep, RefuseRequest, EnsureGroup, EnsureReturns, EnsureGroupFails,
       FindListener, StartListener, SeeListener, EmitRequest, EmitFails, Receive, Timeout
  <2> QED  BY <2>2, <2>3
<1>8. ASSUME NEW l \in Calls, LoopStep(l), ~SendToCaller(l) PROVE Stays /\ Pends
  <2>1. router' \subseteq router /\ UNCHANGED <<chan, pc>>
    BY <1>8 DEF LoopStep, LoopTop, LoopRead, LoopReadFails, LoopDiscards, TakeChannel, AckReply,
       StrayReply, ExpiredReply, BatchDone
  <2>2. /\ loop[l] # "ack" \/ loop' = [loop EXCEPT ![l] = "handle"]
        /\ loop' = loop \/ \E to \in LoopPcs \ {"ack"} : loop' = [loop EXCEPT ![l] = to]
        /\ batch' = batch \/ \E b : batch' = [batch EXCEPT ![l] = b]
    BY <1>1, <1>8 DEF LoopStep, LoopTop, LoopRead, LoopReadFails, LoopDiscards, Sorted, TakeChannel,
       AckReply, StrayReply, ExpiredReply, BatchDone, LoopDies, LoopPcs
  <2>3. Stays
    BY <1>1, <2>1, <2>2
  <2>4. /\ UNCHANGED group
        /\ \A s \in Streams : pend'[s] # {} => pend[s] # {} \/ group[s]
    BY <1>1, <1>8 DEF LoopStep, LoopTop, LoopRead, LoopReadFails, LoopDiscards, TakeChannel,
       AckReply, StrayReply, ExpiredReply, BatchDone, DeliverBatch
  <2>5. Pends
    BY <2>4 DEF Offered
  <2> QED  BY <2>3, <2>5
<1>9. ASSUME NEW c \in Calls, ServerStep(c) PROVE Stays /\ Pends
  BY <1>4, <1>9 DEF ServerStep, Serve, MethodFails, DropRequest
<1>10. ASSUME NEW c \in Calls, EntryStep(c) PROVE Stays /\ Pends
  <2>1. Stays /\ UNCHANGED group
    BY <1>10 DEF EntryStep, CleanupAcks, Expire
  <2>2. \A s \in Streams : pend'[s] # {} => pend[s] # {}
    BY <1>1, <1>10 DEF EntryStep, CleanupAcks, Expire
  <2> QED  BY <2>1, <2>2 DEF Offered
<1>11. ASSUME NEW i \in Instances, ProcessStep(i) PROVE Stays /\ Pends
  <2>1. Stays
    BY <1>11 DEF ProcessStep, TrimStore, BeginShutdown, Cancel, TrimLoad, DeleteStream
  <2>2. \/ UNCHANGED <<pend, group>>
        \/ \E s \in Streams : group' = [group EXCEPT ![s] = FALSE] /\ pend' = [pend EXCEPT ![s] = {}]
    BY <1>11 DEF ProcessStep, TrimStore, BeginShutdown, Cancel, TrimLoad, DeleteStream
  <2>3. Pends
    BY <1>1, <1>4, <2>2 DEF Offered
  <2> QED  BY <2>1, <2>3
<1>12. CASE UNCHANGED vars
  BY <1>3, <1>4, <1>12 DEF vars
<1> QED
  BY <1>3, <1>5, <1>6, <1>7, <1>8, <1>9, <1>10, <1>11, <1>12 DEF Next

\* A decodable reply in time leaves the pending list only after its caller was
\* offered it, or with its stream; an undecodable one only by its reader.
THEOREM AcksFollowDelivery == Spec => AckOnlyAfterDelivery
<1> DEFINE Acked(s, e) ==
             \/ group[s] /\ ~group'[s]
             \/ e \in expired
             \/ e \in garbled /\ \E l \in Calls : \E j \in 1..Len(batch[l]) : batch[l][j] = e
             \/ /\ e[1] \notin router
                /\ e[1] \in chan \/ pc[e[1]] \in Returned
<1>1. ASSUME SafeInv, Offered, [Next]_vars, NEW s \in Streams, NEW e \in pend[s] \ pend'[s]
      PROVE  Acked(s, e)
  <2> USE <1>1 DEF brokerVars
  <2>1. /\ pend \in [Streams -> SUBSET Entries] /\ group \in [Streams -> BOOLEAN]
        /\ batch \in [Calls -> Seq(Entries)]
    BY DEF SafeInv, TypeInv, TypeOK
  <2>2. CASE UNCHANGED pend
    BY <2>2
  <2>3. ASSUME NEW c \in Calls, BeginRequest(c) \/ RefuseRequest(c) \/ CallStep(c) PROVE UNCHANGED pend
    BY <2>3 DEF CallStep, BeginRequest, RefuseRequest, EnsureGroup, EnsureReturns, EnsureGroupFails,
         FindListener, StartListener, SeeListener, EmitRequest, EmitFails, Receive, Timeout
  <2>4. ASSUME NEW l \in Calls, AckReply(l) PROVE Acked(s, e)
    <3>1. loop[l] = "ack" /\ e = Head(batch[l])
      BY <2>1, <2>4 DEF AckReply, LoopGoto
    <3> QED  BY <3>1 DEF Offered, Current
  <2>10. ASSUME NEW l \in Calls, LoopDiscards(l) PROVE Acked(s, e)
    <3>1. PICK j \in 1..Len(batch[l]) :
            /\ batch[l][j] \in garbled
            /\ \/ pend' = [pend EXCEPT ![ReplyTo(l)] = @ \ {batch[l][j]}]
               \/ UNCHANGED pend
      BY <2>10 DEF LoopDiscards
    <3>2. e = batch[l][j]
      BY <2>1, <3>1
    <3> QED  BY <3>1, <3>2
  <2>5. ASSUME NEW l \in Calls, LoopStep(l), ~AckReply(l), ~LoopDiscards(l) PROVE FALSE
    <3>1. pend[s] \subseteq pend'[s]
      BY <2>1, <2>5 DEF LoopStep, LoopTop, LoopRead, LoopReadFails, TakeChannel, SendToCaller,
           StrayReply, ExpiredReply, BatchDone, DeliverBatch
    <3> QED  BY <3>1
  <2>6. ASSUME NEW c \in Calls, ServerStep(c) PROVE UNCHANGED pend
    BY <2>6 DEF ServerStep, Serve, MethodFails, DropRequest
  <2>7. ASSUME NEW c \in Calls, EntryStep(c) PROVE Acked(s, e)
    BY <2>1, <2>7 DEF EntryStep, CleanupAcks, Expire
  <2>8. ASSUME NEW i \in Instances, ProcessStep(i) PROVE Acked(s, e)
    <3>1. \/ UNCHANGED pend
          \/ \E t \in Streams : group' = [group EXCEPT ![t] = FALSE] /\ pend' = [pend EXCEPT ![t] = {}]
      BY <2>8 DEF ProcessStep, TrimStore, BeginShutdown, Cancel, TrimLoad, DeleteStream
    <3> QED  BY <2>1, <3>1 DEF Offered
  <2>9. UNCHANGED vars => UNCHANGED pend
    BY DEF vars
  <2> QED  BY <2>2, <2>3, <2>4, <2>5, <2>6, <2>7, <2>8, <2>9, <2>10 DEF Next
<1>2. SafeInv /\ Offered /\ [Next]_vars =>
        [\A s \in Streams : \A e \in pend[s] \ pend'[s] : Acked(s, e)]_vars
  BY <1>1
<1>3. Init => Offered
  BY DEF Init, Offered
<1> QED
  BY <1>2, <1>3, SafeInvariant, OfferedInductive, PTL DEF Spec, AckOnlyAfterDelivery

-----------------------------------------------------------------------------
(* SubscribedTo and the listener loops.                                     *)

\* A flag that is set was set by a loop of its process and stream, a waiting
\* caller started one, and a loop ends only with an error or a cancelled context.
Heard ==
    /\ \A is \in subscribed : \E l \in Calls :
         Owner[l] = is[1] /\ ReplyTo(l) = is[2] /\ loop[l] # "none"
    /\ \A c \in Calls : pc[c] = "spin" => loop[c] # "none"
    /\ \A l \in Calls : loop[l] = "dead" => Owner[l] \in erred \/ Cancelled(Owner[l])

\* Then whoever relies on the flag has a listener.
LEMMA HeardIsEnough == TypeOK /\ Heard => ListenerIsThere
<1> SUFFICES ASSUME TypeOK, Heard, NEW c \in Calls, IsSubscribed(c) \/ pc[c] = "spin"
             PROVE  \/ Owner[c] \in erred \/ Cancelled(Owner[c])
                    \/ \E l \in Calls : /\ Owner[l] = Owner[c] /\ ReplyTo(l) = ReplyTo(c)
                                        /\ loop[l] \in Live
  BY DEF ListenerIsThere
<1>1. PICK l \in Calls : Owner[l] = Owner[c] /\ ReplyTo(l) = ReplyTo(c) /\ loop[l] # "none"
  BY DEF Heard, IsSubscribed
<1>2. loop[l] \in Live \cup {"dead"}
  BY <1>1 DEF TypeOK, LoopPcs, Live
<1> QED
  BY <1>1, <1>2 DEF Heard

\* No step takes a started loop back, or an error or a cancellation.
LEMMA NothingComesBack ==
    TypeOK /\ [Next]_vars =>
        /\ \A l \in Calls : loop[l] # "none" => loop'[l] # "none"
        /\ erred \subseteq erred'
        /\ \A i \in Instances : Cancelled(i) => Cancelled(i)'
<1> SUFFICES ASSUME TypeOK, [Next]_vars
             PROVE  /\ \A l \in Calls : loop[l] # "none" => loop'[l] # "none"
                    /\ erred \subseteq erred'
                    /\ \A i \in Instances : Cancelled(i) => Cancelled(i)'
  OBVIOUS
<1> DEFINE Kept == /\ \A l \in Calls : loop[l] # "none" => loop'[l] # "none"
                   /\ erred \subseteq erred'
                   /\ \A i \in Instances : Cancelled(i) => Cancelled(i)'
<1>1. loop \in [Calls -> LoopPcs] /\ phase \in [Instances -> {"up", "closing", "cancelled"}]
  BY DEF TypeOK
<1>2. UNCHANGED <<loop, erred, phase>> => Kept
  BY DEF Cancelled
<1>3. ASSUME NEW c \in Calls, BeginRequest(c) \/ RefuseRequest(c) \/ CallStep(c) PROVE Kept
  BY <1>1, <1>3 DEF CallStep, BeginRequest, RefuseRequest, EnsureGroup, EnsureReturns,
     EnsureGroupFails, FindListener, StartListener, SeeListener, EmitRequest, EmitFails, Receive,
     Timeout, Cancelled, loopVars, procVars
<1>4. ASSUME NEW l \in Calls, LoopStep(l) PROVE Kept
  BY <1>1, <1>4 DEF LoopStep, LoopTop, LoopRead, LoopReadFails, LoopDiscards, Sorted, TakeChannel,
     SendToCaller, AckReply, StrayReply, ExpiredReply, BatchDone, LoopGoto, LoopDies, Cancelled,
     procVars
<1>5. ASSUME NEW c \in Calls, ServerStep(c) \/ EntryStep(c) PROVE Kept
  <2>1. UNCHANGED <<loop, erred, phase>>
    BY <1>5 DEF ServerStep, EntryStep, Serve, MethodFails, DropRequest, CleanupAcks, Expire,
       loopVars, procVars
  <2> QED  BY <1>2, <2>1
<1>6. ASSUME NEW i \in Instances, ProcessStep(i) PROVE Kept
  BY <1>1, <1>6 DEF ProcessStep, TrimStore, BeginShutdown, Cancel, TrimLoad, DeleteStream,
     Cancelled, loopVars, procVars
<1>7. CASE UNCHANGED vars
  BY <1>2, <1>7 DEF vars, loopVars, procVars
<1> QED
  BY <1>3, <1>4, <1>5, <1>6, <1>7 DEF Next

\* Every step keeps this.
LEMMA HeardInductive == TypeOK /\ Heard /\ [Next]_vars => Heard'
<1> SUFFICES ASSUME TypeOK, Heard, [Next]_vars PROVE Heard'
  OBVIOUS
<1> DEFINE New == \* what a step may add to what Heard speaks of
      /\ \A is \in subscribed' \ subscribed : \E l \in Calls :
           Owner[l] = is[1] /\ ReplyTo(l) = is[2] /\ loop'[l] # "none"
      /\ \A c \in Calls : pc'[c] = "spin" => pc[c] = "spin" \/ loop'[c] # "none"
      /\ \A l \in Calls : loop'[l] = "dead" =>
           loop[l] = "dead" \/ Owner[l] \in erred' \/ Cancelled(Owner[l])'
<1>1. /\ loop \in [Calls -> LoopPcs] /\ pc \in [Calls -> Loading]
      /\ phase \in [Instances -> {"up", "closing", "cancelled"}]
      /\ Owner \in [Calls -> Instances]
  BY OwnerAssumption DEF TypeOK
<1>2. New => Heard'
  <2> SUFFICES ASSUME New PROVE Heard'
    OBVIOUS
  <2>1. \A is \in subscribed' : \E l \in Calls :
          Owner[l] = is[1] /\ ReplyTo(l) = is[2] /\ loop'[l] # "none"
    BY NothingComesBack DEF Heard
  <2>2. \A c \in Calls : pc'[c] = "spin" => loop'[c] # "none"
    BY NothingComesBack DEF Heard
  <2>3. \A l \in Calls : loop'[l] = "dead" => Owner[l] \in erred' \/ Cancelled(Owner[l])'
    BY <1>1, NothingComesBack DEF Heard
  <2>4. \A l \in Calls : ReplyTo(l)' = ReplyTo(l)
    BY DEF ReplyTo
  <2> QED  BY <2>1, <2>2, <2>3, <2>4 DEF Heard
<1>3. UNCHANGED <<pc, loop>> /\ subscribed' \subseteq subscribed => New
  OBVIOUS
<1>4. ASSUME NEW c \in Calls, BeginRequest(c) \/ RefuseRequest(c) \/ CallStep(c) PROVE New
  <2>1. subscribed' = subscribed
    BY <1>4 DEF CallStep, BeginRequest, RefuseRequest, EnsureGroup, EnsureReturns, EnsureGroupFails,
       FindListener, StartListener, SeeListener, EmitRequest, EmitFails, Receive, Timeout, metaVars
  <2>2. CASE StartListener(c)
    BY <1>1, <2>1, <2>2 DEF StartListener, Goto
  <2>3. CASE ~StartListener(c)
    <3>1. loop' = loop
      BY <1>4, <2>3 DEF CallStep, BeginRequest, RefuseRequest, EnsureGroup, EnsureReturns,
         EnsureGroupFails, FindListener, SeeListener, EmitRequest, EmitFails, Receive, Timeout,
         loopVars
    <3>2. \A d \in Calls : pc'[d] = "spin" => pc[d] = "spin"
      BY <1>1, <1>4, <2>3 DEF CallStep, BeginRequest, RefuseRequest, EnsureGroup, EnsureReturns,
         EnsureGroupFails, FindListener, SeeListener, EmitRequest, EmitFails, Receive, Timeout, Goto
    <3> QED  BY <2>1, <3>1, <3>2
  <2> QED  BY <2>2, <2>3
<1>5. ASSUME NEW l \in Calls, LoopStep(l) PROVE New
  <2>1. pc' = pc
    BY <1>5 DEF LoopStep, LoopTop, LoopRead, LoopReadFails, LoopDiscards, TakeChannel, SendToCaller,
       AckReply, StrayReply, ExpiredReply, BatchDone, callVars
  <2>2. CASE LoopTop(l)
    BY <1>1, <2>1, <2>2 DEF LoopTop, LoopGoto, Cancelled, procVars
  <2>3. CASE LoopReadFails(l) \/ ExpiredReply(l)
    BY <1>1, <2>1, <2>3 DEF LoopReadFails, LoopDiscards, ExpiredReply, LoopGoto, LoopDies, metaVars
  <2>4. CASE \/ LoopRead(l) \/ LoopDiscards(l) \/ TakeChannel(l) \/ SendToCaller(l)
             \/ AckReply(l) \/ StrayReply(l) \/ BatchDone(l)
    BY <1>1, <2>1, <2>4 DEF LoopRead, LoopDiscards, Sorted, TakeChannel, SendToCaller, AckReply,
       StrayReply, BatchDone, LoopGoto, metaVars
  <2> QED  BY <1>5, <2>2, <2>3, <2>4 DEF LoopStep
<1>6. ASSUME NEW c \in Calls, ServerStep(c) \/ EntryStep(c) PROVE New
  <2>1. UNCHANGED <<pc, loop, subscribed>>
    BY <1>6 DEF ServerStep, EntryStep, Serve, MethodFails, DropRequest, CleanupAcks, Expire,
       callVars, loopVars, metaVars
  <2> QED  BY <1>3, <2>1
<1>7. ASSUME NEW i \in Instances, ProcessStep(i) PROVE New
  <2>1. UNCHANGED <<pc, loop>> /\ subscribed' \subseteq subscribed
    BY <1>7 DEF ProcessStep, TrimStore, BeginShutdown, Cancel, TrimLoad, DeleteStream,
       callVars, loopVars, metaVars
  <2> QED  BY <1>3, <2>1
<1>8. CASE UNCHANGED vars
  BY <1>2, <1>3, <1>8 DEF vars, callVars, loopVars, metaVars
<1> QED
  BY <1>2, <1>4, <1>5, <1>6, <1>7, <1>8 DEF Next

\* ListenerIsThere: whoever finds SubscribedTo set, or waits for it, has a
\* running listener or a process that is going down.
THEOREM ListenersStay == Spec => []ListenerIsThere
<1>1. Init => Heard
  BY DEF Init, Heard
<1>2. TypeInv => TypeOK
  BY DEF TypeInv
<1> QED
  BY <1>1, <1>2, TypeInitially, TypeInductive, HeardInductive, HeardIsEnough, PTL DEF Spec

-----------------------------------------------------------------------------
(* Liveness.  A call that does not return uses up what may hold it up: faults *)
(* and the entries of the batch its own listener is busy with.              *)

At(c, p) == pc[c] = p
LoopAt(l, p) == loop[l] = p
Up(i) == phase[i] = "up"
Erred(i) == i \in erred
Asking(c) == pc[c] \in {"ensure", "launched", "check", "spin", "emit", "wait"} /\ Up(Owner[c])
Over(c) == pc[c] \in Returned \/ ~Up(Owner[c])

Spare == MaxFaults - faults
Left(l) == Len(batch[l])

\* A loop is started after the call looked for one; faults keep within bounds.
Sane ==
    /\ TypeInv /\ Heard
    /\ \A l \in Calls : loop[l] # "none" => pc[l] \notin {"idle", "ensure", "launched", "check"}
    /\ faults <= MaxFaults

\* What is left of a bound shrinks as the number under it grows.
LEMMA Differences ==
    \A m, x, y \in Nat : /\ m - y = m - x => y = x
                         /\ x <= y => m - y <= m - x
                         /\ x <= m => m - x \in Nat
  OBVIOUS

\* Faults are only used up, and not beyond their bound.
LEMMA FaultsGrow ==
    ASSUME TypeOK, faults <= MaxFaults, [Next]_vars
    PROVE  /\ faults \in Nat /\ faults' \in Nat /\ faults <= faults' /\ faults' <= MaxFaults
           /\ Spare \in Nat /\ Spare' \in Nat /\ Spare' <= Spare
           /\ (Spare' = Spare => faults' = faults)
<1>1. faults \in Nat /\ MaxFaults \in Nat
  BY FaultsAssumption DEF TypeOK
<1>2. Fault \/ NoFault
  <2>1. ASSUME NEW c \in Calls, BeginRequest(c) \/ RefuseRequest(c) \/ CallStep(c)
        PROVE  Fault \/ NoFault
    BY <2>1 DEF CallStep, BeginRequest, RefuseRequest, EnsureGroup, EnsureReturns, EnsureGroupFails,
       FindListener, StartListener, SeeListener, EmitRequest, EmitFails, Receive, Timeout, NoFault
  <2>2. ASSUME NEW l \in Calls, LoopStep(l) PROVE Fault \/ NoFault
    BY <2>2 DEF LoopStep, LoopTop, LoopRead, LoopReadFails, LoopDiscards, TakeChannel, SendToCaller,
       AckReply, StrayReply, ExpiredReply, BatchDone, NoFault
  <2>3. ASSUME NEW c \in Calls, ServerStep(c) \/ EntryStep(c) PROVE Fault \/ NoFault
    BY <2>3 DEF ServerStep, Serve, Reply, MethodFails, DropRequest, EntryStep, CleanupAcks, Expire,
       NoFault
  <2>4. ASSUME NEW i \in Instances, ProcessStep(i) PROVE Fault \/ NoFault
    BY <2>4 DEF ProcessStep, TrimStore, BeginShutdown, Cancel, TrimLoad, DeleteStream, NoFault
  <2>5. UNCHANGED vars => NoFault
    BY DEF vars, NoFault
  <2> QED  BY <2>1, <2>2, <2>3, <2>4, <2>5 DEF Next
<1>3. faults' \in Nat /\ faults <= faults' /\ faults' <= MaxFaults
  BY <1>1, <1>2 DEF Fault, NoFault
<1>4. Spare = MaxFaults - faults /\ Spare' = MaxFaults - faults'
  BY DEF Spare
<1>5. Spare' <= Spare /\ (Spare' = Spare => faults' = faults)
  BY <1>1, <1>3, <1>4, Differences
<1>6. Spare \in Nat /\ Spare' \in Nat
  <2>1. faults <= MaxFaults
    OBVIOUS
  <2> QED  BY <1>1, <1>3, <1>4, <2>1, Differences
<1> QED  BY <1>1, <1>3, <1>5, <1>6

\* Nobody but the call itself moves it once it has begun.
LEMMA CallKept ==
    ASSUME TypeOK, NEW c \in Calls, pc[c] # "idle", [Next]_vars, ~CallStep(c)
    PROVE  pc'[c] = pc[c]
<1>1. pc \in [Calls -> Loading]
  BY DEF TypeOK
<1>2. ASSUME NEW d \in Calls, BeginRequest(d) \/ RefuseRequest(d) PROVE pc'[c] = pc[c]
  BY <1>1, <1>2 DEF BeginRequest, RefuseRequest, Goto
<1>3. ASSUME NEW d \in Calls, CallStep(d) PROVE pc'[c] = pc[c]
  <2>1. d # c
    BY <1>3
  <2> QED  BY <1>1, <1>3, <2>1 DEF CallStep, EnsureGroup, EnsureReturns, EnsureGroupFails,
         FindListener, StartListener, SeeListener, EmitRequest, EmitFails, Receive, Timeout, Goto
<1>4. ASSUME NEW d \in Calls, LoopStep(d) \/ ServerStep(d) \/ EntryStep(d) PROVE pc'[c] = pc[c]
  BY <1>4 DEF LoopStep, ServerStep, EntryStep, LoopTop, LoopRead, LoopReadFails, LoopDiscards,
     TakeChannel, SendToCaller, AckReply, StrayReply, ExpiredReply, BatchDone, Serve, MethodFails,
     DropRequest, CleanupAcks, Expire, callVars
<1>5. ASSUME NEW i \in Instances, ProcessStep(i) PROVE pc'[c] = pc[c]
  BY <1>5 DEF ProcessStep, TrimStore, BeginShutdown, Cancel, TrimLoad, DeleteStream, callVars
<1>6. CASE UNCHANGED vars
  BY <1>6 DEF vars, callVars
<1> QED  BY <1>2, <1>3, <1>4, <1>5, <1>6 DEF Next

\* Without faults a call of a process that is up only goes on.
LEMMA CallMoves ==
    ASSUME TypeOK, NEW c \in Calls, CallStep(c), Asking(c), faults' = faults
    PROVE  \/ At(c, "ensure") /\ (At(c, "launched")' \/ At(c, "check")')
           \/ At(c, "launched") /\ At(c, "check")'
           \/ At(c, "check") /\ (At(c, "spin")' \/ At(c, "emit")')
           \/ At(c, "spin") /\ At(c, "emit")'
           \/ At(c, "emit") /\ At(c, "wait")'
           \/ At(c, "wait") /\ Over(c)'
<1>1. pc \in [Calls -> Loading] /\ faults \in Nat /\ ~Cancelled(Owner[c]) /\ ~Fault
  BY DEF TypeOK, Asking, Up, Cancelled, Fault
<1> USE DEF At, Over, Returned, Goto
<1>2. CASE EnsureGroup(c)
  BY <1>1, <1>2 DEF EnsureGroup
<1>3. CASE EnsureReturns(c)
  BY <1>1, <1>3 DEF EnsureReturns
<1>4. CASE FindListener(c)
  BY <1>1, <1>4 DEF FindListener
<1>5. CASE StartListener(c)
  BY <1>1, <1>5 DEF StartListener
<1>6. CASE SeeListener(c)
  BY <1>1, <1>6 DEF SeeListener
<1>7. CASE EmitRequest(c)
  BY <1>1, <1>7 DEF EmitRequest
<1>8. CASE Receive(c) \/ Timeout(c)
  BY <1>1, <1>8 DEF Receive, Timeout
<1>9. CASE EnsureGroupFails(c) \/ EmitFails(c)
  BY <1>1, <1>9 DEF EnsureGroupFails, EmitFails
<1> QED  BY <1>2, <1>3, <1>4, <1>5, <1>6, <1>7, <1>8, <1>9, CallStep(c) DEF CallStep

\* A step that starts a loop is the caller's; others only move started loops.
LEMMA SaneInductive == Sane /\ [Next]_vars => Sane'
<1> SUFFICES ASSUME Sane, [Next]_vars
             PROVE  \A l \in Calls : loop'[l] # "none" =>
                      pc'[l] \notin {"idle", "ensure", "launched", "check"}
  BY TypeInductive, HeardInductive, FaultsGrow DEF Sane, TypeInv
<1> DEFINE Early == {"idle", "ensure", "launched", "check"}
<1>1. /\ pc \in [Calls -> Loading] /\ loop \in [Calls -> LoopPcs]
      /\ \A l \in Calls : loop[l] # "none" => pc[l] \notin Early
  BY DEF Sane, TypeInv, TypeOK
<1>2. ASSUME NEW c \in Calls, BeginRequest(c) \/ RefuseRequest(c) \/ CallStep(c)
      PROVE  \A l \in Calls : loop'[l] # "none" => pc'[l] \notin Early
  <2>1. CASE StartListener(c)
    BY <1>1, <2>1 DEF StartListener, Goto
  <2>2. CASE ~StartListener(c)
    <3>1. loop' = loop
      BY <1>2, <2>2 DEF CallStep, BeginRequest, RefuseRequest, EnsureGroup, EnsureReturns,
         EnsureGroupFails, FindListener, SeeListener, EmitRequest, EmitFails, Receive, Timeout,
         loopVars
    <3>2. \A l \in Calls : pc[l] \notin Early => pc'[l] \notin Early
      BY <1>1, <1>2, <2>2 DEF CallStep, BeginRequest, RefuseRequest, EnsureGroup, EnsureReturns,
         EnsureGroupFails, FindListener, SeeListener, EmitRequest, EmitFails, Receive, Timeout, Goto
    <3> QED  BY <1>1, <3>1, <3>2
  <2> QED  BY <2>1, <2>2
<1>3. ASSUME NEW l \in Calls, LoopStep(l)
      PROVE  \A m \in Calls : loop'[m] # "none" => pc'[m] \notin Early
  <2>1. pc' = pc /\ loop[l] # "none" /\ \A m \in Calls : m # l => loop'[m] = loop[m]
    BY <1>1, <1>3 DEF LoopStep, LoopTop, LoopRead, LoopReadFails, LoopDiscards, TakeChannel,
       SendToCaller, AckReply, StrayReply, ExpiredReply, BatchDone, LoopGoto, LoopDies, callVars
  <2> QED  BY <1>1, <2>1
<1>4. ASSUME NEW c \in Calls, ServerStep(c) \/ EntryStep(c)
      PROVE  \A l \in Calls : loop'[l] # "none" => pc'[l] \notin Early
  BY <1>1, <1>4 DEF ServerStep, EntryStep, Serve, MethodFails, DropRequest, CleanupAcks, Expire,
     callVars, loopVars
<1>5. ASSUME NEW i \in Instances, ProcessStep(i)
      PROVE  \A l \in Calls : loop'[l] # "none" => pc'[l] \notin Early
  BY <1>1, <1>5 DEF ProcessStep, TrimStore, BeginShutdown, Cancel, TrimLoad, DeleteStream,
     callVars, loopVars
<1>6. CASE UNCHANGED vars
  BY <1>1, <1>6 DEF vars, callVars, loopVars
<1> QED  BY <1>2, <1>3, <1>4, <1>5, <1>6 DEF Next

\* All of it holds from the start.
LEMMA SaneHolds == Spec => []Sane
<1>1. Init => Sane
  <2>1. Init => Heard
    BY DEF Init, Heard
  <2>2. Init => faults <= MaxFaults
    BY FaultsAssumption DEF Init
  <2> QED  BY <2>1, <2>2, TypeInitially DEF Init, Sane
<1> QED  BY <1>1, SaneInductive, PTL DEF Spec

\* Nobody but a started loop itself moves it or touches its batch.
LEMMA LoopKept ==
    ASSUME Sane, NEW l \in Calls, loop[l] # "none", [Next]_vars, ~LoopStep(l)
    PROVE  loop'[l] = loop[l] /\ batch'[l] = batch[l]
<1>1. /\ pc[l] # "check" /\ loop \in [Calls -> LoopPcs] /\ batch \in [Calls -> Seq(Entries)]
  BY DEF Sane, TypeInv, TypeOK
<1>2. ASSUME NEW c \in Calls, StartListener(c) PROVE loop'[l] = loop[l] /\ batch'[l] = batch[l]
  <2>1. c # l
    BY <1>1, <1>2 DEF StartListener, Goto
  <2> QED  BY <1>1, <1>2, <2>1 DEF StartListener
<1>3. ASSUME NEW c \in Calls, BeginRequest(c) \/ RefuseRequest(c) \/ CallStep(c), ~StartListener(c)
      PROVE  loop'[l] = loop[l] /\ batch'[l] = batch[l]
  BY <1>3 DEF CallStep, BeginRequest, RefuseRequest, EnsureGroup, EnsureReturns, EnsureGroupFails,
     FindListener, SeeListener, EmitRequest, EmitFails, Receive, Timeout, loopVars
<1>4. ASSUME NEW m \in Calls, LoopStep(m) PROVE loop'[l] = loop[l] /\ batch'[l] = batch[l]
  <2>1. m # l
    BY <1>4
  <2> QED  BY <1>1, <1>4, <2>1 DEF LoopStep, LoopTop, LoopRead, LoopReadFails, LoopDiscards,
     TakeChannel, SendToCaller, AckReply, StrayReply, ExpiredReply, BatchDone, LoopGoto, LoopDies
<1>5. ASSUME NEW c \in Calls, ServerStep(c) \/ EntryStep(c)
      PROVE  loop'[l] = loop[l] /\ batch'[l] = batch[l]
  BY <1>5 DEF ServerStep, EntryStep, Serve, MethodFails, DropRequest, CleanupAcks, Expire, loopVars
<1>6. ASSUME NEW i \in Instances, ProcessStep(i) PROVE loop'[l] = loop[l] /\ batch'[l] = batch[l]
  BY <1>6 DEF ProcessStep, TrimStore, BeginShutdown, Cancel, TrimLoad, DeleteStream, loopVars
<1>7. CASE UNCHANGED vars
  BY <1>7 DEF vars, loopVars
<1> QED  BY <1>2, <1>3, <1>4, <1>5, <1>6, <1>7 DEF Next

\* Without an error and a stop a loop goes round; the batch in hand only shrinks.
LEMMA LoopMoves ==
    ASSUME Sane, NEW l \in Calls, LoopStep(l), Up(Owner[l]), ~Erred(Owner[l])'
    PROVE  /\ \/ LoopAt(l, "top") /\ LoopAt(l, "read")' /\ IsSubscribed(l)'
              \/ LoopAt(l, "read") /\ (LoopAt(l, "discard")' \/ LoopAt(l, "handle")' \/ LoopAt(l, "top")')
              \/ /\ LoopAt(l, "discard") /\ (LoopAt(l, "discard")' \/ LoopAt(l, "handle")')
                 /\ Left(l)' < Left(l)
              \/ LoopAt(l, "handle") /\ (LoopAt(l, "deliver")' \/ LoopAt(l, "top")')
              \/ LoopAt(l, "handle") /\ LoopAt(l, "handle")' /\ Left(l)' < Left(l)
              \/ LoopAt(l, "deliver") /\ LoopAt(l, "ack")'
              \/ LoopAt(l, "ack") /\ LoopAt(l, "handle")' /\ Left(l)' < Left(l)
           /\ ~LoopAt(l, "read") => Left(l)' <= Left(l)
<1>1. /\ loop \in [Calls -> LoopPcs] /\ batch \in [Calls -> Seq(Entries)] /\ ~Cancelled(Owner[l])
      /\ erred \subseteq Instances /\ Owner[l] \in Instances /\ Len(batch[l]) \in Nat
      /\ loop[l] \in {"deliver", "ack"} => batch[l] # <<>>
  BY OwnerAssumption, LenProperties DEF Sane, TypeInv, TypeOK, Working, Up, Cancelled
<1>2. batch[l] # <<>> => Len(Tail(batch[l])) < Len(batch[l])
  BY <1>1, HeadTailProperties
<1> USE DEF LoopAt, Left, LoopGoto, Erred
<1>3. CASE LoopTop(l)
  BY <1>1, <1>3 DEF LoopTop, IsSubscribed, ReplyTo
<1>4. CASE LoopRead(l)
  BY <1>1, <1>4 DEF LoopRead, Sorted
<1>9. CASE LoopDiscards(l)
  <2>1. loop[l] = "discard"
    BY <1>9 DEF LoopDiscards
  <2>2. PICK q \in Seq(Entries) :
          /\ batch' = [batch EXCEPT ![l] = q] /\ loop' = [loop EXCEPT ![l] = Sorted(q)]
          /\ Len(q) \in Nat /\ Len(q) < Len(batch[l])
    BY <1>9, Discards DEF Sane, TypeInv
  <2> QED  BY <1>1, <2>1, <2>2 DEF Sorted
<1>5. CASE LoopReadFails(l) \/ ExpiredReply(l)
  BY <1>1, <1>5 DEF LoopReadFails, LoopDiscards, ExpiredReply, LoopDies
<1>6. CASE TakeChannel(l) \/ SendToCaller(l) \/ BatchDone(l)
  BY <1>1, <1>6 DEF TakeChannel, SendToCaller, BatchDone
<1>7. CASE AckReply(l)
  BY <1>1, <1>2, <1>7 DEF AckReply
<1>8. CASE StrayReply(l)
  BY <1>1, <1>2, <1>8 DEF StrayReply, InTime
<1> QED  BY <1>3, <1>4, <1>5, <1>6, <1>7, <1>8, <1>9, LoopStep(l) DEF LoopStep

\* What the proof takes from numbers that do not decrease for ever.
LeftSettles(c) == Settles(Left(c), vars)
RequestsSettle == Settles(Spare, vars) /\ \A c \in Calls : LeftSettles(c)

\* As the temporal steps below use it: fair steps that are never held up.
Runs(l) == loop[l] \in Live
Halt(i) == i \in erred /\ BeginShutdown(i)
Driven(c) ==
    /\ []Sane /\ [][Next]_vars
    /\ WF_vars(CallStep(c)) /\ WF_vars(LoopStep(c)) /\ SF_vars(SeeListener(c))
    /\ [](/\ Asking(c) /\ ~At(c, "spin") => ENABLED <<CallStep(c)>>_vars
          /\ At(c, "spin") /\ IsSubscribed(c) => ENABLED <<SeeListener(c)>>_vars
          /\ Runs(c) => ENABLED <<LoopStep(c)>>_vars)

\* The fairness of the specification drives every call and its loop.
LEMMA Drives ==
    ASSUME NEW c \in Calls
    PROVE  FairSpec /\ []NobodyStuck => Driven(c)
<1>1. FairSpec => Spec /\ FairCall(c)
  BY DEF FairSpec, Fairness
<1>2. NobodyStuck => CallFree(c)
  BY DEF NobodyStuck
<1>3. CallFree(c) => (Asking(c) /\ ~At(c, "spin") => ENABLED <<CallStep(c)>>_vars)
  BY DEF CallFree, Asking, At
<1>4. CallFree(c) => (At(c, "spin") /\ IsSubscribed(c) => ENABLED <<SeeListener(c)>>_vars)
  BY DEF CallFree, At
<1>5. CallFree(c) => (Runs(c) => ENABLED <<LoopStep(c)>>_vars)
  BY DEF CallFree, Runs
<1> QED  BY <1>1, <1>2, <1>3, <1>4, <1>5, SaneHolds, PTL DEF Driven, FairCall, Spec

\* A process that is up does not keep an error for ever.
Stops(i) == <>[]Up(i) => []~Erred(i)

\* Its error stops it, so that it is not up for long.
LEMMA ErrorsStop ==
    ASSUME NEW i \in Instances
    PROVE  FairSpec /\ []NobodyStuck => Stops(i)
<1>1. FairSpec => Spec /\ FairProcess(i)
  BY DEF FairSpec, Fairness
<1>2. NobodyStuck => ProcessFree(i)
  BY DEF NobodyStuck
<1>3. ProcessFree(i) /\ Up(i) /\ Erred(i) => ENABLED <<i \in erred /\ BeginShutdown(i)>>_vars
  BY DEF ProcessFree, Up, Erred
<1>4. Sane /\ [Next]_vars => (Erred(i) => Erred(i)')
  BY NothingComesBack DEF Sane, TypeInv, Erred
<1>5. Sane /\ <<i \in erred /\ BeginShutdown(i)>>_vars => ~Up(i)'
  BY DEF Sane, TypeInv, TypeOK, BeginShutdown, Up
<1> QED  BY <1>1, <1>2, <1>3, <1>4, <1>5, SaneHolds, PTL DEF Stops, FairProcess, Spec

\* What a call can do without a fault, while it asks; and what its own steps do.
CallMay(c) ==
    /\ At(c, "ensure") => At(c, "ensure")' \/ At(c, "launched")' \/ At(c, "check")'
    /\ At(c, "launched") => At(c, "launched")' \/ At(c, "check")'
    /\ At(c, "check") => At(c, "check")' \/ At(c, "spin")' \/ At(c, "emit")'
    /\ At(c, "spin") => At(c, "spin")' \/ At(c, "emit")'
    /\ At(c, "emit") => At(c, "emit")' \/ At(c, "wait")'
    /\ At(c, "wait") => At(c, "wait")'
CallDoes(c) ==
    /\ At(c, "ensure") => At(c, "launched")' \/ At(c, "check")'
    /\ At(c, "launched") => At(c, "check")'
    /\ At(c, "check") => At(c, "spin")' \/ At(c, "emit")'
    /\ At(c, "spin") => At(c, "emit")'
    /\ At(c, "emit") => At(c, "wait")'
    /\ ~At(c, "wait")

\* A call is at one place.
OnePlace(c) ==
    /\ ~(At(c, "launched") /\ At(c, "ensure"))
    /\ ~(At(c, "check") /\ (At(c, "ensure") \/ At(c, "launched")))
    /\ ~(At(c, "spin") /\ (At(c, "ensure") \/ At(c, "launched") \/ At(c, "check")))
    /\ ~(At(c, "emit") /\ (At(c, "ensure") \/ At(c, "launched") \/ At(c, "check") \/ At(c, "spin")))
    /\ ~(At(c, "wait") /\ (At(c, "ensure") \/ At(c, "launched") \/ At(c, "check")
                             \/ At(c, "spin") \/ At(c, "emit")))

\* What a loop can do without an error or a stop; and what its own steps do.
LoopMay(l) ==
    /\ LoopAt(l, "top") => LoopAt(l, "top")' \/ (LoopAt(l, "read")' /\ IsSubscribed(l)')
    /\ LoopAt(l, "read") =>
         LoopAt(l, "read")' \/ LoopAt(l, "discard")' \/ LoopAt(l, "handle")' \/ LoopAt(l, "top")'
    /\ LoopAt(l, "discard") => LoopAt(l, "discard")' \/ LoopAt(l, "handle")'
    /\ LoopAt(l, "handle") => LoopAt(l, "handle")' \/ LoopAt(l, "deliver")' \/ LoopAt(l, "top")'
    /\ LoopAt(l, "deliver") => LoopAt(l, "deliver")' \/ LoopAt(l, "ack")'
    /\ LoopAt(l, "ack") => LoopAt(l, "ack")' \/ (LoopAt(l, "handle")' /\ ~[Left(l)' = Left(l)]_vars)
    /\ ~LoopAt(l, "read") => [Left(l)' <= Left(l)]_vars
LoopDoes(l) ==
    /\ LoopAt(l, "top") => LoopAt(l, "read")' /\ IsSubscribed(l)'
    /\ LoopAt(l, "read") => LoopAt(l, "discard")' \/ LoopAt(l, "handle")' \/ LoopAt(l, "top")'
    /\ LoopAt(l, "deliver") => LoopAt(l, "ack")'
    /\ [Left(l)' = Left(l)]_vars =>
         /\ LoopAt(l, "handle") => LoopAt(l, "deliver")' \/ LoopAt(l, "top")'
         /\ ~LoopAt(l, "ack") /\ ~LoopAt(l, "discard")

\* A loop that runs is at one place.
OneLoopPlace(l) ==
    /\ \/ LoopAt(l, "top") \/ LoopAt(l, "read") \/ LoopAt(l, "discard") \/ LoopAt(l, "handle")
       \/ LoopAt(l, "deliver") \/ LoopAt(l, "ack")
    /\ ~(LoopAt(l, "discard") /\ \/ LoopAt(l, "top") \/ LoopAt(l, "read") \/ LoopAt(l, "handle")
                                 \/ LoopAt(l, "deliver") \/ LoopAt(l, "ack"))
    /\ ~(LoopAt(l, "top") /\ LoopAt(l, "read"))
    /\ ~(LoopAt(l, "handle") /\ (LoopAt(l, "top") \/ LoopAt(l, "read")))
    /\ ~(LoopAt(l, "deliver") /\ (LoopAt(l, "top") \/ LoopAt(l, "read") \/ LoopAt(l, "handle")))
    /\ ~(LoopAt(l, "ack") /\ (LoopAt(l, "top") \/ LoopAt(l, "read") \/ LoopAt(l, "handle")
                                \/ LoopAt(l, "deliver")))

\* The measures are natural numbers, and failures only use theirs up.
LEMMA Measures ==
    ASSUME NEW c \in Calls
    PROVE  Sane => Spare \in Nat /\ Left(c) \in Nat
<1> SUFFICES ASSUME Sane PROVE Spare \in Nat /\ Left(c) \in Nat
  OBVIOUS
<1>1. faults \in Nat /\ faults <= MaxFaults /\ batch[c] \in Seq(Entries)
  BY DEF Sane, TypeInv, TypeOK
<1> QED  BY <1>1, FaultsAssumption, Differences, LenProperties DEF Spare, Left

\* While its process is up and without errors, a listener comes round again and
\* again, whatever batches it reads.
RunsWell(l) == Runs(l) /\ Up(Owner[l]) /\ ~Erred(Owner[l])

\* What any step, and what a step of the loop does to a loop that runs well.
LEMMA LoopSteps ==
    ASSUME NEW c \in Calls
    PROVE  /\ Sane /\ [Next]_vars /\ RunsWell(c) /\ RunsWell(c)' => LoopMay(c)
           /\ Sane /\ RunsWell(c) /\ RunsWell(c)' /\ <<LoopStep(c)>>_vars => LoopDoes(c)
           /\ RunsWell(c) => Runs(c) /\ OneLoopPlace(c)
<1>1. ASSUME Sane, [Next]_vars, RunsWell(c), RunsWell(c)' PROVE LoopMay(c)
  <2>1. Left(c) \in Nat
    BY <1>1, Measures
  <2>2. UNCHANGED vars => loop' = loop
    BY DEF vars, loopVars
  <2>3. CASE LoopStep(c)
    BY <1>1, <2>1, <2>2, <2>3, LoopMoves DEF LoopAt, RunsWell, LoopMay
  <2>4. CASE ~LoopStep(c)
    <3>1. loop'[c] = loop[c] /\ batch'[c] = batch[c]
      BY <1>1, <2>4, LoopKept DEF RunsWell, Runs, Live
    <3>2. Left(c)' = Left(c)
      BY <3>1 DEF Left
    <3> QED  BY <2>1, <3>1, <3>2 DEF LoopAt, LoopMay
  <2> QED  BY <2>3, <2>4
<1>2. ASSUME Sane, RunsWell(c), RunsWell(c)', <<LoopStep(c)>>_vars PROVE LoopDoes(c)
  <2>1. Left(c) \in Nat
    BY <1>2, Measures
  <2> QED  BY <1>2, <2>1, LoopMoves DEF LoopAt, RunsWell, LoopDoes
<1>3. RunsWell(c) => Runs(c) /\ OneLoopPlace(c)
  BY DEF RunsWell, Runs, Live, LoopAt, OneLoopPlace
<1> QED  BY <1>1, <1>2, <1>3

ComesTo(c) == Driven(c) /\ RequestsSettle /\ <>[]RunsWell(c) => []<>LoopAt(c, "top")

\* A loop that runs well for good reads, and works off its batch, again and
\* again: each of its steps leaves less to do until it is back.
LEMMA ComesRound ==
    ASSUME NEW c \in Calls
    PROVE  ComesTo(c)
<1>1. Sane => Left(c) \in Nat
  BY Measures
<1>2. RequestsSettle => LeftSettles(c)
  BY DEF RequestsSettle
<1> DEFINE Lost == Driven(c) /\ RequestsSettle /\ <>[]RunsWell(c) /\ <>[]~LoopAt(c, "top")
<1>3. Lost => <>[]~LoopAt(c, "read")
  BY LoopSteps, PTL DEF Driven, LoopMay, LoopDoes, OneLoopPlace
<1>4. Lost => <>[][Left(c)' = Left(c)]_vars
  BY <1>1, <1>2, <1>3, LoopSteps, PTL DEF Driven, LoopMay, LeftSettles, Settles
<1>5. ~Lost
  BY <1>3, <1>4, LoopSteps, PTL DEF Driven, LoopMay, LoopDoes, OneLoopPlace
<1> QED  BY <1>5, PTL DEF ComesTo

\* RequestsReturn below for one call: it can not ask for ever.
LEMMA CallReturns ==
    ASSUME NEW c \in Calls
    PROVE  Driven(c) /\ Stops(Owner[c]) /\ RequestsSettle => (Asking(c) ~> Over(c))
<1> DEFINE o == Owner[c]
<1>1. Sane /\ [Next]_vars /\ Asking(c) => Asking(c)' \/ Over(c)'
  <2> SUFFICES ASSUME Sane, [Next]_vars, Asking(c) PROVE Asking(c)' \/ Over(c)'
    OBVIOUS
  <2>1. pc \in [Calls -> Loading] /\ pc' \in [Calls -> Loading]
    BY SaneInductive DEF Sane, TypeInv, TypeOK
  <2>2. pc'[c] # "idle"
    <3>1. CASE CallStep(c)
      BY <2>1, <3>1 DEF CallStep, EnsureGroup, EnsureReturns, EnsureGroupFails, FindListener,
         StartListener, SeeListener, EmitRequest, EmitFails, Receive, Timeout, Goto
    <3>2. CASE ~CallStep(c)
      BY <3>2, CallKept DEF Sane, TypeInv, Asking
    <3> QED  BY <3>1, <3>2
  <2> QED  BY <2>1, <2>2 DEF Asking, Over, Loading
<1>2. Sane => Spare \in Nat
  BY Measures
<1>3. Sane /\ [Next]_vars => [Spare' <= Spare]_vars
  BY FaultsGrow DEF Sane, TypeInv
<1>4. Asking(c) => Up(o) /\ ~Over(c)
  BY DEF Asking, Over, Returned
<1>5. Asking(c) => \/ At(c, "ensure") \/ At(c, "launched") \/ At(c, "check") \/ At(c, "spin")
                   \/ At(c, "emit") \/ At(c, "wait")
  BY DEF Asking, At
<1>6. OnePlace(c)
  BY DEF At, OnePlace
<1>7. Sane /\ [Next]_vars /\ [Spare' = Spare]_vars /\ Asking(c) /\ Asking(c)' =>
        CallMay(c) /\ (<<CallStep(c)>>_vars => CallDoes(c))
  <2> SUFFICES ASSUME Sane, [Next]_vars, [Spare' = Spare]_vars, Asking(c), Asking(c)'
               PROVE  CallMay(c) /\ (CallStep(c) => CallDoes(c))
    OBVIOUS
  <2>1. faults' = faults
    <3>1. CASE Spare' = Spare
      BY <3>1, FaultsGrow DEF Sane, TypeInv
    <3>2. CASE UNCHANGED vars
      BY <3>2 DEF vars
    <3> QED  BY <3>1, <3>2
  <2>2. pc[c] # "idle" /\ ~Over(c)'
    BY DEF Asking, Over, Returned
  <2>3. CASE CallStep(c)
    BY <2>1, <2>2, <2>3, CallMoves DEF Sane, TypeInv, At, CallMay, CallDoes
  <2>4. CASE ~CallStep(c)
    BY <2>2, <2>4, CallKept DEF Sane, TypeInv, At, CallMay
  <2> QED  BY <2>3, <2>4
<1>8. <<SeeListener(c)>>_vars => <<CallStep(c)>>_vars
  BY DEF CallStep
<1>9. Sane /\ Asking(c) /\ At(c, "spin") /\ ~Erred(o) => RunsWell(c)
  BY DEF Sane, TypeInv, TypeOK, LoopPcs, Heard, Asking, At, Erred, Up, Cancelled, Runs, Live,
     RunsWell
<1>10. RequestsSettle => Settles(Spare, vars)
  BY DEF RequestsSettle
<1> DEFINE Hung == Driven(c) /\ Stops(o) /\ RequestsSettle /\ <>[]Asking(c)
<1>11. Hung => <>[][Spare' = Spare]_vars /\ <>[]~Erred(o)
  BY <1>2, <1>3, <1>4, <1>10, PTL DEF Driven, Stops, Settles
<1>12. Hung => <>[]At(c, "spin")
  BY <1>5, <1>6, <1>7, <1>11, PTL DEF Driven, OnePlace, CallMay, CallDoes
<1>13. Hung => <>[]RunsWell(c)
  BY <1>9, <1>11, <1>12, PTL DEF Driven
<1>14. Hung => []<>IsSubscribed(c)
  <2>1. ComesTo(c)
    BY ComesRound
  <2> QED  BY <1>13, <2>1, LoopSteps, PTL DEF ComesTo, Driven, LoopMay, LoopDoes
<1>15. ~Hung
  BY <1>6, <1>7, <1>8, <1>11, <1>12, <1>14, PTL DEF Driven, OnePlace, CallDoes
<1> QED  BY <1>1, <1>15, PTL DEF Driven

\* CallsReturn: every Request returns while its process is up, because its steps
\* are never held up and nothing that delays it can go on for ever.
THEOREM RequestsReturn == FairSpec /\ []NobodyStuck /\ RequestsSettle => CallsReturn
<1> SUFFICES ASSUME NEW c \in Calls
             PROVE  FairSpec /\ []NobodyStuck /\ RequestsSettle =>
                      ((pc[c] # "idle") ~> (pc[c] \in Returned \/ phase[Owner[c]] # "up"))
  BY DEF CallsReturn
<1>1. FairSpec /\ []NobodyStuck => Driven(c) /\ Stops(Owner[c])
  BY Drives, ErrorsStop, OwnerAssumption
<1>2. Sane /\ pc[c] # "idle" => Asking(c) \/ Over(c)
  BY DEF Sane, TypeInv, TypeOK, Loading, Asking, Over
<1>3. Over(c) => pc[c] \in Returned \/ phase[Owner[c]] # "up"
  BY DEF Over, Up
<1> QED  BY <1>1, <1>2, <1>3, CallReturns, PTL DEF Driven

-----------------------------------------------------------------------------
(* Liveness of the reply streams.  An entry moves up only as others are read, *)
(* so a stream that has a listener for ever is read to any entry.           *)

\* The k-th reply to the call waits on its stream to be read.
Waiting(c, k) ==
    \E j \in 1..Len(unread[ReplyTo(c)]) : unread[ReplyTo(c)][j] = <<c, k>>

\* Every published reply - one, and one more for each failure - is read from its
\* stream as long as no process stops: RepliesAreRead reply by reply, which says
\* something of a stream that never runs empty, too.
EachReplyIsRead ==
    \A c \in Calls : \A k \in 1..(MaxFaults + 1) :
        Waiting(c, k) ~> (~Waiting(c, k) \/ \E i \in Instances : phase[i] # "up")

\* A stream with entries has a group, and who made the group listens or will.
Attended ==
    /\ \A s \in Streams : unread[s] # <<>> => group[s]
    /\ \A s \in Streams : group[s] =>
         \E c \in Calls : ReplyTo(c) = s /\ (pc[c] \in {"launched", "check"} \/ loop[c] # "none")

\* The entries of a stream are replies that were published, each once.
Numbered ==
    \A s \in Streams :
        /\ \A j \in 1..Len(unread[s]) : unread[s][j][2] <= replies[unread[s][j][1]]
        /\ \A j, k \in 1..Len(unread[s]) : unread[s][j] = unread[s][k] => j = k

\* What a publication appends.
Appended(s, c, n) ==
    /\ ReplyTo(c) = s /\ replies' = [replies EXCEPT ![c] = @ + n]
    /\ Len(unread'[s]) = Len(unread[s]) + n
    /\ \A j \in 1..Len(unread[s]) : unread'[s][j] = unread[s][j]
    /\ \A j \in 1..n : unread'[s][Len(unread[s]) + j] = <<c, replies[c] + j>>

\* A read takes entries from the front.
Consumed(s) ==
    /\ ReadSize(s) \in 0..Len(unread[s]) /\ (unread[s] # <<>> => ReadSize(s) > 0)
    /\ Len(unread'[s]) = Len(unread[s]) - ReadSize(s)
    /\ \A j \in 1..Len(unread'[s]) : unread'[s][j] = unread[s][ReadSize(s) + j]

\* That is what XREADGROUP does to the stream it reads, and to no other.
LEMMA Consumes ==
    ASSUME TypeOK, NEW s \in Streams, DeliverBatch(s)
    PROVE  Consumed(s) /\ \A t \in Streams : t # s => unread'[t] = unread[t]
<1>1. unread[s] \in Seq(Entries) /\ ReadSize(s) \in 0..Len(unread[s]) /\ Len(unread[s]) \in Nat
  BY ReadSizeInRange, LenProperties
<1>2. unread \in [Streams -> Seq(Entries)]
  BY DEF TypeOK
<1> DEFINE left == SubSeq(unread[s], ReadSize(s) + 1, Len(unread[s]))
<1>3. unread'[s] = left /\ \A t \in Streams : t # s => unread'[t] = unread[t]
  BY <1>2 DEF DeliverBatch
<1>4. Len(left) = Len(unread[s]) - ReadSize(s) /\ \A j \in 1..Len(left) : left[j] = unread[s][ReadSize(s) + j]
  <2>1. Len(left) = Len(unread[s]) - ReadSize(s)
    BY <1>1, CutSequence, SMTT(30)
  <2>2. \A j \in 1..(Len(unread[s]) - ReadSize(s)) : left[j] = unread[s][ReadSize(s) + j]
    BY <1>1, CutSequence, SMTT(30)
  <2> HIDE DEF left
  <2> QED  BY <2>1, <2>2
<1>5. unread[s] # <<>> => ReadSize(s) > 0
  <2>1. unread[s] # <<>> => Len(unread[s]) # 0
    BY <1>1, EmptySeq
  <2> QED  BY <1>1, <2>1, ReadCountAssumption DEF ReadSize
<1> HIDE DEF left
<1> QED  BY <1>1, <1>3, <1>4, <1>5 DEF Consumed

\* XADD of a reply adds to the stream of its call, if that has a group.
LEMMA Appends ==
    ASSUME TypeOK, NEW c \in Calls, NEW n \in 0..2, PublishReplies(c, n)
    PROVE  \A s \in Streams : unread'[s] = unread[s] \/ (group[s] /\ Appended(s, c, n))
<1> PICK s \in Streams : s = ReplyTo(c)
  BY DEF Streams
<1> DEFINE two == << <<c, replies[c] + 1>>, <<c, replies[c] + 2>> >>
           new == SubSeq(two, 1, n)
<1>1. two \in Seq(Entries) /\ Len(two) = 2 /\ \A j \in 1..2 : two[j] = <<c, replies[c] + j>>
  BY DEF TypeOK, Entries
<1>2. new \in Seq(Entries) /\ Len(new) = n /\ \A j \in 1..n : new[j] = two[j]
  BY <1>1, CutSequence
<1>3. \/ unread' = unread
      \/ group[s] /\ unread' = [unread EXCEPT ![s] = @ \o new]
  BY DEF PublishReplies
<1>4. replies' = [replies EXCEPT ![c] = @ + n]
  BY DEF PublishReplies
<1> HIDE DEF new, two
<1>5. unread \in [Streams -> Seq(Entries)] /\ Len(unread[s]) \in Nat
  <2>1. unread \in [Streams -> Seq(Entries)]
    BY DEF TypeOK
  <2> QED  BY <2>1, LenProperties
<1>6. /\ Len(unread[s] \o new) = Len(unread[s]) + n
      /\ \A j \in 1..(Len(unread[s]) + n) : (unread[s] \o new)[j] =
           IF j <= Len(unread[s]) THEN unread[s][j] ELSE new[j - Len(unread[s])]
  BY <1>2, <1>5, ConcatProperties
<1>7. \A j \in 1..n : (unread[s] \o new)[Len(unread[s]) + j] = <<c, replies[c] + j>>
  <2> TAKE j \in 1..n
  <2>1. Len(unread[s]) + j \in 1..(Len(unread[s]) + n) /\ ~(Len(unread[s]) + j <= Len(unread[s]))
        /\ Len(unread[s]) + j - Len(unread[s]) = j /\ j \in 1..2
    BY <1>5
  <2> QED  BY <1>1, <1>2, <1>6, <2>1
<1>8. \A j \in 1..Len(unread[s]) : (unread[s] \o new)[j] = unread[s][j]
  BY <1>5, <1>6
<1>9. CASE group[s] /\ unread' = [unread EXCEPT ![s] = @ \o new]
  <2>1. unread'[s] = unread[s] \o new /\ \A t \in Streams : t # s => unread'[t] = unread[t]
    BY <1>5, <1>9
  <2>2. Len(unread'[s]) = Len(unread[s]) + n
    BY <1>6, <2>1
  <2>3. \A j \in 1..Len(unread[s]) : unread'[s][j] = unread[s][j]
    BY <1>8, <2>1
  <2>4. \A j \in 1..n : unread'[s][Len(unread[s]) + j] = <<c, replies[c] + j>>
    BY <1>7, <2>1
  <2>5. Appended(s, c, n)
    BY <1>4, <2>2, <2>3, <2>4 DEF Appended
  <2> QED  BY <1>9, <2>1, <2>5
<1> QED  BY <1>3, <1>9

\* What one step can do to a stream.
LEMMA StreamMoves ==
    ASSUME TypeOK, [Next]_vars, NEW s \in Streams
    PROVE  /\ \/ unread'[s] = unread[s] /\ (group[s] => group'[s])
              \/ unread'[s] = <<>>
              \/ Consumed(s) /\ group' = group
              \/ /\ group[s] /\ group' = group
                 /\ \E c \in Calls, n \in 0..2 : Appended(s, c, n)
           /\ \A c \in Calls : replies'[c] \in Nat /\ replies[c] \in Nat /\ replies'[c] >= replies[c]
<1> DEFINE Quiet == replies' = replies /\ unread' = unread /\ (group[s] => group'[s])
           Goal == /\ \/ unread'[s] = unread[s] /\ (group[s] => group'[s])
                      \/ unread'[s] = <<>>
                      \/ Consumed(s) /\ group' = group
                      \/ /\ group[s] /\ group' = group
                         /\ \E c \in Calls, n \in 0..2 : Appended(s, c, n)
                   /\ \A c \in Calls : replies'[c] \in Nat /\ replies[c] \in Nat /\ replies'[c] >= replies[c]
<1>1. /\ unread \in [Streams -> Seq(Entries)] /\ replies \in [Calls -> Nat]
      /\ group \in [Streams -> BOOLEAN] /\ \A c \in Calls : ReplyTo(c) \in Streams
  BY DEF TypeOK, Streams
<1>2. Quiet => Goal
  BY <1>1
<1>3. ASSUME NEW c \in Calls, BeginRequest(c) \/ RefuseRequest(c) \/ CallStep(c) PROVE Quiet
  BY <1>1, <1>3 DEF CallStep, BeginRequest, RefuseRequest, EnsureGroup, EnsureReturns,
     EnsureGroupFails, FindListener, StartListener, SeeListener, EmitRequest, EmitFails, Receive,
     Timeout, brokerVars, serverVars
<1>4. ASSUME NEW l \in Calls, LoopStep(l) PROVE Goal
  <2>1. replies' = replies
    BY <1>4 DEF LoopStep, LoopTop, LoopRead, LoopReadFails, LoopDiscards, TakeChannel, SendToCaller,
       AckReply, StrayReply, ExpiredReply, BatchDone, serverVars
  <2>2. group' = group /\ (unread' = unread \/ DeliverBatch(ReplyTo(l)))
    BY <1>4 DEF LoopStep, LoopTop, LoopRead, LoopReadFails, LoopDiscards, TakeChannel, SendToCaller,
       AckReply, StrayReply, ExpiredReply, BatchDone, brokerVars, DeliverBatch
  <2>3. DeliverBatch(ReplyTo(l)) => Consumed(s) \/ unread'[s] = unread[s]
    BY <1>1, Consumes
  <2> QED  BY <1>1, <2>1, <2>2, <2>3
<1>5. ASSUME NEW c \in Calls, ServerStep(c) \/ EntryStep(c) PROVE Goal
  <2>1. CASE Serve(c)
    <3>1. PICK n \in 0..2 : PublishReplies(c, n)
      BY <2>1 DEF Serve, Reply
    <3>2. group' = group /\ replies' = [replies EXCEPT ![c] = @ + n]
      BY <2>1, <3>1 DEF Serve, PublishReplies
    <3>3. unread'[s] = unread[s] \/ (group[s] /\ Appended(s, c, n))
      BY <3>1, Appends
    <3> QED  BY <1>1, <3>2, <3>3
  <2>2. CASE MethodFails(c) \/ DropRequest(c) \/ EntryStep(c)
    <3>1. UNCHANGED <<group, unread, replies>>
      BY <2>2 DEF MethodFails, DropRequest, EntryStep, CleanupAcks, Expire, brokerVars, serverVars
    <3> QED  BY <1>2, <3>1
  <2> QED  BY <1>5, <2>1, <2>2 DEF ServerStep
<1>6. ASSUME NEW i \in Instances, ProcessStep(i) PROVE Goal
  <2>1. replies' = replies
    BY <1>6 DEF ProcessStep, TrimStore, BeginShutdown, Cancel, TrimLoad, DeleteStream, serverVars
  <2>2. ASSUME NEW t \in Streams, DeleteStream(i, t) PROVE Goal
    <3>1. \/ UNCHANGED <<group, unread>>
          \/ unread' = [unread EXCEPT ![t] = <<>>] /\ group' = [group EXCEPT ![t] = FALSE]
      BY <2>2 DEF DeleteStream, brokerVars
    <3>2. CASE t = s /\ unread' = [unread EXCEPT ![t] = <<>>]
      BY <1>1, <2>1, <3>2
    <3>3. CASE ~(t = s /\ unread' = [unread EXCEPT ![t] = <<>>])
      <4>1. unread'[s] = unread[s] /\ group'[s] = group[s]
        BY <1>1, <3>1, <3>3
      <4> QED  BY <1>1, <2>1, <4>1
    <3> QED  BY <3>2, <3>3
  <2>3. ASSUME NEW t \in Streams, TrimStore(i) \/ BeginShutdown(i) \/ Cancel(i) \/ TrimLoad(i, t) PROVE Quiet
    BY <2>1, <2>3 DEF TrimStore, BeginShutdown, Cancel, TrimLoad, brokerVars
  <2> QED  BY <1>2, <1>6, <2>2, <2>3 DEF ProcessStep
<1>7. ASSUME UNCHANGED vars PROVE Goal
  BY <1>2, <1>7 DEF vars, brokerVars, serverVars
<1> HIDE DEF Goal, Quiet
<1>8. ASSUME NEW c \in Calls, BeginRequest(c) \/ RefuseRequest(c) \/ CallStep(c) PROVE Goal
  BY <1>2, <1>3, <1>8
<1>9. Goal
  BY <1>4, <1>5, <1>6, <1>7, <1>8 DEF Next
<1> QED  BY <1>9 DEF Goal

\* Replies are numbered as they are published.
LEMMA NumberedInductive == TypeOK /\ Numbered /\ [Next]_vars => Numbered'
<1> SUFFICES ASSUME TypeOK, Numbered, [Next]_vars, NEW s \in Streams
             PROVE  /\ \A j \in 1..Len(unread'[s]) : unread'[s][j][2] <= replies'[unread'[s][j][1]]
                    /\ \A j, k \in 1..Len(unread'[s]) : unread'[s][j] = unread'[s][k] => j = k
  BY DEF Numbered
<1>1. /\ unread[s] \in Seq(Entries) /\ Len(unread[s]) \in Nat
      /\ \A j \in 1..Len(unread[s]) : unread[s][j] \in Entries
  <2>1. unread[s] \in Seq(Entries)
    BY DEF TypeOK
  <2> QED  BY <2>1, LenProperties, ElementOfSeq
<1>2. \A c \in Calls : replies'[c] \in Nat /\ replies[c] \in Nat /\ replies'[c] >= replies[c]
  BY StreamMoves
<1>3. \A j \in 1..Len(unread[s]) :
        /\ unread[s][j][1] \in Calls /\ unread[s][j][2] \in Nat
        /\ unread[s][j][2] <= replies[unread[s][j][1]]
        /\ unread[s][j][2] <= replies'[unread[s][j][1]]
  BY <1>1, <1>2 DEF Entries, Numbered
<1>4. \A j, k \in 1..Len(unread[s]) : unread[s][j] = unread[s][k] => j = k
  BY DEF Numbered
<1>5. CASE unread'[s] = unread[s]
  BY <1>3, <1>4, <1>5
<1>6. CASE unread'[s] = <<>>
  BY <1>6
<1>7. CASE Consumed(s)
  <2>1. \A j \in 1..Len(unread'[s]) :
          ReadSize(s) + j \in 1..Len(unread[s]) /\ unread'[s][j] = unread[s][ReadSize(s) + j]
    BY <1>1, <1>7 DEF Consumed
  <2>2. \A j, k \in 1..Len(unread'[s]) : ReadSize(s) + j = ReadSize(s) + k => j = k
    BY <1>1, <1>7 DEF Consumed
  <2> QED  BY <1>3, <1>4, <2>1, <2>2
<1>8. ASSUME NEW c \in Calls, NEW n \in 0..2, Appended(s, c, n)
      PROVE  /\ \A j \in 1..Len(unread'[s]) : unread'[s][j][2] <= replies'[unread'[s][j][1]]
             /\ \A j, k \in 1..Len(unread'[s]) : unread'[s][j] = unread'[s][k] => j = k
  <2> DEFINE m == Len(unread[s])
  <2>1. replies'[c] = replies[c] + n /\ replies[c] \in Nat /\ m \in Nat /\ n \in Nat
    <3>1. replies \in [Calls -> Nat]
      BY DEF TypeOK
    <3> QED  BY <1>1, <1>8, <3>1 DEF Appended
  <2>2. \A j \in 1..Len(unread'[s]) :
          \/ j \in 1..m /\ unread'[s][j] = unread[s][j]
          \/ /\ j - m \in 1..n /\ j = m + (j - m)
             /\ unread'[s][j] = <<c, replies[c] + (j - m)>>
    <3> TAKE j \in 1..Len(unread'[s])
    <3>1. j \in 1..m \/ (j - m \in 1..n /\ j = m + (j - m))
      BY <1>8, <2>1 DEF Appended
    <3>2. CASE j \in 1..m
      BY <1>8, <3>2 DEF Appended
    <3>3. CASE j - m \in 1..n /\ j = m + (j - m)
      <4>1. PICK h \in 1..n : h = j - m
        BY <3>3
      <4>2. unread'[s][m + h] = <<c, replies[c] + h>>
        BY <1>8, <4>1 DEF Appended
      <4> QED  BY <3>3, <4>1, <4>2
    <3> QED  BY <3>1, <3>2, <3>3
  <2>3. \A j \in 1..Len(unread'[s]) : unread'[s][j][2] <= replies'[unread'[s][j][1]]
    <3> TAKE j \in 1..Len(unread'[s])
    <3>1. CASE j \in 1..m /\ unread'[s][j] = unread[s][j]
      BY <1>3, <3>1
    <3>2. ASSUME NEW h \in 1..n, unread'[s][j] = <<c, replies[c] + h>>
          PROVE  unread'[s][j][2] <= replies'[unread'[s][j][1]]
      <4>1. unread'[s][j][1] = c /\ unread'[s][j][2] = replies[c] + h
        BY <3>2
      <4> QED  BY <2>1, <4>1
    <3> QED  BY <2>2, <3>1, <3>2
  <2>4. \A j \in 1..m, k \in Nat : k \in 1..n => unread[s][j] # <<c, replies[c] + k>>
    <3> SUFFICES ASSUME NEW j \in 1..m, NEW k \in 1..n, unread[s][j] = <<c, replies[c] + k>> PROVE FALSE
      OBVIOUS
    <3>1. replies[c] + k <= replies[c]
      BY <1>3
    <3> QED  BY <2>1, <3>1
  <2>5. \A j, k \in 1..Len(unread'[s]) : unread'[s][j] = unread'[s][k] => j = k
    <3> SUFFICES ASSUME NEW j \in 1..Len(unread'[s]), NEW k \in 1..Len(unread'[s]),
                        unread'[s][j] = unread'[s][k]
                 PROVE  j = k
      OBVIOUS
    <3>1. Len(unread'[s]) \in Nat
      BY <1>8, <2>1 DEF Appended
    <3>2. CASE j \in 1..m /\ k \in 1..m
      BY <1>4, <1>8, <3>2 DEF Appended
    <3>3. CASE j - m \in 1..n /\ k - m \in 1..n
      <4>1. PICK x \in 1..n, y \in 1..n : x = j - m /\ y = k - m
        BY <3>3
      <4>2. unread'[s][m + x] = <<c, replies[c] + x>> /\ unread'[s][m + y] = <<c, replies[c] + y>>
        BY <1>8, <4>1 DEF Appended
      <4>3. j = m + x /\ k = m + y
        BY <2>1, <3>1, <4>1
      <4>4. <<c, replies[c] + x>> = <<c, replies[c] + y>>
        BY <4>2, <4>3
      <4>5. replies[c] + x = replies[c] + y
        BY <4>4
      <4>6. x = y
        BY <2>1, <4>5
      <4> QED  BY <4>3, <4>6
    <3>4. ~(j \in 1..m /\ k - m \in 1..n) /\ ~(k \in 1..m /\ j - m \in 1..n)
      <4>1. ASSUME NEW x \in 1..Len(unread'[s]), NEW y \in 1..Len(unread'[s]),
                   unread'[s][x] = unread'[s][y], x \in 1..m, y - m \in 1..n
            PROVE  FALSE
        <5>1. unread'[s][x] = unread[s][x]
          BY <1>8, <4>1 DEF Appended
        <5>2. PICK h \in 1..n : h = y - m
          BY <4>1
        <5>3. unread'[s][m + h] = <<c, replies[c] + h>>
          BY <1>8, <5>2 DEF Appended
        <5>4. y = m + h
          BY <2>1, <3>1, <5>2
        <5>5. unread[s][x] = <<c, replies[c] + h>>
          BY <4>1, <5>1, <5>3, <5>4
        <5> QED  BY <2>4, <4>1, <5>5
      <4> QED  BY <4>1
    <3> QED  BY <2>2, <3>2, <3>3, <3>4
  <2> QED  BY <2>3, <2>5
<1> QED  BY <1>5, <1>6, <1>7, <1>8, StreamMoves

\* A consumer group is made by a caller, who goes on to look for a listener.
LEMMA GroupsBegin ==
    ASSUME TypeOK, [Next]_vars, NEW s \in Streams, group'[s], ~group[s]
    PROVE  \E c \in Calls : ReplyTo(c) = s /\ pc'[c] \in {"launched", "check"}
<1> DEFINE Goal == \E c \in Calls : ReplyTo(c) = s /\ pc'[c] \in {"launched", "check"}
<1>1. pc \in [Calls -> Loading] /\ group \in [Streams -> BOOLEAN]
  BY DEF TypeOK
<1>2. ASSUME NEW c \in Calls, EnsureGroup(c) PROVE Goal
  <2>1. ReplyTo(c) = s
    BY <1>1, <1>2 DEF EnsureGroup
  <2>2. pc'[c] \in {"launched", "check"}
    BY <1>1, <1>2 DEF EnsureGroup, Goto
  <2> QED  BY <2>1, <2>2
<1>3. ASSUME NEW c \in Calls, BeginRequest(c) \/ RefuseRequest(c) \/ CallStep(c), ~EnsureGroup(c)
      PROVE  Goal
  BY <1>3 DEF CallStep, BeginRequest, RefuseRequest, EnsureReturns, EnsureGroupFails, FindListener,
     StartListener, SeeListener, EmitRequest, EmitFails, Receive, Timeout, brokerVars
<1>4. ASSUME NEW l \in Calls, LoopStep(l) PROVE Goal
  BY <1>4 DEF LoopStep, LoopTop, LoopRead, LoopReadFails, LoopDiscards, TakeChannel, SendToCaller,
     AckReply, StrayReply, ExpiredReply, BatchDone, brokerVars, DeliverBatch
<1>5. ASSUME NEW c \in Calls, ServerStep(c) \/ EntryStep(c) PROVE Goal
  BY <1>5 DEF ServerStep, EntryStep, Serve, MethodFails, DropRequest, CleanupAcks, Expire,
     brokerVars
<1>6. ASSUME NEW i \in Instances, ProcessStep(i) PROVE Goal
  BY <1>1, <1>6 DEF ProcessStep, TrimStore, BeginShutdown, Cancel, TrimLoad, DeleteStream,
     brokerVars
<1>7. ASSUME UNCHANGED vars PROVE Goal
  BY <1>7 DEF vars, brokerVars
<1> QED  BY <1>2, <1>3, <1>4, <1>5, <1>6, <1>7 DEF Next

\* Who made the group starts a listener or has found one, and listeners stay.
LEMMA AttendedInductive == TypeInv /\ Heard /\ Attended /\ [Next]_vars => Attended'
<1> SUFFICES ASSUME TypeInv, TypeOK, Heard, Attended, [Next]_vars, NEW s \in Streams
             PROVE  /\ unread'[s] # <<>> => group'[s]
                    /\ group'[s] => \E c \in Calls :
                         ReplyTo(c) = s /\ (pc'[c] \in {"launched", "check"} \/ loop'[c] # "none")
  BY DEF Attended, TypeInv
<1>1. unread'[s] # <<>> => group'[s]
  <2>1. unread[s] \in Seq(Entries) /\ (unread[s] # <<>> => group[s])
    BY DEF TypeOK, Attended
  <2>2. CASE Consumed(s) /\ group' = group
    <3>1. unread[s] = <<>> => unread'[s] = <<>>
      <4> SUFFICES ASSUME unread[s] = <<>> PROVE unread'[s] = <<>>
        OBVIOUS
      <4>1. unread'[s] \in Seq(Entries)
        BY TypeInductive DEF TypeInv, TypeOK
      <4> QED  BY <2>2, <4>1, LenProperties DEF Consumed
    <3> QED  BY <2>1, <2>2, <3>1
  <2> QED  BY <2>1, <2>2, StreamMoves
<1>2. ASSUME group'[s], group[s]
      PROVE  \E c \in Calls :
               ReplyTo(c) = s /\ (pc'[c] \in {"launched", "check"} \/ loop'[c] # "none")
  <2>1. PICK c \in Calls : ReplyTo(c) = s /\ (pc[c] \in {"launched", "check"} \/ loop[c] # "none")
    BY <1>2 DEF Attended
  <2>2. \A l \in Calls : loop[l] # "none" => loop'[l] # "none"
    BY NothingComesBack
  <2>3. CASE loop[c] # "none"
    BY <2>1, <2>2, <2>3
  <2>4. CASE pc[c] \in {"launched", "check"} /\ ~CallStep(c)
    <3>1. pc'[c] = pc[c]
      BY <2>4, CallKept
    <3> QED  BY <2>1, <2>4, <3>1
  <2>5. CASE pc[c] \in {"launched", "check"} /\ CallStep(c)
    <3>1. pc \in [Calls -> Loading] /\ loop \in [Calls -> LoopPcs]
      BY DEF TypeOK
    <3>2. EnsureReturns(c) \/ FindListener(c) \/ StartListener(c)
      BY <2>5 DEF CallStep, EnsureGroup, EnsureGroupFails, SeeListener, EmitRequest, EmitFails,
         Receive, Timeout, Goto
    <3>3. CASE EnsureReturns(c)
      BY <2>1, <3>1, <3>3 DEF EnsureReturns, Goto
    <3>4. CASE FindListener(c)
      <4>1. PICK l \in Calls : Owner[l] = Owner[c] /\ ReplyTo(l) = ReplyTo(c) /\ loop[l] # "none"
        BY <3>4 DEF FindListener, IsSubscribed, Heard
      <4> QED  BY <2>1, <2>2, <4>1
    <3>5. CASE StartListener(c)
      BY <2>1, <3>1, <3>5 DEF StartListener
    <3> QED  BY <3>2, <3>3, <3>4, <3>5
  <2> QED  BY <2>1, <2>3, <2>4, <2>5
<1>3. ASSUME group'[s], ~group[s]
      PROVE  \E c \in Calls :
               ReplyTo(c) = s /\ (pc'[c] \in {"launched", "check"} \/ loop'[c] # "none")
  BY <1>3, GroupsBegin
<1> QED  BY <1>1, <1>2, <1>3

\* What holds of the streams and of those who read them.
Served == Sane /\ Attended /\ Numbered

\* It holds in every state of every execution.
LEMMA ServedHolds == Spec => []Served
<1>1. Init => Attended /\ Numbered
  BY DEF Init, Attended, Numbered
<1>2. Sane => TypeInv /\ TypeOK /\ Heard
  BY DEF Sane, TypeInv
<1> QED  BY <1>1, <1>2, SaneHolds, AttendedInductive, NumberedInductive, PTL DEF Spec, Served

\* How far from the front of its stream a reply waits.
Position(q, e) == CHOOSE j \in 1..Len(q) : q[j] = e
Place(c, k) == IF Waiting(c, k) THEN Position(unread[ReplyTo(c)], <<c, k>>) ELSE 0

\* An element that occurs once is at its position.
LEMMA PositionIs ==
    ASSUME NEW q, NEW e, NEW j \in 1..Len(q), q[j] = e, \A i \in 1..Len(q) : q[i] = e => i = j
    PROVE  Position(q, e) = j
BY DEF Position

\* A reply that waits only moves up, and a batch read from its stream moves it.
LEMMA PlaceFalls ==
    ASSUME Served, [Next]_vars, NEW c \in Calls, NEW k \in Nat, Waiting(c, k), Waiting(c, k)'
    PROVE  /\ Place(c, k) \in Nat /\ Place(c, k)' \in Nat /\ Place(c, k)' <= Place(c, k)
           /\ (Consumed(ReplyTo(c)) => Place(c, k)' < Place(c, k))
<1> DEFINE s == ReplyTo(c)
           e == <<c, k>>
<1>1. /\ TypeOK /\ Numbered /\ Numbered' /\ s \in Streams /\ unread[s] \in Seq(Entries)
      /\ Len(unread[s]) \in Nat
  <2>1. TypeOK /\ Numbered /\ s \in Streams
    BY DEF Served, Sane, TypeInv, Streams
  <2>2. unread[s] \in Seq(Entries)
    BY <2>1 DEF TypeOK
  <2> QED  BY <2>1, <2>2, NumberedInductive, LenProperties
<1>2. PICK j \in 1..Len(unread[s]) : unread[s][j] = e
  BY DEF Waiting
<1>3. \A i \in 1..Len(unread[s]) : unread[s][i] = e => i = j
  BY <1>1, <1>2 DEF Numbered
<1>4. PICK h \in 1..Len(unread'[s]) : unread'[s][h] = e
  BY DEF Waiting
<1>5. \A i \in 1..Len(unread'[s]) : unread'[s][i] = e => i = h
  BY <1>1, <1>4 DEF Numbered
<1>6. Place(c, k) = j
  BY <1>2, <1>3, PositionIs DEF Place
<1>7. Place(c, k)' = h
  BY <1>4, <1>5, PositionIs DEF Place
<1>8. CASE Consumed(s)
  <2>1. h \in Nat /\ j \in Nat /\ ReadSize(s) \in Nat /\ ReadSize(s) + h \in 1..Len(unread[s])
    BY <1>1, <1>8 DEF Consumed
  <2>2. unread[s][ReadSize(s) + h] = e
    BY <1>4, <1>8 DEF Consumed
  <2>3. ReadSize(s) + h = j
    BY <1>3, <2>1, <2>2
  <2>4. ReadSize(s) > 0
    BY <1>1, <1>2, <1>8, EmptySeq DEF Consumed
  <2> QED  BY <1>6, <1>7, <2>1, <2>3, <2>4
<1>9. CASE ~Consumed(s)
  <2>1. unread'[s] # <<>>
    BY <1>4
  <2>2. j \in 1..Len(unread'[s]) /\ unread'[s][j] = e
    <3>1. CASE unread'[s] = unread[s]
      BY <1>2, <3>1
    <3>2. ASSUME NEW d \in Calls, NEW n \in 0..2, Appended(s, d, n)
          PROVE  j \in 1..Len(unread'[s]) /\ unread'[s][j] = e
      BY <1>1, <1>2, <3>2 DEF Appended
    <3> QED  BY <1>1, <1>9, <2>1, <3>1, <3>2, StreamMoves
  <2>3. h = j
    BY <1>5, <2>2
  <2> QED  BY <1>6, <1>7, <1>9, <2>3
<1> QED  BY <1>8, <1>9

PlaceSettles(c, k) == Settles(Place(c, k), vars)
PlacesSettle == \A c \in Calls : \A k \in 1..(MaxFaults + 1) : PlaceSettles(c, k)

AllUp == \A i \in Instances : Up(i)
Started(l) == loop[l] # "none"
Looking(c) == pc[c] \in {"launched", "check"}
Same(s) == {l \in Calls : ReplyTo(l) = s}
NobodyReads(s) == \A l \in Same(s) : ~Started(l)
NobodyLooks(s) == \A c \in Same(s) : ~Looking(c)
Silent(l) == []~Started(l)
Absent(c) == []~Looking(c)

\* A process that stopped does not come up again in one behaviour.
LEMMA StoppedStays == TypeOK /\ [Next]_vars /\ AllUp' => AllUp
<1> SUFFICES ASSUME TypeOK, [Next]_vars, NEW i \in Instances, ~Up(i) PROVE ~Up(i)'
  BY DEF AllUp
<1>1. phase \in [Instances -> {"up", "closing", "cancelled"}]
  BY DEF TypeOK
<1>2. ASSUME NEW c \in Calls, BeginRequest(c) \/ RefuseRequest(c) \/ CallStep(c) PROVE ~Up(i)'
  BY <1>2 DEF CallStep, BeginRequest, RefuseRequest, EnsureGroup, EnsureReturns, EnsureGroupFails,
     FindListener, StartListener, SeeListener, EmitRequest, EmitFails, Receive, Timeout, procVars,
     Up
<1>3. ASSUME NEW l \in Calls, LoopStep(l) PROVE ~Up(i)'
  BY <1>3 DEF LoopStep, LoopTop, LoopRead, LoopReadFails, LoopDiscards, TakeChannel, SendToCaller,
     AckReply, StrayReply, ExpiredReply, BatchDone, LoopDies, procVars, Up
<1>4. ASSUME NEW c \in Calls, ServerStep(c) \/ EntryStep(c) PROVE ~Up(i)'
  BY <1>4 DEF ServerStep, EntryStep, Serve, MethodFails, DropRequest, CleanupAcks, Expire, procVars,
     Up
<1>5. ASSUME NEW j \in Instances, ProcessStep(j) PROVE ~Up(i)'
  BY <1>1, <1>5 DEF ProcessStep, TrimStore, BeginShutdown, Cancel, TrimLoad, DeleteStream, procVars,
     Up
<1>6. ASSUME UNCHANGED vars PROVE ~Up(i)'
  BY <1>6 DEF vars, procVars, Up
<1> QED  BY <1>2, <1>3, <1>4, <1>5, <1>6 DEF Next

\* A started listener reads its stream again and again, and so up to any reply.
LEMMA ReadersReach ==
    ASSUME NEW c \in Calls, NEW k \in Nat, NEW l \in Calls, ReplyTo(l) = ReplyTo(c)
    PROVE  /\ Driven(l) /\ Stops(Owner[l]) /\ RequestsSettle /\ PlaceSettles(c, k) /\ []Served
           /\ <>[]Waiting(c, k) /\ []AllUp
           => Silent(l)
<1> DEFINE o == Owner[l]
<1>1. o \in Instances
  BY OwnerAssumption
<1>2. Served /\ [Next]_vars /\ Started(l) => Started(l)'
  BY <1>1, NothingComesBack DEF Served, Sane, TypeInv, Started
<1>3. AllUp => Up(o)
  BY <1>1 DEF AllUp
<1>4. Served /\ Started(l) /\ Up(o) /\ ~Erred(o) => RunsWell(l)
  BY <1>1 DEF Served, Sane, TypeInv, TypeOK, LoopPcs, Heard, Started, Erred, Up, Cancelled, Runs,
     Live, RunsWell
<1>5. Served /\ [Next]_vars /\ Waiting(c, k) /\ Waiting(c, k)' => [Place(c, k)' <= Place(c, k)]_vars
  BY PlaceFalls
<1>6. Served => Place(c, k) \in Nat
  <2> SUFFICES ASSUME Served PROVE Place(c, k) \in Nat
    OBVIOUS
  <2>1. CASE Waiting(c, k)
    <3>1. PICK j \in 1..Len(unread[ReplyTo(c)]) : unread[ReplyTo(c)][j] = <<c, k>>
      BY <2>1 DEF Waiting
    <3>2. Numbered /\ ReplyTo(c) \in Streams /\ unread[ReplyTo(c)] \in Seq(Entries)
      BY DEF Served, Sane, TypeInv, TypeOK, Streams
    <3>3. \A i \in 1..Len(unread[ReplyTo(c)]) : unread[ReplyTo(c)][i] = <<c, k>> => i = j
      BY <3>1, <3>2 DEF Numbered
    <3>4. Place(c, k) = j
      BY <2>1, <3>1, <3>3, PositionIs DEF Place
    <3> QED  BY <3>2, <3>4, LenProperties
  <2>2. CASE ~Waiting(c, k)
    BY <2>2 DEF Place
  <2> QED  BY <2>1, <2>2
<1>7. /\ Served /\ [Next]_vars /\ <<LoopStep(l)>>_vars /\ LoopAt(l, "read")
      /\ RunsWell(l) /\ RunsWell(l)' /\ Waiting(c, k) /\ Waiting(c, k)'
      => ~[Place(c, k)' = Place(c, k)]_vars
  <2> SUFFICES ASSUME Served, [Next]_vars, <<LoopStep(l)>>_vars, LoopAt(l, "read"), RunsWell(l),
                      RunsWell(l)', Waiting(c, k), Waiting(c, k)'
               PROVE  Place(c, k)' # Place(c, k)
    OBVIOUS
  <2>1. TypeOK /\ erred \subseteq Instances
    BY DEF Served, Sane, TypeInv, TypeOK
  <2>2. LoopRead(l)
    BY <1>1, <2>1 DEF LoopStep, LoopTop, LoopReadFails, LoopDiscards, TakeChannel, SendToCaller,
       AckReply, StrayReply, ExpiredReply, BatchDone, LoopGoto, LoopDies, LoopAt, RunsWell, Up,
       Erred, Cancelled
  <2>3. Consumed(ReplyTo(c))
    BY <1>1, <2>1, <2>2, Consumes DEF LoopRead, Streams
  <2> QED  BY <2>3, PlaceFalls
<1>8. ComesTo(l)
  BY ComesRound
<1>9. /\ Sane /\ [Next]_vars /\ RunsWell(l) /\ RunsWell(l)' => LoopMay(l)
      /\ Sane /\ RunsWell(l) /\ RunsWell(l)' /\ <<LoopStep(l)>>_vars => LoopDoes(l)
      /\ RunsWell(l) => Runs(l) /\ OneLoopPlace(l)
  BY LoopSteps
<1>10. Served /\ [Next]_vars /\ LoopAt(l, "read") => LoopAt(l, "read")' \/ <<LoopStep(l)>>_vars
  <2>1. Served /\ LoopAt(l, "read") => Sane /\ loop[l] # "none"
    BY DEF Served, LoopAt
  <2>2. UNCHANGED vars => loop' = loop
    BY DEF vars, loopVars
  <2> QED  BY <2>1, <2>2, LoopKept DEF LoopAt
<1> DEFINE Hung == /\ Driven(l) /\ Stops(o) /\ RequestsSettle /\ PlaceSettles(c, k) /\ []Served
                   /\ <>[]Waiting(c, k) /\ []AllUp /\ <>Started(l)
<1>11. Hung => <>[]RunsWell(l)
  BY <1>2, <1>3, <1>4, PTL DEF Driven, Stops
<1>12. Hung => <>[][Place(c, k)' = Place(c, k)]_vars
  BY <1>5, <1>6, PTL DEF Driven, PlaceSettles, Settles
<1>13. Hung => []<>LoopAt(l, "read")
  BY <1>8, <1>9, <1>11, PTL DEF ComesTo, Driven, LoopMay, LoopDoes, OneLoopPlace
<1>14. Hung => <>[]LoopAt(l, "read")
  BY <1>7, <1>10, <1>11, <1>12, <1>13, PTL DEF Driven
<1>15. ~Hung
  BY <1>7, <1>9, <1>11, <1>12, <1>14, PTL DEF Driven
<1> QED  BY <1>15, PTL DEF Silent

GivesUp(s, c) ==
    Driven(c) /\ Stops(Owner[c]) /\ RequestsSettle /\ []NobodyReads(s) /\ []AllUp => Absent(c)

\* A caller that looks for a listener finds or starts one: where nobody ever
\* reads, nobody looks.
LEMMA LookersFind ==
    ASSUME NEW s \in Streams, NEW c \in Calls, ReplyTo(c) = s
    PROVE  GivesUp(s, c)
<1>1. AllUp => Up(Owner[c])
  BY OwnerAssumption DEF AllUp
<1>2. Looking(c) /\ Up(Owner[c]) => Asking(c) /\ ~Over(c)
  BY DEF Looking, Asking, Over, Returned
<1>3. Sane /\ [Next]_vars /\ NobodyReads(s) /\ NobodyReads(s)' /\ Looking(c) => Looking(c)'
  <2> SUFFICES ASSUME Sane, [Next]_vars, NobodyReads(s), NobodyReads(s)', Looking(c) PROVE Looking(c)'
    OBVIOUS
  <2>1. TypeOK /\ Heard /\ pc \in [Calls -> Loading] /\ loop \in [Calls -> LoopPcs]
    BY DEF Sane, TypeInv, TypeOK
  <2>2. \A l \in Calls : ReplyTo(l) = s => loop[l] = "none" /\ loop'[l] = "none"
    BY DEF NobodyReads, Same, Started
  <2>3. CASE ~CallStep(c)
    BY <2>1, <2>3, CallKept DEF Looking
  <2>4. CASE CallStep(c)
    <3>1. EnsureReturns(c) \/ FindListener(c) \/ StartListener(c)
      BY <2>4 DEF CallStep, EnsureGroup, EnsureGroupFails, SeeListener, EmitRequest, EmitFails,
         Receive, Timeout, Goto, Looking
    <3>2. ~FindListener(c)
      BY <2>1, <2>2 DEF FindListener, IsSubscribed, Heard
    <3>3. ~StartListener(c)
      BY <2>1, <2>2 DEF StartListener
    <3> QED  BY <2>1, <3>1, <3>2, <3>3 DEF EnsureReturns, Goto, Looking
  <2> QED  BY <2>3, <2>4
<1>4. Driven(c) /\ Stops(Owner[c]) /\ RequestsSettle => (Asking(c) ~> Over(c))
  BY CallReturns
<1> QED  BY <1>1, <1>2, <1>3, <1>4, PTL DEF Driven, Absent, GivesUp

\* Nothing else waits on a stream: EachReplyIsRead speaks of every reply there.
THEOREM RepliesAreNumbered ==
    Spec => [](\A c \in Calls : \A k \in Nat : Waiting(c, k) => k \in 1..(MaxFaults + 1))
<1>1. ASSUME Served, Paid, NEW c \in Calls, NEW k \in Nat, Waiting(c, k)
      PROVE  k \in 1..(MaxFaults + 1)
  <2>1. PICK j \in 1..Len(unread[ReplyTo(c)]) : unread[ReplyTo(c)][j] = <<c, k>>
    BY <1>1 DEF Waiting
  <2>2. Numbered /\ ReplyTo(c) \in Streams /\ unread[ReplyTo(c)] \in Seq(Entries)
    BY <1>1 DEF Served, Sane, TypeInv, TypeOK, Streams
  <2>3. k <= replies[c]
    BY <2>1, <2>2 DEF Numbered
  <2>4. k # 0
    BY <2>1, <2>2, ElementOfSeq DEF Entries
  <2>5. replies[c] \in Nat /\ requests[c] \in Nat /\ faults \in Nat /\ faults <= MaxFaults
    BY <1>1 DEF Served, Sane, TypeInv, TypeOK
  <2>6. replies[c] + requests[c] <= faults + (IF pc[c] \in Sent THEN 1 ELSE 0)
    BY <1>1 DEF Paid
  <2>7. replies[c] <= MaxFaults + 1
    BY <2>5, <2>6, FaultsAssumption
  <2> QED  BY <2>3, <2>4, <2>5, <2>7, FaultsAssumption
<1>2. Init => Paid
  BY DEF Init, Paid
<1>3. Served => TypeInv
  BY DEF Served, Sane
<1>4. Served /\ Paid => \A c \in Calls : \A k \in Nat : Waiting(c, k) => k \in 1..(MaxFaults + 1)
  BY <1>1
<1> QED  BY <1>2, <1>3, <1>4, ServedHolds, PaidInductive, PTL DEF Spec

\* EachReplyIsRead: a published reply is read from its stream while every process
\* is up, because who made the stream's group gets it a listener for good.
THEOREM RepliesReachListeners ==
    FairSpec /\ []NobodyStuck /\ RequestsSettle /\ PlacesSettle => EachReplyIsRead
<1> SUFFICES ASSUME NEW c \in Calls, NEW k \in 1..(MaxFaults + 1)
             PROVE  FairSpec /\ []NobodyStuck /\ RequestsSettle /\ PlacesSettle =>
                      (Waiting(c, k) ~> (~Waiting(c, k) \/ \E i \in Instances : phase[i] # "up"))
  BY DEF EachReplyIsRead
<1> DEFINE s == ReplyTo(c)
           Lost == /\ FairSpec /\ []NobodyStuck /\ RequestsSettle /\ PlacesSettle
                   /\ <>[]Waiting(c, k) /\ <>[]AllUp
<1>1. s \in Streams /\ k \in Nat
  BY FaultsAssumption DEF Streams
<1>2. FairSpec => []Served /\ [][Next]_vars
  BY ServedHolds, PTL DEF FairSpec, Spec
<1>3. Served /\ [Next]_vars /\ AllUp' => AllUp
  BY StoppedStays DEF Served, Sane, TypeInv
<1>4. Lost => []AllUp
  BY <1>2, <1>3, PTL
<1>5. PlacesSettle => PlaceSettles(c, k)
  BY DEF PlacesSettle
<1>6. Lost => \A l \in Same(s) : Silent(l)
  <2> SUFFICES ASSUME NEW l \in Calls, ReplyTo(l) = s PROVE Lost => Silent(l)
    BY DEF Same
  <2>1. FairSpec /\ []NobodyStuck => Driven(l)
    BY Drives
  <2>2. FairSpec /\ []NobodyStuck => Stops(Owner[l])
    BY ErrorsStop, OwnerAssumption
  <2>3. /\ Driven(l) /\ Stops(Owner[l]) /\ RequestsSettle /\ PlaceSettles(c, k) /\ []Served
        /\ <>[]Waiting(c, k) /\ []AllUp
        => Silent(l)
    BY <1>1, ReadersReach
  <2> QED  BY <1>2, <1>4, <1>5, <2>1, <2>2, <2>3, PTL
<1>7. (\A l \in Same(s) : Silent(l)) => []NobodyReads(s)
  BY DEF Silent, NobodyReads
<1>8. Lost => \A d \in Same(s) : Absent(d)
  <2> SUFFICES ASSUME NEW d \in Calls, ReplyTo(d) = s PROVE Lost => Absent(d)
    BY DEF Same
  <2>1. FairSpec /\ []NobodyStuck => Driven(d)
    BY Drives
  <2>2. FairSpec /\ []NobodyStuck => Stops(Owner[d])
    BY ErrorsStop, OwnerAssumption
  <2>3. GivesUp(s, d)
    BY <1>1, LookersFind
  <2>4. Lost => []NobodyReads(s)
    BY <1>6, <1>7
  <2> QED  BY <1>4, <2>1, <2>2, <2>3, <2>4, PTL DEF GivesUp
<1>9. (\A d \in Same(s) : Absent(d)) => []NobodyLooks(s)
  BY DEF Absent, NobodyLooks
<1>10. Served /\ Waiting(c, k) => ~(NobodyReads(s) /\ NobodyLooks(s))
  <2> SUFFICES ASSUME Served, Waiting(c, k), NobodyReads(s), NobodyLooks(s) PROVE FALSE
    OBVIOUS
  <2>1. group[s] /\ s \in Streams
    <3>1. unread[s] # <<>>
      BY DEF Waiting
    <3> QED  BY <1>1, <3>1 DEF Served, Attended
  <2> QED  BY <2>1 DEF Served, Attended, NobodyReads, NobodyLooks, Same, Started, Looking
<1>11. Lost => []NobodyReads(s) /\ []NobodyLooks(s)
  BY <1>6, <1>7, <1>8, <1>9
<1>12. ~Lost
  BY <1>2, <1>10, <1>11, PTL
<1>13. ~AllUp => \E i \in Instances : phase[i] # "up"
  BY DEF AllUp, Up
<1> QED  BY <1>12, <1>13, PTL

=============================================================================

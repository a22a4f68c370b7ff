--------------------------- MODULE UserAuditProofs ---------------------------
(***************************************************************************)
(* Proofs about UserAudit, for any number of sessions, users, rows and     *)
(* changes: the types, that the audit records tell the history of each     *)
(* row, in whose name they are made, when a function misses its row, and   *)
(* that deleted rows stay deleted.                                         *)
(***************************************************************************)
EXTENDS UserAudit, TLAPS

-----------------------------------------------------------------------------
(* Histories.                                                               *)

\* An appended sequence, by its elements.
LEMMA Appended ==
    ASSUME NEW recs \in Seq(Record), NEW x \in Record
    PROVE  /\ Append(recs, x) \in Seq(Record)
           /\ Len(recs) \in Nat /\ Len(Append(recs, x)) = Len(recs) + 1
           /\ \A i \in 1..Len(recs) : Append(recs, x)[i] = recs[i] /\ recs[i] \in Record
           /\ Append(recs, x)[Len(recs) + 1] = x
<1> HIDE DEF Record
<1> QED  OBVIOUS

\* A concatenation, by its elements.
LEMMA Joined ==
    ASSUME NEW a \in Seq(Record), NEW b \in Seq(Record)
    PROVE  /\ a \o b \in Seq(Record)
           /\ Len(a) \in Nat /\ Len(b) \in Nat /\ Len(a \o b) = Len(a) + Len(b)
           /\ \A i \in 1..Len(a) : (a \o b)[i] = a[i]
           /\ \A i \in 1..Len(b) : (a \o b)[Len(a) + i] = b[i]
           /\ \A i \in 1..Len(a) : a[i] \in Record
           /\ \A i \in 1..Len(b) : b[i] \in Record
<1> HIDE DEF Record
<1> QED  OBVIOUS

\* Only the first n records matter.
LEMMA AfterSame ==
    ASSUME NEW a, NEW b, NEW n \in Nat, NEW r, NEW v0, NEW v,
           \A i \in 1..n : a[i] = b[i], After(a, n, r, v0, v)
    PROVE  After(b, n, r, v0, v)
<1>1. CASE v = v0 /\ \A i \in 1..n : a[i].row # r
  BY <1>1 DEF After
<1>2. CASE \E i \in 1..n : /\ a[i].row = r /\ a[i].new = v
                           /\ \A k \in (i + 1)..n : a[k].row # r
  <2>1. PICK i \in 1..n : a[i].row = r /\ a[i].new = v /\ \A k \in (i + 1)..n : a[k].row # r
    BY <1>2
  <2>2. \A k \in (i + 1)..n : k \in 1..n
    BY <2>1
  <2>3. b[i].row = r /\ b[i].new = v /\ \A k \in (i + 1)..n : b[k].row # r
    BY <2>1, <2>2
  <2> QED  BY <2>3 DEF After
<1> QED  BY <1>1, <1>2 DEF After

\* One more record.
LEMMA AfterNext ==
    ASSUME NEW recs, NEW n \in Nat, NEW r, NEW v0, NEW v
    PROVE  /\ recs[n + 1].row = r => After(recs, n + 1, r, v0, recs[n + 1].new)
           /\ recs[n + 1].row # r /\ After(recs, n, r, v0, v) => After(recs, n + 1, r, v0, v)
<1>1. ASSUME recs[n + 1].row = r PROVE After(recs, n + 1, r, v0, recs[n + 1].new)
  <2>1. n + 1 \in 1..(n + 1) /\ (n + 1 + 1)..(n + 1) = {}
    OBVIOUS
  <2> QED  BY <1>1, <2>1 DEF After
<1>2. ASSUME recs[n + 1].row # r, After(recs, n, r, v0, v) PROVE After(recs, n + 1, r, v0, v)
  <2>1. \A i \in 1..(n + 1) : i \in 1..n \/ i = n + 1
    OBVIOUS
  <2>2. CASE v = v0 /\ \A i \in 1..n : recs[i].row # r
    BY <1>2, <2>1, <2>2 DEF After
  <2>3. CASE \E i \in 1..n : /\ recs[i].row = r /\ recs[i].new = v
                             /\ \A k \in (i + 1)..n : recs[k].row # r
    <3>1. PICK i \in 1..n : /\ recs[i].row = r /\ recs[i].new = v
                            /\ \A k \in (i + 1)..n : recs[k].row # r
      BY <2>3
    <3>2. i \in 1..(n + 1) /\ \A k \in (i + 1)..(n + 1) : k \in (i + 1)..n \/ k = n + 1
      BY <3>1
    <3>3. \A k \in (i + 1)..(n + 1) : recs[k].row # r
      BY <1>2, <3>1, <3>2
    <3> QED  BY <3>1, <3>2, <3>3 DEF After
  <2> QED  BY <1>2, <2>2, <2>3 DEF After
<1> QED  BY <1>1, <1>2

\* One history after another.
LEMMA AfterJoined ==
    ASSUME NEW a \in Seq(Record), NEW b \in Seq(Record), NEW n \in 0..Len(b),
           NEW r, NEW v0, NEW w, NEW v,
           After(a, Len(a), r, v0, w), After(b, n, r, w, v)
    PROVE  After(a \o b, Len(a) + n, r, v0, v)
<1> DEFINE c == a \o b
           m == Len(a)
<1>1. /\ m \in Nat /\ n \in Nat
      /\ \A i \in 1..m : c[i] = a[i]
      /\ \A i \in 1..n : c[m + i] = b[i]
  BY Joined
<1>2. After(a, m, r, v0, w) /\ After(b, n, r, w, v)
  OBVIOUS
<1> HIDE DEF c, m
<1>3. \A k \in 1..(m + n) : k \in 1..m \/ (k - m \in 1..n /\ k = m + (k - m))
  BY <1>1
<1>4. CASE \E i \in 1..n : /\ b[i].row = r /\ b[i].new = v
                           /\ \A k \in (i + 1)..n : b[k].row # r
  <2>1. PICK i \in 1..n : b[i].row = r /\ b[i].new = v /\ \A k \in (i + 1)..n : b[k].row # r
    BY <1>4
  <2>2. m + i \in 1..(m + n) /\ c[m + i] = b[i]
    BY <1>1, <2>1
  <2>3. \A k \in (m + i + 1)..(m + n) : k - m \in (i + 1)..n /\ k - m \in 1..n /\ k = m + (k - m)
    BY <1>1, <2>1
  <2>4. \A k \in (m + i + 1)..(m + n) : c[k].row # r
    BY <1>1, <2>1, <2>3
  <2> QED  BY <2>1, <2>2, <2>4 DEF After, c, m
<1>5. CASE v = w /\ \A i \in 1..n : b[i].row # r
  <2>1. \A k \in (m + 1)..(m + n) : c[k].row # r
    <3>1. \A k \in (m + 1)..(m + n) : k - m \in 1..n /\ k = m + (k - m)
      BY <1>1
    <3> QED  BY <1>1, <1>5, <3>1
  <2>2. CASE w = v0 /\ \A i \in 1..m : a[i].row # r
    <3>1. \A k \in 1..(m + n) : k \in 1..m \/ k \in (m + 1)..(m + n)
      BY <1>1
    <3>2. \A k \in 1..(m + n) : c[k].row # r
      BY <1>1, <2>1, <2>2, <3>1
    <3> QED  BY <1>5, <2>2, <3>2 DEF After, c, m
  <2>3. CASE \E i \in 1..m : /\ a[i].row = r /\ a[i].new = w
                             /\ \A k \in (i + 1)..m : a[k].row # r
    <3>1. PICK i \in 1..m : a[i].row = r /\ a[i].new = w /\ \A k \in (i + 1)..m : a[k].row # r
      BY <2>3
    <3>2. /\ i \in 1..(m + n) /\ c[i] = a[i]
          /\ \A k \in (i + 1)..(m + n) : (k \in (i + 1)..m /\ k \in 1..m) \/ k \in (m + 1)..(m + n)
      BY <1>1, <3>1
    <3>3. \A k \in (i + 1)..(m + n) : c[k].row # r
      BY <1>1, <2>1, <3>1, <3>2
    <3> QED  BY <1>5, <3>1, <3>2, <3>3 DEF After, c, m
  <2> QED  BY <1>2, <2>2, <2>3 DEF After
<1> QED  BY <1>2, <1>4, <1>5 DEF After

\* A record that goes on from where a history ended.
LEMMA TellsAppended ==
    ASSUME NEW recs \in Seq(Record), NEW x \in Record, NEW first, NEW last, NEW last2,
           Tells(recs, first, last), x.old = last[x.row],
           last2[x.row] = x.new, \A r \in Rows \ {x.row} : last2[r] = last[r]
    PROVE  Tells(Append(recs, x), first, last2)
<1> DEFINE c == Append(recs, x)
           n == Len(recs)
<1>1. /\ n \in Nat /\ Len(c) = n + 1 /\ c[n + 1] = x /\ x.row \in Rows
      /\ \A i \in 1..n : c[i] = recs[i] /\ recs[i].row \in Rows
  <2>1. \A rec \in Record : rec.row \in Rows
    BY DEF Record
  <2> QED  BY <2>1, Appended
<1>2. /\ \A j \in 1..n : After(recs, j - 1, recs[j].row, first[recs[j].row], recs[j].old)
      /\ \A r \in Rows : After(recs, n, r, first[r], last[r])
  BY DEF Tells
<1> HIDE DEF c, n
<1>3. \A r \in Rows : After(c, n, r, first[r], last[r])
  BY <1>1, <1>2, AfterSame
<1>4. ASSUME NEW j \in 1..(n + 1) PROVE After(c, j - 1, c[j].row, first[c[j].row], c[j].old)
  <2>1. CASE j \in 1..n
    <3>1. c[j] = recs[j] /\ j - 1 \in Nat /\ \A i \in 1..(j - 1) : i \in 1..n
      BY <1>1, <2>1
    <3>2. After(recs, j - 1, recs[j].row, first[recs[j].row], recs[j].old)
      BY <1>2, <2>1
    <3>3. \A i \in 1..(j - 1) : recs[i] = c[i]
      BY <1>1, <3>1
    <3> QED  BY <3>1, <3>2, <3>3, AfterSame
  <2>2. CASE j = n + 1
    <3>1. j - 1 = n /\ c[j] = x
      BY <1>1, <2>2
    <3> QED  BY <1>1, <1>3, <3>1
  <2> QED  BY <1>1, <2>1, <2>2
<1>5. ASSUME NEW r \in Rows PROVE After(c, n + 1, r, first[r], last2[r])
  BY <1>1, <1>3, AfterNext
<1> QED  BY <1>1, <1>4, <1>5 DEF Tells, c

\* One history that goes on from where another ended.
LEMMA TellsJoined ==
    ASSUME NEW a \in Seq(Record), NEW b \in Seq(Record), NEW first, NEW mid, NEW last,
           Tells(a, first, mid), Tells(b, mid, last)
    PROVE  Tells(a \o b, first, last)
<1> DEFINE c == a \o b
           m == Len(a)
           n == Len(b)
<1>1. /\ m \in Nat /\ n \in Nat /\ Len(c) = m + n
      /\ \A i \in 1..m : c[i] = a[i]
      /\ \A i \in 1..n : c[m + i] = b[i] /\ b[i].row \in Rows
  BY Joined DEF Record
<1>2. /\ \A j \in 1..m : After(a, j - 1, a[j].row, first[a[j].row], a[j].old)
      /\ \A r \in Rows : After(a, Len(a), r, first[r], mid[r])
      /\ \A j \in 1..n : After(b, j - 1, b[j].row, mid[b[j].row], b[j].old)
      /\ \A r \in Rows : After(b, n, r, mid[r], last[r])
  BY DEF Tells
<1>3. ASSUME NEW k \in 0..n, NEW r \in Rows, NEW v, After(b, k, r, mid[r], v)
      PROVE  After(c, m + k, r, first[r], v)
  BY <1>2, <1>3, AfterJoined
<1> HIDE DEF c, m, n
<1>4. ASSUME NEW j \in 1..(m + n) PROVE After(c, j - 1, c[j].row, first[c[j].row], c[j].old)
  <2>1. CASE j \in 1..m
    <3>1. c[j] = a[j] /\ j - 1 \in Nat /\ \A i \in 1..(j - 1) : a[i] = c[i]
      BY <1>1, <2>1
    <3>2. After(a, j - 1, a[j].row, first[a[j].row], a[j].old)
      BY <1>2, <2>1
    <3> QED  BY <3>1, <3>2, AfterSame
  <2>2. CASE j \notin 1..m
    <3> DEFINE k == j - m
    <3>1. k \in 1..n /\ j = m + k /\ k - 1 \in 0..n /\ j - 1 = m + (k - 1)
      BY <1>1, <2>2
    <3> HIDE DEF k
    <3>2. c[j] = b[k] /\ b[k].row \in Rows
      BY <1>1, <3>1
    <3>3. After(b, k - 1, b[k].row, mid[b[k].row], b[k].old)
      BY <1>2, <3>1
    <3>4. After(c, m + (k - 1), b[k].row, first[b[k].row], b[k].old)
      BY <1>3, <3>1, <3>2, <3>3
    <3> QED  BY <3>1, <3>2, <3>4
  <2> QED  BY <2>1, <2>2
<1>5. ASSUME NEW r \in Rows PROVE After(c, m + n, r, first[r], last[r])
  BY <1>1, <1>2, <1>3
<1> QED  BY <1>1, <1>4, <1>5 DEF Tells, c

\* A history does not depend on the versions of other rows.
LEMMA TellsElsewhere ==
    ASSUME NEW recs \in Seq(Record), NEW first, NEW last, NEW first2, NEW last2,
           Tells(recs, first, last),
           \A r \in Rows : (first2[r] = first[r] /\ last2[r] = last[r])
                           \/ (first2[r] = last2[r] /\ \A i \in 1..Len(recs) : recs[i].row # r)
    PROVE  Tells(recs, first2, last2)
<1>1. Len(recs) \in Nat /\ \A i \in 1..Len(recs) : recs[i].row \in Rows
  BY Joined DEF Record
<1>2. ASSUME NEW j \in 1..Len(recs)
      PROVE  After(recs, j - 1, recs[j].row, first2[recs[j].row], recs[j].old)
  <2>1. first2[recs[j].row] = first[recs[j].row]
    BY <1>1
  <2> QED  BY <2>1 DEF Tells
<1>3. ASSUME NEW r \in Rows PROVE After(recs, Len(recs), r, first2[r], last2[r])
  <2>1. CASE first2[r] = first[r] /\ last2[r] = last[r]
    BY <2>1 DEF Tells
  <2>2. CASE first2[r] = last2[r] /\ \A i \in 1..Len(recs) : recs[i].row # r
    BY <2>2 DEF After
  <2> QED  BY <2>1, <2>2
<1> QED  BY <1>2, <1>3 DEF Tells

\* Nothing happened.
LEMMA TellsNothing ==
    ASSUME NEW first, NEW last, \A r \in Rows : last[r] = first[r]
    PROVE  Tells(<<>>, first, last)
<1>1. Len(<<>>) = 0 /\ 1..0 = {}
  OBVIOUS
<1> QED  BY <1>1 DEF Tells, After

-----------------------------------------------------------------------------
(* Types.                                                                   *)

Maybe == Users \cup {NoUser}

\* A change keeps the types of what it changes.
LEMMA ChangeTypes ==
    ASSUME TypeOK, NEW s \in Sessions, NEW r \in Rows, NEW new \in Nat, Change(s, r, new)
    PROVE  /\ lock' = [lock EXCEPT ![r] = s] /\ draft' = [draft EXCEPT ![r] = new]
           /\ mine' \in [Sessions -> Seq(Record)] /\ made' \in Nat
           /\ \E x \in Record : /\ x = [row |-> r, old |-> Seen(s, r), new |-> new, by |-> cur[s]]
                                /\ mine' = [mine EXCEPT ![s] = Append(mine[s], x)]
<1> DEFINE x == [row |-> r, old |-> Seen(s, r), new |-> new, by |-> cur[s]]
<1>1. Seen(s, r) \in Nat
  BY DEF TypeOK, Seen
<1>2. x \in Record
  BY <1>1 DEF TypeOK, Record
<1>3. mine' = [mine EXCEPT ![s] = Append(mine[s], x)]
  BY DEF Change, Set
<1>4. Append(mine[s], x) \in Seq(Record)
  BY <1>2, Appended DEF TypeOK
<1>5. mine' \in [Sessions -> Seq(Record)]
  <2> HIDE DEF x
  <2> QED  BY <1>3, <1>4 DEF TypeOK
<1>6. /\ lock' = [lock EXCEPT ![r] = s] /\ draft' = [draft EXCEPT ![r] = new]
      /\ made' \in Nat
  BY DEF Change, Set, TypeOK
<1>7. \E y \in Record : y = x /\ mine' = [mine EXCEPT ![s] = Append(mine[s], y)]
  <2> HIDE DEF x
  <2> QED  BY <1>2, <1>3
<1> QED  BY <1>5, <1>6, <1>7

\* A step of s that changes a row: an UPDATE, INSERT or DELETE that hits.
Alters(s, r, new) ==
    /\ Change(s, r, new)
    /\ r \in Rows /\ new \in Nat
    /\ Free(s, r) /\ (Seen(s, r) # 0 \/ Unused(r))
    /\ \/ pc[s] \in {"update", "insert"} /\ pc' = [pc EXCEPT ![s] = "reset"]
       \/ pc[s] = "open" /\ cur[s] # NoUser /\ pc' = pc
    /\ UNCHANGED <<tableVars, target, missed, nameVars>>

\* A step of s that changes none, and ends no transaction.
Quiet(s) ==
    \/ Begin(s)
    \/ \E u \in Users, r \in Rows : Call(s, u, r)
    \/ Check(s)
    \/ /\ Goto(s, "update", "reset") /\ Free(s, target[s]) /\ Seen(s, target[s]) = 0
       /\ Set(missed, s, missed[s] \cup {target[s]})
       /\ UNCHANGED <<tableVars, changeVars, target, nameVars>>
    \/ StatementFails(s) \/ Reset(s)
    \/ \E u \in Users : Name(s, u)
    \/ DirectFails(s)

\* The steps of a session.
LEMMA StepShape ==
    ASSUME TypeOK, NEW s \in Sessions, Transaction(s) \/ Function(s) \/ Client(s)
    PROVE  \/ Quiet(s) \/ Commit(s) \/ Rollback(s) \/ Disconnect(s)
           \/ \E r \in Rows, new \in Nat : Alters(s, r, new)
<1>1. PICK n \in Nat : n = made + 1
  BY DEF TypeOK
<1>2. PICK t \in Rows : t = target[s]
  BY DEF TypeOK
<1>3. CASE Update(s)
  <2>1. CASE Seen(s, target[s]) # 0
    <3>1. /\ Change(s, t, n) /\ Free(s, t) /\ Seen(s, t) # 0
          /\ UNCHANGED <<tableVars, target, missed, nameVars>>
          /\ pc[s] = "update" /\ pc' = [pc EXCEPT ![s] = "reset"]
      BY <1>1, <1>2, <1>3, <2>1 DEF Update, Write, Goto, Set, Change, Free, Seen
    <3>2. Alters(s, t, n)
      BY <3>1 DEF Alters
    <3> QED  BY <3>2
  <2>2. CASE Seen(s, target[s]) = 0
    BY <1>3, <2>2 DEF Update, Quiet
  <2> QED  BY <2>1, <2>2
<1>4. CASE Insert(s)
  <2>1. PICK r \in Rows : Unused(r) /\ Write(s, r)
    BY <1>4 DEF Insert
  <2>2. /\ Change(s, r, n) /\ Free(s, r)
        /\ UNCHANGED <<tableVars, target, missed, nameVars>>
        /\ pc[s] = "insert" /\ pc' = [pc EXCEPT ![s] = "reset"]
    BY <1>1, <1>4, <2>1 DEF Insert, Write, Goto, Set, Free, Unused, Change
  <2>3. Alters(s, r, n)
    BY <2>1, <2>2 DEF Alters
  <2> QED  BY <2>3
<1>5. ASSUME NEW r \in Rows, Direct(s, r) PROVE \E new \in Nat : Alters(s, r, new)
  <2>1. \A q \in Rows : Unused(q) => Free(s, q)
    BY DEF Unused, Free
  <2>2. \E new \in {0, n} : Change(s, r, new) /\ Free(s, r) /\ (Seen(s, r) # 0 \/ Unused(r))
    BY <1>1, <1>5, <2>1 DEF Direct, Write, Change
  <2>3. PICK new \in {0, n} : Change(s, r, new) /\ Free(s, r) /\ (Seen(s, r) # 0 \/ Unused(r))
    BY <2>2
  <2>4. /\ pc[s] = "open" /\ cur[s] # NoUser /\ new \in Nat
        /\ UNCHANGED <<tableVars, pc, target, missed, nameVars>>
    BY <1>5, <2>3 DEF Direct
  <2>5. Alters(s, r, new)
    BY <2>3, <2>4 DEF Alters
  <2> QED  BY <2>4, <2>5
<1> QED
  BY <1>3, <1>4, <1>5 DEF Transaction, Function, Client, Quiet

\* A step of s that ends its transaction.
LEMMA EndTypes ==
    ASSUME TypeOK, NEW s \in Sessions, Ends(s)
    PROVE  /\ lock' = [r \in Rows |-> IF lock[r] = s THEN NoSession ELSE lock[r]]
           /\ lock' \in [Rows -> Sessions \cup {NoSession}]
           /\ draft' = [r \in Rows |-> IF lock[r] = s THEN 0 ELSE draft[r]]
           /\ draft' \in [Rows -> Nat]
           /\ pc' = [pc EXCEPT ![s] = "idle"]
           /\ mine' = [mine EXCEPT ![s] = <<>>] /\ mine' \in [Sessions -> Seq(Record)]
           /\ missed' = [missed EXCEPT ![s] = {}] /\ named' = [named EXCEPT ![s] = {}]
           /\ UNCHANGED <<made, target>>
<1>1. <<>> \in Seq(Record)
  OBVIOUS
<1>2. mine' = [mine EXCEPT ![s] = <<>>] /\ mine' \in [Sessions -> Seq(Record)]
  BY <1>1 DEF Ends, Set, TypeOK
<1> QED  BY <1>2 DEF Ends, Set, Unlocked, TypeOK

\* Every step keeps the types.
LEMMA TypesInductive == TypeOK /\ [Next]_vars => TypeOK'
<1> SUFFICES ASSUME TypeOK, [Next]_vars PROVE TypeOK'
  OBVIOUS
<1> USE DEF Set, Goto, tableVars, changeVars, nameVars
<1>1. CASE UNCHANGED vars
  BY <1>1 DEF vars, TypeOK
<1>2. ASSUME NEW s \in Sessions, Quiet(s) PROVE TypeOK'
  <2>1. UNCHANGED <<tableVars, changeVars, conf>>
    BY <1>2 DEF Quiet, Begin, Call, Check, StatementFails, Reset, Name, DirectFails
  <2>2. \/ pc' = pc
        \/ \E to \in {"open", "check", "update", "insert", "reset", "failed"} : pc' = [pc EXCEPT ![s] = to]
    BY <1>2 DEF Quiet, Begin, Call, Check, StatementFails, Reset, Name, DirectFails
  <2>3. target' = target \/ \E r \in Rows : target' = [target EXCEPT ![s] = r]
    BY <1>2 DEF Quiet, Begin, Call, Check, StatementFails, Reset, Name, DirectFails
  <2>4. missed' = missed \/ missed' = [missed EXCEPT ![s] = missed[s] \cup {target[s]}]
    BY <1>2 DEF Quiet, Begin, Call, Check, StatementFails, Reset, Name, DirectFails
  <2>5. /\ sess' = sess \/ \E u \in Maybe : sess' = [sess EXCEPT ![s] = u]
        /\ cur' = cur \/ \E u \in Maybe : cur' = [cur EXCEPT ![s] = u]
        /\ named' = named \/ \E u \in Users : named' = [named EXCEPT ![s] = named[s] \cup {u}]
    BY <1>2 DEF Quiet, Begin, Call, Check, StatementFails, Reset, Name, DirectFails, SetConfig, Maybe
  <2>6. \A r \in Rows : lock'[r] # NoSession => pc'[lock'[r]] # "idle"
    BY <2>1, <2>2 DEF TypeOK
  <2>7. pc' \in [Sessions -> {"idle", "open", "check", "update", "insert", "reset", "failed"}]
    BY <2>2 DEF TypeOK
  <2>8. target' \in [Sessions -> Rows] /\ missed' \in [Sessions -> SUBSET Rows]
    <3>1. missed[s] \cup {target[s]} \in SUBSET Rows
      BY DEF TypeOK
    <3>2. target \in [Sessions -> Rows] /\ missed \in [Sessions -> SUBSET Rows]
      BY DEF TypeOK
    <3>3. target' \in [Sessions -> Rows]
      BY <2>3, <3>2
    <3>4. missed' \in [Sessions -> SUBSET Rows]
      BY <2>4, <3>1, <3>2
    <3> QED  BY <3>3, <3>4
  <2>9. /\ sess' \in [Sessions -> Users \cup {NoUser}] /\ cur' \in [Sessions -> Users \cup {NoUser}]
        /\ named' \in [Sessions -> SUBSET Users]
    <3>1. /\ \A u \in Users : named[s] \cup {u} \in SUBSET Users
          /\ sess \in [Sessions -> Maybe] /\ cur \in [Sessions -> Maybe]
          /\ named \in [Sessions -> SUBSET Users]
      BY DEF TypeOK, Maybe
    <3>2. sess' \in [Sessions -> Maybe] /\ cur' \in [Sessions -> Maybe]
      BY <2>5, <3>1
    <3>3. named' \in [Sessions -> SUBSET Users]
      BY <2>5, <3>1
    <3> QED  BY <3>2, <3>3 DEF Maybe
  <2> QED  BY <2>1, <2>6, <2>7, <2>8, <2>9 DEF TypeOK
<1>3. ASSUME NEW s \in Sessions, NEW r \in Rows, NEW new \in Nat, Alters(s, r, new) PROVE TypeOK'
  <2>1. /\ lock' = [lock EXCEPT ![r] = s] /\ draft' = [draft EXCEPT ![r] = new]
        /\ mine' \in [Sessions -> Seq(Record)] /\ made' \in Nat
    BY <1>3, ChangeTypes DEF Alters
  <2>2. /\ pc' \in {pc, [pc EXCEPT ![s] = "reset"]} /\ pc[s] # "idle"
    BY <1>3 DEF Alters
  <2>3. UNCHANGED <<tableVars, target, missed, nameVars>>
    BY <1>3 DEF Alters
  <2>4. \A q \in Rows : lock'[q] # NoSession => pc'[lock'[q]] # "idle"
    BY <2>1, <2>2 DEF TypeOK
  <2>5. lock' \in [Rows -> Sessions \cup {NoSession}] /\ draft' \in [Rows -> Nat]
    BY <2>1 DEF TypeOK
  <2>6. pc' \in [Sessions -> {"idle", "open", "check", "update", "insert", "reset", "failed"}]
    BY <2>2 DEF TypeOK
  <2> QED  BY <2>1, <2>3, <2>4, <2>5, <2>6 DEF TypeOK
<1>4. ASSUME NEW s \in Sessions, Commit(s) \/ Rollback(s) \/ Disconnect(s) PROVE TypeOK'
  <2>1. Ends(s)
    BY <1>4 DEF Commit, Rollback, Disconnect
  <2>2. rows' \in [Rows -> Nat]
    <3>1. rows' = rows \/ rows' = [r \in Rows |-> IF lock[r] = s THEN draft[r] ELSE rows[r]]
      BY <1>4 DEF Commit, Rollback, Disconnect
    <3> QED  BY <3>1 DEF TypeOK
  <2>3. audit' \in Seq(Record)
    <3>1. audit' = audit \/ audit' = audit \o mine[s]
      BY <1>4 DEF Commit, Rollback, Disconnect
    <3>2. audit \in Seq(Record) /\ mine[s] \in Seq(Record)
      BY DEF TypeOK
    <3> QED  BY <3>1, <3>2, Joined
  <2>4. \A r \in Rows : lock'[r] # NoSession => pc'[lock'[r]] # "idle"
    BY <2>1, EndTypes, NullAssumption DEF TypeOK
  <2>5. /\ conf' \in [Sessions -> Users \cup {NoUser}] /\ sess' \in [Sessions -> Users \cup {NoUser}]
        /\ cur' \in [Sessions -> Users \cup {NoUser}]
    BY <1>4 DEF Commit, Rollback, Disconnect, TypeOK
  <2>6. /\ pc' \in [Sessions -> {"idle", "open", "check", "update", "insert", "reset", "failed"}]
        /\ missed' \in [Sessions -> SUBSET Rows] /\ named' \in [Sessions -> SUBSET Users]
        /\ target' \in [Sessions -> Rows] /\ made' \in Nat
    BY <2>1, EndTypes DEF TypeOK
  <2>7. /\ lock' \in [Rows -> Sessions \cup {NoSession}] /\ draft' \in [Rows -> Nat]
        /\ mine' \in [Sessions -> Seq(Record)]
    BY <2>1, EndTypes
  <2> QED  BY <2>2, <2>3, <2>4, <2>5, <2>6, <2>7 DEF TypeOK
<1> QED  BY <1>1, <1>2, <1>3, <1>4, StepShape DEF Next

\* The first state has its types.
LEMMA TypesInitially == Init => TypeOK
<1> SUFFICES ASSUME Init PROVE TypeOK
  OBVIOUS
<1>1. <<>> \in Seq(Record)
  OBVIOUS
<1>2. audit \in Seq(Record) /\ mine \in [Sessions -> Seq(Record)]
  BY <1>1 DEF Init
<1> QED  BY <1>2 DEF Init, TypeOK

\* Every state has its type.
THEOREM TypeCorrect == Spec => []TypeOK
BY TypesInitially, TypesInductive, PTL DEF Spec

-----------------------------------------------------------------------------
(* In whose name.                                                           *)

\* Outside its transactions a session names nobody; inside, whom the client
\* has named, in a function always.
Names ==
    \A s \in Sessions :
        /\ conf[s] = NoUser
        /\ pc[s] \in {"idle", "open"} => sess[s] = NoUser
        /\ cur[s] = NoUser \/ cur[s] \in named[s]
        /\ pc[s] \in {"check", "update", "insert"} => cur[s] \in named[s]

\* Every step keeps the names right.
LEMMA NamesInductive == TypeOK /\ Names /\ [Next]_vars => Names'
<1> SUFFICES ASSUME TypeOK, Names, [Next]_vars PROVE Names'
  OBVIOUS
<1> USE DEF Set, Goto, tableVars, changeVars, nameVars
<1>1. CASE UNCHANGED vars
  BY <1>1 DEF vars, Names
<1>2. ASSUME NEW s \in Sessions, Begin(s) \/ Check(s) \/ StatementFails(s) \/ DirectFails(s)
      PROVE  Names'
  <2>1. /\ UNCHANGED nameVars
        /\ \/ pc[s] = "idle" /\ pc' = [pc EXCEPT ![s] = "open"]
           \/ pc[s] = "check" /\ pc' = [pc EXCEPT ![s] = "update"]
           \/ pc' = [pc EXCEPT ![s] = "failed"]
    BY <1>2 DEF Begin, Check, StatementFails, DirectFails
  <2> QED  BY <2>1 DEF TypeOK, Names
<1>3. ASSUME NEW s \in Sessions, NEW u \in Users, NEW r \in Rows, Call(s, u, r) PROVE Names'
  <2>1. /\ conf' = conf /\ sess' = [sess EXCEPT ![s] = u] /\ cur' = [cur EXCEPT ![s] = u]
        /\ named' = [named EXCEPT ![s] = named[s] \cup {u}]
        /\ \E to \in {"check", "insert"} : pc' = [pc EXCEPT ![s] = to]
    BY <1>3 DEF Call, SetConfig
  <2> QED  BY <2>1 DEF TypeOK, Names
<1>4. ASSUME NEW s \in Sessions, Goto(s, "update", "reset"), UNCHANGED nameVars PROVE Names'
  BY <1>4 DEF TypeOK, Names
<1>5. ASSUME NEW s \in Sessions, Reset(s) PROVE Names'
  BY <1>5 DEF Reset, SetConfig, TypeOK, Names
<1>6. ASSUME NEW s \in Sessions, NEW u \in Users, Name(s, u) PROVE Names'
  BY <1>6 DEF Name, TypeOK, Names
<1>7. ASSUME NEW s \in Sessions, NEW r \in Rows, NEW new \in Nat, Alters(s, r, new) PROVE Names'
  <2>1. UNCHANGED nameVars /\ pc' \in {pc, [pc EXCEPT ![s] = "reset"]}
    BY <1>7 DEF Alters
  <2> QED  BY <2>1 DEF TypeOK, Names
<1>8. ASSUME NEW s \in Sessions, Commit(s) PROVE Names'
  <2>1. /\ pc' = [pc EXCEPT ![s] = "idle"] /\ named' = [named EXCEPT ![s] = {}]
        /\ conf' = [conf EXCEPT ![s] = sess[s]] /\ cur' = [cur EXCEPT ![s] = sess[s]]
        /\ sess' = sess /\ sess[s] = NoUser
    BY <1>8 DEF Commit, Ends, Names
  <2> QED  BY <2>1 DEF TypeOK, Names
<1>9. ASSUME NEW s \in Sessions, Rollback(s) \/ Disconnect(s) PROVE Names'
  <2>1. /\ pc' = [pc EXCEPT ![s] = "idle"] /\ named' = [named EXCEPT ![s] = {}]
        /\ conf' \in {conf, [conf EXCEPT ![s] = NoUser]}
        /\ sess' = [sess EXCEPT ![s] = NoUser] /\ cur' = [cur EXCEPT ![s] = NoUser]
    BY <1>9 DEF Rollback, Disconnect, Ends, Names
  <2> QED  BY <2>1 DEF TypeOK, Names
<1> QED
  BY <1>1, <1>2, <1>3, <1>4, <1>5, <1>6, <1>7, <1>8, <1>9, StepShape DEF Next, Quiet

\* A change by s is recorded in a name the client has given.
LEMMA AttributedInductive == TypeOK /\ Names /\ Attributed /\ [Next]_vars => Attributed'
<1> SUFFICES ASSUME TypeOK, Names, Attributed, [Next]_vars PROVE Attributed'
  OBVIOUS
<1> USE DEF Set, Goto, tableVars, changeVars, nameVars
<1>1. CASE UNCHANGED vars
  BY <1>1 DEF vars, Attributed
<1>2. ASSUME NEW s \in Sessions, Quiet(s) PROVE Attributed'
  <2>1. mine' = mine /\ \A q \in Sessions : named[q] \subseteq named'[q]
    <3>1. mine' = mine
      BY <1>2 DEF Quiet, Begin, Call, Check, StatementFails, Reset, Name, DirectFails
    <3>2. named' = named \/ \E u \in Users : named' = [named EXCEPT ![s] = named[s] \cup {u}]
      BY <1>2 DEF Quiet, Begin, Call, Check, StatementFails, Reset, Name, DirectFails
    <3>3. named \in [Sessions -> SUBSET Users]
      BY DEF TypeOK
    <3> QED  BY <3>1, <3>2, <3>3
  <2> QED  BY <2>1 DEF Attributed
<1>3. ASSUME NEW s \in Sessions, NEW r \in Rows, NEW new \in Nat, Alters(s, r, new) PROVE Attributed'
  <2>1. cur[s] \in named[s] /\ named' = named /\ Change(s, r, new)
    BY <1>3 DEF Alters, Names
  <2>2. PICK x \in Record : x.by = cur[s] /\ mine' = [mine EXCEPT ![s] = Append(mine[s], x)]
    BY <2>1, ChangeTypes
  <2>3. mine[s] \in Seq(Record) /\ mine \in [Sessions -> Seq(Record)]
    BY DEF TypeOK
  <2>4. \A i \in 1..Len(Append(mine[s], x)) : Append(mine[s], x)[i].by \in named[s]
    <3>1. /\ Len(mine[s]) \in Nat /\ Len(Append(mine[s], x)) = Len(mine[s]) + 1
          /\ \A i \in 1..Len(mine[s]) : Append(mine[s], x)[i] = mine[s][i]
          /\ Append(mine[s], x)[Len(mine[s]) + 1] = x
      BY <2>3, Appended
    <3>2. \A i \in 1..(Len(mine[s]) + 1) : i \in 1..Len(mine[s]) \/ i = Len(mine[s]) + 1
      BY <3>1
    <3> QED  BY <2>1, <2>2, <3>1, <3>2 DEF Attributed
  <2> QED  BY <2>1, <2>2, <2>3, <2>4 DEF Attributed
<1>4. ASSUME NEW s \in Sessions, Commit(s) \/ Rollback(s) \/ Disconnect(s) PROVE Attributed'
  <2>1. mine' = [mine EXCEPT ![s] = <<>>] /\ named' = [named EXCEPT ![s] = {}]
    BY <1>4 DEF Commit, Rollback, Disconnect, Ends
  <2>2. mine'[s] = <<>> /\ \A q \in Sessions \ {s} : mine'[q] = mine[q] /\ named'[q] = named[q]
    BY <2>1 DEF TypeOK
  <2>3. 1..Len(mine'[s]) = {}
    BY <2>2
  <2> QED  BY <2>2, <2>3 DEF Attributed
<1> QED  BY <1>1, <1>2, <1>3, <1>4, StepShape DEF Next

\* A change is recorded in the name of somebody the client of its transaction
\* has named, never of a former client of the pooled session.
THEOREM ChangesAreAttributed == Spec => []Attributed
<1>1. Init => Names /\ Attributed
  <2> SUFFICES ASSUME Init PROVE Names /\ Attributed
    OBVIOUS
  <2>1. \A s \in Sessions : /\ conf[s] = NoUser /\ sess[s] = NoUser /\ cur[s] = NoUser
                            /\ pc[s] = "idle" /\ Len(mine[s]) = 0
    BY DEF Init
  <2> QED  BY <2>1 DEF Names, Attributed
<1> QED
  BY <1>1, TypesInitially, TypesInductive, NamesInductive, AttributedInductive, PTL DEF Spec

-----------------------------------------------------------------------------
(* What the records tell.                                                   *)

Versions(s) == [r \in Rows |-> Seen(s, r)]

\* The records of a transaction are about rows it has locked, and tell what
\* it made of the committed versions.
OwnLocked == \A s \in Sessions : \A i \in 1..Len(mine[s]) : lock[mine[s][i].row] = s
OwnTells == \A s \in Sessions : Tells(mine[s], rows, Versions(s))

\* A transaction that creates a row is the first to do so.
Fresh ==
    \A r \in Rows : lock[r] # NoSession /\ rows[r] = 0 =>
        \A i \in 1..Len(audit) : audit[i].row # r

Histories == OwnLocked /\ OwnTells /\ AuditTellsHistory /\ Fresh

\* At the start there are no records.
LEMMA HistoriesInitially == Init => Histories
<1> SUFFICES ASSUME Init PROVE Histories
  OBVIOUS
<1>1. /\ audit = <<>> /\ \A r \in Rows : rows[r] = 0 /\ lock[r] = NoSession
      /\ \A s \in Sessions : mine[s] = <<>>
  BY DEF Init
<1>2. Len(<<>>) = 0 /\ 1..0 = {}
  OBVIOUS
<1>3. AuditTellsHistory
  <2>1. \A r \in Rows : rows[r] = [q \in Rows |-> 0][r]
    BY <1>1
  <2> QED  BY <1>1, <2>1, TellsNothing DEF AuditTellsHistory
<1>4. ASSUME NEW s \in Sessions PROVE Tells(mine[s], rows, Versions(s))
  <2>1. \A r \in Rows : Versions(s)[r] = rows[r]
    BY <1>1, NullAssumption DEF Versions, Seen
  <2> QED  BY <1>1, <2>1, TellsNothing
<1>5. OwnLocked /\ OwnTells /\ Fresh
  BY <1>1, <1>2, <1>4 DEF OwnLocked, OwnTells, Fresh
<1> QED  BY <1>3, <1>5 DEF Histories

\* Steps that touch no row.
LEMMA HistoriesQuiet ==
    ASSUME Histories, UNCHANGED <<rows, audit, lock, draft, mine>>
    PROVE  Histories'
<1>1. \A s \in Sessions : Versions(s)' = Versions(s)
  BY DEF Versions, Seen
<1>2. OwnLocked' /\ Fresh'
  BY DEF Histories, OwnLocked, Fresh
<1>3. OwnTells'
  BY <1>1 DEF Histories, OwnTells, Tells, After
<1>4. AuditTellsHistory'
  BY DEF Histories, AuditTellsHistory, Tells, After
<1> QED  BY <1>2, <1>3, <1>4 DEF Histories

\* Tells depends on the state only through its arguments.
LEMMA TellsNext ==
    ASSUME NEW s \in Sessions
    PROVE  /\ Tells(mine'[s], rows', [r \in Rows |-> IF lock'[r] = s THEN draft'[r] ELSE rows'[r]])
                => Tells(mine[s], rows, Versions(s))'
           /\ Tells(audit', [r \in Rows |-> 0], rows') => AuditTellsHistory'
BY DEF Tells, After, Versions, Seen, AuditTellsHistory

\* A change goes on from the version its session sees.
LEMMA HistoriesAlters ==
    ASSUME TypeOK, Histories, NEW s \in Sessions, NEW r \in Rows, NEW new \in Nat, Alters(s, r, new)
    PROVE  Histories'
<1>1. /\ lock' = [lock EXCEPT ![r] = s] /\ draft' = [draft EXCEPT ![r] = new]
      /\ rows' = rows /\ audit' = audit /\ lock[r] \in {NoSession, s}
      /\ Seen(s, r) # 0 \/ Unused(r)
  BY ChangeTypes DEF Alters, Free, tableVars
<1>2. PICK x \in Record : /\ x.row = r /\ x.old = Seen(s, r) /\ x.new = new
                          /\ mine' = [mine EXCEPT ![s] = Append(mine[s], x)]
  BY ChangeTypes DEF Alters
<1>3. /\ lock \in [Rows -> Sessions \cup {NoSession}] /\ draft \in [Rows -> Nat]
      /\ mine \in [Sessions -> Seq(Record)] /\ rows \in [Rows -> Nat]
  BY DEF TypeOK
<1>4. /\ mine[s] \in Seq(Record) /\ Len(mine[s]) \in Nat
      /\ Len(Append(mine[s], x)) = Len(mine[s]) + 1
      /\ \A i \in 1..Len(mine[s]) : Append(mine[s], x)[i] = mine[s][i] /\ mine[s][i] \in Record
      /\ Append(mine[s], x)[Len(mine[s]) + 1] = x
  BY <1>2, <1>3, Appended
<1>5. \A q \in Sessions \ {s} : mine'[q] = mine[q] /\ mine[q] \in Seq(Record)
  BY <1>2, <1>3
<1>6. mine'[s] = Append(mine[s], x)
  BY <1>2, <1>3
<1>7. OwnLocked'
  <2>1. ASSUME NEW i \in 1..Len(mine'[s]) PROVE lock'[mine'[s][i].row] = s
    <3>1. i \in 1..Len(mine[s]) \/ i = Len(mine[s]) + 1
      BY <1>4, <1>6
    <3>2. CASE i \in 1..Len(mine[s])
      <4>1. lock[mine[s][i].row] = s /\ mine'[s][i] = mine[s][i] /\ mine[s][i] \in Record
        BY <1>4, <1>6, <3>2 DEF Histories, OwnLocked
      <4>2. mine[s][i].row \in Rows
        BY <4>1 DEF Record
      <4> QED  BY <1>1, <1>3, <4>1, <4>2
    <3>3. CASE i = Len(mine[s]) + 1
      BY <1>1, <1>2, <1>3, <1>4, <1>6, <3>3
    <3> QED  BY <3>1, <3>2, <3>3
  <2>2. ASSUME NEW q \in Sessions \ {s}, NEW i \in 1..Len(mine[q]) PROVE lock'[mine[q][i].row] = q
    <3>1. lock[mine[q][i].row] = q /\ mine[q][i] \in Record
      BY <1>5, Joined DEF Histories, OwnLocked
    <3>2. mine[q][i].row \in Rows /\ mine[q][i].row # r
      BY <1>1, <3>1, NullAssumption DEF Record
    <3> QED  BY <1>1, <1>3, <3>1, <3>2
  <2> QED  BY <1>5, <2>1, <2>2 DEF OwnLocked
<1>8. OwnTells'
  <2> DEFINE V(q) == [p \in Rows |-> IF lock'[p] = q THEN draft'[p] ELSE rows'[p]]
  <2>1. Tells(mine'[s], rows', V(s))
    <3>1. Tells(mine[s], rows, Versions(s))
      BY DEF Histories, OwnTells
    <3>2. x.old = Versions(s)[x.row] /\ V(s)[x.row] = x.new
      BY <1>1, <1>2, <1>3 DEF Versions
    <3>3. \A p \in Rows \ {x.row} : V(s)[p] = Versions(s)[p]
      BY <1>1, <1>2, <1>3 DEF Versions, Seen
    <3> HIDE DEF V
    <3>4. Tells(Append(mine[s], x), rows, V(s))
      BY <1>4, <3>1, <3>2, <3>3, TellsAppended
    <3> QED  BY <1>1, <1>6, <3>4
  <2>2. ASSUME NEW q \in Sessions \ {s} PROVE Tells(mine'[q], rows', V(q))
    <3>1. Tells(mine[q], rows, Versions(q))
      BY DEF Histories, OwnTells
    <3>2. V(q) = Versions(q)
      <4>1. \A p \in Rows : V(q)[p] = Versions(q)[p]
        BY <1>1, <1>3, NullAssumption DEF Versions, Seen
      <4> QED  BY <4>1 DEF Versions
    <3> HIDE DEF V
    <3> QED  BY <1>1, <1>5, <3>1, <3>2
  <2>3. \A q \in Sessions : Tells(mine'[q], rows', V(q))
    BY <2>1, <2>2
  <2> QED  BY <2>3, TellsNext DEF OwnTells
<1>9. AuditTellsHistory'
  BY <1>1, TellsNext DEF Histories, AuditTellsHistory
<1>10. Fresh'
  <2> SUFFICES ASSUME NEW p \in Rows, lock'[p] # NoSession, rows[p] = 0, NEW i \in 1..Len(audit)
               PROVE  audit[i].row # p
    BY <1>1 DEF Fresh
  <2>1. CASE lock[p] # NoSession
    BY <2>1 DEF Histories, Fresh
  <2>2. CASE lock[p] = NoSession
    <3>1. p = r /\ Seen(s, r) = 0
      BY <1>1, <1>3, <2>2, NullAssumption DEF Seen
    <3> QED  BY <1>1, <3>1 DEF Unused
  <2> QED  BY <2>1, <2>2
<1> QED  BY <1>7, <1>8, <1>9, <1>10 DEF Histories

\* The end of a transaction publishes its records with its rows, or neither.
LEMMA HistoriesEnds ==
    ASSUME TypeOK, Histories, NEW s \in Sessions, Commit(s) \/ Rollback(s) \/ Disconnect(s)
    PROVE  Histories'
<1>1. /\ lock' = [r \in Rows |-> IF lock[r] = s THEN NoSession ELSE lock[r]]
      /\ draft' = [r \in Rows |-> IF lock[r] = s THEN 0 ELSE draft[r]]
      /\ mine' = [mine EXCEPT ![s] = <<>>]
  BY EndTypes DEF Commit, Rollback, Disconnect
<1>2. \/ rows' = rows /\ audit' = audit
      \/ rows' = Versions(s) /\ audit' = audit \o mine[s]
  <2>1. CASE Commit(s)
    BY <2>1 DEF Commit, Versions, Seen
  <2>2. CASE Rollback(s) \/ Disconnect(s)
    BY <2>2 DEF Rollback, Disconnect, tableVars
  <2> QED  BY <2>1, <2>2
<1>3. /\ lock \in [Rows -> Sessions \cup {NoSession}] /\ draft \in [Rows -> Nat]
      /\ mine \in [Sessions -> Seq(Record)] /\ rows \in [Rows -> Nat] /\ audit \in Seq(Record)
      /\ mine[s] \in Seq(Record)
  BY DEF TypeOK
<1>4. /\ mine'[s] = <<>> /\ Len(<<>>) = 0 /\ 1..0 = {}
      /\ \A q \in Sessions \ {s} : mine'[q] = mine[q] /\ mine[q] \in Seq(Record)
  BY <1>1, <1>3
<1>5. \A q \in Sessions : \A i \in 1..Len(mine[q]) : mine[q][i].row \in Rows /\ lock[mine[q][i].row] = q
  <2> SUFFICES ASSUME NEW q \in Sessions, NEW i \in 1..Len(mine[q])
               PROVE  mine[q][i].row \in Rows /\ lock[mine[q][i].row] = q
    OBVIOUS
  <2>1. mine[q] \in Seq(Record)
    BY <1>3
  <2>2. mine[q][i] \in Record
    BY <2>1, Joined
  <2> QED  BY <2>2 DEF Record, Histories, OwnLocked
<1>6. \A r \in Rows : lock[r] # s => rows'[r] = rows[r]
  BY <1>2 DEF Versions, Seen
<1>7. OwnLocked'
  BY <1>1, <1>4, <1>5 DEF OwnLocked
<1>8. OwnTells'
  <2> DEFINE V(q) == [p \in Rows |-> IF lock'[p] = q THEN draft'[p] ELSE rows'[p]]
  <2>1. Tells(mine'[s], rows', V(s))
    <3>1. \A r \in Rows : V(s)[r] = rows'[r]
      BY <1>1, NullAssumption
    <3> QED  BY <1>4, <3>1, TellsNothing
  <2>2. ASSUME NEW q \in Sessions \ {s} PROVE Tells(mine'[q], rows', V(q))
    <3>1. Tells(mine[q], rows, Versions(q))
      BY DEF Histories, OwnTells
    <3>2. ASSUME NEW p \in Rows
          PROVE  \/ rows'[p] = rows[p] /\ V(q)[p] = Versions(q)[p]
                 \/ rows'[p] = V(q)[p] /\ \A i \in 1..Len(mine[q]) : mine[q][i].row # p
      <4>1. CASE lock[p] = s
        <5>1. rows'[p] = V(q)[p]
          BY <1>1, <4>1, NullAssumption
        <5> QED  BY <1>5, <4>1, <5>1
      <4>2. CASE lock[p] # s
        BY <1>1, <1>6, <4>2 DEF Versions, Seen
      <4> QED  BY <4>1, <4>2
    <3> HIDE DEF V
    <3>3. Tells(mine[q], rows', V(q))
      BY <1>4, <3>1, <3>2, TellsElsewhere
    <3> QED  BY <1>4, <3>3
  <2>3. \A q \in Sessions : Tells(mine'[q], rows', V(q))
    BY <2>1, <2>2
  <2> QED  BY <2>3, TellsNext DEF OwnTells
<1>9. AuditTellsHistory'
  <2>1. Tells(audit, [r \in Rows |-> 0], rows) /\ Tells(mine[s], rows, Versions(s))
    BY DEF Histories, AuditTellsHistory, OwnTells
  <2>2. Tells(audit \o mine[s], [r \in Rows |-> 0], Versions(s))
    BY <1>3, <2>1, TellsJoined
  <2>3. Tells(audit', [r \in Rows |-> 0], rows')
    BY <1>2, <2>1, <2>2
  <2> QED  BY <2>3, TellsNext
<1>10. Fresh'
  <2> SUFFICES ASSUME NEW p \in Rows, lock'[p] # NoSession, rows'[p] = 0, NEW i \in 1..Len(audit')
               PROVE  audit'[i].row # p
    BY DEF Fresh
  <2>1. lock[p] # s /\ lock[p] # NoSession /\ rows[p] = 0
    BY <1>1, <1>6
  <2>2. \A k \in 1..Len(audit) : audit[k].row # p
    BY <2>1 DEF Histories, Fresh
  <2>3. \A k \in 1..Len(mine[s]) : mine[s][k].row # p
    BY <1>5, <2>1
  <2>4. CASE audit' = audit
    BY <2>2, <2>4
  <2>5. CASE audit' = audit \o mine[s]
    <3>1. /\ Len(audit) \in Nat /\ Len(mine[s]) \in Nat /\ Len(audit') = Len(audit) + Len(mine[s])
          /\ \A k \in 1..Len(audit) : audit'[k] = audit[k]
          /\ \A k \in 1..Len(mine[s]) : audit'[Len(audit) + k] = mine[s][k]
      BY <1>3, <2>5, Joined
    <3>2. i \in 1..Len(audit) \/ \E k \in 1..Len(mine[s]) : i = Len(audit) + k
      <4>1. i \in 1..Len(audit) \/ i - Len(audit) \in 1..Len(mine[s])
        BY <3>1
      <4>2. i = Len(audit) + (i - Len(audit))
        BY <3>1
      <4> QED  BY <4>1, <4>2
    <3>3. CASE i \in 1..Len(audit)
      BY <2>2, <3>1, <3>3
    <3>4. CASE \E k \in 1..Len(mine[s]) : i = Len(audit) + k
      <4>1. PICK k \in 1..Len(mine[s]) : i = Len(audit) + k
        BY <3>4
      <4>2. audit'[i] = mine[s][k]
        BY <3>1, <4>1
      <4> QED  BY <2>3, <4>2
    <3> QED  BY <3>2, <3>3, <3>4
  <2> QED  BY <1>2, <2>4, <2>5
<1> QED  BY <1>7, <1>8, <1>9, <1>10 DEF Histories

\* Every step keeps the records and the rows together.
LEMMA HistoriesInductive == TypeOK /\ Histories /\ [Next]_vars => Histories'
<1> SUFFICES ASSUME TypeOK, Histories, [Next]_vars PROVE Histories'
  OBVIOUS
<1>1. CASE UNCHANGED vars
  BY <1>1, HistoriesQuiet DEF vars, tableVars, changeVars
<1>2. ASSUME NEW s \in Sessions, Quiet(s) PROVE Histories'
  <2>1. UNCHANGED <<rows, audit, lock, draft, mine>>
    BY <1>2 DEF Quiet, Begin, Call, Check, StatementFails, Reset, Name, DirectFails, tableVars, changeVars
  <2> QED  BY <2>1, HistoriesQuiet
<1> QED
  BY <1>1, <1>2, HistoriesAlters, HistoriesEnds, StepShape DEF Next

\* The committed audit records tell the whole history of each row.
THEOREM HistoryIsTold == Spec => []AuditTellsHistory
<1>1. Histories => AuditTellsHistory
  BY DEF Histories
<1> QED
  BY <1>1, TypesInitially, TypesInductive, HistoriesInitially, HistoriesInductive, PTL DEF Spec

-----------------------------------------------------------------------------
(* Functions that miss their row.                                           *)

\* Row r was deleted by a committed transaction, and stays so.
Deleted(r) ==
    /\ rows[r] = 0
    /\ \E i \in 1..Len(audit) : audit[i].row = r /\ audit[i].new = 0

\* An UPDATE that was let through by its check finds the row or the record of
\* its deletion.
Looked == \A s \in Sessions : pc[s] = "update" => Seen(s, target[s]) # 0 \/ Deleted(target[s])

Missing == Looked /\ MissedMeansDeleted

\* A deletion that a transaction commits is on record.
LEMMA CommitDeletes ==
    ASSUME TypeOK, Histories, NEW s \in Sessions, NEW r \in Rows, Commit(s), rows[r] # 0, rows'[r] = 0
    PROVE  \E i \in 1..Len(audit') : audit'[i].row = r /\ audit'[i].new = 0
<1>1. rows'[r] = Versions(s)[r] /\ audit' = audit \o mine[s]
  BY DEF Commit, Versions, Seen
<1>2. After(mine[s], Len(mine[s]), r, rows[r], Versions(s)[r])
  BY DEF Histories, OwnTells, Tells
<1>3. PICK k \in 1..Len(mine[s]) : mine[s][k].row = r /\ mine[s][k].new = 0
  BY <1>1, <1>2 DEF After
<1>4. audit \in Seq(Record) /\ mine[s] \in Seq(Record)
  BY DEF TypeOK
<1>5. Len(audit) + k \in 1..Len(audit') /\ audit'[Len(audit) + k] = mine[s][k]
  <2>1. /\ Len(audit) \in Nat /\ Len(mine[s]) \in Nat /\ Len(audit') = Len(audit) + Len(mine[s])
        /\ audit'[Len(audit) + k] = mine[s][k]
    BY <1>1, <1>4, Joined
  <2> QED  BY <2>1
<1> QED  BY <1>3, <1>5

\* What was deleted stays so.
LEMMA DeletedStays ==
    ASSUME TypeOK, Histories, NEW r \in Rows, Deleted(r), [Next]_vars
    PROVE  Deleted(r)'
<1>1. lock[r] = NoSession
  BY DEF Histories, Fresh, Deleted
<1>2. CASE rows' = rows /\ audit' = audit
  BY <1>2 DEF Deleted
<1>3. ASSUME NEW s \in Sessions, Commit(s) PROVE Deleted(r)'
  <2>1. rows'[r] = 0
    BY <1>1, <1>3, NullAssumption DEF Commit, Deleted
  <2>2. PICK i \in 1..Len(audit) : audit[i].row = r /\ audit[i].new = 0
    BY DEF Deleted
  <2>3. i \in 1..Len(audit') /\ audit'[i] = audit[i]
    <3>1. audit \in Seq(Record) /\ mine[s] \in Seq(Record) /\ audit' = audit \o mine[s]
      BY <1>3 DEF TypeOK, Commit
    <3>2. /\ Len(audit) \in Nat /\ Len(mine[s]) \in Nat /\ Len(audit') = Len(audit) + Len(mine[s])
          /\ audit'[i] = audit[i]
      BY <3>1, Joined
    <3> QED  BY <3>2
  <2> QED  BY <2>1, <2>2, <2>3 DEF Deleted
<1>4. ASSUME NEW s \in Sessions, Quiet(s) \/ Rollback(s) \/ Disconnect(s)
      PROVE  rows' = rows /\ audit' = audit
  BY <1>4 DEF Quiet, Begin, Call, Check, StatementFails, Reset, Name, DirectFails, Rollback,
     Disconnect, tableVars
<1>5. ASSUME NEW s \in Sessions, NEW q \in Rows, NEW new \in Nat, Alters(s, q, new)
      PROVE  rows' = rows /\ audit' = audit
  BY <1>5 DEF Alters, tableVars
<1> QED
  BY <1>2, <1>3, <1>4, <1>5, StepShape DEF Next, vars, tableVars

\* What another session's UPDATE is going to find may be deleted by a commit,
\* and by nothing else.
LEMMA SeenStays ==
    ASSUME TypeOK, Histories, NEW s \in Sessions, NEW q \in Sessions \ {s}, NEW r \in Rows,
           Seen(q, r) # 0,
           \/ \E p \in Rows, new \in Nat : Alters(s, p, new)
           \/ Commit(s) \/ Rollback(s) \/ Disconnect(s)
    PROVE  (IF lock'[r] = q THEN draft'[r] ELSE rows'[r]) # 0 \/ Deleted(r)'
<1>1. ASSUME NEW p \in Rows, NEW new \in Nat, Alters(s, p, new)
      PROVE  (IF lock'[r] = q THEN draft'[r] ELSE rows'[r]) # 0
  BY <1>1, ChangeTypes, NullAssumption, SMTT(30) DEF Alters, Free, Seen, tableVars, TypeOK
<1>2. ASSUME Commit(s) \/ Rollback(s) \/ Disconnect(s)
      PROVE  (IF lock'[r] = q THEN draft'[r] ELSE rows'[r]) # 0 \/ Deleted(r)'
  <2>1. /\ lock' = [p \in Rows |-> IF lock[p] = s THEN NoSession ELSE lock[p]]
        /\ draft' = [p \in Rows |-> IF lock[p] = s THEN 0 ELSE draft[p]]
    BY <1>2, EndTypes DEF Commit, Rollback, Disconnect
  <2>2. CASE lock[r] = q
    BY <2>1, <2>2 DEF Seen
  <2>3. CASE lock[r] # q
    <3>1. rows[r] # 0 /\ lock'[r] # q
      BY <2>1, <2>3, NullAssumption DEF Seen
    <3>2. CASE rows' = rows
      BY <3>1, <3>2
    <3>3. CASE Commit(s)
      BY <3>1, <3>3, CommitDeletes DEF Deleted
    <3> QED  BY <1>2, <3>1, <3>2, <3>3 DEF Rollback, Disconnect, tableVars
  <2> QED  BY <2>2, <2>3
<1> QED  BY <1>1, <1>2

\* Every step keeps what an UPDATE is going to find, and what was missed.
LEMMA MissingInductive == TypeOK /\ Histories /\ Missing /\ [Next]_vars => Missing'
<1> SUFFICES ASSUME TypeOK, Histories, Missing, [Next]_vars PROVE Missing'
  OBVIOUS
<1> USE DEF Set, Goto, tableVars, changeVars, nameVars
<1> DEFINE Finds(q, r) == (IF lock'[r] = q THEN draft'[r] ELSE rows'[r]) # 0
<1>1. /\ \A s \in Sessions : target[s] \in Rows /\ missed[s] \subseteq Rows
      /\ pc \in [Sessions -> {"idle", "open", "check", "update", "insert", "reset", "failed"}]
      /\ target \in [Sessions -> Rows] /\ missed \in [Sessions -> SUBSET Rows]
  BY DEF TypeOK
<1>2. \A s \in Sessions : \A r \in missed[s] : r \in Rows /\ Deleted(r)'
  BY <1>1, DeletedStays DEF Missing, MissedMeansDeleted, Deleted
<1>3. \A s \in Sessions : pc[s] = "update" /\ Seen(s, target[s]) = 0 => Deleted(target[s])
  BY DEF Missing, Looked
<1>4. ASSUME \A s \in Sessions : pc'[s] = "update" =>
                \E r \in Rows : r = target'[s] /\ (Finds(s, r) \/ Deleted(r)'),
             \A s \in Sessions : \A r \in missed'[s] : r \in Rows /\ Deleted(r)'
      PROVE  Missing'
  <2>1. Looked'
    BY <1>4 DEF Looked, Seen, Deleted
  <2>2. MissedMeansDeleted'
    BY <1>4 DEF MissedMeansDeleted, Deleted
  <2> QED  BY <2>1, <2>2 DEF Missing
<1>5. ASSUME NEW s \in Sessions, pc[s] = "update", UNCHANGED <<rows, lock, draft>>
      PROVE  \E r \in Rows : r = target[s] /\ (Finds(s, r) \/ Deleted(r)')
  <2>1. PICK r \in Rows : r = target[s]
    BY <1>1
  <2>2. CASE Seen(s, r) # 0
    BY <1>5, <2>1, <2>2 DEF Seen
  <2>3. CASE Seen(s, r) = 0
    <3>1. Deleted(r)
      BY <1>3, <1>5, <2>1, <2>3
    <3>2. Deleted(r)'
      BY <3>1, DeletedStays
    <3> QED  BY <2>1, <3>2
  <2> QED  BY <2>2, <2>3
<1>6. CASE UNCHANGED vars
  BY <1>2, <1>4, <1>5, <1>6 DEF vars
<1>7. ASSUME NEW s \in Sessions, Quiet(s) PROVE Missing'
  <2>1. UNCHANGED <<rows, audit, lock, draft>>
    BY <1>7 DEF Quiet, Begin, Call, Check, StatementFails, Reset, Name, DirectFails
  <2>2. \A q \in Sessions \ {s} : pc'[q] = pc[q] /\ target'[q] = target[q] /\ missed'[q] = missed[q]
    BY <1>1, <1>7 DEF Quiet, Begin, Call, Check, StatementFails, Reset, Name, DirectFails
  <2>3. ASSUME pc'[s] = "update" PROVE \E r \in Rows : r = target'[s] /\ (Finds(s, r) \/ Deleted(r)')
    <3>1. target'[s] = target[s] /\ (Seen(s, target[s]) # 0 \/ pc[s] = "update")
      BY <1>1, <1>7, <2>3 DEF Quiet, Begin, Call, Check, StatementFails, Reset, Name, DirectFails
    <3>2. CASE Seen(s, target[s]) # 0
      BY <1>1, <2>1, <3>1, <3>2 DEF Seen
    <3>3. CASE pc[s] = "update"
      BY <1>5, <2>1, <3>1, <3>3
    <3> QED  BY <3>1, <3>2, <3>3
  <2>4. ASSUME NEW r \in missed'[s] PROVE r \in Rows /\ Deleted(r)'
    <3>1. CASE r \in missed[s]
      BY <1>2, <3>1
    <3>2. CASE r \notin missed[s]
      <4>1. r = target[s] /\ pc[s] = "update" /\ Seen(s, target[s]) = 0
        BY <1>1, <1>7, <2>4, <3>2 DEF Quiet, Begin, Call, Check, StatementFails, Reset, Name, DirectFails
      <4>2. r \in Rows /\ Deleted(r)
        BY <1>1, <1>3, <4>1
      <4> QED  BY <4>2, DeletedStays
    <3> QED  BY <3>1, <3>2
  <2>5. ASSUME NEW q \in Sessions, pc'[q] = "update"
        PROVE  \E r \in Rows : r = target'[q] /\ (Finds(q, r) \/ Deleted(r)')
    BY <1>5, <2>1, <2>2, <2>3, <2>5
  <2>6. \A q \in Sessions : \A r \in missed'[q] : r \in Rows /\ Deleted(r)'
    BY <1>2, <2>2, <2>4
  <2> HIDE DEF Finds
  <2> QED  BY <1>4, <2>5, <2>6
<1>8. ASSUME NEW s \in Sessions,
             \/ \E r \in Rows, new \in Nat : Alters(s, r, new)
             \/ Commit(s) \/ Rollback(s) \/ Disconnect(s)
      PROVE  Missing'
  <2>1. /\ target' = target /\ pc'[s] # "update"
        /\ \A q \in Sessions \ {s} : pc'[q] = pc[q]
        /\ \A q \in Sessions : missed'[q] \subseteq missed[q]
    <3>1. CASE \E r \in Rows, new \in Nat : Alters(s, r, new)
      BY <1>1, <3>1 DEF Alters
    <3>2. CASE Commit(s) \/ Rollback(s) \/ Disconnect(s)
      <4>1. Ends(s)
        BY <3>2 DEF Commit, Rollback, Disconnect
      <4>2. /\ pc' = [pc EXCEPT ![s] = "idle"] /\ target' = target
            /\ missed' = [missed EXCEPT ![s] = {}]
        BY <4>1, EndTypes
      <4> QED  BY <1>1, <4>2
    <3> QED  BY <1>8, <3>1, <3>2
  <2>2. ASSUME NEW q \in Sessions, pc'[q] = "update"
        PROVE  \E r \in Rows : r = target'[q] /\ (Finds(q, r) \/ Deleted(r)')
    <3>1. q \in Sessions \ {s} /\ pc[q] = "update" /\ target'[q] = target[q]
      BY <2>1, <2>2
    <3>2. PICK r \in Rows : r = target[q]
      BY <1>1
    <3>3. CASE Seen(q, r) # 0
      BY <1>8, <3>1, <3>2, <3>3, SeenStays
    <3>4. CASE Seen(q, r) = 0
      <4>1. Deleted(r)
        BY <1>3, <3>1, <3>2, <3>4
      <4> QED  BY <3>1, <3>2, <4>1, DeletedStays
    <3> QED  BY <3>3, <3>4
  <2>3. \A q \in Sessions : \A r \in missed'[q] : r \in Rows /\ Deleted(r)'
    BY <1>2, <2>1
  <2> HIDE DEF Finds
  <2> QED  BY <1>4, <2>2, <2>3
<1> QED  BY <1>6, <1>7, <1>8, StepShape DEF Next

\* A function that returns the id of a row without having updated it has met
\* a committed DELETE.
THEOREM MissesAreDeletions == Spec => []MissedMeansDeleted
<1>1. Init => Missing
  BY DEF Init, Missing, Looked, MissedMeansDeleted
<1>2. Missing => MissedMeansDeleted
  BY DEF Missing
<1> QED
  BY <1>1, <1>2, TypesInitially, TypesInductive, HistoriesInitially, HistoriesInductive,
     MissingInductive, PTL DEF Spec

-----------------------------------------------------------------------------
(* Deletions.                                                               *)

\* After a deletion a transaction does nothing more to the row.
OwnGone ==
    \A s \in Sessions : \A i \in 1..Len(mine[s]) : mine[s][i].new = 0 => draft[mine[s][i].row] = 0

Gone == OwnGone /\ DeletedForGood

\* The records of the sessions and of the audit are records.
LEMMA Recorded ==
    ASSUME TypeOK
    PROVE  /\ \A s \in Sessions : \A i \in 1..Len(mine[s]) : mine[s][i] \in Record /\ mine[s][i].row \in Rows
           /\ \A i \in 1..Len(audit) : audit[i] \in Record /\ audit[i].row \in Rows
<1>1. audit \in Seq(Record) /\ \A s \in Sessions : mine[s] \in Seq(Record)
  BY DEF TypeOK
<1>2. \A u \in Seq(Record) : \A i \in 1..Len(u) : u[i] \in Record
  BY Joined
<1> QED  BY <1>1, <1>2 DEF Record

\* A change does not bring back what its own transaction deleted.
LEMMA GoneAlters ==
    ASSUME TypeOK, Histories, Gone, NEW s \in Sessions, NEW r \in Rows, NEW new \in Nat, Alters(s, r, new)
    PROVE  Gone'
<1>1. /\ draft' = [draft EXCEPT ![r] = new] /\ draft \in [Rows -> Nat]
      /\ rows' = rows /\ audit' = audit /\ lock[r] \in {NoSession, s}
      /\ Seen(s, r) # 0 \/ Unused(r)
      /\ mine \in [Sessions -> Seq(Record)]
  BY ChangeTypes DEF Alters, Free, tableVars, TypeOK
<1>2. PICK x \in Record : /\ x.row = r /\ x.new = new
                          /\ mine' = [mine EXCEPT ![s] = Append(mine[s], x)]
  BY ChangeTypes DEF Alters
<1>3. /\ mine'[s] = Append(mine[s], x) /\ Len(mine'[s]) = Len(mine[s]) + 1 /\ Len(mine[s]) \in Nat
      /\ \A i \in 1..Len(mine[s]) : mine'[s][i] = mine[s][i]
      /\ mine'[s][Len(mine[s]) + 1] = x
  BY <1>1, <1>2, Appended
<1>4. ASSUME NEW q \in Sessions, NEW i \in 1..Len(mine[q]), mine[q][i].new = 0
      PROVE  draft'[mine[q][i].row] = 0
  <2>1. /\ mine[q][i].row \in Rows /\ lock[mine[q][i].row] = q /\ draft[mine[q][i].row] = 0
    BY <1>4, Recorded DEF Histories, OwnLocked, Gone, OwnGone
  <2>2. mine[q][i].row # r
    BY <1>1, <2>1, NullAssumption DEF Seen, Unused
  <2> QED  BY <1>1, <2>1, <2>2
<1>5. ASSUME NEW i \in 1..Len(mine'[s]), mine'[s][i].new = 0 PROVE draft'[mine'[s][i].row] = 0
  <2>1. i \in 1..Len(mine[s]) \/ i = Len(mine[s]) + 1
    BY <1>3
  <2> QED  BY <1>1, <1>2, <1>3, <1>4, <1>5, <2>1
<1>6. \A q \in Sessions \ {s} : mine'[q] = mine[q]
  BY <1>1, <1>2
<1>7. OwnGone'
  BY <1>4, <1>5, <1>6 DEF OwnGone
<1> QED  BY <1>1, <1>7 DEF Gone, DeletedForGood

\* Nor does the end of a transaction bring back what another deleted.
LEMMA GoneEnds ==
    ASSUME TypeOK, Histories, Gone, NEW s \in Sessions, Commit(s) \/ Rollback(s) \/ Disconnect(s)
    PROVE  Gone'
<1>1. /\ draft' = [r \in Rows |-> IF lock[r] = s THEN 0 ELSE draft[r]]
      /\ mine' = [mine EXCEPT ![s] = <<>>]
      /\ mine \in [Sessions -> Seq(Record)]
  BY EndTypes DEF Commit, Rollback, Disconnect, TypeOK
<1>2. ASSUME NEW q \in Sessions, NEW i \in 1..Len(mine[q]), mine[q][i].new = 0
      PROVE  /\ mine[q][i].row \in Rows /\ lock[mine[q][i].row] = q
             /\ draft[mine[q][i].row] = 0 /\ draft'[mine[q][i].row] = 0
  BY <1>1, <1>2, Recorded DEF Histories, OwnLocked, Gone, OwnGone
<1>3. OwnGone'
  <2>1. mine'[s] = <<>> /\ 1..Len(<<>>) = {} /\ \A q \in Sessions \ {s} : mine'[q] = mine[q]
    BY <1>1
  <2> QED  BY <1>2, <2>1 DEF OwnGone
<1>4. CASE Commit(s)
  <2>1. /\ rows' = [r \in Rows |-> IF lock[r] = s THEN draft[r] ELSE rows[r]]
        /\ audit' = audit \o mine[s]
        /\ audit \in Seq(Record) /\ mine[s] \in Seq(Record)
    BY <1>4 DEF Commit, TypeOK
  <2>2. /\ Len(audit) \in Nat /\ Len(mine[s]) \in Nat /\ Len(audit') = Len(audit) + Len(mine[s])
        /\ \A k \in 1..Len(audit) : audit'[k] = audit[k]
        /\ \A k \in 1..Len(mine[s]) : audit'[Len(audit) + k] = mine[s][k]
    BY <2>1, Joined
  <2>3. ASSUME NEW i \in 1..Len(audit), audit[i].new = 0 PROVE rows'[audit[i].row] = 0
    <3>1. audit[i].row \in Rows /\ rows[audit[i].row] = 0
      BY <2>3, Recorded DEF Gone, DeletedForGood
    <3>2. lock[audit[i].row] = NoSession
      BY <3>1 DEF Histories, Fresh
    <3> QED  BY <2>1, <3>1, <3>2, NullAssumption
  <2>4. \A k \in 1..Len(mine[s]) : mine[s][k].new = 0 => rows'[mine[s][k].row] = 0
    BY <1>2, <2>1
  <2>5. ASSUME NEW i \in 1..Len(audit'), audit'[i].new = 0 PROVE rows'[audit'[i].row] = 0
    <3>1. \/ i \in 1..Len(audit)
          \/ i - Len(audit) \in 1..Len(mine[s]) /\ i = Len(audit) + (i - Len(audit))
      BY <2>2
    <3>2. CASE i \in 1..Len(audit)
      BY <2>2, <2>3, <2>5, <3>2
    <3>3. CASE i - Len(audit) \in 1..Len(mine[s]) /\ i = Len(audit) + (i - Len(audit))
      <4>1. audit'[i] = mine[s][i - Len(audit)]
        BY <2>2, <3>3
      <4> QED  BY <2>4, <2>5, <3>3, <4>1
    <3> QED  BY <3>1, <3>2, <3>3
  <2>6. DeletedForGood'
    BY <2>5 DEF DeletedForGood
  <2> QED  BY <1>3, <2>6 DEF Gone
<1>5. CASE Rollback(s) \/ Disconnect(s)
  <2>1. rows' = rows /\ audit' = audit
    BY <1>5 DEF Rollback, Disconnect, tableVars
  <2> QED  BY <1>3, <2>1 DEF Gone, DeletedForGood
<1> QED  BY <1>4, <1>5

\* No step brings back what was deleted.
LEMMA GoneInductive == TypeOK /\ Histories /\ Gone /\ [Next]_vars => Gone'
<1> SUFFICES ASSUME TypeOK, Histories, Gone, [Next]_vars PROVE Gone'
  OBVIOUS
<1>1. ASSUME UNCHANGED <<rows, audit, draft, mine>> PROVE Gone'
  BY <1>1 DEF Gone, OwnGone, DeletedForGood
<1>2. CASE UNCHANGED vars
  BY <1>1, <1>2 DEF vars, tableVars, changeVars
<1>3. ASSUME NEW s \in Sessions, Quiet(s) PROVE Gone'
  <2>1. UNCHANGED <<rows, audit, draft, mine>>
    BY <1>3 DEF Quiet, Begin, Call, Check, StatementFails, Reset, Name, DirectFails, tableVars, changeVars
  <2> QED  BY <1>1, <2>1
<1> QED  BY <1>2, <1>3, GoneAlters, GoneEnds, StepShape DEF Next

\* A committed DELETE prevails: the row does not come back, and a function that
\* returns an id without having updated its row has met it.
THEOREM DeletesWin == Spec => []DeletesPrevail
<1>1. Init => Gone
  <2> SUFFICES ASSUME Init PROVE Gone
    OBVIOUS
  <2>1. audit = <<>> /\ (\A s \in Sessions : mine[s] = <<>>) /\ 1..Len(<<>>) = {}
    BY DEF Init
  <2> QED  BY <2>1 DEF Gone, OwnGone, DeletedForGood
<1>2. Gone /\ MissedMeansDeleted => DeletesPrevail
  BY DEF Gone, DeletesPrevail
<1> QED
  BY <1>1, <1>2, TypesInitially, TypesInductive, HistoriesInitially, HistoriesInductive,
     GoneInductive, MissesAreDeletions, PTL DEF Spec
=============================================================================
